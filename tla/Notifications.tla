---------------------------- MODULE Notifications ----------------------------
(***************************************************************************)
(* The notifications of the school calendar.  There is no scheduler: each  *)
(* time a user opens the drawer or the badge is counted, the request first *)
(* creates what the user is to be told (notifications/services.py), row by *)
(* row, and then lists what is due (notifications/api.py).                 *)
(*                                                                         *)
(* Time has two steps a day: 2*d is day d before nine o'clock, 2*d+1 the   *)
(* rest of it.  Texts, and the links a row keeps to its entry besides the  *)
(* key, are left out.                                                      *)
(***************************************************************************)
EXTENDS Naturals, FiniteSets, Functions

CONSTANTS
    Recipients,     \* users; those who are not of the staff are teachers
    Staff, Admins,  \* SUPER_ADMIN, SCHOOL_ADMIN, REGISTRAR and GUIDANCE; the first two
    Plans,          \* the entries, as a function to [author, audience, date, last, kind]
    NoticeKinds,    \* what _notification_type makes of an entry
    Lookahead,      \* lookahead_days
    Lists,          \* requests that may be in flight together
    LastDay,        \* bound: the last day
    MaxPlanChanges  \* bound: changes of the calendar

Planned == DOMAIN Plans
LiveStatuses == {"DRAFT", "PENDING_APPROVAL", "APPROVED", "PUBLISHED"}
PlanStatuses == LiveStatuses \cup {"absent", "REJECTED", "CANCELLED", "ARCHIVED"}
NotificationConstants ==
    /\ Admins \subseteq Staff /\ Staff \subseteq Recipients
    /\ "APPROVAL_PENDING" \notin NoticeKinds
    /\ Lookahead \in Nat \ {0} /\ LastDay \in Nat /\ MaxPlanChanges \in Nat
    /\ \A e \in Planned :
        /\ Plans[e].author \in Recipients /\ Plans[e].audience \subseteq Recipients \ Staff
        /\ Plans[e].kind \in NoticeKinds /\ Plans[e].date \in 1..LastDay
        /\ Plans[e].last \in Plans[e].date..LastDay

ASSUME NotificationAssumption == NotificationConstants

VARIABLES
    now,         \* timezone.now()
    timetable,   \* the SchoolCalendarDay rows: [status, date, last, kind]
    notices,     \* the Notification rows, by idempotency_key
    listing,     \* the local variables of the requests that list
    moved,       \* history: the entries whose date or kind was edited
    planChanges  \* counts the changes of the calendar

plans == <<timetable, moved, planChanges>>
notificationVars == <<now, plans, notices, listing>>

NoticeKey == Recipients \X (NoticeKinds \cup {"APPROVAL_PENDING"}) \X Planned
Notice == [at : Nat, expires : Nat, read : BOOLEAN]
NotListing == [stage |-> "free"]
PlanRow == [status : PlanStatuses, date : 1..LastDay, last : 1..LastDay, kind : NoticeKinds]

NotificationInit ==
    /\ now = 0 /\ notices = << >> /\ moved = {} /\ planChanges = 0
    /\ \E status \in [Planned -> PlanStatuses] :
         timetable = [e \in Planned |-> [status |-> status[e], date |-> Plans[e].date,
                                         last |-> Plans[e].last, kind |-> Plans[e].kind]]
    /\ listing = [s \in Lists |-> NotListing]

-----------------------------------------------------------------------------
(* What a user is told *)

DayOf(t) == t \div 2
Reminder(e) == 2 * timetable[e].date - 1      \* nine o'clock of the day before
Expiry(e) == 2 * (timetable[e].last + 1)      \* the midnight after its last day

\* _is_authorized_for_event: staff see what is approved, teachers what is
\* published for them.
Authorized(u, e) ==
    u \in Staff \/ (timetable[e].status = "PUBLISHED" /\ u \in Plans[e].audience)

\* The entries of the two loops for u, in a request that began at t.
Approvals(u) ==
    {e \in Planned : u \in Admins /\ timetable[e].status = "PENDING_APPROVAL" /\ Plans[e].author # u}

\* Mutant: calendar_date__gt instead of calendar_date__gte.
UpcomingTomorrow(u, t) ==
    {e \in Planned : /\ timetable[e].status \in {"APPROVED", "PUBLISHED"} /\ Authorized(u, e)
                     /\ DayOf(t) < timetable[e].date /\ timetable[e].date <= DayOf(t) + Lookahead}

Upcoming(u, t) ==
    {e \in Planned : /\ timetable[e].status \in {"APPROVED", "PUBLISHED"} /\ Authorized(u, e)
                     /\ DayOf(t) <= timetable[e].date /\ timetable[e].date <= DayOf(t) + Lookahead}

NoticeRow(at, e) == [at |-> at, expires |-> Expiry(e), read |-> FALSE]
ApprovalRows(u) == [k \in {<<u, "APPROVAL_PENDING", e>> : e \in Approvals(u)} |-> NoticeRow(now, k[3])]
ReminderRows(u, t) ==
    [k \in {<<u, timetable[e].kind, e>> : e \in Upcoming(u, t)} |-> NoticeRow(Reminder(k[3]), k[3])]

\* get_queryset of the viewset
Listed(u) ==
    {k \in DOMAIN notices :
        /\ k[1] = u /\ notices[k].at <= now /\ now < notices[k].expires
        /\ timetable[k[3]].status \in {"PENDING_APPROVAL", "APPROVED", "PUBLISHED"}}

-----------------------------------------------------------------------------
(* A request of the list or of the badge *)

\* What u has to be told of, in a request that began at t: entries to approve,
\* and what takes place today, or tomorrow once it is nine o'clock.  (A request
\* keeps it for the property.)
OwedApprovals(u) == {<<"approval", e>> : e \in {f \in Approvals(u) : now < Expiry(f)}}
OwedReminders(u, t) ==
    {<<"reminder", e>> : e \in {f \in Planned :
        /\ timetable[f].status \in {"APPROVED", "PUBLISHED"} /\ Authorized(u, f)
        /\ DayOf(t) <= timetable[f].date /\ Reminder(f) <= t /\ now < Expiry(f)}}

AskList(s, u) ==
    /\ listing[s].stage \in {"free", "answered"}
    /\ listing' = [listing EXCEPT ![s] =
           [stage |-> "approvals", user |-> u, at |-> now, todo |-> ApprovalRows(u),
            owed |-> OwedApprovals(u)]]
    /\ UNCHANGED <<now, plans, notices>>

\* get_or_create: the key is unique, and the row that is there stays as it is.
CreateNotice(s) ==
    /\ listing[s].stage \in {"approvals", "reminders"}
    /\ \E k \in DOMAIN listing[s].todo :
        /\ notices' = [j \in DOMAIN notices \cup {k} |->
                          IF j \in DOMAIN notices THEN notices[j] ELSE listing[s].todo[k]]
        /\ listing' = [listing EXCEPT ![s].todo = Restrict(@, DOMAIN @ \ {k})]
    /\ UNCHANGED <<now, plans>>

ReadEvents(s) ==
    /\ listing[s].stage = "approvals" /\ DOMAIN listing[s].todo = {}
    /\ LET l == listing[s]
       IN  listing' = [listing EXCEPT ![s] =
               [stage |-> "reminders", user |-> l.user, at |-> l.at,
                todo |-> ReminderRows(l.user, l.at), owed |-> l.owed \cup OwedReminders(l.user, l.at)]]
    /\ UNCHANGED <<now, plans, notices>>

\* What was owed then and is owed still.
AnswerList(s) ==
    /\ listing[s].stage = "reminders" /\ DOMAIN listing[s].todo = {}
    /\ LET l == listing[s]
       IN  listing' = [listing EXCEPT ![s] =
               [stage |-> "answered", user |-> l.user, shown |-> Listed(l.user),
                owed |-> {p \in l.owed \cap (OwedApprovals(l.user) \cup OwedReminders(l.user, l.at)) :
                             p[2] \notin moved}]]
    /\ UNCHANGED <<now, plans, notices>>

\* A worker that dies: the rows created so far stay.
DieListing(s) ==
    /\ listing[s].stage \in {"approvals", "reminders"}
    /\ listing' = [listing EXCEPT ![s] = NotListing]
    /\ UNCHANGED <<now, plans, notices>>

-----------------------------------------------------------------------------
(* What becomes of a notification *)

Mark(keys) ==
    /\ notices' = [k \in DOMAIN notices |-> [notices[k] EXCEPT !.read = @ \/ k \in keys]]
    /\ UNCHANGED <<now, plans, listing>>

MarkRead(u) == \E k \in Listed(u) : Mark({k})

\* Mutant: every notification of the user is read, shown or not.
MarkEverythingRead(u) == Mark({k \in DOMAIN notices : k[1] = u})

MarkAllRead(u) == Mark(Listed(u))

-----------------------------------------------------------------------------
(* The calendar and the clock *)

PlanSteps == [DRAFT |-> {"PENDING_APPROVAL"},
              PENDING_APPROVAL |-> {"APPROVED", "REJECTED"},
              APPROVED |-> {"PUBLISHED", "CANCELLED", "PENDING_APPROVAL"},
              PUBLISHED |-> {"CANCELLED", "ARCHIVED", "PENDING_APPROVAL"},
              REJECTED |-> {"DRAFT"}, CANCELLED |-> {"ARCHIVED"}, ARCHIVED |-> {},
              absent |-> {"DRAFT", "PENDING_APPROVAL", "APPROVED"}]

ChangeEntry(e, row) ==
    /\ planChanges < MaxPlanChanges /\ planChanges' = planChanges + 1
    /\ timetable' = [timetable EXCEPT ![e] = row]
    /\ UNCHANGED <<now, notices, listing>>

StepEntry(e) ==
    /\ \E st \in PlanSteps[timetable[e].status] : ChangeEntry(e, [timetable[e] EXCEPT !.status = st])
    /\ UNCHANGED moved

\* A PATCH: what is on show goes back for approval.
MoveEntry(e) ==
    /\ timetable[e].status # "absent" /\ moved' = moved \cup {e}
    /\ \E d \in 1..LastDay, k \in NoticeKinds :
        /\ <<d, k>> # <<timetable[e].date, timetable[e].kind>>
        /\ ChangeEntry(e, [status |-> IF timetable[e].status \in {"APPROVED", "PUBLISHED"}
                                      THEN "PENDING_APPROVAL" ELSE timetable[e].status,
                           date |-> d, last |-> d, kind |-> k])

Tick == DayOf(now + 1) <= LastDay /\ now' = now + 1 /\ UNCHANGED <<plans, notices, listing>>

NotificationNext ==
    \/ \E s \in Lists, u \in Recipients : AskList(s, u)
    \/ \E s \in Lists : CreateNotice(s) \/ ReadEvents(s) \/ AnswerList(s) \/ DieListing(s)
    \/ \E u \in Recipients : MarkRead(u) \/ MarkAllRead(u)
    \/ \E e \in Planned : StepEntry(e) \/ MoveEntry(e)
    \/ Tick

NotificationSpec == NotificationInit /\ [][NotificationNext]_notificationVars

-----------------------------------------------------------------------------
\* Types of the tables, and that an answered list leaves out nothing about the
\* entries that kept their date and kind: whoever may approve a pending entry is asked
\* to, and whatever takes place today, or tomorrow from nine o'clock on, has its
\* reminder, whenever it was approved and whichever requests made the rows,
\* overlapping or cut short.
NotificationTypes ==
    /\ now \in Nat /\ planChanges \in 0..MaxPlanChanges
    /\ timetable \in [Planned -> PlanRow] /\ moved \subseteq Planned
    /\ DOMAIN notices \subseteq NoticeKey /\ \A k \in DOMAIN notices : notices[k] \in Notice

AnswersTellAll ==
    \A s \in Lists : listing[s].stage = "answered" =>
        \A p \in listing[s].owed : \E k \in listing[s].shown :
            k[3] = p[2] /\ (p[1] = "approval" <=> k[2] = "APPROVAL_PENDING")

ListTellsAll == NotificationTypes /\ AnswersTellAll

\* A notification never disappears, is read only when its user could see it (a
\* reminder that is due later is not silenced by mark-all-read), and stays
\* read whatever is generated again.
ReadsShown ==
    \A k \in DOMAIN notices :
        /\ k \in DOMAIN notices'
        /\ notices[k].read => notices'[k].read
        /\ notices'[k].read => notices[k].read \/ k \in Listed(k[1])
ReadWhenShown == [][ReadsShown]_notificationVars
=============================================================================
