---------------------------- MODULE CalendarDays ----------------------------
(***************************************************************************)
(* The school calendar as a table: entries that may conflict with each     *)
(* other, one recurring definition and the occurrences generated from it,  *)
(* the import of holidays, and the edit of many dates at once.             *)
(*                                                                         *)
(* The workflow of one entry, who may do what and the second look that     *)
(* update() takes at the status are CalendarApproval's; here a request of  *)
(* an administrator is followed from the read of the table to the write.   *)
(* recurrence.occurrence_dates is the set "dates" of a rule.               *)
(***************************************************************************)
EXTENDS Naturals, Sequences, FiniteSets, SequencesExt

CONSTANTS
    SchoolDates, \* the dates of the academic year, in order
    Today,       \* timezone.localdate()
    NoTime,      \* start_time or end_time is NULL
    Clash,       \* pairs of time windows that overlap
    NoPlace,     \* no location
    SchoolWide,  \* scope SCHOOL_WIDE; every other scope overlaps only itself
    Bodies,      \* bodies offered to POST and PATCH, and (but for the date) to bulk-edit
    DateLists,   \* normalized_dates of bulk-edit
    Rules,       \* bodies offered to the recurring definition
    Holidays,    \* what the provider returns, as pairs date, name
    Editors,     \* requests that may be in flight together
    MaxDays      \* bound: rows of the table

InUseStatuses == {"DRAFT", "PENDING_APPROVAL", "APPROVED", "PUBLISHED"}
DayStatuses == InUseStatuses \cup {"REJECTED", "CANCELLED", "ARCHIVED"}
DayKinds == {"EVENT", "HOLIDAY"}

\* The values of the fields that are only compared.
Times == {NoTime} \cup {b.time : b \in Bodies \cup Rules}
Places == {NoPlace} \cup {b.place : b \in Bodies \cup Rules}
Scopes == {SchoolWide} \cup {b.scope : b \in Bodies \cup Rules}
Names == {b.name : b \in Bodies \cup Rules} \cup {Holidays[k][2] : k \in DOMAIN Holidays}

EntryBody ==
    [date : SchoolDates, last : Nat, time : Times, place : Places, scope : Scopes,
     kind : DayKinds, name : Names, status : DayStatuses \cup {"absent"}]
RuleBody ==
    [dates : SUBSET SchoolDates, time : Times, place : Places, scope : Scopes,
     name : Names, active : BOOLEAN]

CalendarDaysConstants ==
    /\ SchoolDates \subseteq Nat /\ IsFiniteSet(SchoolDates) /\ {Today, MaxDays} \subseteq Nat
    /\ \A p \in Clash : NoTime \notin {p[1], p[2]} /\ <<p[2], p[1]>> \in Clash
    /\ Bodies \subseteq EntryBody /\ Rules \subseteq RuleBody
    /\ \A b \in Bodies : b.date <= b.last
    /\ \A ds \in DateLists : ds \in Seq(SchoolDates) /\ ds # <<>> /\ IsInjective(ds)
    /\ Holidays \in Seq(Nat \X Names)

ASSUME CalendarDaysAssumption == CalendarDaysConstants

VARIABLES
    days,       \* the SchoolCalendarDay rows in order of id; none is ever deleted
    event,      \* the RecurringSchoolCalendarEvent: {} or {row}
    saving,     \* saving[s]: the local variables of the handler of request s
    disturbed   \* history: something was written while another request was under way

calendarVars == <<days, event, saving, disturbed>>

\* A row; rec: it has the definition as recurrence.
DayRow ==
    [date : SchoolDates, last : Nat, time : Times, place : Places, scope : Scopes,
     kind : DayKinds, name : Names, status : DayStatuses, rec : BOOLEAN]

\* The row of body b in status st.
RowOf(b, st, rec) ==
    [date |-> b.date, last |-> b.last, time |-> b.time, place |-> b.place,
     scope |-> b.scope, kind |-> b.kind, name |-> b.name, status |-> st, rec |-> rec]

NotSaving == [pc |-> "idle"]

CalendarInit ==
    days = <<>> /\ event = {} /\ saving = [s \in Editors |-> NotSaving] /\ disturbed = FALSE

-----------------------------------------------------------------------------
(* Conflicts *)

\* Mutant: an entry of several days is looked at on its first.
OverlapFirstDay(a, b) ==
    /\ a.date <= b.date /\ b.date <= a.last
    /\ <<a.time, b.time>> \in Clash

Overlap(a, b) ==
    /\ a.date <= b.last /\ b.date <= a.last
    /\ <<a.time, b.time>> \in Clash

\* Severity ERROR: one location, or scopes that overlap.
Blocks(a, b) ==
    /\ Overlap(a, b)
    /\ \/ a.place # NoPlace /\ a.place = b.place
       \/ SchoolWide \in {a.scope, b.scope} \/ a.scope = b.scope

Counts(r) == r.status \notin {"CANCELLED", "ARCHIVED"}

\* detect_conflicts, blocking ones only: ids in table t that candidate r meets,
\* itself excepted (id 0: no primary key yet).
Conflicts(t, r, id) == {i \in DOMAIN t : i # id /\ Counts(t[i]) /\ Blocks(r, t[i])}

-----------------------------------------------------------------------------
(* Statements *)

\* unique_recurrence_calendar_date
OnceOnDate(t) == \A i, j \in DOMAIN t :
    t[i].rec /\ t[j].rec /\ t[i].date = t[j].date => i = j

\* What a handler has decided to write: new values of existing rows, and new rows.
NoWrites == [upd |-> <<>>, ins |-> <<>>]
NewRow(w, r) == [upd |-> w.upd, ins |-> Append(w.ins, r)]
NewValue(w, i, r) ==
    [upd |-> [j \in DOMAIN w.upd \cup {i} |-> IF j = i THEN r ELSE w.upd[j]], ins |-> w.ins]

\* The table with them.
Written(w) == [i \in DOMAIN days |-> IF i \in DOMAIN w.upd THEN w.upd[i] ELSE days[i]] \o w.ins

Ready(s) == saving[s] = NotSaving
GoesTo(s, q) == saving' = [saving EXCEPT ![s] = q]
Reads(s, q) == GoesTo(s, q) /\ UNCHANGED <<days, event, disturbed>>
Disturbs(s) == disturbed' = (disturbed \/ \E u \in Editors \ {s} : ~Ready(u))
FitsTable(t) == Len(t) <= MaxDays

\* save(): every column of the rows read earlier, or an INSERT.  A write the
\* constraint refuses ends the request.
SaveEntries(s) ==
    /\ saving[s].pc = "save"
    /\ LET t == Written(saving[s].writes)
       IN  OnceOnDate(t) /\ FitsTable(t) /\ days' = t
    /\ GoesTo(s, NotSaving) /\ Disturbs(s) /\ UNCHANGED event

\* A refused write, or a worker that dies between two statements.
GiveUp(s) == ~Ready(s) /\ Reads(s, NotSaving)

-----------------------------------------------------------------------------
(* One entry *)

Transitions == [DRAFT |-> {"PENDING_APPROVAL"},
                PENDING_APPROVAL |-> {"APPROVED", "REJECTED"},
                APPROVED |-> {"PUBLISHED", "CANCELLED", "PENDING_APPROVAL"},
                PUBLISHED |-> {"CANCELLED", "ARCHIVED", "PENDING_APPROVAL"},
                REJECTED |-> {"DRAFT"}, CANCELLED |-> {"ARCHIVED"}, ARCHIVED |-> {}]

\* An entry on show whose material fields change goes back for approval.
Patched(old, b) ==
    LET st == IF old.status \in {"APPROVED", "PUBLISHED"}
                 /\ RowOf(b, old.status, old.rec) # old
              THEN "PENDING_APPROVAL"
              ELSE IF b.status = "absent" THEN old.status ELSE b.status
    IN  RowOf(b, st, old.rec)

\* Body b for the row with id i of table t, which was read as old.
Accepted(t, i, old, b) ==
    LET new == Patched(old, b)
    IN  /\ new.status = old.status \/ new.status \in Transitions[old.status]
        /\ Conflicts(t, new, i) = {}

\* Mutant: the status left out of the body is stored as it came.
CreatedRaw(b) == RowOf(b, b.status, FALSE)

\* POST: an entry is created as a draft unless the body names a status;
\* PUBLISHED without an approver becomes APPROVED.
Created(b) ==
    RowOf(b, CASE b.status = "absent" -> "DRAFT"
               [] b.status = "PUBLISHED" -> "APPROVED"
               [] OTHER -> b.status, FALSE)

PostEntry(s, b) ==
    /\ Ready(s) /\ Conflicts(days, Created(b), 0) = {}
    /\ Reads(s, [pc |-> "save", writes |-> NewRow(NoWrites, Created(b))])

PatchEntry(s, i, b) ==
    /\ Ready(s) /\ Accepted(days, i, days[i], b)
    /\ Reads(s, [pc |-> "save", writes |-> NewValue(NoWrites, i, Patched(days[i], b))])

\* submit, approve, reject, publish and cancel read the status and write it.
MoveStatus(s, i, st) ==
    /\ Ready(s)
    /\ \/ st = "PENDING_APPROVAL" /\ days[i].status \in {"DRAFT", "REJECTED"}
       \/ st \in {"APPROVED", "REJECTED"} /\ days[i].status = "PENDING_APPROVAL"
       \/ st = "PUBLISHED" /\ days[i].status = "APPROVED"
       \/ st = "CANCELLED" /\ days[i].status # st
    /\ days' = [days EXCEPT ![i].status = st]
    /\ Disturbs(s) /\ UNCHANGED <<event, saving>>

-----------------------------------------------------------------------------
(* bulk-edit: one transaction over the selected dates *)

\* existing_records: a dictionary by date, of which the last record of a date
\* stays; rows of one date come in no particular order.
Existing(d) == {i \in DOMAIN days : days[i].date = d /\ days[i].status \in InUseStatuses}
FoundFor(ds) ==
    {f \in [{d \in Range(ds) : Existing(d) # {}} -> DOMAIN days] :
        \A d \in DOMAIN f : f[d] \in Existing(d)}

BeginBulk(s, ds, b, skip) ==
    /\ Ready(s)
    /\ \E f \in FoundFor(ds) :
         Reads(s, [pc |-> "bulk", todo |-> ds, body |-> b, skip |-> skip, writes |-> NoWrites,
                   found |-> {[id |-> f[d], row |-> days[f[d]]] : d \in DOMAIN f}])

\* The body for the first date that is left, and the row found there: of one day if the
\* body is (its end_date is null), and a draft if it names no status.
BodyOn(q) ==
    LET d == Head(q.todo)
    IN  [q.body EXCEPT
           !.date = d,
           !.last = IF q.body.last = q.body.date THEN d ELSE q.body.last,
           !.status = IF q.body.status = "absent" THEN "DRAFT" ELSE q.body.status]
There(q) == {f \in q.found : f.row.date = Head(q.todo)}

\* clean(): the end is not before the start.
Lasts(b) == b.date <= b.last
Inserts(q) ==
    /\ There(q) = {} /\ Lasts(BodyOn(q))
    /\ Conflicts(Written(q.writes), Created(BodyOn(q)), 0) = {}
Replaces(q, f) ==
    /\ ~q.skip /\ Lasts(BodyOn(q))
    /\ Accepted(Written(q.writes), f.id, f.row, BodyOn(q))

NextDate(q, w) ==
    IF Len(q.todo) = 1 THEN [pc |-> "save", writes |-> w]
    ELSE [q EXCEPT !.todo = Tail(q.todo), !.writes = w]

\* The dates one after the other, in the table as the transaction sees it; a date that
\* validation refuses is left as it is and the others go on.  The answer is then a
\* refusal, and commits the transaction.
BulkDate(s) ==
    LET q == saving[s]
    IN  /\ q.pc = "bulk"
        /\ \/ Inserts(q) /\ Reads(s, NextDate(q, NewRow(q.writes, Created(BodyOn(q)))))
           \/ \E f \in There(q) :
                /\ Replaces(q, f)
                /\ Reads(s, NextDate(q, NewValue(q.writes, f.id, Patched(f.row, BodyOn(q)))))
           \/ /\ ~Inserts(q) /\ \A f \in There(q) : ~Replaces(q, f)
              /\ Reads(s, NextDate(q, q.writes))

-----------------------------------------------------------------------------
(* The recurring definition *)

Occurrence(r, d) ==
    [date |-> d, last |-> d, time |-> r.time, place |-> r.place, scope |-> r.scope,
     kind |-> "EVENT", name |-> r.name, status |-> "DRAFT", rec |-> TRUE]

\* Mutant: generation looks only at the occurrences that are not cancelled.
MissingLive(r) == {d \in r.dates : \A i \in DOMAIN days :
    days[i].rec /\ days[i].status # "CANCELLED" => days[i].date # d}

\* The dates get_or_create finds no occurrence for, in whatever status.
Missing(r) == {d \in r.dates : \A i \in DOMAIN days : days[i].rec => days[i].date # d}

\* Mutant: generation does not ask whether the definition is in use.
GeneratedAnyway(r) == days \o SetToSeq({Occurrence(r, d) : d \in Missing(r)})

\* generate_occurrences, in one transaction, from the definition as it was read.
\* The order of the new ids tells nothing.
Generated(r) ==
    IF r.active THEN days \o SetToSeq({Occurrence(r, d) : d \in Missing(r)}) ELSE days

\* detect_recurring_conflicts: the candidates have no primary key.
RuleConflicts(r) == UNION {Conflicts(days, Occurrence(r, d), 0) : d \in r.dates}

\* POST: the definition, the search for conflicts and the occurrences commit
\* together or not at all.
CreateEvent(s, r) ==
    /\ Ready(s) /\ event = {} /\ RuleConflicts(r) = {}
    /\ event' = {r} /\ days' = Generated(r) /\ FitsTable(days')
    /\ Disturbs(s) /\ UNCHANGED saving

\* What a body says of the column active.
UseWords == {"absent", "active", "inactive"}

\* Mutant: a body that says nothing gives the column its default.
UseByDefault(says, e) == says # "inactive"

UseAfter(says, e) == says = "active" \/ (says = "absent" /\ e.active)

\* PATCH reads the definition and later saves every column, generating from it.
PatchEvent(s, r) ==
    /\ Ready(s)
    /\ \E e \in event, says \in UseWords :
         Reads(s, [pc |-> "update", says |-> says,
                   rule |-> [r EXCEPT !.active = UseAfter(says, e)]])

SaveEvent(s) ==
    /\ saving[s].pc = "update"
    /\ LET r == saving[s].rule
       IN  /\ RuleConflicts(r) = {}
           /\ event' = {r} /\ days' = Generated(r) /\ FitsTable(days')
    /\ GoesTo(s, NotSaving) /\ Disturbs(s)

Generate(s) == Ready(s) /\ \E e \in event : Reads(s, [pc |-> "generate", rule |-> e])

SaveGenerated(s) ==
    /\ saving[s].pc = "generate"
    /\ days' = Generated(saving[s].rule) /\ FitsTable(days')
    /\ GoesTo(s, NotSaving) /\ Disturbs(s) /\ UNCHANGED event

\* One column of a row whose other columns do not matter.
Deactivate(s) ==
    /\ Ready(s)
    /\ \E e \in event : e.active /\ event' = {[e EXCEPT !.active = FALSE]}
    /\ Disturbs(s) /\ UNCHANGED <<days, saving>>

\* Two statements in autocommit: the occurrences from today on, the definition.
CancelFuture(s) ==
    /\ Ready(s) /\ event # {}
    /\ days' = [i \in DOMAIN days |->
                  IF days[i].rec /\ days[i].date >= Today /\ days[i].status \in InUseStatuses
                  THEN [days[i] EXCEPT !.status = "CANCELLED"] ELSE days[i]]
    /\ GoesTo(s, [pc |-> "deactivate"]) /\ Disturbs(s) /\ UNCHANGED event

SaveCancelFuture(s) ==
    /\ saving[s].pc = "deactivate"
    /\ event' = {[e EXCEPT !.active = FALSE] : e \in event}
    /\ GoesTo(s, NotSaving) /\ Disturbs(s) /\ UNCHANGED days

-----------------------------------------------------------------------------
(* The import of holidays: a look and a write for each of them *)

ImportHolidays(s) ==
    /\ Ready(s) /\ Holidays # <<>>
    /\ Reads(s, [pc |-> "look", todo |-> Holidays])

HolidayRow(h) ==
    [date |-> h[1], last |-> h[1], time |-> NoTime, place |-> NoPlace,
     scope |-> SchoolWide, kind |-> "HOLIDAY", name |-> h[2],
     status |-> "DRAFT", rec |-> FALSE]

\* Mutant: the import passes over holidays that were cancelled.
HolidaysOnLive(d) == {i \in DOMAIN days : days[i].date = d /\ days[i].kind = "HOLIDAY"
                                          /\ days[i].status # "CANCELLED"}

\* Rows of the date that are holidays, in whatever status; any may come first.
HolidaysOn(d) == {i \in DOMAIN days : days[i].date = d /\ days[i].kind = "HOLIDAY"}

NextHoliday(todo) ==
    IF Len(todo) = 1 THEN NotSaving ELSE [pc |-> "look", todo |-> Tail(todo)]

\* The first of todo: outside the year it is passed over, found with the same
\* name it is counted, found with another name it is to be renamed.
LookHoliday(s) ==
    /\ saving[s].pc = "look"
    /\ LET todo == saving[s].todo
           h == Head(todo)
       IN  \/ h[1] \notin SchoolDates /\ Reads(s, NextHoliday(todo))
           \/ /\ h[1] \in SchoolDates /\ HolidaysOn(h[1]) = {}
              /\ Reads(s, [pc |-> "insert", todo |-> todo])
           \/ /\ h[1] \in SchoolDates
              /\ \E i \in HolidaysOn(h[1]) :
                   IF days[i].name = h[2] THEN Reads(s, NextHoliday(todo))
                   ELSE Reads(s, [pc |-> "rename", todo |-> todo, id |-> i])

InsertHoliday(s) ==
    /\ saving[s].pc = "insert"
    /\ days' = Append(days, HolidayRow(Head(saving[s].todo))) /\ FitsTable(days')
    /\ GoesTo(s, NextHoliday(saving[s].todo)) /\ Disturbs(s) /\ UNCHANGED event

\* save(update_fields): the title is written, the status and the date are not.
RenameHoliday(s) ==
    /\ saving[s].pc = "rename"
    /\ LET h == Head(saving[s].todo) IN days' = [days EXCEPT ![saving[s].id].name = h[2]]
    /\ GoesTo(s, NextHoliday(saving[s].todo)) /\ Disturbs(s) /\ UNCHANGED event

-----------------------------------------------------------------------------
Entries(s) ==
    \/ \E b \in Bodies : PostEntry(s, b)
    \/ \E i \in DOMAIN days : \E b \in Bodies : PatchEntry(s, i, b)
    \/ \E i \in DOMAIN days : \E st \in DayStatuses : MoveStatus(s, i, st)
    \/ \E ds \in DateLists : \E b \in Bodies : \E skip \in BOOLEAN : BeginBulk(s, ds, b, skip)
    \/ BulkDate(s) \/ SaveEntries(s) \/ GiveUp(s)

Recurring(s) ==
    \/ \E r \in Rules : CreateEvent(s, r) \/ PatchEvent(s, r)
    \/ SaveEvent(s) \/ Generate(s) \/ SaveGenerated(s)
    \/ Deactivate(s) \/ CancelFuture(s) \/ SaveCancelFuture(s)

Importing(s) == ImportHolidays(s) \/ LookHoliday(s) \/ InsertHoliday(s) \/ RenameHoliday(s)

CalendarNext == \E s \in Editors : Entries(s) \/ Recurring(s) \/ Importing(s)

CalendarSpec == CalendarInit /\ [][CalendarNext]_calendarVars

-----------------------------------------------------------------------------
(* Properties *)

DayTypes ==
    /\ days \in Seq(DayRow) /\ disturbed \in BOOLEAN
    /\ event \subseteq RuleBody /\ \A e, f \in event : e = f
    /\ \A s \in Editors : saving[s].pc \in
         {"idle", "save", "bulk", "update", "generate", "deactivate", "look", "insert", "rename"}

\* Two entries that both count, cover one date at clashing times and want one
\* place or one audience.
Collide(a, b) ==
    /\ Counts(a) /\ Counts(b)
    /\ (a.date..a.last) \cap (b.date..b.last) # {}
    /\ <<a.time, b.time>> \in Clash
    /\ \/ a.scope = b.scope \/ SchoolWide \in {a.scope, b.scope}
       \/ a.place = b.place /\ a.place # NoPlace

\* While nothing is written under a request, only an occurrence can collide: all other
\* ways to change the calendar, bulk-edit included, look for conflicts.
OnlyOccurrencesCollide ==
    ~disturbed => \A i, j \in DOMAIN days :
                    i # j /\ Collide(days[i], days[j]) => days[i].rec \/ days[j].rec

\* However requests overlap, the definition has one occurrence on a date: generating
\* again finds the occurrences that were cancelled or rejected, and moved ones on their
\* new date.
OneOccurrencePerDate == OnceOnDate(days)

\* One holiday on a date, however often the holidays are imported, while nothing is
\* written under a request and holidays come from the import.
OneHolidayPerDate ==
    ~disturbed /\ (\A b \in Bodies : b.kind # "HOLIDAY") =>
        \A i, j \in DOMAIN days :
            /\ days[i].kind = "HOLIDAY" /\ days[j].kind = "HOLIDAY"
            /\ days[i].date = days[j].date
            => i = j

InUse == \E e \in event : e.active
Occurrences == {i \in DOMAIN days : days[i].rec}

\* While nothing is written under a request, occurrences are only those of a definition
\* in use, and one that was put out of use is used again only when a PATCH says so.
NothingAdded ==
    ~disturbed =>
        /\ Occurrences' # Occurrences => InUse'
        /\ event # {} /\ ~InUse /\ InUse' =>
             \E s \in Editors : saving[s].pc = "update" /\ saving[s].says = "active"
                               /\ saving'[s] = NotSaving
InactiveAddsNothing == [][NothingAdded]_calendarVars

\* However requests overlap, a definition occurs once on a date; and while nothing is
\* written under a request, entries that collide are occurrences, and the import leaves
\* one holiday on a date.
CalendarInOrder ==
    DayTypes /\ OnlyOccurrencesCollide /\ OneOccurrencePerDate /\ OneHolidayPerDate
=============================================================================
