----------------------------- MODULE PeriodRecords -----------------------------
(***************************************************************************)
(* What teachers encode per student and grading period: grades (a record   *)
(* per subject, academics) and observed values (one per behaviour          *)
(* indicator, behavior).  The two are written by the same three handlers:  *)
(* POST, PATCH and the bulk save of an encoding page.  Each looks for      *)
(* existing records, then saves.  The unique key holds quarter and         *)
(* semester, of which one is NULL, so the database never compares it.      *)
(***************************************************************************)
EXTENDS Integers, FiniteSets

CONSTANTS
    Kind,       \* "grade" or "behavior"
    Users,      \* teachers
    Students,   \* enrolments of one section, in one academic year
    Items,      \* subjects, or indicators
    Periods,    \* quarters and semesters
    Grades,     \* valid grades (0 to 100), or ratings
    Ids,        \* primary keys, in the order of created_at; a bound
    NoId,       \* the instance of a POST
    Slots,      \* requests that may be in flight together
    Endpoints   \* those in use

PeriodRecordsConstants ==
    /\ Kind \in {"grade", "behavior"}
    /\ Ids \subseteq Nat /\ NoId \notin Ids
    /\ Endpoints \subseteq {"post", "patch", "bulk"}

ASSUME PeriodRecordsAssumption == PeriodRecordsConstants

VARIABLES
    records,  \* the table: the set of rows under each primary key
    teaches,  \* the items a user encodes: active subject assignments
    open,     \* is_active of the academic year
    sent,     \* history: what the requests asked to record
    refiled,  \* history: the records that a request has named to file elsewhere
    req       \* req[s]: what the request in slot s is about to save

vars == <<records, teaches, open, sent, refiled, req>>

Key == [student: Students, item: Items, period: Periods]
Row == [key: Key, grade: Grades]
\* What a request says of a record, and whether it names one.
Put == [id: Ids \cup {NoId}, row: Row]

TypeOK ==
    /\ records \in [Ids -> {{}} \cup {{r} : r \in Row}]
    /\ teaches \in [Users -> SUBSET Items]
    /\ open \in BOOLEAN
    /\ sent \subseteq Row /\ refiled \subseteq Ids
    /\ req \in [Slots -> SUBSET Put]

Init ==
    /\ records = [i \in Ids |-> {}]
    /\ teaches \in [Users -> SUBSET Items]
    /\ open = TRUE
    /\ sent = {} /\ refiled = {}
    /\ req = [s \in Slots |-> {}]

Used == {i \in Ids : records[i] # {}}

\* The records that a look-up of the key finds.
Matching(k) == {i \in Ids : \E r \in records[i] : r.key = k}

\* A grade: the teacher has an active assignment for the subject and section.
GradeAllowed(u, k) == open /\ k.item \in teaches[u]

\* An observed value: the enrolment is current and the teacher may see it.
AssessmentAllowed(u) == open /\ teaches[u] # {}

Allowed(u, k) ==
    IF Kind = "grade" THEN GradeAllowed(u, k) ELSE AssessmentAllowed(u)

\* The records as a transaction that has written puts sees them.
Table(puts) ==
    puts \cup UNION {{[id |-> i, row |-> r] : r \in records[i]} :
                       i \in {j \in Ids : \A p \in puts : p.id # j}}

\* Of records found, the one created last; those just written have no primary key yet.
LastCreated(found) ==
    {f \in found : f.id = NoId \/ \A g \in found : g.id # NoId /\ g.id <= f.id}

\* Mutant: the look-up forgets the period.
FoundAnyPeriod(puts, p) ==
    {f \in Table(puts) : f.row.key.student = p.row.key.student /\ f.row.key.item = p.row.key.item}

\* Mutant: existing records are not looked for.
FoundNamed(puts, p) == {f \in Table(puts) : p.id # NoId /\ f.id = p.id}

\* The record that p names, wherever it is filed, or those with its key.
FoundRecords(puts, p) ==
    {f \in Table(puts) : IF p.id # NoId THEN f.id = p.id ELSE f.row.key = p.row.key}

\* The record that p is for: of grades found by their key the newest, of observed values
\* the first by a date that is data.
Targets(puts, p) ==
    IF p.id = NoId /\ Kind = "grade" THEN LastCreated(FoundRecords(puts, p))
    ELSE FoundRecords(puts, p)

\* The puts of the transaction with p: in place of its record, or beside the others.
\* A record that is named and not there is an error.
WithPut(puts, p) ==
    IF p.id = NoId /\ FoundRecords(puts, p) = {} THEN {puts \cup {p}}
    ELSE {(puts \ {f}) \cup {[id |-> f.id, row |-> p.row]} : f \in Targets(puts, p)}

\* The record that p names and files under another key.
Moves(puts, p) ==
    {i \in {p.id} \ {NoId} : \E f \in FoundRecords(puts, p) : f.row.key # p.row.key}

\* The validated puts of a request wait for its save.
Prepare(s, puts, away) ==
    /\ req[s] = {}
    /\ req' = [req EXCEPT ![s] = puts]
    /\ sent' = sent \cup {p.row : p \in puts}
    /\ refiled' = refiled \cup away
    /\ UNCHANGED <<records, teaches, open>>

-----------------------------------------------------------------------------
(* The handlers                                                            *)

\* Mutant: the look-up is missing.
PostBlind(s) ==
    /\ "post" \in Endpoints
    /\ \E u \in Users, r \in Row :
         /\ Allowed(u, r.key)
         /\ Prepare(s, {[id |-> NoId, row |-> r]}, {})

\* POST: a grade is refused where there is one, an observed value is not.
Post(s) ==
    /\ "post" \in Endpoints
    /\ \E u \in Users, r \in Row :
         /\ Allowed(u, r.key)
         /\ Kind = "grade" => Matching(r.key) = {}
         /\ Prepare(s, {[id |-> NoId, row |-> r]}, {})

\* Mutant: the year of an existing record is not looked at.
PatchAnyTime(s) ==
    \E p \in Put : \E puts \in WithPut({}, p) :
        p.id # NoId /\ Prepare(s, puts, Moves({}, p))

\* PATCH of a record.  The body may name another student, item or period, and a record
\* that is there already does not stop it.
Patch(s) ==
    /\ "patch" \in Endpoints
    /\ \E u \in Users, p \in Put : \E puts \in WithPut({}, p) :
         /\ p.id # NoId /\ Allowed(u, p.row.key)
         /\ Prepare(s, puts, Moves({}, p))

\* The bulk save of an encoding page: one item or two, the second in the table as the
\* first leaves it.
Bulk(s) ==
    /\ "bulk" \in Endpoints /\ req[s] = {}
    /\ \E u \in Users, p \in Put : \E one \in WithPut({}, p) :
         /\ Allowed(u, p.row.key)
         /\ \/ Prepare(s, one, Moves({}, p))
            \/ \E q \in Put : \E two \in WithPut(one, q) :
                 /\ Allowed(u, q.row.key)
                 /\ Prepare(s, two, Moves({}, p) \cup Moves(one, q))

\* Mutant: the items of a bulk save get out of step with their rows.
SaveMixed(s) ==
    /\ req[s] # {}
    /\ \E p \in req[s], i \in Ids, k \in Key :
         /\ k.student = p.row.key.student
         /\ i = p.id \/ (p.id = NoId /\ i \notin Used)
         /\ records' = [records EXCEPT ![i] = {[key |-> k, grade |-> p.row.grade]}]
    /\ req' = [req EXCEPT ![s] = {}]
    /\ UNCHANGED <<teaches, open, sent, refiled>>

\* Mutant: an insert does not take a key of its own.
SaveOver(s) ==
    /\ req[s] # {}
    /\ records' = [i \in Ids |-> records[i] \cup
         {p.row : p \in {q \in req[s] : q.id = i \/ (q.id = NoId /\ i = 1)}}]
    /\ req' = [req EXCEPT ![s] = {}]
    /\ UNCHANGED <<teaches, open, sent, refiled>>

\* One transaction (a single save is one statement): the updates, and the
\* inserts under the next primary keys.
Save(s) ==
    /\ req[s] # {}
    /\ \E f \in [req[s] -> Ids] :
         /\ \A p, q \in req[s] : f[p] = f[q] => p = q
         /\ \A p \in req[s] : IF p.id = NoId THEN f[p] \notin Used ELSE f[p] = p.id
         /\ \A i, j \in Ids : i < j /\ (\E p \in req[s] : f[p] = j) =>
              i \in Used \/ \E p \in req[s] : f[p] = i
         /\ records' = [i \in Ids |->
              IF \E p \in req[s] : f[p] = i
              THEN {p.row : p \in {q \in req[s] : f[q] = i}} ELSE records[i]]
    /\ req' = [req EXCEPT ![s] = {}]
    /\ UNCHANGED <<teaches, open, sent, refiled>>

\* An error in one item, or a worker that dies: nothing is saved.
Abandon(s) ==
    /\ req[s] # {}
    /\ req' = [req EXCEPT ![s] = {}]
    /\ UNCHANGED <<records, teaches, open, sent, refiled>>

\* A subject is given to a teacher, or taken away.  (Like Archive, one request.)
Reassign(s) ==
    /\ req[s] = {}
    /\ \E u \in Users, items \in SUBSET Items : teaches' = [teaches EXCEPT ![u] = items]
    /\ UNCHANGED <<records, open, sent, refiled, req>>

\* The academic year is archived, or activated again.
Archive(s) ==
    /\ req[s] = {}
    /\ open' = ~open
    /\ UNCHANGED <<records, teaches, sent, refiled, req>>

Next == \E s \in Slots :
    \/ Post(s) \/ Patch(s) \/ Bulk(s)
    \/ Save(s) \/ Abandon(s)
    \/ Reassign(s) \/ Archive(s)

Spec == Init /\ [][Next]_vars

-----------------------------------------------------------------------------
(* Properties *)

Rows == UNION {records[i] : i \in Ids}

\* Requests do not overlap.
OneAtATime == \A s, t \in Slots : s = t

\* Every handler in use looks for the record of a key before it saves one.
LooksFirst == Kind = "grade" \/ "post" \notin Endpoints

\* "An academic record for this student, subject, period, and academic year
\* already exists": there are no two of them, except for a record that was filed there
\* from elsewhere.  Averages would count it twice.
OneRecordPerPeriod == \A k \in Key : Cardinality(Matching(k) \ refiled) <= 1

\* However requests overlap, a grade stands where somebody entered it: no save
\* of a stale copy puts it under another student, subject or period.
GradeWasSent == Rows \subseteq sent

\* However requests overlap, a grade stands where it was entered; and requests
\* one at a time that look first never record a student, item and period twice.
RecordsInOrder ==
    /\ TypeOK /\ GradeWasSent
    /\ OneAtATime /\ LooksFirst => OneRecordPerPeriod

\* The records of an archived academic year do not change ("Cannot encode
\* grades for an archived academic year"), whichever handler is asked.
Kept == ~open => records' = records

\* However requests overlap, what has been encoded once stays encoded where it was until
\* a request names the record and files it elsewhere: a save never takes the record of
\* another student, item or period for the one it looked for.
EncodedKept ==
    \A i \in Ids \ refiled : \A r \in records[i] : \E q \in records'[i] : q.key = r.key

\* What was encoded stays encoded where it was until a request moves it, however
\* requests overlap; and requests one at a time leave an archived year as it is.
HistoryKept == [][EncodedKept /\ (OneAtATime => Kept)]_vars
=============================================================================
