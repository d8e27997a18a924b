--------------------------- MODULE AttendanceRow ---------------------------
(***************************************************************************)
(* One student and one day on the attendance encoding page.  The page      *)
(* shows a status; the record holds counts of school days, of days         *)
(* present, absent and excused, and of tardiness.  A status is worked out  *)
(* from the counts when the record is loaded, and the counts from the      *)
(* status and the counts that were loaded when it is saved.  What the      *)
(* class as a whole does is in EncodingSheet, what the server checks of a  *)
(* record in AttendanceRecords.                                            *)
(***************************************************************************)
EXTENDS Integers, FiniteSets

CONSTANTS
    Lossy,      \* the answer to a save may be lost
    MaxTardy    \* bound: tardiness counted in a record that was there before

Unknown == -1   \* excused_absences: null
Counts == [school: {1}, present: {0, 1}, absent: {0, 1}, excused: {Unknown, 0, 1},
           tardy: 0..MaxTardy + 1]
Statuses == {"present", "absent", "late", "excused"}
None == ""

RowConstants == Lossy \in BOOLEAN /\ MaxTardy \in Nat

ASSUME RowAssumption == RowConstants

VARIABLES
    record,     \* {} or the one stored for the student and the day
    row,        \* the row on the page: [id, status] and the counts it was loaded with
    sent,       \* {} or the item of the save under way
    answered,   \* {} or the record in the answer that is on its way
    fresh,      \* history: no answer was lost since the row was loaded
    saved       \* history: the status of the last save, None when something else came after

rowVars == <<record, row, sent, answered, fresh, saved>>

Count(n) == IF n > 0 THEN n ELSE 0

AddsUp(c) ==
    /\ Cardinality({f \in {"present", "absent", "excused"} : c[f] > 0}) <= 1
    /\ c.present + c.absent + Count(c.excused) <= c.school

\* The status the counts are shown as.
StatusOf(c) ==
    IF c.excused = Unknown THEN None
    ELSE IF c.excused > 0 THEN "excused"
    ELSE IF c.present > 0 THEN "present"
    ELSE IF c.absent > 0 THEN "absent"
    ELSE IF c.tardy > 0 THEN "late" ELSE None

\* A row without a record starts with one school day and nothing counted.
Uncounted == [school |-> 1, present |-> 0, absent |-> 0, excused |-> Unknown, tardy |-> 0]

RowOf(rec) ==
    IF rec = {} THEN [id |-> FALSE, status |-> None, was |-> Uncounted]
    ELSE LET c == CHOOSE x \in rec : TRUE
         IN  [id |-> TRUE, status |-> StatusOf(c), was |-> c]

RowInit ==
    /\ record \in {{}} \cup {{c} : c \in {x \in Counts :
          x.tardy <= MaxTardy /\ x.present <= x.school /\ (x.excused = Unknown \/ AddsUp(x))}}
    /\ row = RowOf(record) /\ sent = {} /\ answered = {} /\ fresh = TRUE /\ saved = None

-----------------------------------------------------------------------------
(* The page *)

\* updateRow, or applyBulk for the whole class.
ChooseStatus(s) ==
    /\ row.status # s /\ row' = [row EXCEPT !.status = s]
    /\ UNCHANGED <<record, sent, answered, fresh, saved>>

Larger(m, n) == IF m > n THEN m ELSE n

\* The counts sent for a row.  Late keeps the classification, a classification
\* keeps the tardiness.
ItemOf(r) ==
    [school |-> r.was.school,
     present |-> IF r.status = "late" THEN r.was.present ELSE IF r.status = "present" THEN 1 ELSE 0,
     absent  |-> IF r.status = "late" THEN r.was.absent ELSE IF r.status = "absent" THEN 1 ELSE 0,
     excused |-> IF r.status = "late" THEN IF r.id THEN r.was.excused ELSE 0
                 ELSE IF r.status = "excused" THEN 1 ELSE 0,
     tardy   |-> IF r.status = "late" THEN Larger(r.was.tardy, 1) ELSE r.was.tardy]

\* Mutant: excused_absences of a late student is null.
ItemUnknown(r) == [ItemOf(r) EXCEPT !.excused = IF r.status = "late" THEN Unknown ELSE @]

\* Mutant: the classification of before is not cleared.
ItemAdding(r) ==
    [ItemOf(r) EXCEPT !.present = IF r.status = "absent" THEN r.was.present ELSE @]

\* Mutant: every save counts the tardiness once more.
ItemCountingUp(r) ==
    [ItemOf(r) EXCEPT !.tardy = IF r.status = "late" THEN r.was.tardy + 1 ELSE @]

\* Mutant: a student who is not late was never tardy.
ItemOnTime(r) == [ItemOf(r) EXCEPT !.tardy = IF r.status = "late" THEN @ ELSE 0]

Item(r) == ItemOf(r)

\* handleSave; savingAttendance keeps a second one from starting.
Save ==
    /\ row.status # None /\ sent = {} /\ answered = {}
    /\ sent' = {[id |-> row.id, counts |-> Item(row)]} /\ saved' = row.status
    /\ UNCHANGED <<record, row, answered, fresh>>

\* What the server makes of an item: without an id there must be no record, and
\* counts that change must add up.
Accepts(it) ==
    /\ ~it.id => record = {}
    /\ it.counts.present <= it.counts.school
    /\ (\A c \in record : [c EXCEPT !.tardy = 0] # [it.counts EXCEPT !.tardy = 0]) => AddsUp(it.counts)

Serve ==
    \E it \in sent :
        /\ sent' = {}
        /\ IF Accepts(it)
           THEN record' = {it.counts} /\ answered' = {it.counts} /\ UNCHANGED saved
           ELSE saved' = None /\ UNCHANGED <<record, answered>>
        /\ UNCHANGED <<row, fresh>>

\* The answer gives the row its record; the status is what was chosen since.
Answer ==
    \E c \in answered :
        /\ row' = [row EXCEPT !.id = TRUE, !.was = c] /\ answered' = {}
        /\ UNCHANGED <<record, sent, fresh, saved>>

\* The answer is lost: the page shows an error, the record is stored.
Lose ==
    /\ Lossy /\ answered # {} /\ answered' = {} /\ fresh' = FALSE
    /\ UNCHANGED <<record, row, sent, saved>>

\* The class is loaded again, while no save is under way.
Load ==
    /\ sent = {} /\ answered = {}
    /\ row' = RowOf(record) /\ fresh' = TRUE
    /\ UNCHANGED <<record, sent, answered, saved>>

RowNext == (\E s \in Statuses \cup {None} : ChooseStatus(s)) \/ Save \/ Serve \/ Answer \/ Lose \/ Load

RowSpec == RowInit /\ [][RowNext]_rowVars

-----------------------------------------------------------------------------
(* Properties *)

RowTypes ==
    /\ record \in {{}} \cup {{c} : c \in Counts} /\ answered \in {{}} \cup {{c} : c \in Counts}
    /\ row.id \in BOOLEAN /\ row.status \in Statuses \cup {None} /\ row.was \in Counts
    /\ fresh \in BOOLEAN /\ saved \in Statuses \cup {None}

\* The server takes every row the page can send, of records that contradict
\* themselves too, as long as the page got its answers: one refused row would stop
\* the whole class from being saved.
AlwaysAccepted ==
    fresh /\ answered = {} =>
        /\ \A it \in sent : Accepts(it)
        /\ row.status # None /\ sent = {} => Accepts([id |-> row.id, counts |-> Item(row)])

\* What was said of a day before is kept, as long as the page got its answers.  A
\* record of which nobody said whether the absence was excused stays so while only
\* tardiness is saved, and a record that was classified stays classified; tardiness
\* once recorded is not lost by another status.
ClassKept ==
    \A c \in record : \A d \in record' : c # d /\ fresh =>
      /\ saved = "late" => <<d.present, d.absent, d.excused>> = <<c.present, c.absent, c.excused>>
      /\ c.excused # Unknown => d.excused # Unknown
TardyKept ==
    \A c \in record : \A d \in record' : fresh => d.tardy >= c.tardy
ChoicesKept == [][ClassKept /\ TardyKept]_record
=============================================================================
