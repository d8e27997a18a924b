------------------------- MODULE AttendanceRecords -------------------------
(***************************************************************************)
(* Attendance records of one school year and month: dated ones, which the  *)
(* encoding page writes, and period-level ones, which hold the totals of   *)
(* the whole month.  A record is written by POST, PATCH or the bulk save   *)
(* (attendance/api.py): every item is validated, and when all of them are  *)
(* valid they are checked again by save() and written in one transaction.  *)
(* The dashboards, the pages and the prediction sum up what is stored.     *)
(***************************************************************************)
EXTENDS Integers, Sequences, FiniteSets, SequencesExt

CONSTANTS
    Enrolments,
    MonthDays,    \* the days of the month
    MonthLabels,  \* what a record of the whole month may be called: any words
    Desks,        \* requests that are under way at the same time
    Found,        \* tables from before the classifications were validated
    MaxRecords,   \* bound: records stored
    MaxChanges    \* bound: changes of the calendar and of enrolments

NoDate == 0       \* a period-level record
Unknown == -1     \* excused_absences is NULL: never classified
NewRecord == 0    \* the id of an item to insert

\* A record: its enrolment, date and month label, and its counts.
Record ==
    [enr: Enrolments, date: MonthDays \cup {NoDate}, month: MonthDays \cup MonthLabels,
     school: Nat, present: Nat, absent: Nat, excused: Nat \cup {Unknown}]

\* The fields whose change makes clean() look at the classifications again.
Classes(r) == <<r.date, r.school, r.present, r.absent, r.excused>>

Count(n) == IF n > 0 THEN n ELSE 0

\* A day has one classification, and the days classified are scheduled ones.
AddsUp(r) ==
    /\ r.date # NoDate => Cardinality({f \in {"present", "absent", "excused"} : r[f] > 0}) <= 1
    /\ r.present + r.absent + Count(r.excused) <= r.school

\* unique_together: an enrolment has one record of a month label and one of a date.
Apart(r, q) ==
    r.enr = q.enr => r.month # q.month /\ (r.date # NoDate => r.date # q.date)

\* Mutant: there is no such key.
UniqueUnchecked(table) == TRUE

Unique(table) == \A i, j \in DOMAIN table : i # j => Apart(table[i], table[j])

AttendanceConstants ==
    /\ MonthDays \subseteq Nat \ {NoDate} /\ {MaxRecords, MaxChanges} \subseteq Nat
    /\ \A table \in Found : table \in Seq(Record) /\ Unique(table)

ASSUME AttendanceAssumption == AttendanceConstants

VARIABLES
    almanac,      \* the calendar: [date, expected, off], off: cancelled, archived or rejected
    attendance,   \* the table; a primary key is the position
    attending,    \* the enrolments in the current academic context
    desks,        \* desks[s]: the items of a request, and how far they are
    flawed,       \* history: the records that were found contradictory
    crossed,      \* history: something changed while a request was under way
    changes

attendanceVars == <<almanac, attendance, attending, desks, flawed, crossed, changes>>

AlmanacDay == [date: MonthDays, expected: BOOLEAN, off: BOOLEAN]
NotEncoding == [step |-> "idle"]

AttendanceInit ==
    /\ almanac = {} /\ attendance \in Found /\ attending = Enrolments
    /\ desks = [s \in Desks |-> NotEncoding]
    /\ flawed = {i \in DOMAIN attendance : ~AddsUp(attendance[i])}
    /\ crossed = FALSE /\ changes = 0

-----------------------------------------------------------------------------
(* What a record must satisfy *)

\* The first entry of the date, those without attendance first, whatever its status.
Blocked(d) == \E c \in almanac : c.date = d /\ ~c.expected

\* Mutant: an existing record is not looked at again.
CleanNewOnly(i, r) ==
    /\ r.present <= r.school /\ r.excused <= r.school
    /\ i = NewRecord => AddsUp(r)
    /\ r.date # NoDate => ~Blocked(r.date)

\* Mutant: the calendar is not looked at again for a record that exists.
CleanDayOnce(i, r) ==
    /\ r.present <= r.school /\ r.excused <= r.school
    /\ (IF i = NewRecord THEN TRUE ELSE Classes(r) # Classes(attendance[i])) => AddsUp(r)
    /\ i = NewRecord /\ r.date # NoDate => ~Blocked(r.date)

\* AttendanceRecord.clean() of the row r, to be stored as record i.
Clean(i, r) ==
    /\ r.present <= r.school /\ r.excused <= r.school
    /\ (IF i = NewRecord THEN TRUE ELSE Classes(r) # Classes(attendance[i])) => AddsUp(r)
    /\ r.date # NoDate => ~Blocked(r.date)

\* The table with the items of a request in it.
With(items) ==
    [i \in DOMAIN attendance |->
        LET mine == {p \in items : p.id = i}
        IN  IF mine = {} THEN attendance[i] ELSE (CHOOSE p \in mine : TRUE).row]
      \o [n \in 1..Cardinality({p \in items : p.id = NewRecord}) |->
            SetToSeq({p \in items : p.id = NewRecord})[n].row]

-----------------------------------------------------------------------------
(* The requests *)

\* Mutant: the records of every status are looked for.
VisibleAll(all) == DOMAIN attendance

\* get_queryset: records of current enrolments, unless another status is asked for.
Visible(all) ==
    IF all THEN DOMAIN attendance ELSE {i \in DOMAIN attendance : attendance[i].enr \in attending}

\* The serializer of one item.  An enrolment that the item names must be current.
Valid(p, named, all) ==
    /\ p.id # NewRecord => p.id \in Visible(all)
    /\ named => p.row.enr \in attending
    /\ \A j \in DOMAIN attendance \ {p.id} : Apart(p.row, attendance[j])
    /\ Clean(p.id, p.row)

\* The page's row for a day: at most one of the three counts in a valid one.
DayRows ==
    {r \in [enr: Enrolments, date: MonthDays, month: MonthDays, school: {1},
            present: {0, 1}, absent: {0, 1}, excused: {0, 1}] :
        r.month = r.date /\ r.present + r.absent + r.excused \in {1, 2}}

MonthRows ==
    [enr: Enrolments, date: {NoDate}, month: MonthLabels, school: {2},
     present: {1}, absent: {0, 1}, excused: {Unknown}]

BeginSaving(s, items, all) ==
    /\ desks[s] = NotEncoding
    /\ desks' = [desks EXCEPT ![s] = [step |-> "valid", items |-> items, all |-> all]]
    /\ UNCHANGED <<almanac, attendance, attending, flawed, crossed, changes>>

PostRecord(s, r) ==
    /\ desks[s] = NotEncoding /\ Len(attendance) < MaxRecords
    /\ Valid([id |-> NewRecord, row |-> r], TRUE, FALSE)
    /\ BeginSaving(s, {[id |-> NewRecord, row |-> r]}, FALSE)

\* Mutant: an excused absence is taken back by counting down.
EditsLess(r) ==
    {r} \cup {[r EXCEPT !.excused = r.excused - 1]}

\* What a PATCH changes: a count, the date, which may be cleared, the label, the
\* enrolment, or the tardiness only.
Edits(r) ==
    {r} \cup {[r EXCEPT ![f] = n] : f \in {"present", "absent", "excused"}, n \in {0, 1}}
        \cup {[r EXCEPT !.enr = e] : e \in Enrolments}
        \cup {[r EXCEPT !.date = d] : d \in MonthDays \cup {NoDate}}
        \cup {[r EXCEPT !.month = m] : m \in MonthDays \cup MonthLabels}

PatchRecord(s, i, all) ==
    /\ desks[s] = NotEncoding
    /\ \E r \in Edits(attendance[i]) :
         /\ Valid([id |-> i, row |-> r], r.enr # attendance[i].enr, all)
         /\ BeginSaving(s, {[id |-> i, row |-> r]}, all)

\* The bulk save: no record twice, no enrolment twice in a month, every row valid.
BulkRecords(s, a, b, all) ==
    /\ desks[s] = NotEncoding /\ Len(attendance) + 1 < MaxRecords
    /\ <<a.enr, a.month>> # <<b.enr, b.month>>
    /\ \E i, j \in DOMAIN attendance \cup {NewRecord} :
         /\ i = NewRecord \/ i # j
         /\ Valid([id |-> i, row |-> a], TRUE, all) /\ Valid([id |-> j, row |-> b], TRUE, all)
         /\ BeginSaving(s, {[id |-> i, row |-> a], [id |-> j, row |-> b]}, all)

\* save(): full_clean() of every item in the state it is now.  One that fails
\* undoes the transaction.
Recheck(s) ==
    /\ desks[s].step = "valid"
    /\ LET d == desks[s]
       IN  desks' = [desks EXCEPT ![s] =
              IF Unique(With(d.items)) /\ \A p \in d.items : Clean(p.id, p.row)
              THEN [step |-> "checked", items |-> d.items, all |-> d.all] ELSE NotEncoding]
    /\ UNCHANGED <<almanac, attendance, attending, flawed, crossed, changes>>

\* What changes now, the requests of the others have not read.
CrossWith(others) == crossed' = (crossed \/ \E s \in others : desks[s] # NotEncoding)

\* Mutant: the rows are written in a transaction each.
WriteSome(s) ==
    /\ desks[s].step = "checked"
    /\ \E part \in SUBSET desks[s].items :
         /\ part # {} /\ Unique(With(part)) /\ attendance' = With(part)
    /\ desks' = [desks EXCEPT ![s] = NotEncoding] /\ CrossWith(Desks \ {s})
    /\ UNCHANGED <<almanac, attending, flawed, changes>>

\* The rows are written; the database compares the unique keys once more.
WriteRecords(s) ==
    /\ desks[s].step = "checked"
    /\ attendance' = IF Unique(With(desks[s].items)) THEN With(desks[s].items) ELSE attendance
    /\ desks' = [desks EXCEPT ![s] = NotEncoding] /\ CrossWith(Desks \ {s})
    /\ UNCHANGED <<almanac, attending, flawed, changes>>

\* The worker dies and the transaction with it.
DieEncoding(s) ==
    /\ desks[s] # NotEncoding /\ desks' = [desks EXCEPT ![s] = NotEncoding]
    /\ UNCHANGED <<almanac, attendance, attending, flawed, crossed, changes>>

-----------------------------------------------------------------------------
(* The calendar and the enrolments, as the other components change them *)

Change == changes < MaxChanges /\ changes' = changes + 1 /\ CrossWith(Desks)

AddDay(d, expected) ==
    /\ Change /\ almanac' = almanac \cup {[date |-> d, expected |-> expected, off |-> FALSE]}
    /\ almanac' # almanac
    /\ UNCHANGED <<attendance, attending, desks, flawed>>

\* An entry is cancelled, archived or rejected; what it says of attendance stays.
CallOff(c) ==
    /\ Change /\ ~c.off /\ almanac' = (almanac \ {c}) \cup {[c EXCEPT !.off = TRUE]}
    /\ UNCHANGED <<attendance, attending, desks, flawed>>

\* The student is archived, or leaves the section.
Leave(e) ==
    /\ Change /\ e \in attending /\ attending' = attending \ {e}
    /\ UNCHANGED <<almanac, attendance, desks, flawed>>

SavesOne ==
    \/ \E s \in Desks : \E r \in DayRows \cup MonthRows : PostRecord(s, r)
    \/ \E s \in Desks : \E i \in DOMAIN attendance : \E all \in BOOLEAN : PatchRecord(s, i, all)

SavesClass == \E s \in Desks : \E a, b \in DayRows : \E all \in BOOLEAN : BulkRecords(s, a, b, all)

GoesOn == \E s \in Desks : Recheck(s) \/ WriteRecords(s) \/ DieEncoding(s)

Changes ==
    \/ \E d \in MonthDays : \E expected \in BOOLEAN : AddDay(d, expected)
    \/ \E c \in almanac : CallOff(c)
    \/ \E e \in Enrolments : Leave(e)

AttendanceNext == SavesOne \/ SavesClass \/ GoesOn \/ Changes

AttendanceSpec == AttendanceInit /\ [][AttendanceNext]_attendanceVars

-----------------------------------------------------------------------------
(* What is summed up *)

\* Mutant: one dated record does not count.
MixedOff(of) ==
    {e \in Enrolments :
        /\ Cardinality({i \in of : attendance[i].enr = e /\ attendance[i].date # NoDate}) > 1
        /\ \E i \in of : attendance[i].enr = e /\ attendance[i].date = NoDate}

\* Enrolments with records of both kinds, which may tell of the same days.
Mixed(of) ==
    {e \in Enrolments :
        /\ \E i \in of : attendance[i].enr = e /\ attendance[i].date # NoDate
        /\ \E i \in of : attendance[i].enr = e /\ attendance[i].date = NoDate}

CurrentRecords == {i \in DOMAIN attendance : attendance[i].enr \in attending}

\* The totals of the school's dashboard.
SchoolSummed == {i \in CurrentRecords : attendance[i].enr \notin Mixed(CurrentRecords)}

\* The rate of an enrolment on the adviser's dashboard.
ClassSummed(e) ==
    IF e \in Mixed(DOMAIN attendance) THEN {} ELSE {i \in DOMAIN attendance : attendance[i].enr = e}

\* The summaries of the attendance page and of the student's page, of the
\* records they were given.
PageSummed(given) == {i \in given : attendance[i].enr \notin Mixed(given)}

\* The attendance features of a prediction.
FeatureSummed(e) == {i \in DOMAIN attendance : attendance[i].enr = e}

\* The days a record may tell of.
DaysOf(r) == IF r.date = NoDate THEN MonthDays ELSE {r.date}

\* Of an enrolment, records of different days, or period-level records that are called
\* differently.
DisjointDays(ids) ==
    \A i, j \in ids : i # j /\ attendance[i].enr = attendance[j].enr =>
        IF attendance[i].date = NoDate /\ attendance[j].date = NoDate
        THEN attendance[i].month # attendance[j].month
        ELSE DaysOf(attendance[i]) \cap DaysOf(attendance[j]) = {}

-----------------------------------------------------------------------------
(* Properties *)

AttendanceTypes ==
    /\ almanac \subseteq AlmanacDay /\ attending \subseteq Enrolments /\ changes \in 0..MaxChanges
    /\ attendance \in Seq(Record) /\ flawed \subseteq DOMAIN attendance /\ crossed \in BOOLEAN
    /\ \A s \in Desks : desks[s].step \in {"idle", "valid", "checked"}

\* However requests overlap, and whatever date or label a PATCH sets or clears, no total
\* of the dashboards and pages counts a day of a student by two dated records, by a dated
\* and a period-level one, or by two of one label; nor do the attendance features of a
\* prediction, unless the student has records of both kinds.  (Two period-level records
\* under two labels are both counted: nothing tells that they are of one month.)
DaysCountedOnce ==
    /\ DisjointDays(SchoolSummed)
    /\ \A e \in Enrolments : DisjointDays(ClassSummed(e))
    /\ \A given \in SUBSET DOMAIN attendance : DisjointDays(PageSummed(given))
    /\ \A e \in Enrolments \ Mixed(DOMAIN attendance) : DisjointDays(FeatureSummed(e))

TouchedRecord(i) == i \notin DOMAIN attendance \/ attendance[i] # attendance'[i]

\* However requests overlap, a record that contradicts itself was found like that; and
\* while nothing changes under a request, one that was corrected stays correct.
NoNewContradiction ==
    \A i \in DOMAIN attendance' :
        \/ AddsUp(attendance'[i])
        \/ i \in flawed /\ (~crossed => ~AddsUp(attendance[i]))
ContradictionsAreOld == [][NoNewContradiction]_attendanceVars

\* A request writes about a day only when no entry of the calendar marks it as one
\* without attendance, while nothing changes under it.
WritesOnSchoolDay ==
    ~crossed => \A i \in DOMAIN attendance' : TouchedRecord(i) /\ attendance'[i].date # NoDate
                    => \A c \in almanac : c.date = attendance'[i].date => c.expected
OnSchoolDay == [][WritesOnSchoolDay]_attendanceVars

\* And only what is, before and after, a record of a current enrolment, unless its
\* user asked for history.
WritesCurrent ==
    ~crossed => \A i \in DOMAIN attendance' : TouchedRecord(i)
        => \/ \E s \in Desks : desks[s].step = "checked" /\ desks[s].all /\ desks'[s] = NotEncoding
           \/ /\ attendance'[i].enr \in attending
              /\ i \in DOMAIN attendance => attendance[i].enr \in attending
OnlyCurrent == [][WritesCurrent]_attendanceVars

\* However requests overlap, a class is encoded for a day as a whole or not at all.
WritesWholeClass ==
    \A s \in Desks : desks[s].step = "checked" /\ attendance' # attendance /\ desks'[s] = NotEncoding
      => \A p \in desks[s].items : \E i \in DOMAIN attendance' : attendance'[i] = p.row
WholeClass == [][WritesWholeClass]_attendanceVars
=============================================================================
