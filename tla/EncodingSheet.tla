---------------------------- MODULE EncodingSheet ----------------------------
(***************************************************************************)
(* A page on which a teacher or an administrator encodes one mark for each *)
(* student of a class: grades, attendance, or behaviour.  The filters, the *)
(* rows and the flags are the state of the React component; requests to    *)
(* load a class and to save the rows are under way while the user goes on  *)
(* clicking, and their answers arrive in any order.                        *)
(*                                                                         *)
(* One tab.  A filter is a class (year, grade level, section, and for      *)
(* grades the subject) and a period (quarter or semester; a date for       *)
(* attendance).                                                            *)
(***************************************************************************)
EXTENDS Naturals, Sequences, FiniteSets, Functions

CONSTANTS
    Sheets,     \* pages that may be open: the kind ("grades", "attendance", "behavior");
                \* does the user choose among the classes assigned to a teacher, not by
                \* selects; was the page opened with the class in its address; and two
                \* bounds: loads and saves asked for
    Classes, NoClass,
    Periods,    \* the first is what the page opens with
    Roster,     \* Roster[c]: the enrolments of class c
    Marks, NoMark,
    ListSize    \* records in one page of a list answer

Pupils == UNION {Roster[c] : c \in Classes}
Filters == [class: Classes \cup {NoClass}, period: Range(Periods)]

SheetConstants ==
    /\ Sheets \subseteq [kind: {"grades", "attendance", "behavior"}, teacher: BOOLEAN,
                         linked: BOOLEAN, loads: Nat, saves: Nat]
    /\ \A s \in Sheets : s.linked => s.kind = "grades"
    /\ NoClass \notin Classes /\ NoMark \notin Marks /\ Classes # {}
    /\ Periods \in Seq(Range(Periods)) /\ Periods # <<>> /\ ListSize \in Nat
    /\ \A c \in Classes : IsFiniteSet(Roster[c])

ASSUME SheetAssumption == SheetConstants

VARIABLES
    sheet,      \* the page, which never changes
    ready,      \* the reference lists have been loaded
    filters,    \* filters
    rows,       \* rows: student -> record id (0: none) and mark
    shown,      \* history: the filters rows were loaded for
    loadingClass,
    message,    \* error shown: "none", "incomplete" or "failed"
    classLoads, \* loads under way: number, filters, and the rows once answered
    asked,      \* loads asked for so far; the value of loadSequenceRef
    saving,     \* the save under way: {} or {request}
    saves,      \* saves asked for so far
    records     \* the table, in order of id: student, where it is filed, mark

sheetPage == <<filters, rows, shown, loadingClass, message>>
sheetVars == <<sheet, ready, sheetPage, classLoads, asked, saving, saves, records>>

\* What of the filters a record is filed under: its date, or the quarter and
\* (of a grade) the subject.
File(f) == IF sheet.kind = "grades" THEN <<f.class, f.period>> ELSE <<f.period>>

Files == {<<c, p>> : c \in Classes, p \in Range(Periods)} \cup {<<p>> : p \in Range(Periods)}

\* The class in the address.
LinkedClass == CHOOSE c \in Classes : TRUE

SheetInit ==
    /\ sheet \in Sheets /\ ready = FALSE
    /\ filters = [class |-> IF sheet.linked THEN LinkedClass ELSE NoClass,
                  period |-> Head(Periods)]
    /\ rows = <<>> /\ shown = [class |-> NoClass, period |-> Head(Periods)]
    /\ loadingClass = FALSE /\ message = "none"
    /\ classLoads = {} /\ asked = 0 /\ saving = {} /\ saves = 0 /\ records = <<>>

-----------------------------------------------------------------------------
(* The list endpoints and the bulk endpoint *)

\* Mutant: the enrolment of a record is not compared.
FiledAny(s, f) == {i \in DOMAIN records : records[i].file = f}

\* The records of student s that are filed under f.
Filed(s, f) == {i \in DOMAIN records : records[i].student = s /\ records[i].file = f}

\* The records an answer holds: attendance follows the pages, the other pages
\* keep the first, newest records first.
Listed(f) ==
    LET mine == {i \in DOMAIN records : records[i].file = f}
    IN  IF sheet.kind = "attendance" THEN mine
        ELSE {i \in mine : Cardinality({j \in mine : j > i}) < ListSize}

\* The rows built from the roster and the records.
ClassRows(f) ==
    [s \in Roster[f.class] |->
        LET mine == Filed(s, File(f)) \cap Listed(File(f))
        IN  IF mine = {} THEN [id |-> 0, mark |-> NoMark]
            ELSE LET i == CHOOSE k \in mine : \A j \in mine : k <= j
                 IN  [id |-> i, mark |-> records[i].mark]]

LatestOf(ids) == CHOOSE k \in ids : \A j \in ids : j <= k

\* The record an item of a bulk save is written to: one named by its id, whatever it was
\* filed under; without an id, grades and behaviour look for the newest of the key.  0: none.
Target(it) ==
    LET found == IF sheet.kind = "attendance" THEN {} ELSE Filed(it.student, it.file)
    IN  IF it.id # 0 THEN it.id ELSE IF found = {} THEN 0 ELSE LatestOf(found)

Stored(it) == [student |-> it.student, file |-> it.file, mark |-> it.mark]

\* The tables after a bulk save.  No two items are of one student, so none of them meets
\* what another one wrote; what is added comes in any order.
Bulk(items) ==
    LET kept == [i \in DOMAIN records |->
                   IF \E it \in items : Target(it) = i
                   THEN Stored(CHOOSE it \in items : Target(it) = i) ELSE records[i]]
        added == {Stored(it) : it \in {x \in items : Target(x) = 0}}
    IN  {kept \o new : new \in Injection(1..Cardinality(added), added)}

\* unique_together of attendance; that of the others holds a NULL.
Accepted(t) == sheet.kind = "attendance" =>
    \A i, j \in DOMAIN t : t[i].student = t[j].student /\ t[i].file = t[j].file => i = j

-----------------------------------------------------------------------------
(* Loading a class *)

\* Mutant: the reference with the number of the last load is not advanced.
LoadClassUncounted(f) ==
    IF f.class = NoClass
    THEN message' = "incomplete" /\ UNCHANGED <<loadingClass, classLoads, asked>>
    ELSE /\ classLoads = {} /\ asked' = asked
         /\ classLoads' = classLoads \cup {[n |-> asked + 1, of |-> f, rows |-> {}]}
         /\ loadingClass' = TRUE /\ message' = "none"

\* loadClassData(f), called with the filters the page will have.
LoadClass(f) ==
    IF f.class = NoClass
    THEN message' = "incomplete" /\ UNCHANGED <<loadingClass, classLoads, asked>>
    ELSE /\ asked < sheet.loads /\ asked' = asked + 1
         /\ classLoads' = classLoads \cup {[n |-> asked + 1, of |-> f, rows |-> {}]}
         /\ loadingClass' = TRUE /\ message' = "none"

\* The reference lists arrive; a page opened by a link loads its class, and a
\* teacher with assignments gets the first one (grades, attendance).
LoadReferences ==
    /\ ~ready /\ ready' = TRUE
    /\ \/ sheet.linked /\ LoadClass(filters) /\ UNCHANGED filters
       \/ /\ ~sheet.linked /\ sheet.teacher /\ sheet.kind # "behavior"
          /\ \E c \in Classes :
               LET f == [filters EXCEPT !.class = c] IN filters' = f /\ LoadClass(f)
       \/ /\ ~sheet.linked /\ (~sheet.teacher \/ sheet.kind = "behavior")
          /\ UNCHANGED <<filters, loadingClass, message, classLoads, asked>>
    /\ UNCHANGED <<sheet, rows, shown, saving, saves, records>>

\* Teachers choose a class and load it; administrators only set the selects.
ChooseClass(c) ==
    /\ ready /\ c # filters.class
    /\ LET f == [filters EXCEPT !.class = c]
       IN  /\ filters' = f
           /\ IF sheet.teacher THEN LoadClass(f)
              ELSE UNCHANGED <<loadingClass, message, classLoads, asked>>
    /\ UNCHANGED <<sheet, ready, rows, shown, saving, saves, records>>

\* A date loads the class; a quarter does not, unless the address names a class:
\* that class is loaded, whichever is chosen now.
ChooseFiling(p) ==
    /\ ready /\ p # filters.period
    /\ LET f == [filters EXCEPT !.period = p]
       IN  /\ filters' = f
           /\ IF sheet.linked THEN LoadClass([f EXCEPT !.class = LinkedClass])
              ELSE IF sheet.kind = "attendance" THEN LoadClass(f)
              ELSE UNCHANGED <<loadingClass, message, classLoads, asked>>
    /\ UNCHANGED <<sheet, ready, rows, shown, saving, saves, records>>

\* The button.  Attendance passes loadClassData itself as the handler, so its
\* argument is the click event, in which no class is chosen.
PressLoad ==
    /\ ready /\ ~loadingClass
    /\ sheet.kind = "grades" => filters.class # NoClass
    /\ LoadClass(IF sheet.kind = "attendance" THEN [filters EXCEPT !.class = NoClass]
                 ELSE filters)
    /\ UNCHANGED <<sheet, ready, filters, rows, shown, saving, saves, records>>

ServeLoad(l) ==
    /\ l.rows = {}
    /\ classLoads' = (classLoads \ {l}) \cup {[l EXCEPT !.rows = {ClassRows(l.of)}]}
    /\ UNCHANGED <<sheet, ready, sheetPage, asked, saving, saves, records>>

\* Mutant: the number of the load is not looked at.
CurrentAny(l) == TRUE

\* Attendance compares the number of the load with the last one asked for.
Current(l) == sheet.kind = "attendance" => l.n = asked

\* Mutant: the spinner is stopped by the answer that is shown, and an error is not.
EndLoadingShown(l) == loadingClass' = (loadingClass /\ l.rows = {})

\* finally: setLoadingClass(false)
EndLoading(l) == loadingClass' = FALSE

Arrive(l) ==
    /\ l.rows # {} /\ classLoads' = classLoads \ {l}
    /\ IF Current(l)
       THEN (\E r \in l.rows : rows' = r) /\ shown' = l.of /\ EndLoading(l)
       ELSE UNCHANGED <<rows, shown, loadingClass>>
    /\ UNCHANGED <<sheet, ready, filters, message, asked, saving, saves, records>>

LoadFails(l) ==
    /\ classLoads' = classLoads \ {l}
    /\ IF Current(l)
       THEN rows' = <<>> /\ shown' = l.of /\ message' = "failed" /\ EndLoading(l)
       ELSE UNCHANGED <<rows, shown, message, loadingClass>>
    /\ UNCHANGED <<sheet, ready, filters, asked, saving, saves, records>>

-----------------------------------------------------------------------------
(* Marks and saving *)

UpdateRow(s, m) ==
    /\ s \in DOMAIN rows /\ rows[s].mark # m
    /\ rows' = [rows EXCEPT ![s].mark = m]
    /\ UNCHANGED <<sheet, ready, filters, shown, loadingClass, message>>
    /\ UNCHANGED <<classLoads, asked, saving, saves, records>>

\* applyBulk: every row gets the mark, or none has one.
MarkAll(m) ==
    /\ sheet.kind = "attendance" /\ \E s \in DOMAIN rows : rows[s].mark # m
    /\ rows' = [s \in DOMAIN rows |-> [rows[s] EXCEPT !.mark = m]]
    /\ UNCHANGED <<sheet, ready, filters, shown, loadingClass, message>>
    /\ UNCHANGED <<classLoads, asked, saving, saves, records>>

\* handleSave: the rows as they are, under the filters as they are.
\* Attendance wants a mark in every row, the others send the marked rows.  A
\* second press while a save is under way is PeriodRecords' race.
SaveRows ==
    /\ saving = {} /\ saves < sheet.saves
    /\ LET marked == {s \in DOMAIN rows : rows[s].mark # NoMark}
       IN  /\ marked # {} /\ (sheet.kind = "attendance" => marked = DOMAIN rows)
           /\ filters.class # NoClass
           /\ saving' = {[at |-> filters, done |-> "sent",
                  items |-> {[id |-> rows[s].id, student |-> s, file |-> File(filters),
                              mark |-> rows[s].mark] : s \in marked}]}
    /\ saves' = saves + 1 /\ message' = "none"
    /\ UNCHANGED <<sheet, ready, filters, rows, shown, loadingClass, classLoads, asked, records>>

ServeSave ==
    /\ \E q \in saving :
         /\ q.done = "sent"
         /\ \E t \in Bulk(q.items) :
              IF Accepted(t)
              THEN records' = t /\ saving' = {[q EXCEPT !.done = "saved"]}
              ELSE records' = records /\ saving' = {[q EXCEPT !.done = "refused"]}
    /\ UNCHANGED <<sheet, ready, sheetPage, classLoads, asked, saves>>

\* The id the answer gives for student s.
SavedId(q, s) == LatestOf(Filed(s, File(q.at)))

\* Grades and attendance put the saved records into the rows there are now;
\* behaviour loads the class again, with the filters of the save.
ArriveSave ==
    /\ saving' = {}
    /\ \E q \in saving :
         \/ /\ q.done = "refused" /\ message' = "failed"
            /\ UNCHANGED <<rows, loadingClass, classLoads, asked>>
         \/ /\ q.done = "saved" /\ sheet.kind # "behavior"
            /\ LET saved == {it.student : it \in q.items}
               IN  rows' = [s \in DOMAIN rows |->
                      IF s \notin saved THEN rows[s]
                      ELSE [id |-> SavedId(q, s),
                            mark |-> IF sheet.kind = "grades" THEN records[SavedId(q, s)].mark
                                     ELSE rows[s].mark]]
            /\ UNCHANGED <<loadingClass, message, classLoads, asked>>
         \/ q.done = "saved" /\ sheet.kind = "behavior" /\ LoadClass(q.at) /\ UNCHANGED rows
    /\ UNCHANGED <<sheet, ready, filters, shown, saves, records>>

-----------------------------------------------------------------------------
Clicks ==
    \/ \E c \in Classes : ChooseClass(c)
    \/ \E p \in Range(Periods) : ChooseFiling(p)
    \/ PressLoad
    \/ \E s \in Pupils : \E m \in Marks : UpdateRow(s, m)
    \/ \E m \in Marks \cup {NoMark} : MarkAll(m)
    \/ SaveRows

Answers ==
    \/ LoadReferences
    \/ \E l \in classLoads : ServeLoad(l) \/ Arrive(l) \/ LoadFails(l)
    \/ ServeSave \/ ArriveSave

SheetNext == Clicks \/ Answers

SheetSpec == SheetInit /\ [][SheetNext]_sheetVars

-----------------------------------------------------------------------------
(* Properties *)

SheetRow == [id : Nat, mark : Marks \cup {NoMark}]
AreRows(r) == DOMAIN r \subseteq Pupils /\ \A s \in DOMAIN r : r[s] \in SheetRow
MarkedItem == [id : Nat, student : Pupils, file : Files, mark : Marks]
FiledMark == [student : Pupils, file : Files, mark : Marks]

SheetTypes ==
    /\ sheet \in Sheets /\ ready \in BOOLEAN /\ loadingClass \in BOOLEAN
    /\ filters \in Filters /\ shown \in Filters
    /\ message \in {"none", "incomplete", "failed"} /\ AreRows(rows)
    /\ asked \in 0..sheet.loads /\ saves \in 0..sheet.saves
    /\ \A l \in classLoads :
         l.n \in 1..asked /\ l.of \in Filters /\ \A r \in l.rows : AreRows(r)
    /\ records \in Seq(FiledMark)
    /\ \A q \in saving : q.done \in {"sent", "saved", "refused"} /\ q.items \subseteq MarkedItem

\* An id is of a record of its student, or none.
IsOf(i, s) == i # 0 => i \in DOMAIN records /\ records[i].student = s
OwnRows(r) == \A s \in DOMAIN r : IsOf(r[s].id, s)

\* However loads and saves are answered and whatever was chosen meanwhile, a row names the
\* record of its own student, and a save writes none of another's.
OwnRecords ==
    /\ OwnRows(rows) /\ \A l \in classLoads : \A r \in l.rows : OwnRows(r)
    /\ \A q \in saving : \A it \in q.items : IsOf(it.id, it.student)

\* When the attendance page stops loading, the rows are those of the last load asked for.
ShowsLatest ==
    sheet.kind = "attendance" /\ loadingClass /\ ~loadingClass' =>
        \A l \in classLoads : l.n = asked => shown' = l.of

\* Whatever the order of the answers, the attendance page is left with the rows of the
\* last load asked for, and every page with ids that are of the students in the rows.
LatestShown == [](SheetTypes /\ OwnRecords) /\ [][ShowsLatest]_sheetVars
=============================================================================
