--------------------------- MODULE Subjects_proofs ---------------------------
(***************************************************************************)
(* Theorems about Subjects for any grade levels, names, codes, teachers    *)
(* and sections, and any number of subjects and assignments.               *)
(***************************************************************************)
EXTENDS Subjects, TLAPS

-----------------------------------------------------------------------------
(* Requests *)

\* The statements that are left to write.
LEMMA TodoLists ==
    ASSUME NEW t \in Todo
    PROVE  /\ Len(t) \in {1, 2, 3}
           /\ Head(t) \in {"row", "grades", "first"}
           /\ Len(t) # 1 => Tail(t) \in Todo /\ Head(Tail(t)) \in {"grades", "first"}
           /\ Len(t) # 1 /\ Head(t) = "row" => Head(Tail(t)) = "grades"
           /\ Len(t) # 1 /\ Head(t) = "grades" => Tail(t) = <<"first">>
           /\ Head(t) = "first" => Len(t) = 1
<1>1. CASE t = <<"row">>
  BY <1>1
<1>2. CASE t = <<"row", "grades">>
  BY <1>2 DEF Todo
<1>3. CASE t = <<"row", "grades", "first">>
  BY <1>3 DEF Todo
<1>4. CASE t = <<"grades">>
  BY <1>4
<1>5. CASE t = <<"grades", "first">>
  BY <1>5 DEF Todo
<1>6. CASE t = <<"first">>
  BY <1>6
<1> QED
  BY <1>1, <1>2, <1>3, <1>4, <1>5, <1>6 DEF Todo

\* What a request has still to write, by its kind.
LEMMA RequestFields ==
    ASSUME NEW r \in Request
    PROVE  /\ r.op \in {"idle", "subject", "assign", "assignment"}
           /\ r.op = "idle" <=> r = Ready
           /\ r.op = "subject" =>
                r.id \in SubjectIds \cup {NoId} /\ r.row \in Subject /\ r.todo \in Todo
           /\ r.op = "assign" => r.rows \in SUBSET Assignment
           /\ r.op = "assignment" => r.id \in AssignmentIds /\ r.row \in Assignment
BY DEF Request, Ready

-----------------------------------------------------------------------------
(* The invariant *)

\* A row as GradesAgree and OnlySeniorHasStrand ask for it.
RowOK(r) ==
    /\ IF r.grades = {} THEN r.first = NoGrade ELSE r.first \in r.grades
    /\ ~LevelsMove /\ r.strand # NoStrand => GradesOf(r) \subseteq senior

Apart(r, q) == r.active => ~SameSubject(r, q) /\ (~LevelsMove => ~SameCode(r, q))

InOrder(t) ==
    /\ \A i \in SubjectIds : \A r \in t[i] : RowOK(r)
    /\ \A i, j \in SubjectIds : i # j => \A r \in t[i], q \in t[j] : Apart(r, q)

\* The request in slot s saves a subject, and has not written its row yet, or has.
Before(s) == req[s].op = "subject" /\ Head(req[s].todo) = "row"
Halfway(s) == req[s].op = "subject" /\ Head(req[s].todo) # "row"

\* The catalogue when row r is written.
Put(i, r) == [subjects EXCEPT ![i] = {r}]

\* What is going to be written is in order with the rows of the others.
BeforeOK(r, i, todo) ==
    /\ RowOK(r)
    /\ \A j \in SubjectIds \ {i} : \A q \in subjects[j] : Apart(r, q)
    /\ i = NoId => Len(todo) # 1
    /\ i # NoId /\ Len(todo) = 1 => \E q \in subjects[i] : q.grades = r.grades

\* What is written so far differs in the list only, and then not at all.
HalfwayOK(r, i, todo) ==
    /\ i \in SubjectIds
    /\ InOrder(Put(i, r))
    /\ \E q \in subjects[i] :
         [q EXCEPT !.grades = r.grades] = r /\ (Head(todo) = "first" => q = r)

CatalogueOK ==
    /\ (\A s \in Workers : ~Halfway(s)) => InOrder(subjects)
    /\ \A s \in Workers :
         /\ Before(s) => BeforeOK(req[s].row, req[s].id, req[s].todo)
         /\ Halfway(s) => HalfwayOK(req[s].row, req[s].id, req[s].todo)

\* What a request is going to give fits.
NewFits(a) == \E q \in subjects[a.subject] : q.active /\ Fits(q, a.section)

\* ... and so does what it changes, as far as it gives it anew.
ChangeFits(a, i) ==
    \E old \in assignments[i] : \E q \in subjects[a.subject] :
        /\ a.subject # old.subject \/ (a.active /\ ~old.active) => q.active
        /\ a.subject # old.subject \/ a.section # old.section \/ (a.active /\ ~old.active)
             => Fits(q, a.section)

GivingOK ==
    /\ \A i \in AssignmentIds : \A a \in assignments[i] : subjects[a.subject] # {}
    /\ \A s \in Workers :
         /\ req[s].op = "assign" => \A a \in req[s].rows : NewFits(a)
         /\ req[s].op = "assignment" => ChangeFits(req[s].row, req[s].id)

\* Nobody has been given yet what request r is going to give, and r gives it once.
NotGiven(r) ==
    /\ r.op = "assign" =>
         /\ \A a \in r.rows : ~Exists(a, NoId)
         /\ \A a, b \in r.rows : SameContext(a, b) => a = b
    /\ r.op = "assignment" => ~Exists(r.row, r.id)

GivenOnce == AssignedOnce /\ \A s \in Workers : NotGiven(req[s])

IndInv ==
    /\ SubjectTypes
    /\ ~overlapped => GivenOnce
    /\ OneAtATime /\ ~Crashes => CatalogueOK
    /\ OneAtATime => GivingOK

-----------------------------------------------------------------------------
(* Rows and tables *)

\* A key has one row or none.
LEMMA OneRow ==
    ASSUME NEW ids, NEW R, NEW t \in Table(ids, R), NEW i \in ids
    PROVE  t[i] = {} \/ \E r \in R : t[i] = {r}
BY DEF Table

\* So it stays when a key gets a row.
LEMMA TableStays ==
    ASSUME NEW ids, NEW R, NEW t \in Table(ids, R), NEW i, NEW v,
           v = {} \/ \E r \in R : v = {r}
    PROVE  [t EXCEPT ![i] = v] \in Table(ids, R)
BY DEF Table

\* Two rows in order are apart in both directions.
LEMMA ApartBothWays ==
    ASSUME NEW r, NEW q, RowOK(r), RowOK(q), Apart(r, q)
    PROVE  Apart(q, r)
<1>1. NoGrade \notin Grades
  BY SubjectAssumption DEF SubjectConstants
<1>2. GradesOf(r) \cap Mapped(q) = Mapped(r) \cap GradesOf(q)
  BY DEF RowOK, GradesOf, Mapped
<1> QED
  BY <1>2 DEF Apart, SameSubject, SameCode

\* A row that is apart from the others is written in order.
LEMMA PutInOrder ==
    ASSUME subjects \in Table(SubjectIds, Subject), InOrder(subjects),
           NEW i \in SubjectIds, NEW r, RowOK(r),
           \A j \in SubjectIds \ {i} : \A q \in subjects[j] : Apart(r, q)
    PROVE  InOrder(Put(i, r))
<1>1. \A x \in SubjectIds : Put(i, r)[x] = IF x = i THEN {r} ELSE subjects[x]
  BY DEF Put, Table
<1>2. \A x \in SubjectIds : \A q \in Put(i, r)[x] : RowOK(q)
  BY <1>1 DEF InOrder
<1>3. ASSUME NEW x \in SubjectIds, NEW y \in SubjectIds, x # y,
             NEW p \in Put(i, r)[x], NEW q \in Put(i, r)[y]
      PROVE  Apart(p, q)
  <2>1. CASE x = i
    BY <2>1, <1>1, <1>3
  <2>2. CASE y = i
    <3>1. q = r /\ p \in subjects[x] /\ x \in SubjectIds \ {i}
      BY <2>2, <1>1, <1>3
    <3> QED
      BY <3>1, ApartBothWays DEF InOrder
  <2>3. CASE x # i /\ y # i
    BY <2>3, <1>1, <1>3 DEF InOrder
  <2> QED
    BY <2>1, <2>2, <2>3
<1> QED
  BY <1>2, <1>3 DEF InOrder

\* A step that moves no level judges rows as before,
LEMMA SameRows ==
    ASSUME ~LevelsMove => senior' = senior
    PROVE  /\ \A r : RowOK(r)' <=> RowOK(r)
           /\ \A r, q : Apart(r, q)' <=> Apart(r, q)
<1>1. CASE LevelsMove
  BY <1>1 DEF RowOK, Apart, SameSubject, Mapped, GradesOf
<1>2. CASE ~LevelsMove
  BY <1>2 DEF RowOK, Apart, SameSubject, SameCode, Mapped, GradesOf
<1> QED
  BY <1>1, <1>2

\* and if it writes no subject either, requests too.
LEMMA SameCatalogue ==
    ASSUME ~LevelsMove => senior' = senior, subjects' = subjects
    PROVE  /\ InOrder(subjects)' <=> InOrder(subjects)
           /\ \A r, i, t : BeforeOK(r, i, t)' <=> BeforeOK(r, i, t)
           /\ \A r, i, t : HalfwayOK(r, i, t)' <=> HalfwayOK(r, i, t)
<1>1. /\ \A r : RowOK(r)' <=> RowOK(r)
      /\ \A r, q : Apart(r, q)' <=> Apart(r, q)
  BY SameRows
<1>2. InOrder(subjects)' <=> InOrder(subjects)
  BY <1>1 DEF InOrder
<1>3. \A r, i : InOrder(Put(i, r))' <=> InOrder(Put(i, r))
  BY <1>1 DEF InOrder, Put
<1>4. \A r, i, t : BeforeOK(r, i, t)' <=> BeforeOK(r, i, t)
  BY <1>1 DEF BeforeOK
<1> QED
  BY <1>2, <1>3, <1>4 DEF HalfwayOK

-----------------------------------------------------------------------------
(* Requests begin and end *)

\* The request in slot s becomes r, which is in order.
LEMMA RequestBecomes ==
    ASSUME IndInv, NEW s \in Workers, NEW r \in Request, req' = [req EXCEPT ![s] = r],
           UNCHANGED <<subjects, assignments, senior, inUse, overlapped>>, NotGiven(r),
           OneAtATime /\ ~Crashes => ~Halfway(s),
           OneAtATime /\ ~Crashes /\ r.op = "subject" =>
               Head(r.todo) = "row" /\ BeforeOK(r.row, r.id, r.todo),
           OneAtATime /\ r.op = "assign" => \A a \in r.rows : NewFits(a),
           OneAtATime /\ r.op = "assignment" => ChangeFits(r.row, r.id)
    PROVE  IndInv'
<1>1. req \in [Workers -> Request] /\ req' \in [Workers -> Request] /\ req'[s] = r
  BY DEF IndInv, SubjectTypes
<1>2. SubjectTypes' /\ (~overlapped => GivenOnce)'
  <2>1. SubjectTypes'
    BY <1>1 DEF IndInv, SubjectTypes, Table
  <2>2. overlapped' = overlapped /\ AssignedOnce' = AssignedOnce
    BY DEF AssignedOnce
  <2>3. \A q : NotGiven(q)' <=> NotGiven(q)
    BY DEF NotGiven, Exists
  <2>4. ASSUME ~overlapped, NEW x \in Workers PROVE NotGiven(req'[x])
    BY <1>1, <2>4 DEF IndInv, GivenOnce
  <2> QED
    BY <2>1, <2>2, <2>3, <2>4 DEF IndInv, GivenOnce
<1>3. ASSUME OneAtATime, ~Crashes PROVE CatalogueOK'
  <2>1. \A x \in Workers : x = s
    BY <1>3 DEF OneAtATime
  <2>2. CatalogueOK /\ ~Halfway(s)
    BY <1>3 DEF IndInv
  <2>3. InOrder(subjects)
    BY <2>1, <2>2 DEF CatalogueOK
  <2>4. ~Halfway(s)'
    BY <1>1, <1>3 DEF Halfway
  <2>5. Before(s)' => BeforeOK(r.row, r.id, r.todo)
    BY <1>1, <1>3 DEF Before
  <2> QED
    BY <1>1, <2>1, <2>3, <2>4, <2>5, SameCatalogue DEF CatalogueOK
<1>4. ASSUME OneAtATime PROVE GivingOK'
  <2>1. \A x \in Workers : x = s
    BY <1>4 DEF OneAtATime
  <2> QED
    BY <1>1, <1>4, <2>1 DEF IndInv, GivingOK, NewFits, ChangeFits, Fits
<1>5. OneAtATime' = OneAtATime
  BY DEF OneAtATime
<1> QED
  BY <1>2, <1>3, <1>4, <1>5 DEF IndInv

LEMMA ReadyRequest == Ready \in Request /\ Ready.op = "idle"
BY DEF Ready, Request

\* A request that starts writes nothing before.
LEMMA ReadyBefore ==
    ASSUME NEW s \in Workers, NEW r, Start(s, r)
    PROVE  ~Halfway(s)
BY ReadyRequest DEF Start, Halfway

\* What validation accepts is in order with the rows of the others.
LEMMA ValidInOrder ==
    ASSUME NEW r, NEW i, ValidSubject(r, i),
           IF r.grades = {} THEN r.first = NoGrade ELSE r.first \in r.grades
    PROVE  /\ RowOK(r)
           /\ \A j \in SubjectIds \ {i} : \A q \in subjects[j] : Apart(r, q)
<1>1. r.strand # NoStrand => GradesOf(r) \subseteq senior
  BY DEF ValidSubject, GradesOf, Mapped
<1> QED
  BY <1>1 DEF RowOK, ValidSubject, Distinct, Apart

LEMMA PostSubjectOK ==
    ASSUME IndInv, NEW s \in Workers, PostSubject(s)
    PROVE  IndInv'
<1>1. PICK r \in Subject :
        /\ Resolved(r) /\ ValidSubject(r, NoId)
        /\ Start(s, [op |-> "subject", id |-> NoId, row |-> r, todo |-> <<"row", "grades">>])
  BY DEF PostSubject
<1> DEFINE b == [op |-> "subject", id |-> NoId, row |-> r, todo |-> <<"row", "grades">>]
<1>2. b \in Request
  BY DEF Request, Todo
<1>3. /\ b.op = "subject" /\ b.id = NoId /\ b.row = r /\ Len(b.todo) = 2
      /\ Head(b.todo) = "row"
  OBVIOUS
<1>4. Start(s, b)
  BY <1>1
<1> HIDE DEF b
<1>5. BeforeOK(b.row, b.id, b.todo)
  BY <1>1, <1>3, ValidInOrder DEF BeforeOK, Resolved
<1>6. ~Halfway(s) /\ NotGiven(b)
  BY <1>3, <1>4, ReadyBefore DEF NotGiven
<1> QED
  BY <1>2, <1>3, <1>4, <1>5, <1>6, RequestBecomes DEF Start

LEMMA PatchSubjectOK ==
    ASSUME IndInv, NEW s \in Workers, PatchSubject(s)
    PROVE  IndInv'
<1>1. PICK i \in SubjectIds, r \in Subject : \E old \in subjects[i] :
        /\ ValidSubject(r, i)
        /\ \/ /\ r.grades = old.grades /\ r.first = old.first
              /\ Start(s, [op |-> "subject", id |-> i, row |-> r, todo |-> <<"row">>])
           \/ /\ Resolved(r)
              /\ Start(s, [op |-> "subject", id |-> i, row |-> r,
                           todo |-> <<"row", "grades", "first">>])
  BY DEF PatchSubject
<1>2. i # NoId
  BY SubjectAssumption DEF SubjectConstants
<1>3. CASE /\ Resolved(r) /\ ValidSubject(r, i)
           /\ Start(s, [op |-> "subject", id |-> i, row |-> r,
                        todo |-> <<"row", "grades", "first">>])
  <2> DEFINE b == [op |-> "subject", id |-> i, row |-> r, todo |-> <<"row", "grades", "first">>]
  <2>1. b \in Request
    BY DEF Request, Todo
  <2>2. /\ b.op = "subject" /\ b.id = i /\ b.row = r /\ Len(b.todo) = 3
        /\ Head(b.todo) = "row"
    OBVIOUS
  <2>3. Start(s, b)
    BY <1>3
  <2> HIDE DEF b
  <2>4. BeforeOK(b.row, b.id, b.todo)
    BY <1>2, <1>3, <2>2, ValidInOrder DEF BeforeOK, Resolved
  <2>5. ~Halfway(s) /\ NotGiven(b)
    BY <2>2, <2>3, ReadyBefore DEF NotGiven
  <2> QED
    BY <2>1, <2>2, <2>3, <2>4, <2>5, RequestBecomes DEF Start
<1>4. ASSUME NEW old \in subjects[i], r.grades = old.grades, r.first = old.first,
             ValidSubject(r, i),
             Start(s, [op |-> "subject", id |-> i, row |-> r, todo |-> <<"row">>])
      PROVE  IndInv'
  <2> DEFINE b == [op |-> "subject", id |-> i, row |-> r, todo |-> <<"row">>]
  <2>1. b \in Request
    BY DEF Request, Todo
  <2>2. /\ b.op = "subject" /\ b.id = i /\ b.row = r /\ Len(b.todo) = 1
        /\ Head(b.todo) = "row"
    OBVIOUS
  <2>3. Start(s, b)
    BY <1>4
  <2> HIDE DEF b
  <2>4. ~Halfway(s) /\ NotGiven(b)
    BY <2>2, <2>3, ReadyBefore DEF NotGiven
  <2>5. ASSUME OneAtATime, ~Crashes PROVE BeforeOK(b.row, b.id, b.todo)
    <3>1. InOrder(subjects)
      BY <2>4, <2>5 DEF IndInv, CatalogueOK, OneAtATime
    <3>2. RowOK(old)
      BY <3>1, <1>4 DEF InOrder
    <3> QED
      BY <1>2, <1>4, <2>2, <3>2, ValidInOrder DEF BeforeOK, RowOK
  <2> QED
    BY <2>1, <2>2, <2>3, <2>4, <2>5, RequestBecomes DEF Start
<1> QED
  BY <1>1, <1>3, <1>4

LEMMA PostAssignmentsOK ==
    ASSUME IndInv, NEW s \in Workers, PostAssignments(s)
    PROVE  IndInv'
<1>1. PICK t \in Teachers, c \in Sections, qs \in SUBSET SubjectIds, v \in BOOLEAN :
        LET rows == {[teacher |-> t, section |-> c, subject |-> q, active |-> v] : q \in qs} IN
        /\ qs # {} /\ \A a \in rows : ValidNew(a)
        /\ Start(s, [op |-> "assign", rows |-> rows])
  BY DEF PostAssignments
<1> DEFINE rows == {[teacher |-> t, section |-> c, subject |-> q, active |-> v] : q \in qs}
           b == [op |-> "assign", rows |-> rows]
<1>2. rows \in SUBSET Assignment
  BY DEF Assignment
<1>3. Start(s, b) /\ \A a \in rows : NewFits(a) /\ ~Exists(a, NoId)
  BY <1>1 DEF ValidNew, NewFits
<1>6. \A a, d \in rows : SameContext(a, d) => a = d
  BY DEF SameContext
<1> HIDE DEF rows
<1>4. b \in Request /\ b.op = "assign" /\ b.rows = rows
  BY <1>2 DEF Request
<1> HIDE DEF b
<1>5. ~Halfway(s) /\ NotGiven(b)
  BY <1>3, <1>4, <1>6, ReadyBefore DEF NotGiven
<1> QED
  BY <1>3, <1>4, <1>5, RequestBecomes DEF Start

LEMMA PatchAssignmentOK ==
    ASSUME IndInv, NEW s \in Workers, PatchAssignment(s)
    PROVE  IndInv'
<1>1. PICK i \in AssignmentIds, a \in Assignment :
        ValidChange(a, i) /\ Start(s, [op |-> "assignment", id |-> i, row |-> a])
  BY DEF PatchAssignment
<1> DEFINE b == [op |-> "assignment", id |-> i, row |-> a]
<1>2. b \in Request /\ b.op = "assignment" /\ b.row = a /\ b.id = i
  BY DEF Request
<1>3. Start(s, b)
  BY <1>1
<1> HIDE DEF b
<1>4. ChangeFits(a, i) /\ ~Exists(a, i)
  BY <1>1 DEF ValidChange, ChangeFits
<1>5. ~Halfway(s) /\ NotGiven(b)
  BY <1>2, <1>3, <1>4, ReadyBefore DEF NotGiven
<1> QED
  BY <1>2, <1>3, <1>4, <1>5, RequestBecomes DEF Start

\* A request that fails between two statements is a crash.
LEMMA AbandonOK ==
    ASSUME IndInv, NEW s \in Workers, Abandon(s)
    PROVE  IndInv'
<1>1. (~Crashes => ~Halfway(s)) /\ NotGiven(Ready)
  BY ReadyRequest DEF Abandon, Halfway, NotGiven
<1> QED
  BY <1>1, ReadyRequest, RequestBecomes DEF Abandon

-----------------------------------------------------------------------------
(* A subject is saved *)

\* The rest of the statements, or none.
LEMMA WroteRequest ==
    ASSUME IndInv, NEW s \in Workers, req[s].op = "subject",
           NEW i \in SubjectIds \cup {NoId}, Wrote(s, i)
    PROVE  /\ req' \in [Workers -> Request]
           /\ \A x \in Workers : x # s => req'[x] = req[x]
           /\ Len(req[s].todo) = 1 => req'[s] = Ready
           /\ Len(req[s].todo) # 1 =>
                /\ req'[s].op = "subject" /\ req'[s].id = i /\ req'[s].row = req[s].row
                /\ req'[s].todo = Tail(req[s].todo)
<1>1. req \in [Workers -> Request] /\ req[s] \in Request
  BY DEF IndInv, SubjectTypes
<1>2. req[s].row \in Subject /\ req[s].todo \in Todo
  BY <1>1, RequestFields
<1> DEFINE rest == [op |-> "subject", id |-> i, row |-> req[s].row, todo |-> Tail(req[s].todo)]
<1>3. req' = [req EXCEPT ![s] = IF Len(req[s].todo) = 1 THEN Ready ELSE rest]
  BY DEF Wrote
<1>4. Len(req[s].todo) # 1 => rest \in Request
  BY <1>2, TodoLists DEF Request
<1>5. rest.op = "subject" /\ rest.id = i /\ rest.row = req[s].row /\ rest.todo = Tail(req[s].todo)
  OBVIOUS
<1> HIDE DEF rest
<1> QED
  BY <1>1, <1>3, <1>4, <1>5, ReadyRequest

\* Steps of a request that saves a subject leave assignments in order, as no subject
\* disappears and nothing is given meanwhile.
LEMMA GivingStays ==
    ASSUME IndInv, OneAtATime, NEW s \in Workers, req'[s].op \in {"idle", "subject"},
           assignments' = assignments,
           \A i \in SubjectIds : subjects[i] # {} => subjects'[i] # {}
    PROVE  GivingOK'
<1>1. \A x \in Workers : x = s
  BY DEF OneAtATime
<1>2. \A i \in AssignmentIds : \A a \in assignments[i] : a \in Assignment
  BY OneRow DEF IndInv, SubjectTypes
<1>3. \A a \in Assignment : a.subject \in SubjectIds
  BY DEF Assignment
<1> QED
  BY <1>1, <1>2, <1>3 DEF IndInv, GivingOK

\* What remains of the invariant.
LEMMA SubjectSaved ==
    ASSUME IndInv, NEW s \in Workers, req' \in [Workers -> Request],
           req'[s].op \in {"idle", "subject"}, \A x \in Workers : x # s => req'[x] = req[x],
           UNCHANGED <<assignments, senior, inUse, overlapped>>,
           subjects' \in Table(SubjectIds, Subject),
           \A i \in SubjectIds : subjects[i] # {} => subjects'[i] # {},
           OneAtATime /\ ~Crashes => CatalogueOK'
    PROVE  IndInv'
<1>1. SubjectTypes' /\ (~overlapped => GivenOnce)'
  <2>1. SubjectTypes'
    BY DEF IndInv, SubjectTypes, Table
  <2>2. overlapped' = overlapped /\ AssignedOnce' = AssignedOnce
    BY DEF AssignedOnce
  <2>3. \A q : NotGiven(q)' <=> NotGiven(q)
    BY DEF NotGiven, Exists
  <2>4. ASSUME ~overlapped, NEW x \in Workers PROVE NotGiven(req'[x])
    BY <2>4 DEF IndInv, GivenOnce, NotGiven
  <2> QED
    BY <2>1, <2>2, <2>3, <2>4 DEF IndInv, GivenOnce
<1>2. OneAtATime => GivingOK'
  BY GivingStays
<1>3. OneAtATime' = OneAtATime
  BY DEF OneAtATime
<1> QED
  BY <1>1, <1>2, <1>3 DEF IndInv

\* The catalogue of a request that is alone: its subject is written, or on the way.
LEMMA CatalogueBecomes ==
    ASSUME OneAtATime, NEW s \in Workers, senior' = senior, NEW i \in SubjectIds, NEW r,
           InOrder(Put(i, r)),
           \/ req'[s] = Ready /\ subjects' = Put(i, r)
           \/ /\ req'[s].op = "subject" /\ Head(req'[s].todo) # "row"
              /\ req'[s].id = i /\ req'[s].row = r
              /\ Put(i, r)' = Put(i, r)
              /\ \E q \in subjects'[i] :
                   [q EXCEPT !.grades = r.grades] = r /\ (Head(req'[s].todo) = "first" => q = r)
    PROVE  CatalogueOK'
<1>1. \A x \in Workers : x = s
  BY DEF OneAtATime
<1>2. InOrder(Put(i, r))' <=> \* of the table as it was
        /\ \A x \in SubjectIds : \A q \in Put(i, r)'[x] : RowOK(q)
        /\ \A x, y \in SubjectIds : x # y => \A p \in Put(i, r)'[x], q \in Put(i, r)'[y] : Apart(p, q)
  BY SameRows DEF InOrder
<1>3. CASE req'[s] = Ready /\ subjects' = Put(i, r)
  <2>1. ~Halfway(s)' /\ ~Before(s)'
    BY <1>3, ReadyRequest DEF Halfway, Before
  <2>2. InOrder(subjects)'
    BY <1>3, SameRows DEF InOrder
  <2> QED
    BY <1>1, <2>1, <2>2 DEF CatalogueOK
<1>4. CASE /\ req'[s].op = "subject" /\ Head(req'[s].todo) # "row"
           /\ req'[s].id = i /\ req'[s].row = r
           /\ Put(i, r)' = Put(i, r)
           /\ \E q \in subjects'[i] :
                [q EXCEPT !.grades = r.grades] = r /\ (Head(req'[s].todo) = "first" => q = r)
  <2>1. Halfway(s)' /\ ~Before(s)'
    BY <1>4 DEF Halfway, Before
  <2>2. InOrder(Put(i, r))'
    BY <1>2, <1>4 DEF InOrder
  <2>3. HalfwayOK(req[s].row, req[s].id, req[s].todo)'
    BY <1>4, <2>2 DEF HalfwayOK
  <2> QED
    BY <1>1, <2>1, <2>3 DEF CatalogueOK
<1> QED
  BY <1>3, <1>4

\* The row: with the list it had, none for a new subject.
LEMMA SaveSubjectRowOK ==
    ASSUME IndInv, NEW s \in Workers, SaveSubjectRow(s)
    PROVE  IndInv'
<1>0. PICK r, todo : r = req[s].row /\ todo = req[s].todo
  OBVIOUS
<1>1. PICK i \in SubjectIds :
         /\ IF req[s].id = NoId THEN subjects[i] = {} ELSE i = req[s].id
         /\ subjects' = [subjects EXCEPT ![i] =
              {[r EXCEPT !.grades = UNION {q.grades : q \in subjects[i]}]}]
         /\ Wrote(s, i)
  BY <1>0 DEF SaveSubjectRow
<1>2. Before(s) /\ UNCHANGED <<assignments, senior, inUse, overlapped>>
  BY DEF SaveSubjectRow, ToWrite, Before
<1>3. subjects \in Table(SubjectIds, Subject) /\ req[s] \in Request
  BY DEF IndInv, SubjectTypes
<1>4. req[s].op = "subject" /\ r \in Subject /\ todo \in Todo /\ Head(todo) = "row"
  BY <1>0, <1>2, <1>3, RequestFields DEF Before
<1> DEFINE v == [r EXCEPT !.grades = UNION {q.grades : q \in subjects[i]}]
<1>5. UNION {q.grades : q \in subjects[i]} \in SUBSET Grades
  <2>1. \A q \in subjects[i] : q \in Subject
    BY <1>3, OneRow
  <2> QED
    BY <2>1 DEF Subject
<1>6. v \in Subject /\ [v EXCEPT !.grades = r.grades] = r
  BY <1>4, <1>5 DEF Subject
<1>7. \A q \in subjects[i] : q.grades = r.grades => v = r
  <2> SUFFICES ASSUME NEW q \in subjects[i], q.grades = r.grades PROVE v = r
    OBVIOUS
  <2>1. subjects[i] = {q}
    BY <1>3, OneRow
  <2>2. UNION {p.grades : p \in subjects[i]} = r.grades
    BY <2>1
  <2> QED
    BY <1>4, <2>2 DEF Subject
<1>8. subjects' = [subjects EXCEPT ![i] = {v}]
  BY <1>1
<1> HIDE DEF v
<1>9. subjects' \in Table(SubjectIds, Subject) /\ subjects'[i] = {v}
  BY <1>3, <1>6, <1>8, TableStays DEF Table
<1>10. /\ req' \in [Workers -> Request]
       /\ \A x \in Workers : x # s => req'[x] = req[x]
       /\ Len(todo) = 1 => req'[s] = Ready
       /\ Len(todo) # 1 =>
            req'[s].op = "subject" /\ req'[s].id = i /\ req'[s].row = r /\ req'[s].todo = Tail(todo)
  BY <1>0, <1>1, <1>4, WroteRequest
<1>11. \A x \in SubjectIds : subjects[x] # {} => subjects'[x] # {}
  BY <1>3, <1>8 DEF Table
<1>12. req'[s].op \in {"idle", "subject"}
  BY <1>10, ReadyRequest
<1>13. ASSUME OneAtATime, ~Crashes PROVE CatalogueOK'
  <2>1. BeforeOK(r, req[s].id, todo) /\ InOrder(subjects)
    BY <1>0, <1>2, <1>13 DEF IndInv, CatalogueOK, OneAtATime, Before, Halfway
  <2>2. \A j \in SubjectIds \ {i} : \A q \in subjects[j] : Apart(r, q)
    BY <1>1, <2>1, SubjectAssumption DEF BeforeOK, SubjectConstants
  <2>3. InOrder(Put(i, r))
    BY <1>3, <2>1, <2>2, PutInOrder DEF BeforeOK
  <2>4. CASE Len(todo) = 1
    <3>1. v = r
      BY <1>1, <1>7, <2>1, <2>4 DEF BeforeOK
    <3> QED
      BY <1>2, <1>8, <1>10, <1>13, <2>3, <2>4, <3>1, CatalogueBecomes DEF Put
  <2>5. CASE Len(todo) # 1
    <3>1. Head(Tail(todo)) = "grades"
      BY <1>4, <2>5, TodoLists
    <3>2. Put(i, r)' = Put(i, r)
      BY <1>3, <1>8 DEF Put, Table
    <3>3. \E q \in subjects'[i] :
            [q EXCEPT !.grades = r.grades] = r /\ (Head(req'[s].todo) = "first" => q = r)
      BY <1>6, <1>9, <1>10, <2>5, <3>1
    <3> QED
      BY <1>2, <1>10, <1>13, <2>3, <2>5, <3>1, <3>2, <3>3, CatalogueBecomes
  <2> QED
    BY <2>4, <2>5
<1> QED
  BY <1>2, <1>9, <1>10, <1>11, <1>12, <1>13, SubjectSaved

\* The list, and the column again: what is in the table becomes what was validated.
LEMMA RestSaved ==
    ASSUME IndInv, NEW s \in Workers, Halfway(s), UNCHANGED <<assignments, senior, inUse, overlapped>>,
           NEW r, NEW todo, NEW i, req[s].row = r, req[s].todo = todo, req[s].id = i,
           Wrote(s, i),
           subjects' \in Table(SubjectIds, Subject),
           \A x \in SubjectIds : subjects[x] # {} => subjects'[x] # {},
           HalfwayOK(r, i, todo) => subjects' = Put(i, r)
    PROVE  IndInv'
<1>1. req[s] \in Request /\ subjects \in Table(SubjectIds, Subject)
  BY DEF IndInv, SubjectTypes
<1>2. req[s].op = "subject" /\ r \in Subject /\ todo \in Todo /\ i \in SubjectIds \cup {NoId}
  BY <1>1, RequestFields DEF Halfway
<1>3. /\ req' \in [Workers -> Request]
      /\ \A x \in Workers : x # s => req'[x] = req[x]
      /\ Len(todo) = 1 => req'[s] = Ready
      /\ Len(todo) # 1 =>
           req'[s].op = "subject" /\ req'[s].id = i /\ req'[s].row = r /\ req'[s].todo = Tail(todo)
  BY <1>2, WroteRequest
<1>4. req'[s].op \in {"idle", "subject"}
  BY <1>3, ReadyRequest
<1>5. ASSUME OneAtATime, ~Crashes PROVE CatalogueOK'
  <2>1. HalfwayOK(r, i, todo)
    BY <1>5 DEF IndInv, CatalogueOK
  <2>2. i \in SubjectIds /\ InOrder(Put(i, r)) /\ subjects' = Put(i, r)
    BY <2>1 DEF HalfwayOK
  <2>3. Put(i, r)' = Put(i, r) /\ subjects'[i] = {r}
    BY <1>1, <2>2 DEF Put, Table
  <2>4. [r EXCEPT !.grades = r.grades] = r
    BY <1>2 DEF Subject
  <2>5. Len(todo) # 1 => Head(Tail(todo)) # "row"
    BY <1>2, TodoLists
  <2> QED
    BY <1>3, <1>5, <2>2, <2>3, <2>4, <2>5, CatalogueBecomes
<1> QED
  BY <1>3, <1>4, <1>5, SubjectSaved

LEMMA SaveSubjectGradesOK ==
    ASSUME IndInv, NEW s \in Workers, SaveSubjectGrades(s)
    PROVE  IndInv'
<1>0. PICK r, todo, i : r = req[s].row /\ todo = req[s].todo /\ i = req[s].id
  OBVIOUS
<1>1. /\ Halfway(s) /\ Head(todo) = "grades" /\ Wrote(s, i)
      /\ subjects' = [subjects EXCEPT ![i] = {[q EXCEPT !.grades = r.grades] : q \in @}]
      /\ UNCHANGED <<assignments, senior, inUse, overlapped>>
  BY <1>0 DEF SaveSubjectGrades, ToWrite, Halfway
<1>2. subjects \in Table(SubjectIds, Subject) /\ req[s] \in Request
  BY DEF IndInv, SubjectTypes
<1>3. r \in Subject
  BY <1>0, <1>1, <1>2, RequestFields DEF Halfway
<1>4. \A x \in SubjectIds :
        subjects'[x] = IF x = i THEN {[q EXCEPT !.grades = r.grades] : q \in subjects[x]} ELSE subjects[x]
  BY <1>1, <1>2 DEF Table
<1>5. \A q \in Subject : [q EXCEPT !.grades = r.grades] \in Subject
  BY <1>3 DEF Subject
<1>6. ASSUME NEW x \in SubjectIds
      PROVE  \/ subjects'[x] = {} /\ subjects[x] = {}
             \/ \E q \in Subject : subjects'[x] = {q} /\ subjects[x] # {}
  <2>1. CASE subjects[x] = {}
    BY <1>4, <2>1
  <2>2. ASSUME NEW q \in Subject, subjects[x] = {q} PROVE \E p \in Subject : subjects'[x] = {p}
    <3> DEFINE p == [q EXCEPT !.grades = r.grades]
    <3>1. p \in Subject /\ {[y EXCEPT !.grades = r.grades] : y \in {q}} = {p}
      BY <1>5
    <3>2. subjects'[x] = {p} \/ subjects'[x] = {q}
      BY <1>4, <2>2, <3>1
    <3> HIDE DEF p
    <3> QED
      BY <2>2, <3>1, <3>2
  <2> QED
    BY <1>2, <2>1, <2>2, OneRow
<1>7. DOMAIN subjects' = SubjectIds /\ subjects' = [x \in SubjectIds |-> subjects'[x]]
  BY <1>1, <1>2 DEF Table
<1>8. subjects' \in Table(SubjectIds, Subject)
  BY <1>6, <1>7 DEF Table
<1>9. HalfwayOK(r, i, todo) => subjects' = Put(i, r)
  <2> SUFFICES ASSUME HalfwayOK(r, i, todo) PROVE subjects' = Put(i, r)
    OBVIOUS
  <2>1. PICK q \in subjects[i] : i \in SubjectIds /\ [q EXCEPT !.grades = r.grades] = r
    BY DEF HalfwayOK
  <2>2. subjects[i] = {q}
    BY <1>2, <2>1, OneRow
  <2>3. subjects'[i] = {r}
    BY <1>4, <2>1, <2>2
  <2> QED
    BY <1>2, <1>4, <1>7, <2>3 DEF Put, Table
<1> QED
  BY <1>0, <1>1, <1>6, <1>8, <1>9, RestSaved

LEMMA SaveSubjectFirstOK ==
    ASSUME IndInv, NEW s \in Workers, SaveSubjectFirst(s)
    PROVE  IndInv'
<1>0. PICK r, todo, i : r = req[s].row /\ todo = req[s].todo /\ i = req[s].id
  OBVIOUS
<1>1. /\ Halfway(s) /\ Head(todo) = "first" /\ Wrote(s, i)
      /\ subjects' = [subjects EXCEPT ![i] = {[q EXCEPT !.first = r.first] : q \in @}]
      /\ UNCHANGED <<assignments, senior, inUse, overlapped>>
  BY <1>0 DEF SaveSubjectFirst, ToWrite, Halfway
<1>2. subjects \in Table(SubjectIds, Subject) /\ req[s] \in Request
  BY DEF IndInv, SubjectTypes
<1>3. r \in Subject
  BY <1>0, <1>1, <1>2, RequestFields DEF Halfway
<1>4. \A x \in SubjectIds :
        subjects'[x] = IF x = i THEN {[q EXCEPT !.first = r.first] : q \in subjects[x]} ELSE subjects[x]
  BY <1>1, <1>2 DEF Table
<1>5. \A q \in Subject : [q EXCEPT !.first = r.first] \in Subject
  BY <1>3 DEF Subject
<1>6. ASSUME NEW x \in SubjectIds
      PROVE  \/ subjects'[x] = {} /\ subjects[x] = {}
             \/ \E q \in Subject : subjects'[x] = {q} /\ subjects[x] # {}
  <2>1. CASE subjects[x] = {}
    BY <1>4, <2>1
  <2>2. ASSUME NEW q \in Subject, subjects[x] = {q} PROVE \E p \in Subject : subjects'[x] = {p}
    <3> DEFINE p == [q EXCEPT !.first = r.first]
    <3>1. p \in Subject /\ {[y EXCEPT !.first = r.first] : y \in {q}} = {p}
      BY <1>5
    <3>2. subjects'[x] = {p} \/ subjects'[x] = {q}
      BY <1>4, <2>2, <3>1
    <3> HIDE DEF p
    <3> QED
      BY <2>2, <3>1, <3>2
  <2> QED
    BY <1>2, <2>1, <2>2, OneRow
<1>7. DOMAIN subjects' = SubjectIds /\ subjects' = [x \in SubjectIds |-> subjects'[x]]
  BY <1>1, <1>2 DEF Table
<1>8. subjects' \in Table(SubjectIds, Subject)
  BY <1>6, <1>7 DEF Table
<1>9. HalfwayOK(r, i, todo) => subjects' = Put(i, r)
  <2> SUFFICES ASSUME HalfwayOK(r, i, todo) PROVE subjects' = Put(i, r)
    OBVIOUS
  <2>1. i \in SubjectIds /\ r \in subjects[i]
    BY <1>1 DEF HalfwayOK
  <2>2. subjects[i] = {r}
    BY <1>2, <2>1, OneRow
  <2>3. [r EXCEPT !.first = r.first] = r
    BY <1>3 DEF Subject
  <2>4. {[y EXCEPT !.first = r.first] : y \in {r}} = {r}
    BY <2>3
  <2>5. subjects'[i] = {r}
    BY <1>4, <2>1, <2>2, <2>4
  <2> QED
    BY <1>2, <1>4, <1>7, <2>1, <2>5 DEF Put, Table
<1> QED
  BY <1>0, <1>1, <1>6, <1>8, <1>9, RestSaved

-----------------------------------------------------------------------------
(* Assignments are saved *)

\* What is left when the assignments of a request are in the table.
LEMMA AssignmentsSaved ==
    ASSUME IndInv, NEW s \in Workers, req[s].op # "subject",
           req' = [req EXCEPT ![s] = Ready], UNCHANGED <<subjects, senior, inUse>>,
           overlapped' \in BOOLEAN,
           assignments' \in Table(AssignmentIds, Assignment),
           ~overlapped' => AssignedOnce' /\ \A x \in Workers \ {s} : NotGiven(req[x])',
           OneAtATime =>
               \A i \in AssignmentIds : \A a \in assignments'[i] : subjects[a.subject] # {}
    PROVE  IndInv'
<1>1. /\ req' \in [Workers -> Request] /\ req'[s] = Ready
      /\ \A x \in Workers : x # s => req'[x] = req[x]
  BY ReadyRequest DEF IndInv, SubjectTypes
<1>2. SubjectTypes' /\ (~overlapped => GivenOnce)'
  <2>1. SubjectTypes'
    BY <1>1 DEF IndInv, SubjectTypes, Table
  <2>2. ASSUME ~overlapped', NEW x \in Workers PROVE NotGiven(req[x])'
    BY <1>1, <2>2, ReadyRequest DEF NotGiven
  <2> QED
    BY <2>1, <2>2 DEF GivenOnce
<1>3. ASSUME OneAtATime, ~Crashes PROVE CatalogueOK'
  <2>1. \A x \in Workers : x = s
    BY <1>3 DEF OneAtATime
  <2>2. InOrder(subjects)
    BY <1>3, <2>1 DEF IndInv, CatalogueOK, Halfway
  <2>3. ~Halfway(s)' /\ ~Before(s)'
    BY <1>1, ReadyRequest DEF Halfway, Before
  <2> QED
    BY <2>1, <2>2, <2>3, SameCatalogue DEF CatalogueOK
<1>4. ASSUME OneAtATime PROVE GivingOK'
  <2>1. \A x \in Workers : x = s
    BY <1>4 DEF OneAtATime
  <2> QED
    BY <1>1, <1>4, <2>1, ReadyRequest DEF GivingOK
<1>5. OneAtATime' = OneAtATime
  BY DEF OneAtATime
<1> QED
  BY <1>2, <1>3, <1>4, <1>5 DEF IndInv

\* Until requests overlap nobody else is going to give anything.
LEMMA NobodyElseGives ==
    ASSUME IndInv, NEW s \in Workers, NEW kind, Saves(s, kind)
    PROVE  /\ overlapped' \in BOOLEAN
           /\ ~overlapped' => GivenOnce /\ \A x \in Workers \ {s} : NotGiven(req[x])'
<1>1. overlapped' \in BOOLEAN /\ (~overlapped' => ~overlapped)
  BY DEF IndInv, SubjectTypes, Saves
<1>2. ASSUME ~overlapped', NEW x \in Workers \ {s} PROVE NotGiven(req[x])'
  <2>1. req[x].op \notin {"assign", "assignment"} /\ req'[x] = req[x]
    BY <1>2 DEF IndInv, SubjectTypes, Saves
  <2> QED
    BY <2>1 DEF NotGiven
<1> QED
  BY <1>1, <1>2 DEF IndInv

\* Every assignment a step leaves in the table was there, or is given by the request.
LEMMA SaveAssignmentsEffect ==
    ASSUME IndInv, NEW s \in Workers, SaveAssignments(s)
    PROVE  /\ req[s].op = "assign"
           /\ assignments' \in Table(AssignmentIds, Assignment)
           /\ \A i \in AssignmentIds : \A a \in assignments'[i] :
                a \in assignments[i] \/ a \in req[s].rows
           /\ GivenOnce => AssignedOnce'
<1>1. PICK f \in [req[s].rows -> AssignmentIds] :
         /\ \A a, b \in req[s].rows : f[a] = f[b] => a = b
         /\ \A a \in req[s].rows : assignments[f[a]] = {}
         /\ assignments' = [i \in AssignmentIds |->
              assignments[i] \cup {a \in req[s].rows : f[a] = i}]
  BY DEF SaveAssignments
<1>2. req[s].op = "assign" /\ assignments \in Table(AssignmentIds, Assignment)
  BY DEF IndInv, SubjectTypes, SaveAssignments, Saves
<1>3. req[s].rows \in SUBSET Assignment
  BY <1>2, RequestFields DEF IndInv, SubjectTypes
<1>4. ASSUME NEW i \in AssignmentIds
      PROVE  assignments'[i] = {} \/ \E a \in Assignment : assignments'[i] = {a}
  <2>1. assignments'[i] = assignments[i] \cup {a \in req[s].rows : f[a] = i}
    BY <1>1
  <2>2. CASE \E a \in req[s].rows : f[a] = i
    <3>1. PICK a \in req[s].rows : f[a] = i
      BY <2>2
    <3>2. assignments[i] = {} /\ {b \in req[s].rows : f[b] = i} = {a}
      BY <1>1, <3>1
    <3> QED
      BY <1>3, <2>1, <3>2
  <2>3. CASE ~\E a \in req[s].rows : f[a] = i
    <3>1. assignments'[i] = assignments[i]
      BY <2>1, <2>3
    <3> QED
      BY <1>2, <3>1, OneRow
  <2> QED
    BY <2>2, <2>3
<1>5. assignments' \in Table(AssignmentIds, Assignment)
  BY <1>1, <1>4 DEF Table
<1>6. ASSUME GivenOnce PROVE AssignedOnce'
  <2> SUFFICES ASSUME NEW i \in AssignmentIds, NEW j \in AssignmentIds, i # j,
                      NEW a \in assignments'[i], NEW b \in assignments'[j], SameContext(a, b)
               PROVE  FALSE
    BY DEF AssignedOnce
  <2>1. /\ a \in assignments[i] \/ (a \in req[s].rows /\ f[a] = i)
        /\ b \in assignments[j] \/ (b \in req[s].rows /\ f[b] = j)
    BY <1>1
  <2>2. /\ \A c \in req[s].rows : ~Exists(c, NoId)
        /\ \A c, d \in req[s].rows : SameContext(c, d) => c = d
    BY <1>2, <1>6 DEF GivenOnce, NotGiven
  <2>3. NoId \notin AssignmentIds
    BY SubjectAssumption DEF SubjectConstants
  <2>4. SameContext(b, a)
    BY DEF SameContext
  <2>5. ~(a \in assignments[i] /\ b \in assignments[j])
    BY <1>6 DEF GivenOnce, AssignedOnce
  <2>6. ~(a \in assignments[i] /\ b \in req[s].rows) /\ ~(a \in req[s].rows /\ b \in assignments[j])
    BY <2>2, <2>3, <2>4 DEF Exists
  <2> QED
    BY <2>1, <2>2, <2>5, <2>6
<1> QED
  BY <1>1, <1>2, <1>5, <1>6

LEMMA SaveAssignmentsOK ==
    ASSUME IndInv, NEW s \in Workers, SaveAssignments(s)
    PROVE  IndInv'
<1>1. Saves(s, "assign") /\ UNCHANGED <<subjects, senior, inUse>>
  BY DEF SaveAssignments
<1>3. req' = [req EXCEPT ![s] = Ready]
  BY <1>1 DEF Saves
<1>2. OneAtATime =>
        \A i \in AssignmentIds : \A a \in assignments'[i] : subjects[a.subject] # {}
  BY SaveAssignmentsEffect DEF IndInv, GivingOK, NewFits
<1> QED
  BY <1>1, <1>2, <1>3, SaveAssignmentsEffect, NobodyElseGives, AssignmentsSaved

LEMMA SaveAssignmentEffect ==
    ASSUME IndInv, NEW s \in Workers, SaveAssignment(s)
    PROVE  /\ req[s].op = "assignment"
           /\ req[s].id \in AssignmentIds
           /\ assignments' \in Table(AssignmentIds, Assignment)
           /\ \A i \in AssignmentIds : assignments'[i] =
                IF i = req[s].id THEN {req[s].row} ELSE assignments[i]
           /\ GivenOnce => AssignedOnce'
<1>1. req[s].op = "assignment" /\ assignments' = [assignments EXCEPT ![req[s].id] = {req[s].row}]
  BY DEF SaveAssignment, Saves
<1>2. req[s].id \in AssignmentIds /\ req[s].row \in Assignment
  BY <1>1, RequestFields DEF IndInv, SubjectTypes
<1>3. assignments \in Table(AssignmentIds, Assignment)
  BY DEF IndInv, SubjectTypes
<1>4. assignments' \in Table(AssignmentIds, Assignment)
  BY <1>1, <1>2, <1>3, TableStays
<1>5. \A i \in AssignmentIds : assignments'[i] =
        IF i = req[s].id THEN {req[s].row} ELSE assignments[i]
  BY <1>1, <1>3 DEF Table
<1>6. ASSUME GivenOnce PROVE AssignedOnce'
  <2> SUFFICES ASSUME NEW i \in AssignmentIds, NEW j \in AssignmentIds, i # j,
                      NEW a \in assignments'[i], NEW b \in assignments'[j], SameContext(a, b)
               PROVE  FALSE
    BY DEF AssignedOnce
  <2>1. ~Exists(req[s].row, req[s].id)
    BY <1>1, <1>6 DEF GivenOnce, NotGiven
  <2>2. SameContext(b, a)
    BY DEF SameContext
  <2> QED
    BY <1>5, <1>6, <2>1, <2>2 DEF GivenOnce, AssignedOnce, Exists
<1> QED
  BY <1>1, <1>2, <1>4, <1>5, <1>6

LEMMA SaveAssignmentOK ==
    ASSUME IndInv, NEW s \in Workers, SaveAssignment(s)
    PROVE  IndInv'
<1>1. Saves(s, "assignment") /\ UNCHANGED <<subjects, senior, inUse>>
  BY DEF SaveAssignment
<1>3. req' = [req EXCEPT ![s] = Ready]
  BY <1>1 DEF Saves
<1>2. OneAtATime =>
        \A i \in AssignmentIds : \A a \in assignments'[i] : subjects[a.subject] # {}
  BY SaveAssignmentEffect DEF IndInv, GivingOK, ChangeFits
<1> QED
  BY <1>1, <1>2, <1>3, SaveAssignmentEffect, NobodyElseGives, AssignmentsSaved

-----------------------------------------------------------------------------
(* The other steps *)

\* Where neither assignments nor requests change, nothing more is given.
LEMMA SameGiven ==
    ASSUME UNCHANGED <<assignments, req, overlapped>>
    PROVE  (~overlapped => GivenOnce)' <=> (~overlapped => GivenOnce)
<1>1. AssignedOnce' <=> AssignedOnce
  BY DEF AssignedOnce
<1>2. \A q : NotGiven(q)' <=> NotGiven(q)
  BY DEF NotGiven, Exists
<1> QED
  BY <1>1, <1>2 DEF GivenOnce

LEMMA SetInUseOK ==
    ASSUME IndInv, NEW s \in Workers, SetInUse(s)
    PROVE  IndInv'
<1>1. PICK x \in Archivable : inUse' = [inUse EXCEPT ![x] = ~@]
  BY DEF SetInUse
<1>2. UNCHANGED <<subjects, assignments, senior, req, overlapped>>
  BY DEF SetInUse
<1>3. inUse \in [Grades \cup Teachers \cup Sections -> BOOLEAN]
  BY DEF IndInv, SubjectTypes
<1>4. inUse' \in [Grades \cup Teachers \cup Sections -> BOOLEAN]
  BY <1>1, <1>3, Zenon
<1>5. SubjectTypes'
  BY <1>2, <1>4 DEF IndInv, SubjectTypes, Table
<1>6. CatalogueOK' <=> CatalogueOK
  BY <1>2, SameCatalogue DEF CatalogueOK, Before, Halfway
<1>7. GivingOK' <=> GivingOK
  BY <1>2 DEF GivingOK, NewFits, ChangeFits, Fits
<1> QED
  BY <1>2, <1>5, <1>6, <1>7, SameGiven DEF IndInv, OneAtATime

LEMMA MoveLevelOK ==
    ASSUME IndInv, NEW s \in Workers, MoveLevel(s)
    PROVE  IndInv'
<1>1. LevelsMove /\ UNCHANGED <<subjects, assignments, inUse, req, overlapped>>
  BY DEF MoveLevel
<1>2. senior' \subseteq Grades
  BY DEF MoveLevel, IndInv, SubjectTypes
<1>3. SubjectTypes'
  BY <1>1, <1>2 DEF IndInv, SubjectTypes, Table
<1>4. CatalogueOK' <=> CatalogueOK
  BY <1>1, SameCatalogue DEF CatalogueOK, Before, Halfway
<1>5. GivingOK' <=> GivingOK
  BY <1>1 DEF GivingOK, NewFits, ChangeFits, Fits
<1> QED
  BY <1>1, <1>3, <1>4, <1>5, SameGiven DEF IndInv, OneAtATime

LEMMA InitOK == SubjectInit => IndInv
<1> SUFFICES ASSUME SubjectInit PROVE IndInv
  OBVIOUS
<1>1. SubjectTypes
  BY ReadyRequest DEF SubjectInit, SubjectTypes, Table
<1>2. \A s \in Workers : req[s].op = "idle"
  BY ReadyRequest DEF SubjectInit
<1>3. GivenOnce
  BY <1>2 DEF SubjectInit, GivenOnce, AssignedOnce, NotGiven
<1>4. InOrder(subjects)
  BY DEF SubjectInit, InOrder
<1>5. CatalogueOK
  BY <1>2, <1>4 DEF CatalogueOK, Before, Halfway
<1>6. GivingOK
  BY <1>2 DEF SubjectInit, GivingOK
<1> QED
  BY <1>1, <1>3, <1>5, <1>6 DEF IndInv

\* Nothing happens.
LEMMA StutterOK == IndInv /\ UNCHANGED subjectVars => IndInv'
<1> SUFFICES ASSUME IndInv, UNCHANGED subjectVars PROVE IndInv'
  OBVIOUS
<1>1. UNCHANGED <<subjects, assignments, senior, inUse, req, overlapped>>
  BY DEF subjectVars
<1>2. CatalogueOK' <=> CatalogueOK
  BY <1>1, SameCatalogue DEF CatalogueOK, Before, Halfway
<1>3. GivingOK' <=> GivingOK
  BY <1>1 DEF GivingOK, NewFits, ChangeFits, Fits
<1> QED
  BY <1>1, <1>2, <1>3, SameGiven DEF IndInv, SubjectTypes, Table, OneAtATime

LEMMA NextOK == IndInv /\ [SubjectNext]_subjectVars => IndInv'
<1> SUFFICES ASSUME IndInv, [SubjectNext]_subjectVars PROVE IndInv'
  OBVIOUS
<1>1. CASE UNCHANGED subjectVars
  BY <1>1, StutterOK
<1>2. ASSUME NEW s \in Workers, PostSubject(s) PROVE IndInv'
  BY <1>2, PostSubjectOK
<1>3. ASSUME NEW s \in Workers, PatchSubject(s) PROVE IndInv'
  BY <1>3, PatchSubjectOK
<1>4. ASSUME NEW s \in Workers, SaveSubjectRow(s) PROVE IndInv'
  BY <1>4, SaveSubjectRowOK
<1>5. ASSUME NEW s \in Workers, SaveSubjectGrades(s) PROVE IndInv'
  BY <1>5, SaveSubjectGradesOK
<1>6. ASSUME NEW s \in Workers, SaveSubjectFirst(s) PROVE IndInv'
  BY <1>6, SaveSubjectFirstOK
<1>7. ASSUME NEW s \in Workers, PostAssignments(s) PROVE IndInv'
  BY <1>7, PostAssignmentsOK
<1>8. ASSUME NEW s \in Workers, PatchAssignment(s) PROVE IndInv'
  BY <1>8, PatchAssignmentOK
<1>9. ASSUME NEW s \in Workers, SaveAssignments(s) PROVE IndInv'
  BY <1>9, SaveAssignmentsOK
<1>10. ASSUME NEW s \in Workers, SaveAssignment(s) PROVE IndInv'
  BY <1>10, SaveAssignmentOK
<1>11. ASSUME NEW s \in Workers, SetInUse(s) PROVE IndInv'
  BY <1>11, SetInUseOK
<1>12. ASSUME NEW s \in Workers, MoveLevel(s) PROVE IndInv'
  BY <1>12, MoveLevelOK
<1>13. ASSUME NEW s \in Workers, Abandon(s) PROVE IndInv'
  BY <1>13, AbandonOK
<1> QED
  BY <1>1, <1>2, <1>3, <1>4, <1>5, <1>6, <1>7, <1>8, <1>9, <1>10, <1>11, <1>12, <1>13
     DEF SubjectNext

LEMMA Invariance == SubjectSpec => []IndInv
<1>1. SubjectInit => IndInv
  BY InitOK
<1>2. IndInv /\ [SubjectNext]_subjectVars => IndInv'
  BY NextOK
<1> QED
  BY <1>1, <1>2, PTL DEF SubjectSpec

-----------------------------------------------------------------------------
(* The theorems *)

\* For any number of rows, whatever order POST and PATCH /subjects/ and
\* /teacher-assignments/, archivings and (if they happen) moves of grade levels come
\* in: a teacher is given a subject in a section once, until an assignment is saved
\* between the validation of another and its save; and while requests do not overlap
\* and no worker dies between two statements, active subjects of a grade level differ
\* in name, name the same grade levels in the list and in the column, and, while grade
\* levels keep their school level, differ in code and have a strand only in the Senior
\* High School.
THEOREM SubjectsAreInOrder == SubjectSpec => []SubjectsInOrder
<1>1. IndInv => SubjectsInOrder
  <2> SUFFICES ASSUME IndInv PROVE SubjectsInOrder
    OBVIOUS
  <2>1. ASSUME OneAtATime, ~Crashes, Settled
        PROVE  /\ NoActiveDuplicates /\ GradesAgree
               /\ ~LevelsMove => NoDuplicateCode /\ OnlySeniorHasStrand
    <3>1. \A s \in Workers : ~Halfway(s)
      BY <2>1, ReadyRequest DEF Settled, Halfway
    <3>2. InOrder(subjects)
      BY <2>1, <3>1 DEF IndInv, CatalogueOK
    <3>3. \A i \in SubjectIds : \A r \in subjects[i] : RowOK(r)
      BY <3>2 DEF InOrder
    <3>4. \A i, j \in SubjectIds : i # j => \A r \in subjects[i], q \in subjects[j] : Apart(r, q)
      BY <3>2 DEF InOrder
    <3> QED
      BY <3>3, <3>4 DEF RowOK, Apart, NoActiveDuplicates, GradesAgree, NoDuplicateCode,
         OnlySeniorHasStrand
  <2> QED
    BY <2>1 DEF IndInv, GivenOnce, SubjectsInOrder
<1> QED
  BY <1>1, Invariance, PTL

\* What a request for assignments writes fits: see GivenFits.
LEMMA GivingFits ==
    ASSUME IndInv, OneAtATime, NEW i \in AssignmentIds, NEW a,
           \/ a \in assignments[i]
           \/ NewFits(a)
           \/ ChangeFits(a, i)
    PROVE  \E q \in subjects[a.subject] :
             LET same == {b \in assignments[i] : b.active /\ b.subject = a.subject} IN
             /\ a.active /\ same = {} => q.active
             /\ a.active /\ (\A b \in same : b.section # a.section) => Fits(q, a.section)
<1>1. CASE a \in assignments[i]
  BY <1>1 DEF IndInv, GivingOK
<1>2. CASE NewFits(a)
  BY <1>2 DEF NewFits
<1>3. CASE ChangeFits(a, i)
  BY <1>3 DEF ChangeFits
<1> QED
  BY <1>1, <1>2, <1>3

\* For any number of rows, while requests do not overlap: whatever happened to a
\* subject, to its grade levels and to an assignment before, and wherever a worker
\* died, POST and PATCH /teacher-assignments/ give a teacher only a subject that is
\* active and that the grade level and the strand of the section have.
THEOREM WhatIsGivenFits == SubjectSpec => GivenSubjectFits
<1>1. IndInv /\ [SubjectNext]_subjectVars => [OneAtATime => GivenFits]_subjectVars
  <2> SUFFICES ASSUME IndInv, SubjectNext, OneAtATime PROVE GivenFits
    OBVIOUS
  <2>1. ASSUME NEW i \in AssignmentIds, NEW a \in assignments'[i]
        PROVE  a \in assignments[i] \/ NewFits(a) \/ ChangeFits(a, i)
    <3>1. CASE assignments' = assignments
      BY <2>1, <3>1
    <3>2. ASSUME NEW s \in Workers, SaveAssignments(s)
          PROVE  a \in assignments[i] \/ NewFits(a)
      BY <2>1, <3>2, SaveAssignmentsEffect DEF IndInv, GivingOK
    <3>3. ASSUME NEW s \in Workers, SaveAssignment(s)
          PROVE  a \in assignments[i] \/ ChangeFits(a, i)
      BY <2>1, <3>3, SaveAssignmentEffect DEF IndInv, GivingOK
    <3> QED
      BY <3>1, <3>2, <3>3 DEF SubjectNext, PostSubject, PatchSubject, PostAssignments,
         PatchAssignment, Start, SaveSubjectRow, SaveSubjectGrades, SaveSubjectFirst,
         SetInUse, MoveLevel, Abandon
  <2> QED
    BY <2>1, GivingFits DEF GivenFits
<1> QED
  BY <1>1, Invariance, PTL DEF SubjectSpec, GivenSubjectFits

=============================================================================
