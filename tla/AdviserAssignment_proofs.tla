---------------------- MODULE AdviserAssignment_proofs ----------------------
(***************************************************************************)
(* Theorems about AdviserAssignment for any number of sections, teachers,  *)
(* assignments and overlapping requests.                                   *)
(***************************************************************************)
EXTENDS AdviserAssignment, TLAPS

\* An active assignment is of a teacher to a section.
RowsOK == \A i \in Ids : rows[i].section # NoSection =>
              rows[i].section \in Sections /\ rows[i].teacher \in Teachers
ActiveOK == \A i \in Ids : rows[i].active => rows[i].section # NoSection

\* What a handler has read and checked is enough for the service it calls.
RequestOK(s) ==
    /\ req[s].pc \in {"post", "reassign", "import"} =>
         req[s].section \in Sections /\ req[s].teacher \in Teachers
    /\ req[s].pc = "section" => req[s].section \in Sections
    /\ req[s].pc \in {"reassign", "remove"} =>
         req[s].id \in Ids /\ rows[req[s].id].section # NoSection

\* The part of the invariant that is about the tables.
TablesOK == /\ rows \in [Ids -> Row]
            /\ adviser \in [Sections -> Teachers \cup {NoTeacher}]
            /\ access \in [Teachers -> SUBSET Sections]
            /\ RowsOK /\ ActiveOK /\ OneActiveAdviser /\ AdviserCanAccess

IndInv == /\ TablesOK
          /\ req \in [Slots -> Request]
          /\ \A s \in Slots : RequestOK(s)

-----------------------------------------------------------------------------
(* The services *)

\* In a section with one active assignment at most, any choice of the first
\* one is that assignment.
LEMMA FirstIsTheOne ==
    ASSUME NEW is \in SUBSET Ids, is # {}, \A i, j \in is : i = j
    PROVE  First(is) \in is /\ is = {First(is)}
<1>1. PICK i \in is : TRUE
  OBVIOUS
<1>2. \A j \in is : i <= j
  BY <1>1, AdviserConstants
<1>3. First(is) \in is
  BY <1>1, <1>2 DEF First
<1> QED
  BY <1>3

\* An assignment that is inserted is new; the other rows are those of r.
LEMMA InsertOK ==
    ASSUME NEW r \in [Ids -> Row], NEW row \in Row, Insert(r, row)
    PROVE  \E n \in Ids : /\ r[n].section = NoSection
                          /\ rows' = [r EXCEPT ![n] = row]
BY DEF Insert

\* An assignment stays one when it is deactivated.
LEMMA DeactivatedRow ==
    ASSUME NEW row \in Row
    PROVE  /\ row.active \in BOOLEAN
           /\ [row EXCEPT !.active = FALSE] \in Row
           /\ [row EXCEPT !.active = FALSE].section = row.section
           /\ [row EXCEPT !.active = FALSE].teacher = row.teacher
           /\ [row EXCEPT !.active = FALSE].active = FALSE
BY DEF Row

\* Deactivating assignments changes nothing else about them.
LEMMA DeactivatedOK ==
    ASSUME NEW r \in [Ids -> Row], NEW is \in SUBSET Ids
    PROVE  /\ Deactivated(r, is) \in [Ids -> Row]
           /\ \A i \in Ids :
                /\ Deactivated(r, is)[i].section = r[i].section
                /\ Deactivated(r, is)[i].teacher = r[i].teacher
                /\ Deactivated(r, is)[i].active = (r[i].active /\ i \notin is)
<1>1. \A i \in Ids : r[i].active \in BOOLEAN
  BY DeactivatedRow
<1>2. \A i \in Ids : Deactivated(r, is)[i] =
                       IF i \in is THEN [r[i] EXCEPT !.active = FALSE] ELSE r[i]
  BY DEF Deactivated
<1>3. Deactivated(r, is) \in [Ids -> Row]
  BY DeactivatedRow DEF Deactivated
<1>4. ASSUME NEW i \in Ids, i \in is
      PROVE  /\ Deactivated(r, is)[i].section = r[i].section
             /\ Deactivated(r, is)[i].teacher = r[i].teacher
             /\ Deactivated(r, is)[i].active = FALSE
  <2>1. r[i] \in Row /\ Deactivated(r, is)[i] = [r[i] EXCEPT !.active = FALSE]
    BY <1>2, <1>4
  <2> QED
    BY <2>1, DeactivatedRow
<1> QED
  BY <1>1, <1>2, <1>3, <1>4

\* What assign_section_adviser does to the assignments: r is the table after the
\* deactivations, kept the teacher's own assignment if there is one already.
AssignEffect(mirror, sec, t, src, r, kept) ==
    /\ \A i \in kept : rows[i].active /\ rows[i].section = sec /\ rows[i].teacher = t
    /\ \A i \in kept : r[i] = rows[i]
    /\ \A i \in Ids : /\ r[i].section = rows[i].section
                      /\ r[i].teacher = rows[i].teacher
                      /\ r[i].active => rows[i].active
    /\ \A i \in Ids : r[i].active /\ r[i].section = sec => i \in kept
    /\ \A i \in Ids : rows[i].section # sec =>
           r[i].active = (rows[i].active /\ i # src)
    /\ \/ kept # {} /\ rows' = r
       \/ kept = {} /\ Insert(r, [section |-> sec, teacher |-> t, active |-> TRUE])
    /\ adviser' = [x \in Sections |->
                     IF x = sec THEN t
                     ELSE IF src \in Ids /\ rows[src].active /\ rows[src].section = x
                          THEN AdviserIn(r, x) ELSE mirror[x]]
    /\ access' = [access EXCEPT ![t] = @ \cup {sec}]

\* Such a table r and assignment kept exist.
LEMMA AssignRows ==
    ASSUME TablesOK, NEW mirror \in [Sections -> Teachers \cup {NoTeacher}],
           NEW sec \in Sections, NEW t \in Teachers, NEW src \in Ids \cup {NoId},
           Assign(mirror, sec, t, src)
    PROVE  \E r \in [Ids -> Row], kept \in SUBSET Ids :
             AssignEffect(mirror, sec, t, src, r, kept)
<1> DEFINE same == {i \in Active(rows, sec) : rows[i].teacher = t}
           kept == IF same = {} THEN {} ELSE {First(same)}
           left == IF src \in Ids /\ rows[src].active /\ rows[src].section # sec
                   THEN {src} ELSE {}
           off == (Active(rows, sec) \ kept) \cup left
           r == IF src \in kept THEN rows ELSE Deactivated(rows, off)
           new == [section |-> sec, teacher |-> t, active |-> TRUE]
<1>1. /\ rows \in [Ids -> Row]
      /\ \A x \in Sections : \A i, j \in Active(rows, x) : i = j
  BY DEF TablesOK, OneActiveAdviser
<1>2. /\ kept \in SUBSET Ids
      /\ \A i \in kept : rows[i].active /\ rows[i].section = sec /\ rows[i].teacher = t
  <2>1. same \in SUBSET Ids /\ \A i, j \in same : i = j
    BY <1>1 DEF Active
  <2>2. same # {} => First(same) \in same
    BY <2>1, FirstIsTheOne
  <2> QED
    BY <2>1, <2>2 DEF Active
<1>3. /\ r \in [Ids -> Row]
      /\ \A i \in kept : r[i] = rows[i]
      /\ \A i \in Ids : /\ r[i].section = rows[i].section
                        /\ r[i].teacher = rows[i].teacher
                        /\ r[i].active => rows[i].active
      /\ \A i \in Ids : r[i].active /\ r[i].section = sec => i \in kept
      /\ \A i \in Ids : rows[i].section # sec =>
             r[i].active = (rows[i].active /\ i # src)
  <2>1. CASE src \in kept
    <3>1. r = rows
      BY <2>1
    <3> HIDE DEF r, kept
    <3>2. \A i \in Ids : rows[i].active /\ rows[i].section = sec => i = src
      BY <2>1, <1>1, <1>2 DEF Active
    <3>3. \A i \in Ids : rows[i].section # sec =>
            i # src /\ rows[i].active \in BOOLEAN
      BY <2>1, <1>1, <1>2, DeactivatedRow
    <3>4. \A i \in Ids : rows[i].section # sec =>
            rows[i].active = (rows[i].active /\ i # src)
      BY <3>3
    <3> QED
      BY <3>1, <3>2, <3>4, <2>1, <1>1
  <2>2. CASE src \notin kept
    <3>1. r = Deactivated(rows, off) /\ off \in SUBSET Ids
      BY <2>2 DEF Active
    <3>2. \A i \in Ids : i \in Active(rows, sec) \ kept => i \in off
      OBVIOUS
    <3>3. \A i \in kept : i \notin off
      BY <1>2
    <3>4. \A i \in Ids : rows[i].section # sec /\ rows[i].active => (i \in off) = (i = src)
      BY <1>2 DEF Active
    <3> HIDE DEF r, off, kept
    <3>5. /\ r \in [Ids -> Row]
          /\ \A i \in Ids : /\ r[i].section = rows[i].section
                            /\ r[i].teacher = rows[i].teacher
                            /\ r[i].active = (rows[i].active /\ i \notin off)
      BY <3>1, <1>1, DeactivatedOK
    <3>6. \A i \in kept : r[i] = rows[i]
      BY <3>1, <3>3, <1>1, <1>2 DEF Deactivated
    <3>7. \A i \in Ids : rows[i].active \in BOOLEAN /\ r[i].active \in BOOLEAN
      BY <3>5, <1>1, DeactivatedRow
    <3>8. \A i \in Ids : rows[i].section # sec => r[i].active = (rows[i].active /\ i # src)
      BY <3>4, <3>5, <3>7
    <3>9. \A i \in Ids : r[i].active /\ r[i].section = sec => i \in kept
      BY <3>2, <3>5, <1>1 DEF Active
    <3> QED
      BY <3>5, <3>6, <3>8, <3>9
  <2> QED
    BY <2>1, <2>2
<1>4. adviser' = [x \in Sections |->
                    IF x = sec THEN t
                    ELSE IF \E i \in left : rows[i].section = x THEN AdviserIn(r, x)
                    ELSE mirror[x]]
  BY DEF Assign
<1>5. \A x \in Sections : x # sec =>
        (\E i \in left : rows[i].section = x)
          = (src \in Ids /\ rows[src].active /\ rows[src].section = x)
  BY <1>1 DEF Row
<1>6. /\ access' = [access EXCEPT ![t] = @ \cup {sec}]
      /\ \/ kept # {} /\ rows' = r
         \/ kept = {} /\ Insert(r, new)
  BY DEF Assign
<1> HIDE DEF r, left, kept
<1>7. adviser' = [x \in Sections |->
                    IF x = sec THEN t
                    ELSE IF src \in Ids /\ rows[src].active /\ rows[src].section = x
                         THEN AdviserIn(r, x) ELSE mirror[x]]
  BY <1>4, <1>5
<1> QED
  BY <1>2, <1>3, <1>6, <1>7 DEF AssignEffect

\* assign_section_adviser, whatever Section.adviser holds, leaves the tables
\* in order and no assignment unmade.
LEMMA AssignOK ==
    ASSUME TablesOK, NEW mirror \in [Sections -> Teachers \cup {NoTeacher}],
           NEW sec \in Sections, NEW t \in Teachers, NEW src \in Ids \cup {NoId},
           Assign(mirror, sec, t, src)
    PROVE  /\ TablesOK'
           /\ \A i \in Ids : rows[i].section # NoSection => rows'[i].section # NoSection
<1> DEFINE new == [section |-> sec, teacher |-> t, active |-> TRUE]
<1>1. /\ rows \in [Ids -> Row]
      /\ access \in [Teachers -> SUBSET Sections]
      /\ RowsOK /\ ActiveOK /\ AdviserCanAccess
      /\ \A x \in Sections : \A i, j \in Active(rows, x) : i = j
  BY DEF TablesOK, OneActiveAdviser
<1>2. PICK r \in [Ids -> Row], kept \in SUBSET Ids : AssignEffect(mirror, sec, t, src, r, kept)
  BY AssignRows
<1> USE DEF AssignEffect
<1>3. /\ \A i \in Ids : /\ r[i].section = rows[i].section
                        /\ r[i].teacher = rows[i].teacher
                        /\ r[i].active => rows[i].active
      /\ \A i \in kept : rows[i].active /\ rows[i].section = sec /\ rows[i].teacher = t
  BY <1>2
<1>4. \A i \in Ids : r[i].active /\ r[i].section = sec => i \in kept
  BY <1>2
<1>5. \A i \in Ids : r[i].active =>
        r[i].section \in Sections /\ r[i].teacher \in Teachers
  BY <1>1, <1>3 DEF RowsOK, ActiveOK
<1>6. /\ adviser' = [x \in Sections |->
                       IF x = sec THEN t
                       ELSE IF src \in Ids /\ rows[src].active /\ rows[src].section = x
                            THEN AdviserIn(r, x) ELSE mirror[x]]
      /\ access' = [access EXCEPT ![t] = @ \cup {sec}]
      /\ \/ kept # {} /\ rows' = r
         \/ kept = {} /\ Insert(r, new)
  BY <1>2
<1> HIDE DEF AssignEffect
<1>7. adviser' \in [Sections -> Teachers \cup {NoTeacher}]
  <2>1. \A x \in Sections : AdviserIn(r, x) \in Teachers \cup {NoTeacher}
    <3> SUFFICES ASSUME NEW x \in Sections, Active(r, x) # {}
                 PROVE  r[First(Active(r, x))].teacher \in Teachers
      BY DEF AdviserIn
    <3>1. Active(r, x) \in SUBSET Ids /\ \A i, j \in Active(r, x) : i = j
      BY <1>1, <1>3 DEF Active
    <3>2. First(Active(r, x)) \in Active(r, x)
      BY <3>1, FirstIsTheOne
    <3> QED
      BY <3>2, <1>5 DEF Active
  <2> QED
    BY <2>1, <1>6
<1>8. /\ access' \in [Teachers -> SUBSET Sections]
      /\ \A u \in Teachers : access[u] \subseteq access'[u]
      /\ sec \in access'[t]
  BY <1>1, <1>6
<1>9. CASE kept # {} /\ rows' = r
  <2>1. RowsOK' /\ ActiveOK'
    BY <1>9, <1>1, <1>3 DEF RowsOK, ActiveOK
  <2>2. OneActiveAdviser'
    BY <1>9, <1>1, <1>3 DEF OneActiveAdviser, Active
  <2>3. AdviserCanAccess'
    BY <1>9, <1>1, <1>3, <1>5, <1>8 DEF AdviserCanAccess
  <2> QED
    BY <1>9, <1>3, <1>7, <1>8, <2>1, <2>2, <2>3 DEF TablesOK
<1>10. CASE kept = {} /\ Insert(r, new)
  <2>1. new \in Row
    BY AdviserConstants DEF Row
  <2>2. PICK n \in Ids : r[n].section = NoSection /\ rows' = [r EXCEPT ![n] = new]
    BY <1>10, <1>3, <2>1, InsertOK
  <2>3. /\ rows' \in [Ids -> Row] /\ rows'[n] = new
        /\ \A i \in Ids : i # n => rows'[i] = r[i]
    BY <2>1, <2>2, <1>3
  <2>4. RowsOK' /\ ActiveOK'
    BY <2>3, <1>1, <1>3, AdviserConstants DEF RowsOK, ActiveOK
  <2>5. \A i \in Ids : rows'[i].active /\ rows'[i].section = sec => i = n
    BY <2>3, <1>4, <1>10
  <2>6. OneActiveAdviser'
    <3> SUFFICES ASSUME NEW x \in Sections, NEW i \in Ids, NEW j \in Ids,
                        rows'[i].active, rows'[i].section = x,
                        rows'[j].active, rows'[j].section = x
                 PROVE  i = j
      BY DEF OneActiveAdviser, Active
    <3>1. CASE x = sec
      BY <3>1, <2>5
    <3>2. CASE x # sec
      BY <3>2, <2>3, <1>1, <1>3 DEF Active
    <3> QED
      BY <3>1, <3>2
  <2>7. AdviserCanAccess'
    BY <2>3, <1>1, <1>3, <1>5, <1>8 DEF AdviserCanAccess
  <2> QED
    BY <1>3, <1>7, <1>8, <2>2, <2>3, <2>4, <2>6, <2>7, AdviserConstants DEF TablesOK
<1> QED
  BY <1>6, <1>9, <1>10

\* remove_section_adviser leaves the tables in order too.
LEMMA RemoveOK ==
    ASSUME TablesOK, NEW mirror \in [Sections -> Teachers \cup {NoTeacher}],
           NEW sec \in Sections, NEW who, NEW clearLegacy \in BOOLEAN,
           Remove(mirror, sec, who, clearLegacy)
    PROVE  /\ TablesOK'
           /\ \A i \in Ids : rows'[i].section = rows[i].section
<1> DEFINE matches == {i \in Active(rows, sec) : rows[i].teacher \in who}
           r == Deactivated(rows, matches)
<1>1. /\ rows \in [Ids -> Row] /\ RowsOK /\ ActiveOK /\ AdviserCanAccess
      /\ \A x \in Sections : \A i, j \in Active(rows, x) : i = j
  BY DEF TablesOK, OneActiveAdviser
<1>2. /\ rows' = r /\ access' = access
      /\ adviser' = IF matches # {} \/ clearLegacy
                    THEN [mirror EXCEPT ![sec] = AdviserIn(r, sec)] ELSE mirror
  BY DEF Remove
<1>3. /\ r \in [Ids -> Row]
      /\ \A i \in Ids : /\ r[i].section = rows[i].section
                        /\ r[i].teacher = rows[i].teacher
                        /\ r[i].active => rows[i].active
  <2>1. r = Deactivated(rows, matches) /\ matches \in SUBSET Ids
    BY DEF Active
  <2> HIDE DEF r, matches
  <2> QED
    BY <2>1, <1>1, DeactivatedOK
<1> HIDE DEF r, matches
<1>4. AdviserIn(r, sec) \in Teachers \cup {NoTeacher}
  <2>1. Active(r, sec) \in SUBSET Ids /\ \A i, j \in Active(r, sec) : i = j
    BY <1>1, <1>3 DEF Active
  <2>2. Active(r, sec) # {} => First(Active(r, sec)) \in Active(r, sec)
    BY <2>1, FirstIsTheOne
  <2>3. \A i \in Active(r, sec) : r[i].teacher \in Teachers
    BY <1>1, <1>3 DEF Active, RowsOK, ActiveOK
  <2> QED
    BY <2>2, <2>3 DEF AdviserIn
<1>5. adviser' \in [Sections -> Teachers \cup {NoTeacher}]
  BY <1>2, <1>4
<1>6. RowsOK' /\ ActiveOK' /\ AdviserCanAccess'
  BY <1>1, <1>2, <1>3 DEF RowsOK, ActiveOK, AdviserCanAccess
<1>7. OneActiveAdviser'
  BY <1>1, <1>2, <1>3 DEF OneActiveAdviser, Active
<1> QED
  BY <1>2, <1>3, <1>5, <1>6, <1>7 DEF TablesOK

-----------------------------------------------------------------------------
(* The handlers *)

\* A handler that reads and checks.
LEMMA StartOK ==
    ASSUME IndInv, NEW s \in Slots, NEW r \in Request, Start(s, r),
           r.pc \in {"post", "reassign", "import"} =>
               r.section \in Sections /\ r.teacher \in Teachers,
           r.pc = "section" => r.section \in Sections,
           r.pc \in {"reassign", "remove"} =>
               r.id \in Ids /\ rows[r.id].section # NoSection
    PROVE  IndInv'
<1>1. /\ req' = [req EXCEPT ![s] = r] /\ rows' = rows
      /\ adviser' = adviser /\ access' = access
  BY DEF Start
<1>2. TablesOK'
  BY <1>1 DEF IndInv, TablesOK, RowsOK, ActiveOK, OneActiveAdviser, Active, AdviserCanAccess
<1>3. req' \in [Slots -> Request]
  BY <1>1 DEF IndInv
<1>4. ASSUME NEW x \in Slots PROVE RequestOK(x)'
  <2>1. CASE x = s
    <3>1. req'[x] = r
      BY <2>1, <1>1 DEF IndInv
    <3> QED
      BY <3>1, <1>1 DEF RequestOK
  <2>2. CASE x # s
    <3>1. req'[x] = req[x]
      BY <2>2, <1>1 DEF IndInv
    <3> QED
      BY <3>1, <1>1 DEF RequestOK, IndInv
  <2> QED
    BY <2>1, <2>2
<1> QED
  BY <1>2, <1>3, <1>4 DEF IndInv

\* A handler that ends, after a transaction that kept the tables in order.
LEMMA FinishOK ==
    ASSUME IndInv, NEW s \in Slots, Finish(s), TablesOK',
           \A i \in Ids : rows[i].section # NoSection => rows'[i].section # NoSection
    PROVE  IndInv'
<1>1. req' = [req EXCEPT ![s] = Idle]
  BY DEF Finish
<1>2. Idle \in Request /\ Idle.pc = "idle"
  BY DEF Idle, Request
<1>3. req' \in [Slots -> Request]
  BY <1>1, <1>2 DEF IndInv
<1>4. ASSUME NEW x \in Slots PROVE RequestOK(x)'
  <2>1. CASE x = s
    <3>1. req'[x].pc = "idle"
      BY <2>1, <1>1, <1>2 DEF IndInv
    <3> QED
      BY <3>1 DEF RequestOK
  <2>2. CASE x # s
    <3>1. req'[x] = req[x]
      BY <2>2, <1>1 DEF IndInv
    <3> QED
      BY <3>1 DEF RequestOK, IndInv
  <2> QED
    BY <2>1, <2>2
<1> QED
  BY <1>3, <1>4 DEF IndInv

\* The steps that read keep the invariant.
LEMMA ReadOK ==
    ASSUME IndInv, NEW s \in Slots,
           Post(s) \/ Reassign(s) \/ Deactivate(s) \/ PatchSection(s) \/ ImportPreview(s)
    PROVE  IndInv'
<1>1. ASSUME NEW sec \in Sections, NEW t \in Teachers, NEW pc \in {"post", "import"},
             Start(s, [Idle EXCEPT !.pc = pc, !.section = sec, !.teacher = t])
      PROVE  IndInv'
  <2> DEFINE r == [Idle EXCEPT !.pc = pc, !.section = sec, !.teacher = t]
  <2>1. r \in Request /\ r.pc = pc /\ r.section = sec /\ r.teacher = t
    BY DEF Request, Idle
  <2> HIDE DEF r
  <2> QED
    BY <2>1, <1>1, StartOK DEF r
<1>2. ASSUME NEW i \in Ids, NEW sec \in Sections, NEW t \in Teachers,
             rows[i].section # NoSection,
             Start(s, [Idle EXCEPT !.pc = "reassign", !.id = i,
                                   !.section = sec, !.teacher = t])
      PROVE  IndInv'
  <2> DEFINE r == [Idle EXCEPT !.pc = "reassign", !.id = i, !.section = sec, !.teacher = t]
  <2>1. r \in Request /\ r.pc = "reassign" /\ r.id = i /\ r.section = sec /\ r.teacher = t
    BY DEF Request, Idle
  <2> HIDE DEF r
  <2> QED
    BY <2>1, <1>2, StartOK DEF r
<1>3. ASSUME NEW i \in Ids, rows[i].active,
             Start(s, [Idle EXCEPT !.pc = "remove", !.id = i])
      PROVE  IndInv'
  <2> DEFINE r == [Idle EXCEPT !.pc = "remove", !.id = i]
  <2>1. r \in Request /\ r.pc = "remove" /\ r.id = i
    BY DEF Request, Idle
  <2>2. rows[i].section # NoSection
    BY <1>3 DEF IndInv, TablesOK, ActiveOK
  <2> HIDE DEF r
  <2> QED
    BY <2>1, <2>2, <1>3, StartOK DEF r
<1>4. ASSUME NEW sec \in Sections, NEW t \in Teachers \cup {NoTeacher},
             Start(s, [Idle EXCEPT !.pc = "section", !.section = sec,
                                   !.teacher = t, !.seen = adviser[sec]])
      PROVE  IndInv'
  <2> DEFINE r == [Idle EXCEPT !.pc = "section", !.section = sec,
                               !.teacher = t, !.seen = adviser[sec]]
  <2>1. adviser[sec] \in Teachers \cup {NoTeacher}
    BY DEF IndInv, TablesOK
  <2>2. r \in Request /\ r.pc = "section" /\ r.section = sec
    BY <2>1 DEF Request, Idle
  <2> HIDE DEF r
  <2> QED
    BY <2>2, <1>4, StartOK DEF r
<1> QED
  BY <1>1, <1>2, <1>3, <1>4 DEF Post, Reassign, Deactivate, PatchSection, ImportPreview

\* The steps that call a service keep the invariant.
LEMMA SaveOK ==
    ASSUME IndInv, NEW s \in Slots,
           \/ PostAssign(s) \/ ReassignSave(s) \/ DeactivateSave(s)
           \/ PatchSectionSave(s) \/ ImportConfirm(s) \/ Abandon(s)
    PROVE  IndInv'
<1> USE DEF IndInv
<1>1. /\ RequestOK(s) /\ req[s] \in Request
      /\ TablesOK /\ adviser \in [Sections -> Teachers \cup {NoTeacher}]
  BY DEF TablesOK
<1> HIDE DEF IndInv
<1>2. CASE PostAssign(s) \/ ImportConfirm(s)
  <2>1. Assign(adviser, req[s].section, req[s].teacher, NoId) /\ Finish(s)
        /\ req[s].section \in Sections /\ req[s].teacher \in Teachers
    BY <1>1, <1>2 DEF PostAssign, ImportConfirm, RequestOK
  <2> QED
    BY <1>1, <2>1, AssignOK, FinishOK
<1>3. CASE ReassignSave(s)
  <2>1. Assign(adviser, req[s].section, req[s].teacher, req[s].id) /\ Finish(s)
        /\ req[s].section \in Sections /\ req[s].teacher \in Teachers /\ req[s].id \in Ids
    BY <1>1, <1>3 DEF ReassignSave, RequestOK
  <2> QED
    BY <1>1, <2>1, AssignOK, FinishOK
<1>4. CASE DeactivateSave(s)
  <2> DEFINE row == rows[req[s].id]
  <2>1. Remove(adviser, row.section, {row.teacher}, FALSE) /\ Finish(s)
        /\ req[s].id \in Ids /\ row.section # NoSection
    BY <1>1, <1>4 DEF DeactivateSave, RequestOK
  <2>2. row.section \in Sections
    BY <1>1, <2>1 DEF TablesOK, RowsOK
  <2> HIDE DEF row
  <2>3. TablesOK' /\ \A i \in Ids : rows'[i].section = rows[i].section
    BY <1>1, <2>1, <2>2, RemoveOK
  <2> QED
    BY <2>1, <2>3, FinishOK
<1>5. CASE PatchSectionSave(s)
  <2> DEFINE sec == req[s].section
             t == req[s].teacher
             mirror == [adviser EXCEPT ![sec] = req[s].seen]
  <2>1. sec \in Sections /\ t \in Teachers \cup {NoTeacher}
        /\ mirror \in [Sections -> Teachers \cup {NoTeacher}]
    BY <1>1, <1>5 DEF PatchSectionSave, RequestOK, Request
  <2>2. /\ \/ adviser' = mirror /\ UNCHANGED <<rows, access>>
           \/ t # NoTeacher /\ Assign(mirror, sec, t, NoId)
           \/ Remove(mirror, sec, Teachers, TRUE)
        /\ Finish(s)
    BY <1>5 DEF PatchSectionSave
  <2> HIDE DEF sec, t, mirror
  <2>3. CASE adviser' = mirror /\ UNCHANGED <<rows, access>>
    <3>1. TablesOK'
      BY <1>1, <2>1, <2>3
         DEF TablesOK, RowsOK, ActiveOK, OneActiveAdviser, Active, AdviserCanAccess
    <3> QED
      BY <2>2, <2>3, <3>1, FinishOK
  <2>4. CASE t # NoTeacher /\ Assign(mirror, sec, t, NoId)
    BY <1>1, <2>1, <2>2, <2>4, AssignOK, FinishOK
  <2>5. CASE Remove(mirror, sec, Teachers, TRUE)
    <3>1. TablesOK' /\ \A i \in Ids : rows'[i].section = rows[i].section
      BY <1>1, <2>1, <2>5, RemoveOK
    <3> QED
      BY <2>2, <3>1, FinishOK
  <2> QED
    BY <2>2, <2>3, <2>4, <2>5
<1>6. CASE Abandon(s)
  <2>1. TablesOK' /\ Finish(s) /\ rows' = rows
    BY <1>1, <1>6 DEF Abandon, TablesOK, RowsOK, ActiveOK, OneActiveAdviser, Active,
                      AdviserCanAccess
  <2> QED
    BY <2>1, FinishOK
<1> QED
  BY <1>2, <1>3, <1>4, <1>5, <1>6

-----------------------------------------------------------------------------
(* The theorems *)

\* The invariant holds when no assignment has been made.
THEOREM InitOK == Init => IndInv
<1> SUFFICES ASSUME Init PROVE IndInv
  OBVIOUS
<1>1. NoRow \in Row /\ NoRow.section = NoSection /\ NoRow.active = FALSE
  BY DEF NoRow, Row
<1>2. TablesOK
  BY <1>1, AdviserConstants DEF Init, TablesOK, RowsOK, ActiveOK, OneActiveAdviser, Active,
                                AdviserCanAccess
<1>3. Idle \in Request /\ Idle.pc = "idle"
  BY DEF Idle, Request
<1> QED
  BY <1>2, <1>3 DEF Init, IndInv, RequestOK

\* Every step keeps the invariant.
THEOREM NextOK == IndInv /\ [Next]_vars => IndInv'
<1> SUFFICES ASSUME IndInv, [Next]_vars PROVE IndInv'
  OBVIOUS
<1>1. CASE Next
  BY <1>1, ReadOK, SaveOK DEF Next
<1>2. CASE UNCHANGED vars
  BY <1>2 DEF vars, IndInv, TablesOK, RowsOK, ActiveOK, OneActiveAdviser, Active,
              AdviserCanAccess, RequestOK
<1> QED
  BY <1>1, <1>2

\* The inductive invariant, for any number of overlapping requests.
THEOREM Invariance == Spec => []IndInv
BY InitOK, NextOK, PTL DEF Spec

\* Type correctness.
THEOREM TypeCorrect == Spec => []TypeOK
<1>1. IndInv => TypeOK
  BY DEF IndInv, TablesOK, TypeOK
<1> QED
  BY <1>1, Invariance, PTL

\* However the requests overlap, a section has one active adviser at most.
THEOREM AtMostOneAdviser == Spec => []OneActiveAdviser
<1>1. IndInv => OneActiveAdviser
  BY DEF IndInv, TablesOK
<1> QED
  BY <1>1, Invariance, PTL

\* However they overlap, an adviser can open the sections advised.
THEOREM AdvisersHaveAccess == Spec => []AdviserCanAccess
<1>1. IndInv => AdviserCanAccess
  BY DEF IndInv, TablesOK
<1> QED
  BY <1>1, Invariance, PTL

-----------------------------------------------------------------------------
(* The two records of the adviser, and the appointments they stand for *)

\* The one active assignment of a section names its adviser.
LEMMA AdviserInOne ==
    ASSUME NEW r, NEW x, NEW i \in Ids, Active(r, x) = {i}
    PROVE  AdviserIn(r, x) = r[i].teacher
<1>1. First({i}) = i
  <2>1. i <= i
    BY AdviserConstants
  <2> QED
    BY <2>1 DEF First
<1> QED
  BY <1>1 DEF AdviserIn

\* A section whose assignments a step leaves alone keeps its adviser.
LEMMA AdviserInSame ==
    ASSUME NEW r, NEW q, NEW x, Active(q, x) = Active(r, x),
           \A i \in Active(r, x) : q[i].teacher = r[i].teacher,
           Active(r, x) # {} => First(Active(r, x)) \in Active(r, x)
    PROVE  AdviserIn(q, x) = AdviserIn(r, x)
BY DEF AdviserIn

\* Every active assignment is the first of its section.
LEMMA FirstActive ==
    ASSUME TablesOK, NEW x \in Sections, Active(rows, x) # {}
    PROVE  /\ First(Active(rows, x)) \in Active(rows, x)
           /\ Active(rows, x) = {First(Active(rows, x))}
           /\ AdviserIn(rows, x) \in Teachers
<1>1. Active(rows, x) \in SUBSET Ids /\ \A i, j \in Active(rows, x) : i = j
  BY DEF TablesOK, OneActiveAdviser, Active
<1>2. First(Active(rows, x)) \in Active(rows, x) /\ Active(rows, x) = {First(Active(rows, x))}
  BY <1>1, FirstIsTheOne
<1>3. \A i \in Active(rows, x) : rows[i].teacher \in Teachers
  BY DEF TablesOK, RowsOK, ActiveOK, Active
<1> QED
  BY <1>2, <1>3 DEF AdviserIn

\* What an assignment does to each section: the target has the teacher in both
\* records, the section left has nobody in either, the others are as before.
LEMMA AssignViews ==
    ASSUME TablesOK, NEW mirror \in [Sections -> Teachers \cup {NoTeacher}],
           NEW sec \in Sections, NEW t \in Teachers, NEW src \in Ids \cup {NoId},
           Assign(mirror, sec, t, src)
    PROVE  /\ AdviserIn(rows', sec) = t /\ adviser'[sec] = t
           /\ \E i \in Ids : Active(rows', sec) = {i}
           /\ \A x \in Sections \ {sec} :
                \/ /\ Active(rows', x) = Active(rows, x)
                   /\ AdviserIn(rows', x) = AdviserIn(rows, x)
                   /\ adviser'[x] = mirror[x]
                \/ /\ src \in Ids /\ rows[src].section = x /\ Active(rows, x) # {}
                   /\ Active(rows', x) = {} /\ adviser'[x] = NoTeacher
<1> DEFINE new == [section |-> sec, teacher |-> t, active |-> TRUE]
<1>1. /\ rows \in [Ids -> Row]
      /\ \A x \in Sections : \A i, j \in Active(rows, x) : i = j
  BY DEF TablesOK, OneActiveAdviser
<1>2. PICK r \in [Ids -> Row], kept \in SUBSET Ids :
        AssignEffect(mirror, sec, t, src, r, kept)
  BY AssignRows
<1>3. /\ \A i \in kept : r[i].active /\ r[i].section = sec /\ r[i].teacher = t
      /\ \A i \in Ids : r[i].section = rows[i].section /\ r[i].teacher = rows[i].teacher
      /\ \A i \in Ids : r[i].active /\ r[i].section = sec => i \in kept
      /\ \A i \in Ids : rows[i].section # sec => r[i].active = (rows[i].active /\ i # src)
      /\ \A i, j \in kept : i = j
  BY <1>1, <1>2 DEF AssignEffect, Active
<1>4. /\ adviser' = [x \in Sections |->
                       IF x = sec THEN t
                       ELSE IF src \in Ids /\ rows[src].active /\ rows[src].section = x
                            THEN AdviserIn(r, x) ELSE mirror[x]]
      /\ \/ kept # {} /\ rows' = r
         \/ kept = {} /\ Insert(r, new)
  BY <1>2 DEF AssignEffect
<1>5. \E i \in Ids : Active(rows', sec) = {i} /\ rows'[i].teacher = t
  <2>1. CASE kept # {} /\ rows' = r
    <3>1. PICK i \in kept : TRUE
      BY <2>1
    <3>2. Active(r, sec) = {i}
      BY <3>1, <1>3 DEF Active
    <3> QED
      BY <3>1, <3>2, <2>1, <1>3
  <2>2. CASE kept = {} /\ Insert(r, new)
    <3>1. new \in Row
      BY AdviserConstants DEF Row
    <3>2. PICK n \in Ids : rows' = [r EXCEPT ![n] = new]
      BY <2>2, <3>1, InsertOK
    <3>3. rows'[n] = new /\ \A i \in Ids : i # n => rows'[i] = r[i]
      BY <3>1, <3>2
    <3>4. Active(rows', sec) = {n}
      BY <3>3, <2>2, <1>3 DEF Active
    <3> QED
      BY <3>3, <3>4
  <2> QED
    BY <1>4, <2>1, <2>2
<1>6. ASSUME NEW x \in Sections \ {sec}
      PROVE  /\ Active(rows', x) = Active(r, x)
             /\ \A i \in Active(r, x) : rows'[i].teacher = r[i].teacher
  <2>1. CASE rows' = r
    BY <2>1
  <2>2. CASE kept = {} /\ Insert(r, new)
    <3>1. new \in Row
      BY AdviserConstants DEF Row
    <3>2. PICK n \in Ids : r[n].section = NoSection /\ rows' = [r EXCEPT ![n] = new]
      BY <2>2, <3>1, InsertOK
    <3>3. rows'[n] = new /\ \A i \in Ids : i # n => rows'[i] = r[i]
      BY <3>1, <3>2
    <3>4. r[n].section # x /\ new.section # x
      BY <3>2, AdviserConstants
    <3> QED
      BY <3>3, <3>4 DEF Active
  <2> QED
    BY <1>4, <2>1, <2>2
<1>7. ASSUME NEW x \in Sections \ {sec}
      PROVE  \/ /\ Active(rows', x) = Active(rows, x)
                /\ AdviserIn(rows', x) = AdviserIn(rows, x)
                /\ adviser'[x] = mirror[x]
             \/ /\ src \in Ids /\ rows[src].section = x /\ Active(rows, x) # {}
                /\ Active(rows', x) = {} /\ adviser'[x] = NoTeacher
  <2>1. CASE src \in Ids /\ rows[src].active /\ rows[src].section = x
    <3>1. Active(rows, x) = {src}
      BY <2>1, <1>1 DEF Active
    <3>2. Active(r, x) = {}
      <4> SUFFICES ASSUME NEW i \in Ids, r[i].section = x, r[i].active PROVE FALSE
        BY DEF Active
      <4>1. rows[i].section = x /\ rows[i].active /\ i # src
        BY <1>3
      <4> QED
        BY <4>1, <3>1 DEF Active
    <3>3. AdviserIn(r, x) = NoTeacher
      BY <3>2 DEF AdviserIn
    <3> QED
      BY <2>1, <3>1, <3>2, <3>3, <1>4, <1>6
  <2>2. CASE ~(src \in Ids /\ rows[src].active /\ rows[src].section = x)
    <3>1. \A i \in Ids : rows[i].active /\ rows[i].section = x => i # src
      BY <2>2
    <3>2. Active(r, x) = Active(rows, x)
      BY <3>1, <1>3 DEF Active
    <3>3. Active(rows', x) = Active(rows, x)
          /\ \A i \in Active(rows, x) : rows'[i].teacher = rows[i].teacher
      BY <3>2, <1>3, <1>6 DEF Active
    <3>4. AdviserIn(rows', x) = AdviserIn(rows, x)
      BY <3>3, FirstActive, AdviserInSame
    <3>5. adviser'[x] = mirror[x]
      BY <2>2, <1>4
    <3> QED
      BY <3>3, <3>4, <3>5
  <2> QED
    BY <2>1, <2>2
<1> QED
  BY <1>4, <1>5, <1>7, AdviserInOne

\* What a removal does to each section: its own has nobody in either record if
\* anybody was removed or the column is cleared, the others are as before.
LEMMA RemoveViews ==
    ASSUME TablesOK, NEW mirror \in [Sections -> Teachers \cup {NoTeacher}],
           NEW sec \in Sections, NEW who, NEW clearLegacy \in BOOLEAN,
           Remove(mirror, sec, who, clearLegacy)
    PROVE  /\ \A i \in Ids : rows'[i].teacher = rows[i].teacher
           /\ \A x \in Sections \ {sec} :
                /\ Active(rows', x) = Active(rows, x)
                /\ AdviserIn(rows', x) = AdviserIn(rows, x)
                /\ adviser'[x] = mirror[x]
           /\ \/ /\ Active(rows', sec) = {} /\ AdviserIn(rows', sec) = NoTeacher
                 /\ adviser'[sec] = NoTeacher
              \/ /\ Active(rows', sec) = Active(rows, sec)
                 /\ AdviserIn(rows', sec) = AdviserIn(rows, sec)
                 /\ adviser'[sec] = IF clearLegacy THEN AdviserIn(rows, sec) ELSE mirror[sec]
<1> DEFINE matches == {i \in Active(rows, sec) : rows[i].teacher \in who}
<1>1. /\ rows \in [Ids -> Row] /\ matches \in SUBSET Ids
      /\ \A i, j \in Active(rows, sec) : i = j
      /\ \A i \in matches : rows[i].section = sec
      /\ matches \subseteq Active(rows, sec)
  BY DEF TablesOK, OneActiveAdviser, Active
<1>2. /\ rows' = Deactivated(rows, matches)
      /\ adviser' = IF matches # {} \/ clearLegacy
                    THEN [mirror EXCEPT ![sec] = AdviserIn(rows', sec)] ELSE mirror
  BY DEF Remove
<1> HIDE DEF matches
<1>3. \A i \in Ids : /\ rows'[i].section = rows[i].section
                     /\ rows'[i].teacher = rows[i].teacher
                     /\ rows'[i].active = (rows[i].active /\ i \notin matches)
  BY <1>1, <1>2, DeactivatedOK
<1>4. ASSUME NEW x \in Sections, x # sec \/ matches = {}
      PROVE  /\ Active(rows', x) = Active(rows, x)
             /\ AdviserIn(rows', x) = AdviserIn(rows, x)
             /\ \A i \in Active(rows, x) : rows'[i].teacher = rows[i].teacher
  <2>1. \A i \in Ids : rows[i].section = x => i \notin matches
    BY <1>1, <1>4
  <2>2. Active(rows', x) = Active(rows, x)
    BY <1>3, <2>1 DEF Active
  <2>3. \A i \in Active(rows, x) : rows'[i].teacher = rows[i].teacher
    BY <1>3 DEF Active
  <2> QED
    BY <2>2, <2>3, FirstActive, AdviserInSame
<1>5. CASE matches = {}
  <2>1. \A x \in Sections : adviser'[x] = IF x = sec /\ clearLegacy
                                         THEN AdviserIn(rows', sec) ELSE mirror[x]
    BY <1>2, <1>5
  <2> QED
    BY <1>3, <1>4, <1>5, <2>1
<1>6. CASE matches # {}
  <2>1. Active(rows', sec) = {}
    <3>1. matches = Active(rows, sec)
      BY <1>1, <1>6
    <3> SUFFICES ASSUME NEW i \in Ids, rows'[i].section = sec, rows'[i].active PROVE FALSE
      BY DEF Active
    <3>2. rows[i].section = sec /\ rows[i].active /\ i \notin matches
      BY <1>3
    <3> QED
      BY <3>1, <3>2 DEF Active
  <2>2. AdviserIn(rows', sec) = NoTeacher
    BY <2>1 DEF AdviserIn
  <2>3. \A x \in Sections : adviser'[x] = IF x = sec THEN NoTeacher ELSE mirror[x]
    BY <1>2, <1>6, <2>2
  <2> QED
    BY <1>3, <1>4, <2>1, <2>2, <2>3
<1> QED
  BY <1>3, <1>5, <1>6

-----------------------------------------------------------------------------
(* Section.adviser, as long as nobody edits sections *)

\* The services keep the two records in agreement.
LEMMA ServicesAgree ==
    ASSUME IndInv, MirrorAgrees, NEW s \in Slots,
           \/ PostAssign(s) \/ ReassignSave(s) \/ DeactivateSave(s) \/ ImportConfirm(s)
    PROVE  MirrorAgrees'
<1>1. /\ RequestOK(s) /\ TablesOK
      /\ adviser \in [Sections -> Teachers \cup {NoTeacher}]
      /\ rows' \in [Ids -> Row]
  BY SaveOK DEF IndInv, TablesOK
<1>2. ASSUME NEW sec \in Sections, NEW t \in Teachers, NEW src \in Ids \cup {NoId},
             Assign(adviser, sec, t, src)
      PROVE  MirrorAgrees'
  <2> SUFFICES ASSUME NEW x \in Sections
               PROVE  IF Active(rows', x) = {} THEN adviser'[x] \in {NoTeacher, Legacy[x]}
                      ELSE \E i \in Active(rows', x) : adviser'[x] = rows'[i].teacher
    BY DEF MirrorAgrees
  <2>1. TablesOK'
    BY <1>1, <1>2, AssignOK
  <2>2. Active(rows', x) # {} =>
          /\ First(Active(rows', x)) \in Active(rows', x)
          /\ AdviserIn(rows', x) = rows'[First(Active(rows', x))].teacher
    <3>1. Active(rows', x) \in SUBSET Ids /\ \A i, j \in Active(rows', x) : i = j
      BY <2>1 DEF TablesOK, OneActiveAdviser, Active
    <3> QED
      BY <3>1, FirstIsTheOne DEF AdviserIn
  <2>3. CASE x = sec
    BY <1>1, <1>2, <2>2, <2>3, AssignViews
  <2>4. CASE x # sec
    <3>1. \/ /\ Active(rows', x) = Active(rows, x)
             /\ AdviserIn(rows', x) = AdviserIn(rows, x)
             /\ adviser'[x] = adviser[x]
          \/ Active(rows', x) = {} /\ adviser'[x] = NoTeacher
      BY <1>1, <1>2, <2>4, AssignViews
    <3>2. Active(rows, x) # {} => adviser[x] = AdviserIn(rows, x)
      BY <1>1, FirstActive DEF MirrorAgrees, AdviserIn
    <3> QED
      BY <3>1, <3>2, <2>2 DEF MirrorAgrees
  <2> QED
    BY <2>3, <2>4
<1>3. CASE PostAssign(s) \/ ImportConfirm(s) \/ ReassignSave(s)
  BY <1>1, <1>2, <1>3 DEF PostAssign, ImportConfirm, ReassignSave, RequestOK
<1>4. CASE DeactivateSave(s)
  <2> DEFINE row == rows[req[s].id]
  <2>1. Remove(adviser, row.section, {row.teacher}, FALSE)
    BY <1>4 DEF DeactivateSave
  <2>2. row.section \in Sections
    BY <1>1, <1>4 DEF DeactivateSave, RequestOK, TablesOK, RowsOK
  <2> HIDE DEF row
  <2>3. \A x \in Sections :
          \/ /\ Active(rows', x) = Active(rows, x)
             /\ \A i \in Active(rows, x) : rows'[i].teacher = rows[i].teacher
             /\ adviser'[x] = adviser[x]
          \/ Active(rows', x) = {} /\ adviser'[x] = NoTeacher
    <3>1. /\ \A i \in Ids : rows'[i].teacher = rows[i].teacher
          /\ \A x \in Sections \ {row.section} :
               Active(rows', x) = Active(rows, x) /\ adviser'[x] = adviser[x]
          /\ \/ Active(rows', row.section) = {} /\ adviser'[row.section] = NoTeacher
             \/ /\ Active(rows', row.section) = Active(rows, row.section)
                /\ adviser'[row.section] = adviser[row.section]
      BY <1>1, <2>1, <2>2, RemoveViews
    <3> QED
      BY <3>1 DEF Active
  <2> QED
    BY <2>3 DEF MirrorAgrees
<1> QED
  BY <1>3, <1>4

\* What a handler reads and checks changes no table.
LEMMA ReadsChangeNothing ==
    ASSUME NEW s \in Slots,
           Post(s) \/ Reassign(s) \/ Deactivate(s) \/ PatchSection(s) \/ ImportPreview(s)
    PROVE  UNCHANGED <<rows, adviser, access>>
<1>1. \A r : Start(s, r) => UNCHANGED <<rows, adviser, access>>
  BY DEF Start
<1>2. CASE Post(s)
  BY <1>1, <1>2 DEF Post
<1>3. CASE Reassign(s)
  BY <1>1, <1>3 DEF Reassign
<1>4. CASE Deactivate(s)
  BY <1>1, <1>4 DEF Deactivate
<1>5. CASE PatchSection(s)
  BY <1>1, <1>5 DEF PatchSection
<1>6. CASE ImportPreview(s)
  BY <1>1, <1>6 DEF ImportPreview
<1> QED
  BY <1>2, <1>3, <1>4, <1>5, <1>6

\* While nobody edits sections, every step keeps the two records in agreement.
LEMMA AgreementKept ==
    ASSUME IndInv, MirrorAgrees, "sections" \notin Endpoints,
           \A s \in Slots : req[s].pc # "section", [Next]_vars
    PROVE  MirrorAgrees' /\ \A s \in Slots : req'[s].pc # "section"
<1>1. CASE UNCHANGED vars
  BY <1>1 DEF vars, MirrorAgrees, Active
<1>2. CASE Next
  <2>1. PICK s \in Slots :
          \/ Post(s) \/ Reassign(s) \/ Deactivate(s) \/ ImportPreview(s) \/ Abandon(s)
          \/ PostAssign(s) \/ ReassignSave(s) \/ DeactivateSave(s) \/ ImportConfirm(s)
    BY <1>2 DEF Next, PatchSection, PatchSectionSave
  <2>2. req \in [Slots -> Request]
    BY DEF IndInv
  <2>3. CASE Post(s) \/ Reassign(s) \/ Deactivate(s) \/ ImportPreview(s)
    <3>1. /\ \A pc, sec, t : [Idle EXCEPT !.pc = pc, !.section = sec, !.teacher = t].pc = pc
          /\ \A i, sec, t : [Idle EXCEPT !.pc = "reassign", !.id = i,
                                         !.section = sec, !.teacher = t].pc = "reassign"
          /\ \A i : [Idle EXCEPT !.pc = "remove", !.id = i].pc = "remove"
      BY DEF Idle
    <3>2. req'[s].pc # "section" /\ \A x \in Slots \ {s} : req'[x] = req[x]
      <4>1. CASE Post(s)
        BY <2>2, <3>1, <4>1 DEF Post, Start
      <4>2. CASE Reassign(s)
        BY <2>2, <3>1, <4>2 DEF Reassign, Start
      <4>3. CASE Deactivate(s)
        BY <2>2, <3>1, <4>3 DEF Deactivate, Start
      <4>4. CASE ImportPreview(s)
        BY <2>2, <3>1, <4>4 DEF ImportPreview, Start
      <4> QED
        BY <2>3, <4>1, <4>2, <4>3, <4>4
    <3>3. MirrorAgrees'
      BY <2>3, ReadsChangeNothing DEF MirrorAgrees, Active
    <3> QED
      BY <3>2, <3>3
  <2>4. CASE Abandon(s)
    BY <2>2, <2>4 DEF Abandon, Finish, Idle, MirrorAgrees, Active
  <2>5. CASE PostAssign(s) \/ ReassignSave(s) \/ DeactivateSave(s) \/ ImportConfirm(s)
    <3>1. MirrorAgrees'
      BY <2>5, ServicesAgree
    <3>2. Finish(s)
      BY <2>5 DEF PostAssign, ReassignSave, DeactivateSave, ImportConfirm
    <3> QED
      BY <2>2, <3>1, <3>2 DEF Finish, Idle
  <2> QED
    BY <2>1, <2>3, <2>4, <2>5
<1> QED
  BY <1>1, <1>2

\* While nobody edits sections, Section.adviser names the adviser of the active
\* assignment, however the other requests overlap.
THEOREM MirrorAgreesUnedited ==
    ASSUME "sections" \notin Endpoints
    PROVE  Spec => []MirrorAgrees
<1> DEFINE Inv == MirrorAgrees /\ \A s \in Slots : req[s].pc # "section"
<1>1. Init => Inv
  BY AdviserConstants DEF Init, MirrorAgrees, Active, NoRow, Idle
<1>2. IndInv /\ Inv /\ [Next]_vars => Inv'
  BY AgreementKept
<1> QED
  BY <1>1, <1>2, Invariance, PTL DEF Spec

-----------------------------------------------------------------------------
(* The appointments *)

\* A service call is one appointment, dismissal or transfer.
LEMMA AssignAppoints ==
    ASSUME TablesOK, NEW mirror \in [Sections -> Teachers \cup {NoTeacher}],
           NEW sec \in Sections, NEW t \in Teachers, NEW src \in Ids \cup {NoId},
           Assign(mirror, sec, t, src)
    PROVE  Appointments!Next
<1>1. /\ AdviserIn(rows', sec) = t
      /\ \A x \in Sections \ {sec} :
           \/ AdviserIn(rows', x) = AdviserIn(rows, x)
           \/ /\ src \in Ids /\ rows[src].section = x
              /\ AdviserIn(rows, x) # NoTeacher /\ AdviserIn(rows', x) = NoTeacher
  BY AssignViews, FirstActive, AdviserConstants DEF AdviserIn
<1>2. CASE \A x \in Sections \ {sec} : AdviserIn(rows', x) = AdviserIn(rows, x)
  <2>1. Current' = [Current EXCEPT ![sec] = t]
    BY <1>1, <1>2 DEF Current
  <2> QED
    BY <2>1 DEF Appointments!Next, Appointments!Appoint
<1>3. CASE \E x \in Sections \ {sec} : AdviserIn(rows', x) # AdviserIn(rows, x)
  <2>1. PICK from \in Sections \ {sec} : AdviserIn(rows', from) # AdviserIn(rows, from)
    BY <1>3
  <2>2. rows[src].section = from /\ AdviserIn(rows, from) # NoTeacher
        /\ AdviserIn(rows', from) = NoTeacher
    BY <1>1, <2>1
  <2>3. \A x \in Sections \ {sec, from} : AdviserIn(rows', x) = AdviserIn(rows, x)
    BY <1>1, <2>2
  <2>4. Current' = [Current EXCEPT ![from] = NoTeacher, ![sec] = t] /\ Current[from] # NoTeacher
    BY <1>1, <2>2, <2>3 DEF Current
  <2> QED
    BY <2>1, <2>4 DEF Appointments!Next, Appointments!Transfer
<1> QED
  BY <1>2, <1>3

\* A removal dismisses one adviser, or nobody.
LEMMA RemoveDismisses ==
    ASSUME TablesOK, NEW mirror \in [Sections -> Teachers \cup {NoTeacher}],
           NEW sec \in Sections, NEW who, NEW clearLegacy \in BOOLEAN,
           Remove(mirror, sec, who, clearLegacy)
    PROVE  \/ Appointments!Next
           \/ UNCHANGED Current
<1>1. /\ \A x \in Sections \ {sec} : AdviserIn(rows', x) = AdviserIn(rows, x)
      /\ AdviserIn(rows', sec) \in {NoTeacher, AdviserIn(rows, sec)}
  BY RemoveViews
<1>2. CASE AdviserIn(rows', sec) = NoTeacher
  <2>1. Current' = [Current EXCEPT ![sec] = NoTeacher]
    BY <1>1, <1>2 DEF Current
  <2> QED
    BY <2>1 DEF Appointments!Next, Appointments!Dismiss
<1>3. CASE AdviserIn(rows', sec) = AdviserIn(rows, sec)
  BY <1>1, <1>3 DEF Current
<1> QED
  BY <1>1, <1>2, <1>3

\* Every step of every request is a step of AdviserAppointments, or a stutter.
LEMMA StepAppoints ==
    ASSUME IndInv, [Next]_vars
    PROVE  [Appointments!Next]_Current
<1>1. CASE UNCHANGED rows
  <2>1. Current' = Current
    BY <1>1 DEF Current, AdviserIn, Active
  <2> QED
    BY <2>1
<1>2. ASSUME NEW s \in Slots,
             PostAssign(s) \/ ReassignSave(s) \/ DeactivateSave(s)
               \/ PatchSectionSave(s) \/ ImportConfirm(s)
      PROVE  [Appointments!Next]_Current
  <2>1. /\ RequestOK(s) /\ req[s] \in Request
        /\ TablesOK /\ adviser \in [Sections -> Teachers \cup {NoTeacher}]
    BY DEF IndInv, TablesOK
  <2>2. CASE PostAssign(s) \/ ImportConfirm(s) \/ ReassignSave(s)
    <3>1. \E src \in Ids \cup {NoId} : Assign(adviser, req[s].section, req[s].teacher, src)
      BY <2>1, <2>2 DEF PostAssign, ImportConfirm, ReassignSave, RequestOK
    <3>2. req[s].section \in Sections /\ req[s].teacher \in Teachers
      BY <2>1, <2>2 DEF PostAssign, ImportConfirm, ReassignSave, RequestOK
    <3> QED
      BY <2>1, <3>1, <3>2, AssignAppoints
  <2>3. CASE DeactivateSave(s)
    <3> DEFINE row == rows[req[s].id]
    <3>1. Remove(adviser, row.section, {row.teacher}, FALSE) /\ row.section \in Sections
      BY <2>1, <2>3 DEF DeactivateSave, RequestOK, TablesOK, RowsOK
    <3> HIDE DEF row
    <3> QED
      BY <2>1, <3>1, RemoveDismisses
  <2>4. CASE PatchSectionSave(s)
    <3> DEFINE sec == req[s].section
               t == req[s].teacher
               mirror == [adviser EXCEPT ![sec] = req[s].seen]
    <3>1. sec \in Sections /\ t \in Teachers \cup {NoTeacher}
          /\ mirror \in [Sections -> Teachers \cup {NoTeacher}]
      BY <2>1, <2>4 DEF PatchSectionSave, RequestOK, Request
    <3>2. \/ UNCHANGED rows
          \/ t # NoTeacher /\ Assign(mirror, sec, t, NoId)
          \/ Remove(mirror, sec, Teachers, TRUE)
      BY <2>4 DEF PatchSectionSave
    <3> HIDE DEF sec, t, mirror
    <3> QED
      BY <1>1, <2>1, <3>1, <3>2, AssignAppoints, RemoveDismisses
  <2> QED
    BY <1>2, <2>2, <2>3, <2>4
<1>3. CASE UNCHANGED vars
  BY <1>1, <1>3 DEF vars
<1>4. CASE Next
  <2>1. PICK s \in Slots :
          \/ Post(s) \/ Reassign(s) \/ Deactivate(s) \/ PatchSection(s) \/ ImportPreview(s)
          \/ Abandon(s)
          \/ PostAssign(s) \/ ReassignSave(s) \/ DeactivateSave(s) \/ PatchSectionSave(s)
          \/ ImportConfirm(s)
    BY <1>4 DEF Next
  <2>2. Abandon(s) => UNCHANGED rows
    BY DEF Abandon
  <2> QED
    BY <1>1, <1>2, <2>1, <2>2, ReadsChangeNothing
<1> QED
  BY <1>3, <1>4

\* The requests implement AdviserAppointments: whoever reads the active
\* assignments sees one adviser or none in every section, and one appointment,
\* dismissal or transfer at a time.
THEOREM ImplementsAppointments == Spec => FollowsAppointments
<1>1. Init => Appointments!Init
  <2> SUFFICES ASSUME Init PROVE \A x \in Sections : AdviserIn(rows, x) = NoTeacher
    BY DEF Appointments!Init, Current
  <2> QED
    BY DEF Init, NoRow, AdviserIn, Active
<1>2. IndInv /\ [Next]_vars => [Appointments!Next]_Current
  BY StepAppoints
<1> QED
  BY <1>1, <1>2, Invariance, PTL DEF Spec, FollowsAppointments, Appointments!Spec

-----------------------------------------------------------------------------
(* The import *)

\* An appointment in a section without an adviser takes no other section from its.
LEMMA AssignKeepsActive ==
    ASSUME TablesOK, NEW sec \in Sections, NEW t \in Teachers,
           Assign(adviser, sec, t, NoId), Active(rows, sec) = {}
    PROVE  \A i \in Ids : rows[i].active => rows'[i].active
<1>1. PICK r \in [Ids -> Row], kept \in SUBSET Ids :
        AssignEffect(adviser, sec, t, NoId, r, kept)
  BY AssignRows DEF TablesOK
<1>2. kept = {} /\ Insert(r, [section |-> sec, teacher |-> t, active |-> TRUE])
  BY <1>1 DEF AssignEffect, Active
<1>3. [section |-> sec, teacher |-> t, active |-> TRUE] \in Row
  BY AdviserConstants DEF Row
<1>4. PICK n \in Ids : /\ r[n].section = NoSection
                       /\ rows' = [r EXCEPT ![n] = [section |-> sec, teacher |-> t, active |-> TRUE]]
  BY <1>2, <1>3, InsertOK
<1>5. ASSUME NEW i \in Ids, rows[i].active PROVE rows'[i].active
  <2>1. rows[i].section # NoSection /\ rows[i].section # sec /\ i # NoId
    BY <1>5, AdviserConstants DEF TablesOK, ActiveOK, Active
  <2>2. r[i].section = rows[i].section /\ r[i].active
    BY <1>1, <1>5, <2>1 DEF AssignEffect
  <2>3. rows'[i] = r[i]
    BY <1>4, <2>1, <2>2
  <2> QED
    BY <2>2, <2>3
<1> QED
  BY <1>5

\* However old its preview and however the other requests overlap, the
\* confirmation of an import takes no section from its adviser.
THEOREM ImportReplacesNobody == Spec => ImportNeverReplaces
<1>1. ASSUME IndInv, [Next]_vars PROVE [NeverReplaces("import")]_vars
  <2> SUFFICES ASSUME Next, NEW x \in Slots, req[x].pc = "import", req'[x].pc = "idle"
               PROVE  \A i \in Ids : rows[i].active => rows'[i].active
    BY <1>1 DEF NeverReplaces
  <2>1. req \in [Slots -> Request] /\ TablesOK /\ RequestOK(x)
    BY <1>1 DEF IndInv
  <2>2. PICK s \in Slots :
          \/ Post(s) \/ Reassign(s) \/ Deactivate(s) \/ PatchSection(s) \/ ImportPreview(s)
          \/ PostAssign(s) \/ ReassignSave(s) \/ DeactivateSave(s) \/ PatchSectionSave(s)
          \/ ImportConfirm(s) \/ Abandon(s)
    BY DEF Next
  <2>3. CASE Post(s) \/ Reassign(s) \/ Deactivate(s) \/ PatchSection(s) \/ ImportPreview(s)
    BY <2>3, ReadsChangeNothing
  <2>4. ASSUME PostAssign(s) \/ ReassignSave(s) \/ DeactivateSave(s) \/ PatchSectionSave(s)
        PROVE  FALSE
    <3>1. Finish(s) /\ req[s].pc # "import"
      BY <2>4 DEF PostAssign, ReassignSave, DeactivateSave, PatchSectionSave
    <3> QED
      BY <2>1, <3>1 DEF Finish
  <2>5. CASE ImportConfirm(s)
    <3>1. x = s
      BY <2>1, <2>5 DEF ImportConfirm, Finish
    <3> QED
      BY <2>1, <2>5, <3>1, AssignKeepsActive DEF ImportConfirm, RequestOK
  <2>6. CASE Abandon(s)
    BY <2>6 DEF Abandon
  <2> QED
    BY <2>2, <2>3, <2>4, <2>5, <2>6
<1> QED
  BY <1>1, Invariance, PTL DEF Spec, ImportNeverReplaces

=============================================================================
