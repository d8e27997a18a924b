-------------------------- MODULE Enrolment_proofs --------------------------
(***************************************************************************)
(* Theorems about Enrolment for any years, grade levels, sections and      *)
(* students, and any number of overlapping requests.                       *)
(***************************************************************************)
EXTENDS Enrolment, FiniteSetTheorems, TLAPS

\* What an enrolment says of its section stays true of it.
HasSection(r) ==
    r.section # NoSection => \E c \in sections[r.section] : c.year = r.year
FitsSection(r) ==
    r.section # NoSection =>
        \E c \in sections[r.section] : c.grade = r.grade /\ c.strand \in {NoStrand, r.strand}
IsComplete(r) == r.section # NoSection /\ (r.grade \in Senior => r.strand # NoStrand)

RowOK(r) ==
    /\ r \in Enrollment
    /\ HasSection(r)
    /\ ~Clears => IsComplete(r)
    /\ ~Clears /\ ~SectionsMove => FitsSection(r)

\* Only the Senior High School has strands.
SectionOK(c) == c \in Section /\ (c.strand # NoStrand => c.grade \in Senior)

\* The row q may take the place of c.
Replaces(q, c) == q.year = c.year /\ (~SectionsMove => q.grade = c.grade /\ q.strand = c.strand)

\* What a handler has read and checked still holds when it saves.
RequestOK(s) ==
    /\ req[s].op = "section" =>
         /\ SectionOK(req[s].row)
         /\ req[s].id # NoId => \E c \in sections[req[s].id] : Replaces(req[s].row, c)
    /\ req[s].op = "enrol" => \A r \in req[s].rows : RowOK(r)
    /\ req[s].op = "enrolment" => RowOK(req[s].row)

TablesOK ==
    /\ live \in [Years \cup Grades \cup Strands -> BOOLEAN]
    /\ sections \in Table(SectionIds, Section)
    /\ enrolments \in Table(EnrolIds, Enrollment)
    /\ \A i \in SectionIds : \A c \in sections[i] : SectionOK(c)
    /\ \A i \in EnrolIds : \A r \in enrolments[i] : RowOK(r)
    /\ UniqueEnrolments(enrolments)

IndInv ==
    /\ TablesOK
    /\ req \in [Slots -> Request]
    /\ \A s \in Slots : RequestOK(s)

-----------------------------------------------------------------------------
(* Requests *)

\* What a request is about to save, by its kind.
LEMMA RequestFields ==
    ASSUME NEW r \in Request
    PROVE  /\ r.op \in {"idle", "live", "section", "enrol", "enrolment"}
           /\ r.op = "idle" => r = Idle
           /\ r.op = "live" => r.id \in Years \cup Grades \cup Strands /\ r.value \in BOOLEAN
           /\ r.op = "section" => r.id \in SectionIds \cup {NoId} /\ r.row \in Section
           /\ r.op = "enrol" => r.rows \in SUBSET Enrollment
           /\ r.op = "enrolment" => r.id \in EnrolIds /\ r.row \in Enrollment
BY DEF Request, Idle

\* A slot without a request.
LEMMA IdleRequest == Idle \in Request /\ Idle.op = "idle"
BY DEF Idle, Request

\* Sections that are only replaced leave every enrolment where it is.
LEMMA RowsStay ==
    ASSUME \A i \in SectionIds : \A c \in sections[i] :
               \E q \in sections'[i] : Replaces(q, c)
    PROVE  \A r : RowOK(r) => RowOK(r)'
<1> SUFFICES ASSUME NEW r, RowOK(r) PROVE RowOK(r)'
  OBVIOUS
<1>1. r \in Enrollment /\ (r.section # NoSection => r.section \in SectionIds)
  BY DEF RowOK, Enrollment
<1>2. HasSection(r)'
  <2> SUFFICES ASSUME r.section # NoSection
               PROVE  \E c \in sections'[r.section] : c.year = r.year
    BY DEF HasSection
  <2>1. PICK c \in sections[r.section] : c.year = r.year
    BY DEF RowOK, HasSection
  <2>2. PICK q \in sections'[r.section] : Replaces(q, c)
    BY <1>1, <2>1
  <2> QED
    BY <2>1, <2>2 DEF Replaces
<1>3. ASSUME ~Clears, ~SectionsMove PROVE FitsSection(r)'
  <2> SUFFICES ASSUME r.section # NoSection
               PROVE  \E c \in sections'[r.section] :
                        c.grade = r.grade /\ c.strand \in {NoStrand, r.strand}
    BY DEF FitsSection
  <2>1. PICK c \in sections[r.section] : c.grade = r.grade /\ c.strand \in {NoStrand, r.strand}
    BY <1>3 DEF RowOK, FitsSection
  <2>2. PICK q \in sections'[r.section] : Replaces(q, c)
    BY <1>1, <2>1
  <2> QED
    BY <1>3, <2>1, <2>2 DEF Replaces
<1> QED
  BY <1>1, <1>2, <1>3 DEF RowOK, IsComplete

\* So do the other requests stay in order.
LEMMA RequestsStay ==
    ASSUME IndInv, NEW s \in Slots,
           \A i \in SectionIds : \A c \in sections[i] :
               \E q \in sections'[i] : Replaces(q, c),
           req'[s] = req[s]
    PROVE  RequestOK(s)'
<1>1. RequestOK(s) /\ req[s] \in Request
  BY DEF IndInv
<1>2. \A r : RowOK(r) => RowOK(r)'
  BY RowsStay
<1>3. ASSUME req[s].op = "section", req[s].id # NoId
      PROVE  \E c \in sections'[req[s].id] : Replaces(req[s].row, c)
  <2>1. req[s].id \in SectionIds
    BY <1>1, <1>3, RequestFields
  <2>2. PICK c \in sections[req[s].id] : Replaces(req[s].row, c)
    BY <1>1, <1>3 DEF RequestOK
  <2>3. PICK q \in sections'[req[s].id] : Replaces(q, c)
    BY <2>1, <2>2
  <2> QED
    BY <2>2, <2>3 DEF Replaces
<1> QED
  BY <1>1, <1>2, <1>3 DEF RequestOK, SectionOK

\* A handler that reads and checks, and means to save r.
LEMMA StartOK ==
    ASSUME IndInv, NEW s \in Slots, NEW r \in Request, Start(s, r),
           r.op = "section" =>
             /\ SectionOK(r.row)
             /\ r.id # NoId => \E c \in sections[r.id] : Replaces(r.row, c),
           r.op = "enrol" => \A q \in r.rows : RowOK(q),
           r.op = "enrolment" => RowOK(r.row)
    PROVE  IndInv'
<1>1. /\ req' = [req EXCEPT ![s] = r]
      /\ live' = live /\ sections' = sections /\ enrolments' = enrolments
  BY DEF Start
<1>2. \A q : RowOK(q)' = RowOK(q)
  BY <1>1 DEF RowOK, HasSection, FitsSection, IsComplete
<1>3. TablesOK'
  BY <1>1, <1>2 DEF IndInv, TablesOK, SectionOK
<1>4. req \in [Slots -> Request] /\ req' \in [Slots -> Request]
  BY <1>1 DEF IndInv
<1>5. ASSUME NEW x \in Slots PROVE RequestOK(x)'
  <2>1. CASE x = s
    <3>1. req'[x] = r
      BY <2>1, <1>1, <1>4
    <3> QED
      BY <3>1, <1>1, <1>2 DEF RequestOK, SectionOK
  <2>2. CASE x # s
    <3>1. req'[x] = req[x]
      BY <2>2, <1>1, <1>4
    <3> QED
      BY <3>1, <1>1, RequestsStay DEF Replaces
  <2> QED
    BY <2>1, <2>2
<1> QED
  BY <1>3, <1>4, <1>5 DEF IndInv

\* A request that ends, after a save that kept the tables in order.
LEMMA FinishOK ==
    ASSUME IndInv, NEW s \in Slots, Finish(s), TablesOK',
           \A i \in SectionIds : \A c \in sections[i] :
               \E q \in sections'[i] : Replaces(q, c)
    PROVE  IndInv'
<1>1. req' = [req EXCEPT ![s] = Idle] /\ req \in [Slots -> Request]
  BY DEF Finish, IndInv
<1>2. req' \in [Slots -> Request]
  BY <1>1, IdleRequest
<1>3. ASSUME NEW x \in Slots PROVE RequestOK(x)'
  <2>1. CASE x = s
    <3>1. req'[x].op = "idle"
      BY <2>1, <1>1, IdleRequest
    <3> QED
      BY <3>1 DEF RequestOK
  <2>2. CASE x # s
    <3>1. req'[x] = req[x]
      BY <2>2, <1>1
    <3> QED
      BY <3>1, RequestsStay
  <2> QED
    BY <2>1, <2>2
<1> QED
  BY <1>2, <1>3 DEF IndInv

-----------------------------------------------------------------------------
(* The handlers read and check *)

\* An activation, or an archiving.
LEMMA LiveOK ==
    ASSUME IndInv, NEW s \in Slots, PatchYear(s) \/ PatchReference(s) \/ RestoreGrade(s)
    PROVE  IndInv'
<1>1. PICK x \in Years \cup Grades \cup Strands, v \in BOOLEAN :
        Start(s, [op |-> "live", id |-> x, value |-> v])
  BY DEF PatchYear, PatchReference, RestoreGrade
<1> DEFINE r == [op |-> "live", id |-> x, value |-> v]
<1>2. r \in Request /\ r.op = "live"
  BY DEF Request
<1> HIDE DEF r
<1> QED
  BY <1>1, <1>2, StartOK DEF r

\* A section that is created or changed.
LEMMA SectionReadOK ==
    ASSUME IndInv, NEW s \in Slots, PostSection(s) \/ PatchSection(s)
    PROVE  IndInv'
<1>1. ASSUME NEW i \in SectionIds \cup {NoId}, NEW q \in Section, ValidSection(q, i),
             i # NoId => \E c \in sections[i] : Replaces(q, c),
             Start(s, [op |-> "section", id |-> i, row |-> q])
      PROVE  IndInv'
  <2> DEFINE r == [op |-> "section", id |-> i, row |-> q]
  <2>1. r \in Request /\ r.op = "section" /\ r.id = i /\ r.row = q
    BY DEF Request
  <2>2. SectionOK(q)
    BY <1>1 DEF ValidSection, SectionOK
  <2> HIDE DEF r
  <2> QED
    BY <2>1, <2>2, <1>1, StartOK DEF r
<1>2. CASE PostSection(s)
  BY <1>1, <1>2 DEF PostSection
<1>3. CASE PatchSection(s)
  <2>1. PICK i \in SectionIds, q \in Section :
          /\ \E old \in sections[i] :
               q.year = old.year /\ (~SectionsMove => q.grade = old.grade /\ q.strand = old.strand)
          /\ ValidSection(q, i)
          /\ Start(s, [op |-> "section", id |-> i, row |-> q])
    BY <1>3 DEF PatchSection
  <2> QED
    BY <1>1, <2>1 DEF Replaces
<1> QED
  BY <1>2, <1>3

\* An enrolment that the serializer accepts is complete and fits its section.
LEMMA ValidIsOK ==
    ASSUME IndInv, NEW r \in Enrollment, NEW i, ValidEnrolment(r, i)
    PROVE  RowOK(r) /\ IsComplete(r)
<1>1. IsComplete(r)
  BY DEF ValidEnrolment, IsComplete
<1>2. r.section \in SectionIds
  BY DEF ValidEnrolment, Enrollment
<1>3. PICK c \in sections[r.section] :
        /\ c.grade = r.grade /\ c.year = r.year
        /\ c.strand = NoStrand \/ r.strand \in {NoStrand, c.strand}
  BY DEF ValidEnrolment
<1>4. SectionOK(c)
  BY <1>2, <1>3 DEF IndInv, TablesOK
<1>5. c.strand \in {NoStrand, r.strand}
  BY <1>3, <1>4 DEF SectionOK, ValidEnrolment
<1> QED
  BY <1>1, <1>3, <1>5 DEF RowOK, HasSection, FitsSection

\* One student, or a list of them.
LEMMA PostEnrolmentsOK ==
    ASSUME IndInv, NEW s \in Slots, PostEnrolments(s)
    PROVE  IndInv'
<1>1. PICK r \in Enrollment, sts \in (SUBSET Students) \ {{}} :
        /\ \A q \in {[r EXCEPT !.student = st] : st \in sts} : ValidEnrolment(q, NoId)
        /\ Start(s, [op |-> "enrol", rows |-> {[r EXCEPT !.student = st] : st \in sts}])
  BY DEF PostEnrolments
<1> DEFINE rows == {[r EXCEPT !.student = st] : st \in sts}
           q == [op |-> "enrol", rows |-> rows]
<1>2. rows \in SUBSET Enrollment
  BY DEF Enrollment
<1>3. \A x \in rows : RowOK(x)
  BY <1>1, <1>2, ValidIsOK
<1>4. Start(s, q)
  BY <1>1
<1> HIDE DEF rows
<1>5. q \in Request /\ q.op = "enrol" /\ q.rows = rows
  BY <1>2 DEF Request
<1> HIDE DEF q
<1> QED
  BY <1>3, <1>4, <1>5, StartOK

\* A row whose section or strand is cleared is still in its section's year.
LEMMA ClearedOK ==
    ASSUME IndInv, NEW r \in Enrollment, NEW i, NEW old, ValidEnrolment(r, i),
           NEW x \in Cleared(r.section, old.section, NoSection),
           NEW y \in Cleared(r.strand, old.strand, NoStrand)
    PROVE  RowOK([r EXCEPT !.section = x, !.strand = y])
<1> DEFINE row == [r EXCEPT !.section = x, !.strand = y]
<1>1. RowOK(r) /\ IsComplete(r)
  BY ValidIsOK
<1>2. x \in {r.section, NoSection} /\ y \in {r.strand, NoStrand}
      /\ (~Clears => x = r.section /\ y = r.strand)
  BY DEF Cleared
<1>3. /\ row \in Enrollment /\ row.year = r.year /\ row.grade = r.grade
      /\ row.section = x /\ row.strand = y
  BY <1>2 DEF Enrollment
<1> HIDE DEF row
<1>4. HasSection(row)
  BY <1>1, <1>2, <1>3 DEF RowOK, HasSection
<1>5. RowOK(row)
  BY <1>1, <1>2, <1>3, <1>4 DEF RowOK, IsComplete, FitsSection
<1> QED
  BY <1>5 DEF row

\* A change of an enrolment.
LEMMA PatchEnrolmentOK ==
    ASSUME IndInv, NEW s \in Slots, PatchEnrolment(s)
    PROVE  IndInv'
<1>1. PICK i \in EnrolIds, r \in Enrollment :
        \E old \in enrolments[i] :
          /\ ValidEnrolment(r, i)
          /\ \E x \in Cleared(r.section, old.section, NoSection),
                y \in Cleared(r.strand, old.strand, NoStrand) :
               Start(s, [op |-> "enrolment", id |-> i,
                         row |-> [r EXCEPT !.section = x, !.strand = y]])
  BY DEF PatchEnrolment
<1>2. PICK row : RowOK(row) /\ Start(s, [op |-> "enrolment", id |-> i, row |-> row])
  BY <1>1, ClearedOK
<1> DEFINE q == [op |-> "enrolment", id |-> i, row |-> row]
<1>3. q \in Request /\ q.op = "enrolment" /\ q.row = row
  BY <1>2 DEF Request, RowOK
<1> HIDE DEF q
<1> QED
  BY <1>2, <1>3, StartOK DEF q

-----------------------------------------------------------------------------
(* The saves *)

\* A year, grade level or strand is activated or archived.
LEMMA SaveLiveOK ==
    ASSUME IndInv, NEW s \in Slots, SaveLive(s)
    PROVE  IndInv'
<1>1. /\ live' = [live EXCEPT ![req[s].id] = req[s].value] /\ Finish(s)
      /\ sections' = sections /\ enrolments' = enrolments
  BY DEF SaveLive
<1>2. req[s].id \in Years \cup Grades \cup Strands /\ req[s].value \in BOOLEAN
  BY RequestFields DEF SaveLive, IndInv
<1>3. \A q : RowOK(q)' = RowOK(q)
  BY <1>1 DEF RowOK, HasSection, FitsSection, IsComplete
<1>4. TablesOK'
  BY <1>1, <1>2, <1>3 DEF IndInv, TablesOK, SectionOK
<1> QED
  BY <1>1, <1>4, FinishOK DEF Replaces

\* The row of a section is new, or takes the place of one of its year.
LEMMA SaveSectionOK ==
    ASSUME IndInv, NEW s \in Slots, SaveSection(s)
    PROVE  IndInv'
<1>1. PICK i \in SectionIds :
        /\ IF req[s].id = NoId THEN sections[i] = {} ELSE i = req[s].id
        /\ sections' = [sections EXCEPT ![i] = {req[s].row}]
  BY DEF SaveSection
<1>2. /\ req[s].op = "section" /\ Finish(s) /\ live' = live /\ enrolments' = enrolments
      /\ TablesOK /\ RequestOK(s) /\ req[s] \in Request
  BY DEF SaveSection, IndInv
<1>3. SectionOK(req[s].row)
  BY <1>2 DEF RequestOK
<1>4. sections \in Table(SectionIds, Section)
  BY <1>2 DEF TablesOK
<1>5. ASSUME NEW j \in SectionIds, NEW c \in sections[j]
      PROVE  \E q \in sections'[j] : Replaces(q, c)
  <2>1. CASE j # i
    <3>1. sections'[j] = sections[j]
      BY <1>1, <1>4, <2>1 DEF Table
    <3> QED
      BY <3>1 DEF Replaces
  <2>2. CASE j = i
    <3>1. req[s].id = i /\ req[s].id # NoId /\ sections'[i] = {req[s].row}
      BY <1>1, <1>4, <1>5, <2>2 DEF Table
    <3>2. PICK d \in sections[i] : Replaces(req[s].row, d)
      BY <1>2, <3>1 DEF RequestOK
    <3>3. d = c
      BY <1>4, <1>5, <2>2, <3>2 DEF Table
    <3> QED
      BY <2>2, <3>1, <3>2, <3>3
  <2> QED
    BY <2>1, <2>2
<1>6. \A r : RowOK(r) => RowOK(r)'
  BY <1>5, RowsStay
<1>7. sections' \in Table(SectionIds, Section)
  BY <1>1, <1>3, <1>4 DEF Table, SectionOK
<1>8. ASSUME NEW j \in SectionIds, NEW c \in sections'[j] PROVE SectionOK(c)'
  <2>1. sections'[j] = IF j = i THEN {req[s].row} ELSE sections[j]
    BY <1>1, <1>4 DEF Table
  <2> QED
    BY <1>2, <1>3, <1>8, <2>1 DEF TablesOK, SectionOK
<1>9. TablesOK'
  BY <1>2, <1>6, <1>7, <1>8 DEF TablesOK
<1> QED
  BY <1>2, <1>5, <1>9, FinishOK

\* All rows of a list get a primary key of their own.
LEMMA SaveEnrolmentsOK ==
    ASSUME IndInv, NEW s \in Slots, SaveEnrolments(s)
    PROVE  IndInv'
<1>1. PICK f \in [req[s].rows -> {i \in EnrolIds : enrolments[i] = {}}] :
        /\ \A r, q \in req[s].rows : f[r] = f[q] => r = q
        /\ enrolments' = [i \in EnrolIds |->
                            enrolments[i] \cup {r \in req[s].rows : f[r] = i}]
  BY DEF SaveEnrolments
<1>2. /\ req[s].op = "enrol" /\ Finish(s) /\ live' = live /\ sections' = sections
      /\ UniqueEnrolments(enrolments)' /\ TablesOK /\ RequestOK(s) /\ req[s] \in Request
  BY DEF SaveEnrolments, IndInv
<1>3. req[s].rows \in SUBSET Enrollment /\ \A r \in req[s].rows : RowOK(r)
  BY <1>2, RequestFields DEF RequestOK
<1>4. \A q : RowOK(q)' = RowOK(q)
  BY <1>2 DEF RowOK, HasSection, FitsSection, IsComplete
<1>5. ASSUME NEW i \in EnrolIds
      PROVE  /\ enrolments'[i] \in {{}} \cup {{r} : r \in Enrollment}
             /\ \A r \in enrolments'[i] : RowOK(r)
  <2>1. enrolments'[i] = enrolments[i] \cup {r \in req[s].rows : f[r] = i}
    BY <1>1
  <2>2. enrolments[i] \in {{}} \cup {{r} : r \in Enrollment}
        /\ \A r \in enrolments[i] : RowOK(r)
    BY <1>2 DEF TablesOK, Table
  <2>3. CASE \E r \in req[s].rows : f[r] = i
    <3>1. PICK r \in req[s].rows : f[r] = i
      BY <2>3
    <3>2. enrolments[i] = {} /\ {q \in req[s].rows : f[q] = i} = {r}
      BY <1>1, <3>1
    <3> QED
      BY <1>3, <2>1, <3>1, <3>2
  <2>4. CASE ~ \E r \in req[s].rows : f[r] = i
    <3>1. enrolments'[i] = enrolments[i]
      BY <2>1, <2>4
    <3> QED
      BY <2>2, <3>1
  <2> QED
    BY <2>3, <2>4
<1>6. enrolments' \in Table(EnrolIds, Enrollment)
  BY <1>1, <1>5 DEF Table
<1>7. TablesOK'
  BY <1>2, <1>4, <1>5, <1>6 DEF TablesOK, SectionOK
<1> QED
  BY <1>2, <1>7, FinishOK DEF Replaces

\* An enrolment takes the place of the one that was changed.
LEMMA SaveEnrolmentOK ==
    ASSUME IndInv, NEW s \in Slots, SaveEnrolment(s)
    PROVE  IndInv'
<1>1. /\ enrolments' = [enrolments EXCEPT ![req[s].id] = {req[s].row}]
      /\ req[s].op = "enrolment" /\ Finish(s) /\ live' = live /\ sections' = sections
      /\ UniqueEnrolments(enrolments)' /\ TablesOK /\ RequestOK(s) /\ req[s] \in Request
  BY DEF SaveEnrolment, IndInv
<1>2. req[s].id \in EnrolIds /\ req[s].row \in Enrollment /\ RowOK(req[s].row)
  BY <1>1, RequestFields DEF RequestOK
<1>3. \A q : RowOK(q)' = RowOK(q)
  BY <1>1 DEF RowOK, HasSection, FitsSection, IsComplete
<1>4. enrolments \in Table(EnrolIds, Enrollment) /\ enrolments' \in Table(EnrolIds, Enrollment)
  BY <1>1, <1>2 DEF TablesOK, Table
<1>5. ASSUME NEW i \in EnrolIds, NEW r \in enrolments'[i] PROVE RowOK(r)
  <2>1. enrolments'[i] = IF i = req[s].id THEN {req[s].row} ELSE enrolments[i]
    BY <1>1, <1>2, <1>4 DEF Table
  <2> QED
    BY <1>1, <1>2, <1>5, <2>1 DEF TablesOK
<1>6. TablesOK'
  BY <1>1, <1>3, <1>4, <1>5 DEF TablesOK, SectionOK
<1> QED
  BY <1>1, <1>6, FinishOK DEF Replaces

\* A request that ends without a save.
LEMMA AbandonOK ==
    ASSUME IndInv, NEW s \in Slots, Abandon(s)
    PROVE  IndInv'
<1>1. Finish(s) /\ live' = live /\ sections' = sections /\ enrolments' = enrolments
  BY DEF Abandon
<1>2. TablesOK'
  BY <1>1 DEF IndInv, TablesOK, RowOK, HasSection, FitsSection, IsComplete, SectionOK
<1> QED
  BY <1>1, <1>2, FinishOK DEF Replaces

-----------------------------------------------------------------------------
(* The invariant *)

\* A fresh deployment satisfies the invariant.
THEOREM InitOK == Init => IndInv
<1> SUFFICES ASSUME Init PROVE IndInv
  OBVIOUS
<1>1. TablesOK
  BY DEF Init, TablesOK, Table, UniqueEnrolments
<1> QED
  BY <1>1, IdleRequest DEF Init, IndInv, RequestOK

\* Every step keeps it.
THEOREM NextOK == IndInv /\ [Next]_vars => IndInv'
<1> SUFFICES ASSUME IndInv, [Next]_vars PROVE IndInv'
  OBVIOUS
<1>1. CASE Next
  BY <1>1, LiveOK, SectionReadOK, PostEnrolmentsOK, PatchEnrolmentOK, SaveLiveOK, SaveSectionOK,
     SaveEnrolmentsOK, SaveEnrolmentOK, AbandonOK DEF Next
<1>2. CASE UNCHANGED vars
  BY <1>2 DEF vars, IndInv, TablesOK, RequestOK, RowOK, HasSection, FitsSection, IsComplete,
              SectionOK, Replaces
<1> QED
  BY <1>1, <1>2

\* The inductive invariant, for any number of overlapping requests.
THEOREM Invariance == Spec => []IndInv
BY InitOK, NextOK, PTL DEF Spec

-----------------------------------------------------------------------------
(* Requests one at a time *)

\* One year is active at most; an activation still finds no other one, and an
\* enrolment that is saved is one of the active year.
SerialRequestOK(s) ==
    /\ req[s].op = "live" /\ req[s].id \in Years /\ req[s].value =>
         \A x \in Years \ {req[s].id} : ~live[x]
    /\ req[s].op = "enrol" => \A r \in req[s].rows : live[r.year]
    /\ req[s].op = "enrolment" =>
         live[req[s].row.year] /\ \A old \in enrolments[req[s].id] : old.year = req[s].row.year

SerialInv ==
    /\ \A x, y \in Years : live[x] /\ live[y] => x = y
    /\ \A s \in Slots : SerialRequestOK(s)

\* What a handler that reads means to save.
LEMMA ReadSerial ==
    ASSUME OneAtATime, IndInv, SerialInv, NEW s \in Slots,
           \/ PatchYear(s) \/ PatchReference(s) \/ RestoreGrade(s)
           \/ PostSection(s) \/ PatchSection(s) \/ PostEnrolments(s) \/ PatchEnrolment(s)
    PROVE  SerialInv' /\ enrolments' = enrolments /\ live' = live
<1>1. ASSUME NEW r, Start(s, r),
             r.op = "live" /\ r.id \in Years /\ r.value => \A x \in Years \ {r.id} : ~live[x],
             r.op = "enrol" => \A q \in r.rows : live[q.year],
             r.op = "enrolment" =>
               live[r.row.year] /\ \A old \in enrolments[r.id] : old.year = r.row.year
      PROVE  SerialInv' /\ enrolments' = enrolments /\ live' = live
  <2>1. /\ req' = [req EXCEPT ![s] = r] /\ req \in [Slots -> Request]
        /\ live' = live /\ enrolments' = enrolments
    BY <1>1 DEF Start, IndInv
  <2>2. \A x \in Slots : x = s
    BY DEF OneAtATime
  <2>3. req'[s] = r
    BY <2>1
  <2>4. SerialRequestOK(s)'
    BY <1>1, <2>1, <2>3 DEF SerialRequestOK
  <2> QED
    BY <2>1, <2>2, <2>4 DEF SerialInv
<1>2. CASE PatchYear(s)
  <2>1. PICK y \in Years, v \in BOOLEAN :
          /\ v => \A x \in Years \ {y} : ~live[x]
          /\ Start(s, [op |-> "live", id |-> y, value |-> v])
    BY <1>2 DEF PatchYear
  <2> DEFINE r == [op |-> "live", id |-> y, value |-> v]
  <2>2. r.op = "live" /\ r.id = y /\ r.value = v
    OBVIOUS
  <2> HIDE DEF r
  <2> QED
    BY <1>1, <2>1, <2>2 DEF r
<1>3. CASE PatchReference(s) \/ RestoreGrade(s)
  <2>1. PICK x \in Grades \cup Strands, v \in BOOLEAN :
          Start(s, [op |-> "live", id |-> x, value |-> v])
    BY <1>3 DEF PatchReference, RestoreGrade
  <2> DEFINE r == [op |-> "live", id |-> x, value |-> v]
  <2>2. r.op = "live" /\ r.id = x
    OBVIOUS
  <2>3. x \notin Years
    BY <2>1, EnrolmentAssumption DEF EnrolmentConstants
  <2> HIDE DEF r
  <2> QED
    BY <1>1, <2>1, <2>2, <2>3 DEF r
<1>4. CASE PostSection(s) \/ PatchSection(s)
  <2>1. PICK i \in SectionIds \cup {NoId}, q \in Section :
          Start(s, [op |-> "section", id |-> i, row |-> q])
    BY <1>4 DEF PostSection, PatchSection
  <2> DEFINE r == [op |-> "section", id |-> i, row |-> q]
  <2>2. r.op = "section"
    OBVIOUS
  <2> HIDE DEF r
  <2> QED
    BY <1>1, <2>1, <2>2 DEF r
<1>5. CASE PostEnrolments(s)
  <2>1. PICK q \in Enrollment, sts \in (SUBSET Students) \ {{}} :
          /\ \A x \in {[q EXCEPT !.student = st] : st \in sts} : ValidEnrolment(x, NoId)
          /\ Start(s, [op |-> "enrol", rows |-> {[q EXCEPT !.student = st] : st \in sts}])
    BY <1>5 DEF PostEnrolments
  <2> DEFINE rows == {[q EXCEPT !.student = st] : st \in sts}
             r == [op |-> "enrol", rows |-> rows]
  <2>2. \A x \in rows : live[x.year]
    BY <2>1 DEF ValidEnrolment
  <2>3. Start(s, r)
    BY <2>1
  <2> HIDE DEF rows
  <2>4. r.op = "enrol" /\ r.rows = rows
    OBVIOUS
  <2> HIDE DEF r
  <2> QED
    BY <1>1, <2>2, <2>3, <2>4
<1>6. CASE PatchEnrolment(s)
  <2>1. PICK i \in EnrolIds, q \in Enrollment :
          \E old \in enrolments[i] :
            /\ q.year = old.year /\ live[q.year]
            /\ \E x \in Cleared(q.section, old.section, NoSection),
                  y \in Cleared(q.strand, old.strand, NoStrand) :
                 Start(s, [op |-> "enrolment", id |-> i,
                           row |-> [q EXCEPT !.section = x, !.strand = y]])
    BY <1>6 DEF PatchEnrolment, ValidEnrolment
  <2>2. PICK row : /\ live[row.year] /\ \A old \in enrolments[i] : old.year = row.year
                   /\ Start(s, [op |-> "enrolment", id |-> i, row |-> row])
    <3>1. \A x, y : [q EXCEPT !.section = x, !.strand = y].year = q.year
      BY DEF Enrollment
    <3>2. \A a, b \in enrolments[i] : a = b
      BY DEF IndInv, TablesOK, Table
    <3> QED
      BY <2>1, <3>1, <3>2
  <2> DEFINE r == [op |-> "enrolment", id |-> i, row |-> row]
  <2>3. r.op = "enrolment" /\ r.id = i /\ r.row = row
    OBVIOUS
  <2> HIDE DEF r
  <2> QED
    BY <1>1, <2>2, <2>3 DEF r
<1> QED
  BY <1>2, <1>3, <1>4, <1>5, <1>6

\* What a save leaves as it was.
LEMMA SaveSerial ==
    ASSUME OneAtATime, IndInv, SerialInv, NEW s \in Slots,
           \/ SaveLive(s) \/ SaveSection(s) \/ SaveEnrolments(s) \/ SaveEnrolment(s) \/ Abandon(s)
    PROVE  SerialInv' /\ \A y \in Years : YearKept(y)
<1>1. SerialRequestOK(s) /\ req[s] \in Request /\ TablesOK
  BY DEF SerialInv, IndInv
<1>2. \A x \in Slots : SerialRequestOK(x)'
  <2>1. Finish(s) /\ req \in [Slots -> Request]
    BY DEF SaveLive, SaveSection, SaveEnrolments, SaveEnrolment, Abandon, IndInv
  <2>2. req'[s] = Idle
    BY <2>1 DEF Finish
  <2> QED
    BY <2>2, IdleRequest DEF SerialRequestOK, OneAtATime
<1>3. CASE SaveLive(s)
  <2>1. /\ live' = [live EXCEPT ![req[s].id] = req[s].value] /\ enrolments' = enrolments
        /\ req[s].op = "live" /\ live \in [Years \cup Grades \cup Strands -> BOOLEAN]
    BY <1>1, <1>3 DEF SaveLive, TablesOK
  <2>2. \A x, y \in Years : live'[x] /\ live'[y] => x = y
    BY <1>1, <2>1 DEF SerialRequestOK, SerialInv
  <2>3. \A y \in Years : YearKept(y)
    BY <2>1 DEF YearKept, EnrolmentRows
  <2> QED
    BY <1>2, <2>2, <2>3 DEF SerialInv
<1>4. CASE SaveSection(s) \/ Abandon(s)
  <2>1. live' = live /\ enrolments' = enrolments
    BY <1>4 DEF SaveSection, Abandon
  <2> QED
    BY <1>2, <2>1 DEF SerialInv, YearKept, EnrolmentRows
<1>5. CASE SaveEnrolments(s)
  <2>1. PICK f \in [req[s].rows -> {i \in EnrolIds : enrolments[i] = {}}] :
          enrolments' = [i \in EnrolIds |->
                           enrolments[i] \cup {r \in req[s].rows : f[r] = i}]
    BY <1>5 DEF SaveEnrolments
  <2>2. req[s].op = "enrol" /\ live' = live /\ \A r \in req[s].rows : live[r.year]
    BY <1>1, <1>5 DEF SaveEnrolments, SerialRequestOK
  <2>3. ASSUME NEW y \in Years, ~live[y], NEW r, r.year = y
        PROVE  \A i \in EnrolIds : r \in enrolments'[i] <=> r \in enrolments[i]
    BY <2>1, <2>2, <2>3
  <2> QED
    BY <1>2, <2>2, <2>3 DEF SerialInv, YearKept, EnrolmentRows
<1>6. CASE SaveEnrolment(s)
  <2>1. /\ req[s].op = "enrolment" /\ live' = live
        /\ enrolments' = [enrolments EXCEPT ![req[s].id] = {req[s].row}]
        /\ enrolments \in Table(EnrolIds, Enrollment)
    BY <1>1, <1>6 DEF SaveEnrolment, TablesOK
  <2>2. /\ live[req[s].row.year]
        /\ \A old \in enrolments[req[s].id] : old.year = req[s].row.year
    BY <1>1, <2>1 DEF SerialRequestOK
  <2>3. ASSUME NEW y \in Years, ~live[y], NEW r, r.year = y
        PROVE  \A i \in EnrolIds : r \in enrolments'[i] <=> r \in enrolments[i]
    BY <2>1, <2>2, <2>3 DEF Table
  <2> QED
    BY <1>2, <2>1, <2>3 DEF SerialInv, YearKept, EnrolmentRows
<1> QED
  BY <1>3, <1>4, <1>5, <1>6

\* Each step, taken alone.
LEMMA StepSerial ==
    ASSUME OneAtATime, IndInv, SerialInv, [Next]_vars
    PROVE  SerialInv' /\ \A y \in Years : YearKept(y)
<1>1. CASE UNCHANGED vars
  BY <1>1 DEF vars, SerialInv, SerialRequestOK, YearKept, EnrolmentRows
<1>2. ASSUME NEW s \in Slots,
             \/ PatchYear(s) \/ PatchReference(s) \/ RestoreGrade(s)
             \/ PostSection(s) \/ PatchSection(s) \/ PostEnrolments(s) \/ PatchEnrolment(s)
      PROVE  SerialInv' /\ \A y \in Years : YearKept(y)
  BY <1>2, ReadSerial DEF YearKept, EnrolmentRows
<1> QED
  BY <1>1, <1>2, SaveSerial DEF Next

\* The invariant of requests that do not overlap.
THEOREM SerialInvariance ==
    ASSUME OneAtATime PROVE Spec => []SerialInv
<1>1. Init => SerialInv
  BY IdleRequest DEF Init, SerialInv, SerialRequestOK
<1> QED
  BY <1>1, StepSerial, Invariance, PTL DEF Spec

-----------------------------------------------------------------------------
(* The theorems *)

\* What the invariant says of the rows.
LEMMA InvariantInOrder ==
    ASSUME IndInv
    PROVE  /\ TypeOK /\ OneEnrolmentPerYear /\ EnrolledInOwnYear
           /\ ~Clears => Complete
           /\ ~Clears /\ ~SectionsMove => PlacedInSection
<1>1. \A r \in EnrolmentRows : RowOK(r)
  BY DEF IndInv, TablesOK, EnrolmentRows
<1> QED
  BY <1>1 DEF IndInv, TablesOK, TypeOK, OneEnrolmentPerYear, EnrolledInOwnYear, Complete,
              PlacedInSection, RowOK, HasSection, FitsSection, IsComplete

\* Of years that are all the same there is one at most.
LEMMA OneYearCounted ==
    ASSUME SerialInv PROVE OneActiveYear
<1>1. CASE {y \in Years : live[y]} = {}
  BY <1>1, FS_EmptySet DEF OneActiveYear
<1>2. CASE {y \in Years : live[y]} # {}
  <2>1. PICK y \in Years : {x \in Years : live[x]} = {y}
    BY <1>2 DEF SerialInv
  <2> QED
    BY <2>1, FS_Singleton DEF OneActiveYear
<1> QED
  BY <1>1, <1>2

\* The enrolments are in order, however requests overlap; one year is active while
\* they do not.
THEOREM EnrolmentsAreInOrder == Spec => []EnrolmentsInOrder
<1>1. CASE OneAtATime
  <2>1. IndInv /\ SerialInv => EnrolmentsInOrder
    BY InvariantInOrder, OneYearCounted DEF EnrolmentsInOrder
  <2> QED
    BY <1>1, <2>1, Invariance, SerialInvariance, PTL
<1>2. CASE ~OneAtATime
  <2>1. IndInv => EnrolmentsInOrder
    BY <1>2, InvariantInOrder DEF EnrolmentsInOrder
  <2> QED
    BY <2>1, Invariance, PTL
<1> QED
  BY <1>1, <1>2

\* Requests one at a time leave the enrolments of an archived year as they are.
THEOREM ArchivedYearsAreKept ==
    ASSUME OneAtATime PROVE Spec => ArchivedYearKept
<1>1. IndInv /\ SerialInv /\ [Next]_vars => [\A y \in Years : YearKept(y)]_vars
  BY StepSerial
<1> QED
  BY <1>1, Invariance, SerialInvariance, PTL DEF Spec, ArchivedYearKept

=============================================================================
