--------------------------- MODULE BulkImport_proofs ---------------------------
(***************************************************************************)
(* Proofs about BulkImport, for any sets of rows, users and confirmations: *)
(* what is registered is registered once, and what a confirmation saves is *)
(* what its preview showed.                                                *)
(***************************************************************************)
EXTENDS BulkImport, FiniteSetTheorems, TLAPS

\* No two of the records claim the same.
Apart(f, recs) == \A m, n \in recs : m # n => ~Alike(f[m], f[n])

\* A confirmation under way: its records are rows of the workbook, apart from each
\* other as soon as the importer has compared them, and free while nobody has
\* registered anything between its check and now.
JobOK(s) ==
    job[s] # Idle =>
      /\ job[s].records \subseteq DOMAIN job[s].file
      /\ kind # "subjects" \/ job[s].checked => Apart(job[s].file, job[s].records)
      /\ job[s].checked /\ ~raced => \A n \in job[s].records : Free(job[s].file[n])

PanelType == [file: File \cup {<<>>}, shown: SUBSET (1..MaxRows),
              token: {"none", "signed", "expired"}, wait: Slots \cup {NoSlot},
              since: SUBSET {"register", "archive"}]

JobType == [file: File, records: SUBSET (1..MaxRows), checked: BOOLEAN]

\* A preview: what it shows is what a review would say now, or more if records were
\* registered since ...
Shows(p) ==
    p.token # "none" =>
      /\ p.file \in File /\ p.shown # {}
      /\ p.since = {} => p.shown = Review(p.file)
      /\ kind # "subjects" /\ "archive" \notin p.since => Review(p.file) \subseteq p.shown

\* ... and what a panel waits for is a confirmation of that preview.
Waits(p) ==
    p.wait # NoSlot =>
      /\ p.token # "none"
      /\ job[p.wait] # Idle /\ job[p.wait].file = p.file
      /\ p.since = {} /\ ~job[p.wait].checked => job[p.wait].records = p.shown
      /\ kind # "subjects" /\ "archive" \notin p.since => job[p.wait].records \subseteq p.shown

\* The rows in the table have the columns of the importer.
TableFits == \A r \in Rows : table[r] > 0 => Column(r)

IndInv ==
    /\ TypeOK /\ RegisteredOnce /\ TableFits
    /\ \A s \in Slots : JobOK(s)
    /\ \A u \in Users : Shows(panel[u]) /\ Waits(panel[u])

-----------------------------------------------------------------------------
(* Workbooks and claims *)

\* A workbook is a finite sequence of rows, with the columns of the importer.
LEMMA FileRows ==
    ASSUME NEW f \in File
    PROVE  /\ f # <<>> /\ DOMAIN f \subseteq 1..MaxRows /\ DOMAIN f \subseteq Nat
           /\ \A n \in DOMAIN f : f[n] \in Rows /\ Column(f[n])
           /\ \A n \in DOMAIN f : \A m \in 1..(n - 1) : m \in DOMAIN f
<1>1. PICK k \in 1..MaxRows : f \in [1..k -> {r \in Rows : Column(r)}]
  BY DEF File, Workbook, StudentWorkbook
<1>2. MaxRows \in Nat
  BY ImportAssumption DEF ImportConstants
<1>3. DOMAIN f = 1..k /\ 1 \in 1..k /\ k <= MaxRows
  BY <1>1, <1>2
<1>4. f # <<>>
  BY <1>3
<1> QED
  BY <1>1, <1>2, <1>3, <1>4

\* A row of another importer than that of subjects claims its key, and one that has
\* no other columns claims nothing else.
LEMMA RowClaims ==
    ASSUME NEW r \in Rows, Column(r)
    PROVE  /\ Claims(r) \subseteq Primary \cup Secondary
           /\ kind # "subjects" => r.p \in Claims(r)
           /\ kind = "students" => Claims(r) = {r.p}
<1>1. /\ Rows \subseteq Row /\ Nothing \notin Primary
  BY ImportAssumption DEF ImportConstants
<1>2. /\ r.p \in Primary \cup {Nothing} /\ r.q \in Secondary \cup {Nothing}
  BY <1>1 DEF Row
<1>3. Claims(r) \subseteq Primary \cup Secondary
  BY <1>2 DEF Claims
<1>4. ASSUME kind # "subjects" PROVE r.p \in Claims(r)
  BY <1>4 DEF Column, Claims
<1>5. ASSUME kind = "students" PROVE Claims(r) = {r.p}
  <2>1. r.q = Nothing /\ r.p # Nothing
    BY <1>5 DEF Column
  <2> QED
    BY <2>1 DEF Claims
<1> QED
  BY <1>3, <1>4, <1>5

\* Rows whose only claims differ are not alike.
LEMMA KeysDiffer ==
    ASSUME NEW f \in File, kind = "students", NEW m \in DOMAIN f, NEW n \in DOMAIN f,
           f[m].p # f[n].p
    PROVE  ~Alike(f[m], f[n])
<1>1. Claims(f[m]) = {f[m].p} /\ Claims(f[n]) = {f[n].p}
  BY FileRows, RowClaims
<1> QED
  BY <1>1 DEF Alike

\* Being alike is mutual.
LEMMA AlikeSymmetric == \A r, q : Alike(r, q) <=> Alike(q, r)
BY DEF Alike

\* Rows that differ from all those before them are apart.
LEMMA ApartFromBefore ==
    ASSUME NEW f \in File, NEW recs \in SUBSET DOMAIN f,
           \A m, n \in recs : m < n => ~Alike(f[m], f[n])
    PROVE  Apart(f, recs)
<1> SUFFICES ASSUME NEW m \in recs, NEW n \in recs, m # n PROVE ~Alike(f[m], f[n])
  BY DEF Apart
<1>1. m \in Nat /\ n \in Nat
  BY FileRows
<1>2. m < n \/ n < m
  BY <1>1
<1> QED
  BY <1>2, AlikeSymmetric

-----------------------------------------------------------------------------
(* Review *)

\* The review of each importer.
LEMMA ReviewOf ==
    ASSUME NEW f
    PROVE  /\ kind = "teachers" => Review(f) = ReviewTeachers(f)
           /\ kind = "grades" => Review(f) = ReviewGrades(f)
           /\ kind = "students" => Review(f) = ReviewStudents(f)
           /\ kind = "sections" => Review(f) = ReviewSections(f)
           /\ kind = "assignments" => Review(f) = ReviewAssignments(f)
           /\ kind = "subjects" => Review(f) = ReviewSubjects(f)
BY DEF Review

\* A review calls rows of the workbook valid, ...
LEMMA ReviewWithin ==
    ASSUME NEW f, kind \in AllKinds
    PROVE  Review(f) \subseteq DOMAIN f
<1>1. CASE kind \in {"teachers", "grades", "students"}
  BY <1>1, ReviewOf DEF ReviewTeachers, ReviewGrades, ReviewStudents
<1>2. CASE kind \in {"sections", "assignments"}
  BY <1>2, ReviewOf DEF ReviewSections, ReviewAssignments
<1>3. CASE kind = "subjects"
  BY <1>3, ReviewOf DEF ReviewSubjects
<1> QED
  BY <1>1, <1>2, <1>3 DEF AllKinds

\* ... that are free, and for the importers that look for references, usable.
LEMMA ReviewFree ==
    ASSUME NEW f, kind \in AllKinds, kind # "subjects", NEW n \in Review(f)
    PROVE  Free(f[n]) /\ (kind \in {"sections", "assignments"} => Usable(f[n]))
<1>1. CASE kind \in {"teachers", "grades", "students"}
  BY <1>1, ReviewOf DEF ReviewTeachers, ReviewGrades, ReviewStudents
<1>2. CASE kind \in {"sections", "assignments"}
  BY <1>2, ReviewOf DEF ReviewSections, ReviewAssignments
<1> QED
  BY <1>1, <1>2 DEF AllKinds

\* Every review but that of subjects compares what the rows claim.
LEMMA ReviewApart ==
    ASSUME NEW f \in File, kind \in AllKinds, kind # "subjects"
    PROVE  Apart(f, Review(f))
<1>0. Review(f) \subseteq DOMAIN f
  BY ReviewWithin
<1>1. CASE kind = "teachers"
  BY <1>1, ReviewOf DEF ReviewTeachers, Apart
<1>2. CASE kind = "grades"
  BY <1>2, ReviewOf DEF ReviewGrades, Apart
<1>3. CASE kind = "students"
  <2> SUFFICES ASSUME NEW m \in Review(f), NEW n \in Review(f), m # n
               PROVE  ~Alike(f[m], f[n])
    BY DEF Apart
  <2>1. f[m].p # f[n].p
    BY <1>3, <1>0, ReviewOf DEF ReviewStudents
  <2> QED
    BY <2>1, <1>3, <1>0, KeysDiffer
<1>4. CASE kind = "sections"
  <2> SUFFICES ASSUME NEW m \in Review(f), NEW n \in Review(f), m < n
               PROVE  ~Alike(f[m], f[n])
    BY <1>0, ApartFromBefore
  <2>1. m \in 1..(n - 1)
    BY <1>0, FileRows
  <2>2. Usable(f[m]) /\ \A x \in 1..(n - 1) : Usable(f[x]) => ~Alike(f[x], f[n])
    BY <1>4, ReviewOf DEF ReviewSections
  <2> QED
    BY <2>1, <2>2
<1>5. CASE kind = "assignments"
  <2> SUFFICES ASSUME NEW m \in Review(f), NEW n \in Review(f), m < n
               PROVE  ~Alike(f[m], f[n])
    BY <1>0, ApartFromBefore
  <2>1. m \in 1..(n - 1)
    BY <1>0, FileRows
  <2>2. Usable(f[m]) /\ \A x \in 1..(n - 1) : Usable(f[x]) => ~Alike(f[x], f[n])
    BY <1>5, ReviewOf DEF ReviewAssignments
  <2> QED
    BY <2>1, <2>2
<1> QED
  BY <1>1, <1>2, <1>3, <1>4, <1>5 DEF AllKinds

\* While what rows refer to stays as it is and records are only added, every review
\* but that of subjects calls no row valid that was not valid before: its comparison
\* of the rows with each other does not look at the table.
LEMMA ReviewShrinks ==
    ASSUME NEW f \in File, kind \in AllKinds, kind # "subjects",
           kind' = kind, live' = live,
           \A r \in Rows : table[r] > 0 => table'[r] > 0
    PROVE  Review(f)' \subseteq Review(f)
<1>1. \A r : Free(r)' => Free(r)
  BY DEF Free, Taken
<1>2. \A r : Usable(r)' <=> Usable(r)
  BY DEF Usable
<1>3. CASE kind = "teachers"
  <2>1. Review(f)' = ReviewTeachers(f)'
    BY <1>3 DEF Review
  <2> QED
    BY <2>1, <1>1, <1>3, ReviewOf DEF ReviewTeachers
<1>4. CASE kind = "grades"
  <2>1. Review(f)' = ReviewGrades(f)'
    BY <1>4 DEF Review
  <2> QED
    BY <2>1, <1>1, <1>4, ReviewOf DEF ReviewGrades
<1>5. CASE kind = "students"
  <2>1. Review(f)' = ReviewStudents(f)'
    BY <1>5 DEF Review
  <2> QED
    BY <2>1, <1>1, <1>5, ReviewOf DEF ReviewStudents
<1>6. CASE kind = "sections"
  <2>1. Review(f)' = ReviewSections(f)'
    BY <1>6 DEF Review
  <2> QED
    BY <2>1, <1>1, <1>2, <1>6, ReviewOf DEF ReviewSections
<1>7. CASE kind = "assignments"
  <2>1. Review(f)' = ReviewAssignments(f)'
    BY <1>7 DEF Review
  <2> QED
    BY <2>1, <1>1, <1>2, <1>7, ReviewOf DEF ReviewAssignments
<1> QED
  BY <1>3, <1>4, <1>5, <1>6, <1>7 DEF AllKinds

\* A review depends on the table and on what is in use, only.
LEMMA ReviewSame ==
    ASSUME NEW f, UNCHANGED <<kind, live, table>>
    PROVE  Review(f)' = Review(f)
<1>1. \A r : (Free(r)' <=> Free(r)) /\ (Usable(r)' <=> Usable(r))
  BY DEF Free, Taken, Usable
<1> QED
  BY <1>1 DEF Review, ReviewTeachers, ReviewGrades, ReviewStudents, ReviewSections,
              ReviewAssignments, ReviewSubjects, Free, Taken, Usable

-----------------------------------------------------------------------------
(* The check of a confirmation *)

\* The check of each importer.
LEMMA AcceptedOf ==
    ASSUME NEW f, NEW recs
    PROVE  /\ kind = "teachers" => Accepted(f, recs) = CheckTeachers(f, recs)
           /\ kind = "grades" => Accepted(f, recs) = CheckGrades(f, recs)
           /\ kind = "students" => Accepted(f, recs) = CheckStudents(f, recs)
           /\ kind = "sections" => Accepted(f, recs) = CheckSections(f, recs)
           /\ kind = "assignments" => Accepted(f, recs) = CheckAssignments(f, recs)
           /\ kind = "subjects" => Accepted(f, recs) = CheckSubjects(f, recs)
BY DEF Accepted

\* The check accepts free records only; all of them or none, unless they are students.
LEMMA AcceptedFree ==
    ASSUME NEW f, NEW recs, kind \in AllKinds
    PROVE  /\ Accepted(f, recs) \subseteq recs
           /\ \A n \in Accepted(f, recs) : Free(f[n])
           /\ kind # "students" => Accepted(f, recs) \in {recs, {}}
<1>1. CASE kind \in {"teachers", "grades"}
  BY <1>1, AcceptedOf DEF CheckTeachers, CheckGrades
<1>2. CASE kind = "students"
  BY <1>2, AcceptedOf DEF CheckStudents
<1>3. CASE kind \in {"sections", "assignments", "subjects"}
  BY <1>3, AcceptedOf DEF CheckSections, CheckAssignments, CheckSubjects
<1> QED
  BY <1>1, <1>2, <1>3 DEF AllKinds

\* What it accepts is apart: by its own comparison or by the review before it.
LEMMA AcceptedApart ==
    ASSUME NEW f \in File, NEW recs \in SUBSET DOMAIN f, kind \in AllKinds,
           kind # "subjects" => Apart(f, recs)
    PROVE  Apart(f, Accepted(f, recs))
<1>0. Accepted(f, recs) \subseteq recs
  BY AcceptedFree
<1>1. CASE kind # "subjects"
  BY <1>0, <1>1 DEF Apart
<1>2. CASE kind = "subjects"
  <2>1. \A m, n \in Accepted(f, recs) : m < n => ~Alike(f[m], f[n])
    BY <1>2, AcceptedOf DEF CheckSubjects
  <2> QED
    BY <1>0, <2>1, ApartFromBefore
<1> QED
  BY <1>1, <1>2

\* If nothing has changed, the check accepts what the review called valid.
LEMMA AcceptedReview ==
    ASSUME NEW f \in File, kind \in AllKinds, kind # "subjects"
    PROVE  Accepted(f, Review(f)) = Review(f)
<1> DEFINE recs == Review(f)
<1>1. /\ recs \subseteq DOMAIN f
      /\ \A n \in recs : Free(f[n]) /\ (kind \in {"sections", "assignments"} => Usable(f[n]))
  BY ReviewWithin, ReviewFree
<1>2. \A m, n \in recs : m < n => ~Alike(f[m], f[n])
  <2> SUFFICES ASSUME NEW m \in recs, NEW n \in recs, m < n PROVE ~Alike(f[m], f[n])
    OBVIOUS
  <2>1. m # n
    BY <1>1, FileRows
  <2> QED
    BY <2>1, ReviewApart DEF Apart
<1>3. CASE kind \in {"teachers", "grades"}
  BY <1>1, <1>3, AcceptedOf DEF CheckTeachers, CheckGrades
<1>4. CASE kind = "students"
  <2> SUFFICES ASSUME NEW m \in recs, NEW n \in recs, m < n PROVE f[m].p # f[n].p
    <3>1. Accepted(f, recs) = CheckStudents(f, recs)
      BY <1>4, AcceptedOf
    <3>2. CheckStudents(f, recs) = recs
      BY <1>1 DEF CheckStudents
    <3> QED
      BY <3>1, <3>2
  <2>1. /\ Claims(f[m]) = {f[m].p} /\ Claims(f[n]) = {f[n].p}
    BY <1>1, <1>4, FileRows, RowClaims
  <2> QED
    BY <2>1, <1>2 DEF Alike
<1>5. CASE kind \in {"sections", "assignments"}
  BY <1>1, <1>2, <1>5, AcceptedOf DEF CheckSections, CheckAssignments
<1> QED
  BY <1>3, <1>4, <1>5 DEF AllKinds

-----------------------------------------------------------------------------
(* Registration *)

LEMMA RowNumbersFinite == IsFiniteSet(1..MaxRows)
<1>1. 1 \in Int /\ MaxRows \in Int
  BY ImportAssumption DEF ImportConstants
<1> QED
  BY <1>1, FS_Interval

\* How often the INSERTs of a confirmation register each row: never more than once,
\* if the records are apart, what they claim at all.
LEMMA AddedOnce ==
    ASSUME NEW s \in Slots, job[s].file \in File, job[s].records \subseteq DOMAIN job[s].file,
           NEW r \in Rows
    PROVE  /\ Added(s)[r] \in Nat
           /\ (\A n \in job[s].records : job[s].file[n] # r) => Added(s)[r] = 0
           /\ Claims(r) # {} /\ Apart(job[s].file, job[s].records) => Added(s)[r] \in {0, 1}
           /\ (\E n \in job[s].records : job[s].file[n] = r) => Added(s)[r] > 0
<1> DEFINE f == job[s].file
           same == {n \in job[s].records : f[n] = r}
<1>1. Added(s)[r] = Cardinality(same)
  BY DEF Added
<1>2. IsFiniteSet(same)
  <2>1. same \subseteq 1..MaxRows /\ MaxRows \in Nat
    BY FileRows, ImportAssumption DEF ImportConstants
  <2> QED
    BY <2>1, RowNumbersFinite, FS_Subset
<1>3. Cardinality(same) \in Nat
  BY <1>2, FS_CardinalityType
<1>4. same = {} => Cardinality(same) = 0
  BY FS_EmptySet
<1>5. same # {} => Cardinality(same) > 0
  BY <1>2, <1>3, FS_EmptySet
<1>6. ASSUME Claims(r) # {}, Apart(f, job[s].records)
      PROVE  Cardinality(same) \in {0, 1}
  <2>1. CASE same = {}
    BY <2>1, <1>4
  <2>2. CASE same # {}
    <3>1. PICK n \in same : TRUE
      BY <2>2
    <3>2. \A m \in same : m = n
      BY <1>6 DEF Apart, Alike
    <3>3. same = {n}
      BY <3>1, <3>2
    <3> QED
      BY <3>3, FS_Singleton
  <2> QED
    BY <2>1, <2>2
<1> QED
  BY <1>1, <1>3, <1>4, <1>5, <1>6

\* A claim that nobody had, or that a confirmation does not make, is single after it
\* if it was before.
LEMMA InsertSingle ==
    ASSUME NEW s \in Slots, job[s].file \in File, job[s].records \subseteq DOMAIN job[s].file,
           Apart(job[s].file, job[s].records), table \in [Rows -> Nat],
           table' = [r \in Rows |-> table[r] + Added(s)[r]],
           NEW c, Taken(c) => Single(c),
           \A n \in job[s].records : c \in Claims(job[s].file[n]) => ~Taken(c)
    PROVE  Single(c)'
<1> DEFINE f == job[s].file
           recs == job[s].records
<1>0. \A r \in Rows : table'[r] = table[r] + Added(s)[r] /\ Added(s)[r] \in Nat /\ table[r] \in Nat
  BY AddedOnce
<1> SUFFICES ASSUME NEW r \in Rows, c \in Claims(r), table'[r] > 0,
                    NEW q \in Rows, c \in Claims(q), table'[q] > 0
             PROVE  r = q /\ table'[r] = 1
  BY DEF Single, Holders
<1>1. CASE \E n \in recs : c \in Claims(f[n])
  <2>1. PICK n \in recs : c \in Claims(f[n])
    BY <1>1
  <2>2. table[r] = 0 /\ table[q] = 0
    BY <2>1, <1>0 DEF Taken
  <2>3. ASSUME NEW x \in Rows, c \in Claims(x), table[x] = 0, table'[x] > 0
        PROVE  x = f[n] /\ table'[x] = 1
    <3>1. Added(s)[x] > 0
      BY <2>3, <1>0
    <3>2. PICK m \in recs : f[m] = x
      BY <3>1, AddedOnce
    <3>3. m = n
      BY <2>1, <2>3, <3>2 DEF Apart, Alike
    <3>4. Added(s)[x] = 1
      BY <3>1, <2>3, AddedOnce
    <3> QED
      BY <3>2, <3>3, <3>4, <1>0, <2>3
  <2> QED
    BY <2>2, <2>3
<1>2. CASE \A n \in recs : c \notin Claims(f[n])
  <2>1. Added(s)[r] = 0 /\ Added(s)[q] = 0
    BY <1>2, AddedOnce
  <2>2. table'[r] = table[r] /\ table'[q] = table[q]
    BY <2>1, <1>0
  <2>3. Taken(c)
    BY <2>2 DEF Taken
  <2> QED
    BY <2>2, <2>3 DEF Single, Holders
<1> QED
  BY <1>1, <1>2

\* So is one of a record that is registered by itself.
LEMMA RegisterSingle ==
    ASSUME NEW x \in Rows, Free(x), table \in [Rows -> Nat],
           table' = [table EXCEPT ![x] = @ + 1],
           NEW c, Taken(c) => Single(c)
    PROVE  Single(c)'
<1> SUFFICES ASSUME NEW r \in Rows, c \in Claims(r), table'[r] > 0,
                    NEW q \in Rows, c \in Claims(q), table'[q] > 0
             PROVE  r = q /\ table'[r] = 1
  BY DEF Single, Holders
<1>1. CASE c \in Claims(x)
  <2>1. table[r] = 0 /\ table[q] = 0 /\ table[x] = 0
    BY <1>1 DEF Free, Taken
  <2> QED
    BY <2>1
<1>2. CASE c \notin Claims(x)
  <2>1. r # x /\ q # x
    BY <1>2
  <2>2. table'[r] = table[r] /\ table'[q] = table[q]
    BY <2>1
  <2>3. Taken(c)
    BY <2>2 DEF Taken
  <2> QED
    BY <2>2, <2>3 DEF Single, Holders
<1> QED
  BY <1>1, <1>2

-----------------------------------------------------------------------------
(* Steps *)

\* What a state in which the invariant holds looks like.
LEMMA Shapes ==
    ASSUME IndInv
    PROVE  /\ kind \in AllKinds
           /\ table \in [Rows -> Nat]
           /\ panel \in [Users -> PanelType]
           /\ job \in [Slots -> {Idle} \cup JobType]
           /\ \A s \in Slots : job[s] # Idle => job[s] \in JobType
           /\ \A s \in Slots : job[s] # Idle => job[s].file \in File
           /\ NoSlot \notin Slots
<1>1. MaxCopies \in Nat /\ Kinds \subseteq AllKinds /\ NoSlot \notin Slots
  BY ImportAssumption DEF ImportConstants
<1> QED
  BY <1>1 DEF IndInv, TypeOK, PanelType, JobType

\* What holds of the table does while the table stays.
LEMMA TableStays ==
    ASSUME IndInv, UNCHANGED <<kind, table, raced>>
    PROVE  RegisteredOnce' /\ TableFits'
<1>1. TableFits'
  BY DEF IndInv, TableFits, Column
<1>2. RegisteredOnce'
  BY DEF IndInv, RegisteredOnce, ConstraintsHold, ClaimedOnce, Single, Holders, Constrained
<1> QED
  BY <1>1, <1>2

\* The columns of a workbook are those of the importer, which stays.
LEMMA FileSame == ASSUME kind' = kind PROVE File' = File
BY DEF File, Workbook, StudentWorkbook, Column

\* Types are kept by steps that keep the importer.
LEMMA TypesStay ==
    ASSUME IndInv, kind' = kind, table' \in [Rows -> 0..MaxCopies], live' \subseteq Refs,
           panel' \in [Users -> PanelType], job' \in [Slots -> {Idle} \cup JobType],
           raced' \in BOOLEAN
    PROVE  TypeOK'
<1>1. PanelType' = PanelType /\ JobType' = JobType
  BY FileSame DEF PanelType, JobType
<1> QED
  BY <1>1 DEF IndInv, TypeOK, PanelType, JobType

\* A confirmation is not the record of an idle slot.
LEMMA JobNotIdle == \A j \in JobType : j # Idle
<1> SUFFICES ASSUME NEW j \in JobType, j = Idle PROVE FALSE
  OBVIOUS
<1>1. j.file # <<>>
  BY FileRows DEF JobType
<1> QED
  BY <1>1 DEF Idle

\* A panel without a preview.
LEMMA Unused ==
    ASSUME NEW f \in File \cup {<<>>}
    PROVE  /\ [Empty EXCEPT !.file = f] \in PanelType
           /\ [Empty EXCEPT !.file = f].token = "none"
           /\ [Empty EXCEPT !.file = f].wait = NoSlot
           /\ Empty \in PanelType /\ Empty.token = "none" /\ Empty.wait = NoSlot
BY DEF Empty, PanelType

LEMMA ClearedUnused ==
    ASSUME IndInv, NEW u \in Users
    PROVE  /\ Cleared(u) \in PanelType /\ Cleared(u).token = "none"
           /\ Cleared(u).wait = NoSlot
<1>1. panel[u].file \in File \cup {<<>>}
  BY Shapes DEF PanelType
<1> QED
  BY <1>1, Unused DEF Cleared

\* The table and the confirmations do not change: a panel does.
LEMMA PanelStep ==
    ASSUME IndInv, NEW u \in Users, NEW p \in PanelType,
           panel' = [panel EXCEPT ![u] = p], UNCHANGED <<kind, table, live, job, raced>>,
           Shows(p), Waits(p)
    PROVE  IndInv'
<1>1. TypeOK'
  BY Shapes, TypesStay DEF IndInv, TypeOK
<1>2. RegisteredOnce' /\ TableFits'
  BY TableStays
<1>3. \A s \in Slots : JobOK(s)'
  BY DEF IndInv, JobOK, Free, Taken
<1>4. \A f : Review(f)' = Review(f)
  BY ReviewSame
<1>5. File' = File
  BY FileSame
<1>6. ASSUME NEW x \in Users PROVE Shows(panel[x])' /\ Waits(panel[x])'
  <2>1. panel'[x] = IF x = u THEN p ELSE panel[x]
    BY Shapes
  <2>2. Shows(panel'[x]) /\ Waits(panel'[x])
    BY <2>1 DEF IndInv
  <2> QED
    BY <2>2, <1>4, <1>5 DEF Shows, Waits
<1> QED
  BY <1>1, <1>2, <1>3, <1>6 DEF IndInv

LEMMA ChooseFileOK == ASSUME IndInv, NEW u \in Users, ChooseFile(u) PROVE IndInv'
<1>1. PICK f \in File \cup {<<>>} : panel' = [panel EXCEPT ![u] = [Empty EXCEPT !.file = f]]
  BY DEF ChooseFile
<1> DEFINE p == [Empty EXCEPT !.file = f]
<1>2. p \in PanelType /\ Shows(p) /\ Waits(p)
  BY Unused DEF Shows, Waits
<1> HIDE DEF p
<1> QED
  BY <1>1, <1>2, PanelStep DEF ChooseFile, p

\* A preview shows what its review calls valid.
LEMMA PreviewOK == ASSUME IndInv, NEW u \in Users, Preview(u) PROVE IndInv'
<1> DEFINE valid == Review(panel[u].file)
           p == [panel[u] EXCEPT !.shown = valid, !.since = {},
                                 !.token = IF valid = {} THEN "none" ELSE "signed"]
<1>1. panel[u] \in PanelType /\ panel[u].file \in File /\ panel[u].wait = NoSlot
  BY Shapes DEF Preview, PanelType
<1>2. valid \in SUBSET (1..MaxRows)
  BY <1>1, Shapes, ReviewWithin, FileRows
<1> HIDE DEF valid
<1>3. /\ p \in PanelType /\ p.file = panel[u].file /\ p.wait = NoSlot /\ p.shown = valid
      /\ p.token # "none" => valid # {}
  BY <1>1, <1>2 DEF PanelType
<1>4. panel' = [panel EXCEPT ![u] = p]
  BY DEF Preview, valid
<1> HIDE DEF p
<1>5. Shows(p) /\ Waits(p)
  BY <1>1, <1>3 DEF Shows, Waits, valid
<1> QED
  BY <1>3, <1>4, <1>5, PanelStep DEF Preview

LEMMA ExpireOK == ASSUME IndInv, NEW u \in Users, Expire(u) PROVE IndInv'
<1> DEFINE p == [panel[u] EXCEPT !.token = "expired"]
<1>1. panel[u] \in PanelType
  BY Shapes
<1>2. /\ p \in PanelType /\ p.file = panel[u].file /\ p.wait = NoSlot
      /\ p.shown = panel[u].shown /\ p.since = panel[u].since
  BY <1>1 DEF PanelType, Expire
<1>3. panel' = [panel EXCEPT ![u] = p]
  BY DEF Expire
<1> HIDE DEF p
<1>4. Shows(p) /\ Waits(p)
  BY <1>2 DEF Shows, Waits, IndInv, Expire
<1> QED
  BY <1>2, <1>3, <1>4, PanelStep DEF Expire

LEMMA ClearOK == ASSUME IndInv, NEW u \in Users, ConfirmLate(u) \/ GiveUp(u) PROVE IndInv'
<1>1. Shows(Cleared(u)) /\ Waits(Cleared(u))
  BY ClearedUnused DEF Shows, Waits
<1> QED
  BY <1>1, ClearedUnused, PanelStep DEF ConfirmLate, GiveUp

\* A confirmation starts with what a review says now.
LEMMA ConfirmOK ==
    ASSUME IndInv, NEW u \in Users, NEW s \in Slots, Confirm(u, s) PROVE IndInv'
<1> DEFINE f == panel[u].file
           j == [file |-> f, records |-> Review(f), checked |-> FALSE]
           p == [panel[u] EXCEPT !.wait = s]
<1>1. /\ panel[u] \in PanelType /\ f \in File /\ Shows(panel[u]) /\ panel[u].token # "none"
      /\ kind \in AllKinds /\ s # NoSlot
  BY Shapes DEF Confirm, IndInv, Shows
<1>2. /\ Review(f) \subseteq DOMAIN f /\ Review(f) \in SUBSET (1..MaxRows)
      /\ kind # "subjects" => Apart(f, Review(f))
  BY <1>1, ReviewWithin, ReviewApart, FileRows
<1>3. job' = [job EXCEPT ![s] = j] /\ panel' = [panel EXCEPT ![u] = p]
  BY DEF Confirm
<1>4. j \in JobType /\ j.file = f /\ j.records = Review(f) /\ j.checked = FALSE
  BY <1>1, <1>2 DEF JobType
<1>5. /\ p \in PanelType /\ p.file = f /\ p.wait = s /\ p.token = panel[u].token
      /\ p.shown = panel[u].shown /\ p.since = panel[u].since
  BY <1>1 DEF PanelType
<1> HIDE DEF j, p
<1>6. UNCHANGED <<kind, table, live, raced>>
  BY DEF Confirm
<1>7. TypeOK'
  BY <1>3, <1>4, <1>5, <1>6, Shapes, TypesStay DEF IndInv, TypeOK
<1>8. RegisteredOnce' /\ TableFits'
  BY <1>6, TableStays
<1>9. \A x \in Slots : job'[x] = IF x = s THEN j ELSE job[x]
  BY <1>3, Shapes
<1>10. ASSUME NEW x \in Slots PROVE JobOK(x)'
  <2>1. CASE x = s
    BY <2>1, <1>9, <1>2, <1>4, <1>6 DEF JobOK, Apart
  <2>2. CASE x # s
    BY <2>2, <1>9, <1>6 DEF IndInv, JobOK, Free, Taken
  <2> QED
    BY <2>1, <2>2
<1>11. (\A g : Review(g)' = Review(g)) /\ File' = File
  BY <1>6, ReviewSame, FileSame
<1>12. ASSUME NEW x \in Users PROVE Shows(panel[x])' /\ Waits(panel[x])'
  <2>1. CASE x = u
    <3>1. panel'[x] = p
      BY <2>1, <1>3, Shapes
    <3>2. Shows(panel[x])'
      BY <3>1, <1>1, <1>5, <1>6, <1>11 DEF Shows
    <3>3. job'[s] = j /\ j # Idle
      BY <1>4, <1>9, JobNotIdle
    <3> QED
      BY <3>1, <3>2, <3>3, <1>1, <1>4, <1>5, <1>6 DEF Shows, Waits
  <2>2. CASE x # u
    <3>1. panel'[x] = panel[x]
      BY <2>2, <1>3, Shapes
    <3>2. panel[x].wait # s /\ panel[x].wait \in Slots \cup {NoSlot}
      <4>1. panel[x] \in PanelType /\ Waits(panel[x])
        BY Shapes DEF IndInv
      <4> QED
        BY <4>1, <1>1 DEF Waits, Confirm, PanelType
    <3> QED
      BY <3>1, <3>2, <1>6, <1>9, <1>11 DEF IndInv, Shows, Waits
  <2> QED
    BY <2>1, <2>2
<1> QED
  BY <1>7, <1>8, <1>10, <1>12 DEF IndInv

\* Whoever waited for a confirmation that has ended has no preview any more.
LEMMA Answered ==
    ASSUME IndInv, NEW s \in Slots, NEW b \in BOOLEAN
    PROVE  /\ Answer(s, b) \in [Users -> PanelType]
           /\ \A u \in Users :
                \/ Answer(s, b)[u] = panel[u] /\ panel[u].wait # s
                \/ Answer(s, b)[u].token = "none" /\ Answer(s, b)[u].wait = NoSlot
<1>1. \A u \in Users : panel[u] \in PanelType
  BY Shapes
<1>2. <<>> \in File \cup {<<>>}
  OBVIOUS
<1> QED
  BY <1>1, <1>2, Unused, ClearedUnused DEF Answer

\* A confirmation ends without an INSERT.
LEMMA EndsOK ==
    ASSUME IndInv, NEW s \in Slots, job' = [job EXCEPT ![s] = Idle],
           panel' = Answer(s, FALSE), UNCHANGED <<kind, table, live, raced>>
    PROVE  IndInv'
<1>1. TypeOK'
  BY Shapes, Answered, TypesStay DEF IndInv, TypeOK
<1>2. RegisteredOnce' /\ TableFits'
  BY TableStays
<1>3. \A x \in Slots : job'[x] = IF x = s THEN Idle ELSE job[x]
  BY Shapes
<1>4. \A x \in Slots : JobOK(x)'
  BY <1>3 DEF IndInv, JobOK, Free, Taken
<1>5. (\A g : Review(g)' = Review(g)) /\ File' = File
  BY ReviewSame, FileSame
<1>6. ASSUME NEW x \in Users PROVE Shows(panel[x])' /\ Waits(panel[x])'
  <2>1. CASE panel'[x] = panel[x] /\ panel[x].wait # s
    <3>1. panel[x].wait \in Slots \cup {NoSlot}
      BY Shapes DEF PanelType
    <3> QED
      BY <2>1, <3>1, <1>3, <1>5 DEF IndInv, Shows, Waits
  <2>2. CASE panel'[x].token = "none" /\ panel'[x].wait = NoSlot
    BY <2>2 DEF Shows, Waits
  <2> QED
    BY <2>1, <2>2, Answered
<1> QED
  BY <1>1, <1>2, <1>4, <1>6 DEF IndInv

LEMMA RollBackOK == ASSUME IndInv, NEW s \in Slots, RollBack(s) PROVE IndInv'
BY EndsOK DEF RollBack

\* The check of a confirmation whose records are still what its panel shows accepts
\* them all.
LEMMA CheckAccepts ==
    ASSUME IndInv, NEW u \in Users, NEW s \in Slots, panel[u].wait = s,
           panel[u].since = {}, job[s] # Idle, ~job[s].checked, kind # "subjects"
    PROVE  /\ job[s].records = panel[u].shown /\ panel[u].shown # {}
           /\ Accepted(job[s].file, job[s].records) = job[s].records
<1>1. Shows(panel[u]) /\ Waits(panel[u]) /\ s # NoSlot /\ kind \in AllKinds
  BY Shapes DEF IndInv
<1>2. /\ job[s].records = Review(panel[u].file) /\ job[s].file = panel[u].file
      /\ job[s].records = panel[u].shown /\ panel[u].shown # {} /\ panel[u].file \in File
  BY <1>1 DEF Shows, Waits
<1> QED
  BY <1>1, <1>2, AcceptedReview

LEMMA CheckOK == ASSUME IndInv, NEW s \in Slots, Check(s) PROVE IndInv'
<1> DEFINE f == job[s].file
           recs == job[s].records
           ok == Accepted(f, recs)
           j == [job[s] EXCEPT !.records = ok, !.checked = TRUE]
<1>1. job[s] \in JobType /\ f \in File /\ recs \subseteq DOMAIN f /\ kind \in AllKinds
  BY Shapes DEF Check, IndInv, JobOK
<1>2. CASE ok = {}
  BY <1>2, EndsOK DEF Check
<1>3. CASE ok # {}
  <2>1. /\ job' = [job EXCEPT ![s] = j]
        /\ UNCHANGED <<kind, table, live, raced, panel>>
    <3>1. job' = [job EXCEPT ![s].records = ok, ![s].checked = TRUE]
      BY <1>3 DEF Check
    <3>2. [job EXCEPT ![s].records = ok, ![s].checked = TRUE] = [job EXCEPT ![s] = j]
      BY Shapes
    <3> QED
      BY <3>1, <3>2, <1>3 DEF Check
  <2>2. /\ ok \subseteq recs /\ \A n \in ok : Free(f[n])
    BY <1>1, AcceptedFree
  <2>3. Apart(f, ok)
    <3>1. kind # "subjects" => Apart(f, recs)
      BY DEF IndInv, JobOK, Check
    <3> QED
      BY <3>1, <1>1, AcceptedApart
  <2> HIDE DEF ok
  <2>4. /\ j \in JobType /\ j.file = f /\ j.records = ok /\ j.checked
    BY <1>1, <2>2 DEF JobType
  <2> HIDE DEF j
  <2>5. \A x \in Slots : job'[x] = IF x = s THEN j ELSE job[x]
    BY <2>1, Shapes
  <2>6. TypeOK'
    BY <2>1, <2>4, Shapes, TypesStay DEF IndInv, TypeOK
  <2>7. RegisteredOnce' /\ TableFits'
    BY <2>1, TableStays
  <2>8. ASSUME NEW x \in Slots PROVE JobOK(x)'
    <3>1. CASE x = s
      <4>1. job'[x] = j /\ kind' = kind /\ raced' = raced
        BY <3>1, <2>1, <2>5
      <4>2. \A r : Free(r)' <=> Free(r)
        BY <2>1 DEF Free, Taken
      <4>3. j.records \subseteq DOMAIN j.file /\ \A n \in j.records : Free(j.file[n])
        BY <1>1, <2>2, <2>4
      <4>4. \A m, n \in j.records : m # n => ~Alike(j.file[m], j.file[n])
        BY <2>3, <2>4 DEF Apart
      <4> QED
        BY <4>1, <4>2, <4>3, <4>4 DEF JobOK, Apart, Alike
    <3>2. CASE x # s
      BY <3>2, <2>5, <2>1 DEF IndInv, JobOK, Free, Taken
    <3> QED
      BY <3>1, <3>2
  <2>9. (\A g : Review(g)' = Review(g)) /\ File' = File
    BY <2>1, ReviewSame, FileSame
  <2>10. ASSUME NEW x \in Users PROVE Shows(panel[x])' /\ Waits(panel[x])'
    <3>1. Shows(panel[x])'
      BY <2>1, <2>9 DEF IndInv, Shows
    <3>2. CASE panel[x].wait = s
      <4>1. job'[s] = j /\ j # Idle
        BY <2>4, <2>5, JobNotIdle
      <4>2. Waits(panel[x])
        BY DEF IndInv
      <4> QED
        BY <3>1, <3>2, <4>1, <4>2, <2>1, <2>2, <2>4 DEF Waits
    <3>3. CASE panel[x].wait # s
      <4>1. panel[x].wait \in Slots \cup {NoSlot} /\ Waits(panel[x])
        BY Shapes DEF PanelType, IndInv
      <4> QED
        BY <3>1, <3>3, <4>1, <2>1, <2>5 DEF Waits
    <3> QED
      BY <3>1, <3>2, <3>3
  <2> QED
    BY <2>6, <2>7, <2>8, <2>10 DEF IndInv
<1> QED
  BY <1>2, <1>3

-----------------------------------------------------------------------------
(* What others do *)

\* Records are added or what rows refer to changes: a panel that has a preview has
\* it outdated, and what it shows stays apart from errors if only records came.
LEMMA OutdatedOK ==
    ASSUME IndInv, NEW p \in [Users -> PanelType], NEW event \in {"register", "archive"},
           panel' = Outdated(p, event),
           \A x \in Users : Shows(p[x]) /\ (p[x].wait # NoSlot => Waits(p[x]) /\ job'[p[x].wait] = job[p[x].wait]),
           kind' = kind,
           event = "register" => live' = live /\ \A r \in Rows : table[r] > 0 => table'[r] > 0
    PROVE  /\ panel' \in [Users -> PanelType]
           /\ \A x \in Users : Shows(panel[x])' /\ Waits(panel[x])'
<1>1. panel' \in [Users -> PanelType]
  <2> SUFFICES ASSUME NEW x \in Users PROVE Outdated(p, event)[x] \in PanelType
    BY DEF Outdated
  <2> QED
    BY DEF Outdated, PanelType
<1>2. File' = File
  BY FileSame
<1>3. ASSUME NEW x \in Users PROVE Shows(panel[x])' /\ Waits(panel[x])'
  <2>1. CASE p[x].token = "none"
    <3>1. panel'[x] = p[x]
      BY <2>1 DEF Outdated
    <3> QED
      BY <2>1, <3>1 DEF Shows, Waits
  <2>2. CASE p[x].token # "none"
    <3> DEFINE q == [p[x] EXCEPT !.since = @ \cup {event}]
    <3>1. panel'[x] = q
      BY <2>2 DEF Outdated
    <3>2. /\ q.file = p[x].file /\ q.shown = p[x].shown /\ q.token = p[x].token
          /\ q.wait = p[x].wait /\ q.since = p[x].since \cup {event}
      BY DEF PanelType
    <3> HIDE DEF q
    <3>3. /\ q.file \in File /\ q.shown # {} /\ q.since # {}
      BY <2>2, <3>2 DEF Shows
    <3>4. ASSUME kind # "subjects", "archive" \notin q.since
          PROVE  Review(q.file)' \subseteq q.shown
      <4>1. event = "register" /\ "archive" \notin p[x].since
        BY <3>2, <3>4
      <4>2. Review(q.file) \subseteq q.shown
        BY <4>1, <3>2, <3>4, <2>2 DEF Shows
      <4>3. ASSUME NEW f \in File PROVE Review(f)' \subseteq Review(f)
        BY <4>1, <3>4, Shapes, ReviewShrinks
      <4> QED
        BY <4>2, <4>3, <3>3
    <3>5. Shows(panel[x])'
      BY <3>1, <3>3, <3>4, <1>2 DEF Shows
    <3>6. Waits(panel[x])'
      BY <3>1, <3>2, <3>3 DEF Waits
    <3> QED
      BY <3>5, <3>6
  <2> QED
    BY <2>1, <2>2
<1> QED
  BY <1>1, <1>3

\* What a confirmation claims is constrained by the database when the claim of a
\* record that has it is: usernames are never emails.
LEMMA ConstrainedAlike ==
    ASSUME NEW r \in Rows, NEW q \in Rows, Column(r), Column(q),
           NEW c \in Constrained(r), c \in Claims(q)
    PROVE  c \in Constrained(q) /\ c \in Claims(r)
<1>1. CASE kind = "teachers"
  <2>1. /\ Primary \cap Secondary = {} /\ Nothing \notin Primary \cup Secondary
        /\ Rows \subseteq Row
    BY ImportAssumption DEF ImportConstants
  <2>2. /\ r.p \in Primary /\ q.p \in Primary /\ q.q \in Secondary \cup {Nothing}
    BY <1>1, <2>1 DEF Row, Column
  <2> QED
    BY <1>1, <2>1, <2>2 DEF Constrained, Claims
<1>2. CASE kind # "teachers"
  BY <1>2 DEF Constrained
<1> QED
  BY <1>1, <1>2

\* Nothing is registered twice by the INSERTs of a confirmation.
LEMMA InsertOnce ==
    ASSUME IndInv, NEW s \in Slots, Insert(s) PROVE RegisteredOnce' /\ TableFits'
<1> DEFINE f == job[s].file
           recs == job[s].records
<1>1. /\ f \in File /\ recs \subseteq DOMAIN f /\ Apart(f, recs)
      /\ ~raced => \A n \in recs : Free(f[n])
  BY Shapes DEF Insert, IndInv, JobOK
<1>2. /\ table \in [Rows -> Nat] /\ table' = [r \in Rows |-> table[r] + Added(s)[r]]
      /\ kind' = kind
  BY Shapes DEF Insert
<1>3. \A n \in recs : f[n] \in Rows /\ Column(f[n])
  BY <1>1, FileRows
<1>4. TableFits'
  <2> SUFFICES ASSUME NEW r \in Rows, table'[r] > 0 PROVE Column(r)
    BY <1>2 DEF TableFits, Column
  <2>1. CASE table[r] > 0
    BY <2>1 DEF IndInv, TableFits
  <2>2. CASE \E n \in recs : f[n] = r
    BY <2>2, <1>3
  <2>3. CASE ~(table[r] > 0) /\ \A n \in recs : f[n] # r
    <3>1. Added(s)[r] = 0
      BY <2>3, <1>1, AddedOnce
    <3> QED
      BY <3>1, <2>3, <1>2
  <2> QED
    BY <2>1, <2>2, <2>3
<1>5. ConstraintsHold'
  <2> SUFFICES ASSUME NEW r \in Rows, table'[r] > 0, NEW c \in Constrained(r)
               PROVE  Single(c)'
    BY <1>2 DEF ConstraintsHold, Constrained
  <2>1. Column(r)
    BY <1>2, <1>4 DEF TableFits, Column
  <2>2. Taken(c) => Single(c)
    <3> SUFFICES ASSUME NEW q \in Rows, table[q] > 0, c \in Claims(q) PROVE Single(c)
      BY DEF Taken
    <3>1. Column(q)
      BY DEF IndInv, TableFits
    <3>2. c \in Constrained(q)
      BY <2>1, <3>1, ConstrainedAlike
    <3> QED
      BY <3>2 DEF IndInv, RegisteredOnce, ConstraintsHold
  <2>3. \A n \in recs : c \in Claims(f[n]) => ~Taken(c)
    BY <2>1, <1>3, ConstrainedAlike DEF Insert
  <2> QED
    BY <1>1, <1>2, <2>2, <2>3, InsertSingle
<1>6. ASSUME ~raced' PROVE ClaimedOnce'
  <2>1. ~raced
    BY <1>6 DEF Insert, IndInv, TypeOK
  <2> SUFFICES ASSUME NEW c \in Primary \cup Secondary PROVE Single(c)'
    BY DEF ClaimedOnce
  <2>2. Single(c)
    BY <2>1 DEF IndInv, RegisteredOnce, ClaimedOnce
  <2>3. \A n \in recs : c \in Claims(f[n]) => ~Taken(c)
    BY <2>1, <1>1 DEF Free
  <2> QED
    BY <1>1, <1>2, <2>2, <2>3, InsertSingle
<1> QED
  BY <1>4, <1>5, <1>6 DEF RegisteredOnce

\* The table after the INSERTs has what it had, and more.
LEMMA InsertAdds ==
    ASSUME IndInv, NEW s \in Slots, Insert(s)
    PROVE  /\ table' \in [Rows -> 0..MaxCopies]
           /\ \A r \in Rows : table[r] > 0 => table'[r] > 0
<1>1. /\ job[s].file \in File /\ job[s].records \subseteq DOMAIN job[s].file
      /\ table \in [Rows -> Nat] /\ MaxCopies \in Nat
  BY Shapes, ImportAssumption DEF Insert, IndInv, JobOK, ImportConstants
<1>2. \A r \in Rows : table'[r] = table[r] + Added(s)[r] /\ Added(s)[r] \in Nat
  BY <1>1, AddedOnce DEF Insert
<1>3. ASSUME NEW r \in Rows PROVE table'[r] \in 0..MaxCopies
  BY <1>1, <1>2 DEF Insert
<1>4. table' \in [Rows -> 0..MaxCopies]
  BY <1>3 DEF Insert
<1> QED
  BY <1>1, <1>2, <1>4

LEMMA InsertOK == ASSUME IndInv, NEW s \in Slots, Insert(s) PROVE IndInv'
<1> DEFINE p == Answer(s, TRUE)
<1>1. /\ job' = [job EXCEPT ![s] = Idle] /\ panel' = Outdated(p, "register")
      /\ kind' = kind /\ live' = live
  BY DEF Insert
<1>2. \A x \in Slots : job'[x] = IF x = s THEN Idle ELSE job[x]
  BY <1>1, Shapes
<1>3. /\ p \in [Users -> PanelType]
      /\ \A u \in Users : \/ p[u] = panel[u] /\ panel[u].wait # s
                          \/ p[u].token = "none" /\ p[u].wait = NoSlot
  BY Answered
<1> HIDE DEF p
<1>4. ASSUME NEW u \in Users
      PROVE  Shows(p[u]) /\ (p[u].wait # NoSlot => Waits(p[u]) /\ job'[p[u].wait] = job[p[u].wait])
  <2>1. CASE p[u] = panel[u] /\ panel[u].wait # s
    <3>1. p[u].wait \in Slots \cup {NoSlot}
      BY <1>3 DEF PanelType
    <3> QED
      BY <2>1, <3>1, <1>2 DEF IndInv
  <2>2. CASE p[u].token = "none" /\ p[u].wait = NoSlot
    BY <2>2 DEF Shows
  <2> QED
    BY <2>1, <2>2, <1>3
<1>5. /\ panel' \in [Users -> PanelType]
      /\ \A u \in Users : Shows(panel[u])' /\ Waits(panel[u])'
  BY <1>1, <1>3, <1>4, InsertAdds, OutdatedOK
<1>6. TypeOK'
  <2>1. job' \in [Slots -> {Idle} \cup JobType]
    BY <1>1, Shapes
  <2>2. raced' \in BOOLEAN /\ live' \subseteq Refs
    BY DEF Insert, IndInv, TypeOK
  <2> QED
    BY <1>1, <1>5, <2>1, <2>2, InsertAdds, TypesStay
<1>7. ASSUME NEW x \in Slots PROVE JobOK(x)'
  <2>1. CASE x = s
    BY <2>1, <1>2 DEF JobOK
  <2>2. CASE x # s
    <3>1. job'[x] = job[x]
      BY <2>2, <1>2
    <3>2. job[x] # Idle /\ job[x].checked => raced'
      BY <2>2 DEF Insert, Pending
    <3> QED
      BY <3>1, <3>2, <1>1 DEF IndInv, JobOK, Apart, Alike
  <2> QED
    BY <2>1, <2>2
<1> QED
  BY <1>5, <1>6, <1>7, InsertOnce DEF IndInv

\* A request of somebody else, which checks and inserts in one, registers nothing
\* twice either.
LEMMA RegisterOK == ASSUME IndInv, NEW r \in Rows, Register(r) PROVE IndInv'
<1>1. /\ Column(r) /\ Free(r) /\ table[r] < MaxCopies
      /\ table' = [table EXCEPT ![r] = @ + 1]
      /\ kind' = kind /\ live' = live /\ job' = job /\ panel' = Outdated(panel, "register")
  BY DEF Register
<1>2. /\ table \in [Rows -> Nat] /\ table \in [Rows -> 0..MaxCopies] /\ MaxCopies \in Nat
  BY Shapes, ImportAssumption DEF IndInv, TypeOK, ImportConstants
<1>3. table' \in [Rows -> 0..MaxCopies] /\ \A x \in Rows : table[x] > 0 => table'[x] > 0
  <2>1. \A x \in Rows : table'[x] = IF x = r THEN table[r] + 1 ELSE table[x]
    BY <1>1, <1>2
  <2>2. table[r] + 1 \in 0..MaxCopies /\ table[r] + 1 > 0
    BY <1>1, <1>2
  <2> QED
    BY <1>1, <1>2, <2>1, <2>2
<1>4. TableFits'
  <2> SUFFICES ASSUME NEW x \in Rows, table'[x] > 0 PROVE Column(x)
    BY <1>1 DEF TableFits, Column
  <2>1. x # r => table'[x] = table[x]
    BY <1>1, <1>2
  <2> QED
    BY <2>1, <1>1 DEF IndInv, TableFits
<1>5. ConstraintsHold'
  <2> SUFFICES ASSUME NEW x \in Rows, table'[x] > 0, NEW c \in Constrained(x)
               PROVE  Single(c)'
    BY <1>1 DEF ConstraintsHold, Constrained
  <2>1. Column(x)
    BY <1>1, <1>4 DEF TableFits, Column
  <2>2. Taken(c) => Single(c)
    <3> SUFFICES ASSUME NEW q \in Rows, table[q] > 0, c \in Claims(q) PROVE Single(c)
      BY DEF Taken
    <3>1. Column(q)
      BY DEF IndInv, TableFits
    <3>2. c \in Constrained(q)
      BY <2>1, <3>1, ConstrainedAlike
    <3> QED
      BY <3>2 DEF IndInv, RegisteredOnce, ConstraintsHold
  <2> QED
    BY <1>1, <1>2, <2>2, RegisterSingle
<1>6. ASSUME ~raced' PROVE ClaimedOnce'
  <2>1. ~raced
    BY <1>6 DEF Register, IndInv, TypeOK
  <2> SUFFICES ASSUME NEW c \in Primary \cup Secondary PROVE Single(c)'
    BY DEF ClaimedOnce
  <2>2. Single(c)
    BY <2>1 DEF IndInv, RegisteredOnce, ClaimedOnce
  <2> QED
    BY <1>1, <1>2, <2>2, RegisterSingle
<1>7. /\ panel' \in [Users -> PanelType]
      /\ \A u \in Users : Shows(panel[u])' /\ Waits(panel[u])'
  BY <1>1, <1>3, Shapes, OutdatedOK DEF IndInv
<1>8. TypeOK'
  BY <1>1, <1>3, <1>7, Shapes, TypesStay DEF Register, IndInv, TypeOK
<1>9. ASSUME NEW x \in Slots PROVE JobOK(x)'
  <2>1. job[x] # Idle /\ job[x].checked => raced'
    BY DEF Register, Pending
  <2> QED
    BY <2>1, <1>1 DEF IndInv, JobOK, Apart, Alike
<1> QED
  BY <1>4, <1>5, <1>6, <1>7, <1>8, <1>9 DEF IndInv, RegisteredOnce

LEMMA ArchiveOK == ASSUME IndInv, NEW x \in Refs, ArchiveOrRestore(x) PROVE IndInv'
<1>1. /\ panel' = Outdated(panel, "archive") /\ UNCHANGED <<kind, table, job, raced>>
      /\ live' \subseteq Refs
  BY DEF ArchiveOrRestore, IndInv, TypeOK
<1>2. /\ panel' \in [Users -> PanelType]
      /\ \A u \in Users : Shows(panel[u])' /\ Waits(panel[u])'
  BY <1>1, Shapes, OutdatedOK DEF IndInv
<1>3. TypeOK'
  BY <1>1, <1>2, Shapes, TypesStay DEF IndInv, TypeOK
<1>4. \A s \in Slots : JobOK(s)'
  BY <1>1 DEF IndInv, JobOK, Free, Taken
<1> QED
  BY <1>1, <1>2, <1>3, <1>4, TableStays DEF IndInv

-----------------------------------------------------------------------------
(* Theorems *)

\* The initial states satisfy the invariant.
THEOREM InitOK == Init => IndInv
<1> SUFFICES ASSUME Init PROVE IndInv
  OBVIOUS
<1>1. kind \in Kinds /\ MaxCopies \in Nat
  BY ImportAssumption DEF Init, ImportConstants
<1>0. <<>> \in File \cup {<<>>}
  OBVIOUS
<1>2. TypeOK
  <2>1. Empty \in PanelType
    BY <1>0, Unused
  <2>2. panel \in [Users -> PanelType]
    BY <2>1 DEF Init
  <2>3. table \in [Rows -> 0..MaxCopies]
    <3>1. 0 \in 0..MaxCopies
      BY <1>1
    <3> QED
      BY <3>1 DEF Init
  <2>4. live \subseteq Refs /\ job \in [Slots -> {Idle} \cup JobType] /\ raced \in BOOLEAN
    BY DEF Init
  <2> QED
    BY <1>1, <2>2, <2>3, <2>4 DEF TypeOK, PanelType, JobType
<1>3. RegisteredOnce /\ TableFits
  BY DEF Init, RegisteredOnce, ConstraintsHold, ClaimedOnce, Single, Holders, TableFits
<1>4. ASSUME NEW u \in Users PROVE Shows(panel[u]) /\ Waits(panel[u])
  BY <1>0, Unused DEF Init, Shows, Waits
<1> QED
  BY <1>2, <1>3, <1>4 DEF Init, IndInv, JobOK

\* Every step keeps it.
THEOREM NextOK == IndInv /\ [Next]_vars => IndInv'
<1> SUFFICES ASSUME IndInv, [Next]_vars PROVE IndInv'
  OBVIOUS
<1>1. CASE Next
  BY <1>1, ChooseFileOK, PreviewOK, ExpireOK, ClearOK, ConfirmOK, CheckOK, InsertOK, RollBackOK,
     RegisterOK, ArchiveOK DEF Next
<1>2. CASE UNCHANGED vars
  <2>1. \A u \in Users : Shows(panel[u])' /\ Waits(panel[u])'
    <3>1. (\A g : Review(g)' = Review(g)) /\ File' = File
      BY <1>2, ReviewSame, FileSame DEF vars
    <3> QED
      BY <3>1, <1>2 DEF vars, IndInv, Shows, Waits
  <2>2. \A s \in Slots : JobOK(s)'
    BY <1>2 DEF vars, IndInv, JobOK, Free, Taken
  <2>3. TypeOK'
    BY <1>2, Shapes, TypesStay DEF vars, IndInv, TypeOK
  <2> QED
    BY <1>2, <2>1, <2>2, <2>3, TableStays DEF vars, IndInv
<1> QED
  BY <1>1, <1>2

\* The invariant holds throughout.
THEOREM Invariance == Spec => []IndInv
BY InitOK, NextOK, PTL DEF Spec

\* However confirmations are repeated or overlap, and whatever else is registered or
\* archived meanwhile: what the database keeps unique is registered once, and so is
\* every email and assignment, and what else a row claims, until a record is
\* registered between the check of a confirmation and its INSERTs.
THEOREM NothingRegisteredTwice == Spec => []RegisteredOnce
<1>1. IndInv => RegisteredOnce
  BY DEF IndInv
<1> QED
  BY <1>1, Invariance, PTL

\* A step of a confirmation, of which only the check changes the records.
LEMMA JobSteps ==
    ASSUME IndInv, Next, NEW s \in Slots, job'[s] # job[s], job[s] # Idle
    PROVE  \/ Check(s) /\ ~job[s].checked
           \/ job[s].checked /\ job'[s] = Idle
<1>1. CASE \E u \in Users : ChooseFile(u) \/ Preview(u) \/ Expire(u) \/ ConfirmLate(u) \/ GiveUp(u)
  BY <1>1 DEF ChooseFile, Preview, Expire, ConfirmLate, GiveUp
<1>2. ASSUME NEW u \in Users, NEW x \in Slots, Confirm(u, x) PROVE FALSE
  <2>1. x # s
    BY <1>2 DEF Confirm
  <2> QED
    BY <1>2, <2>1, Shapes DEF Confirm
<1>3. ASSUME NEW x \in Slots, Check(x) \/ Insert(x) \/ RollBack(x)
      PROVE  \/ Check(s) /\ ~job[s].checked
             \/ job[s].checked /\ job'[s] = Idle
  <2>1. CASE x # s
    <3>1. job'[s] = job[s]
      BY <1>3, <2>1, Shapes DEF Check, Insert, RollBack
    <3> QED
      BY <3>1
  <2>2. CASE x = s
    BY <1>3, <2>2, Shapes DEF Check, Insert, RollBack
  <2> QED
    BY <2>1, <2>2
<1>4. CASE (\E r \in Rows : Register(r)) \/ (\E x \in Refs : ArchiveOrRestore(x))
  BY <1>4 DEF Register, ArchiveOrRestore
<1> QED
  BY <1>1, <1>2, <1>3, <1>4 DEF Next

\* The check of a confirmation takes its records as they are, some of them, or ends.
LEMMA CheckSteps ==
    ASSUME IndInv, NEW s \in Slots, Check(s)
    PROVE  LET ok == Accepted(job[s].file, job[s].records)
           IN  IF ok # {} THEN job'[s] # Idle /\ job'[s].records = ok ELSE job'[s] = Idle
<1> DEFINE ok == Accepted(job[s].file, job[s].records)
<1>1. job[s] \in JobType /\ kind \in AllKinds
  BY Shapes DEF Check
<1>2. ok \subseteq job[s].records
  BY <1>1, AcceptedFree
<1> HIDE DEF ok
<1>3. CASE ok # {}
  <2> DEFINE j == [job[s] EXCEPT !.records = ok, !.checked = TRUE]
  <2>1. job' = [job EXCEPT ![s].records = ok, ![s].checked = TRUE]
    BY <1>3 DEF Check, ok
  <2>2. job'[s] = j
    BY <2>1, Shapes
  <2>3. j \in JobType /\ j.records = ok
    BY <1>1, <1>2 DEF JobType
  <2> QED
    BY <1>3, <2>2, <2>3, JobNotIdle DEF ok
<1>4. CASE ok = {}
  BY <1>4, Shapes DEF Check, ok
<1> QED
  BY <1>3, <1>4 DEF ok

\* Every step saves what was shown, whole or not at all.
LEMMA StepAsShown ==
    ASSUME IndInv, Next
    PROVE  (kind # "subjects" => PreviewKept /\ ShownImported) /\ AllOrNone
<1>1. ASSUME kind # "subjects" PROVE PreviewKept
  <2> SUFFICES ASSUME NEW u \in Users, NEW s \in Slots, panel[u].wait = s,
                      panel[u].since = {}, ~job[s].checked, job'[s] # job[s]
               PROVE  job'[s] # Idle /\ job'[s].records = panel[u].shown
    BY DEF PreviewKept
  <2>1. job[s] # Idle
    BY Shapes DEF IndInv, Waits
  <2>2. Check(s)
    BY <2>1, JobSteps
  <2>3. /\ job[s].records = panel[u].shown /\ panel[u].shown # {}
        /\ Accepted(job[s].file, job[s].records) = job[s].records
    BY <1>1, <2>1, CheckAccepts
  <2> QED
    BY <2>2, <2>3, CheckSteps
<1>2. ASSUME kind # "subjects" PROVE ShownImported
  <2> SUFFICES ASSUME NEW u \in Users, NEW s \in Slots, panel[u].wait = s,
                      "archive" \notin panel[u].since
               PROVE  job[s].records \subseteq panel[u].shown
    BY DEF ShownImported
  <2> QED
    BY <1>2, Shapes DEF IndInv, Waits
<1>3. AllOrNone
  <2> SUFFICES ASSUME NEW s \in Slots, kind # "students", job[s] # Idle,
                      job'[s] \notin {Idle, job[s]}
               PROVE  job'[s].records = job[s].records
    BY DEF AllOrNone
  <2>1. Check(s)
    BY JobSteps
  <2>2. Accepted(job[s].file, job[s].records) \in {job[s].records, {}}
    BY Shapes, AcceptedFree
  <2> QED
    BY <2>1, <2>2, CheckSteps
<1> QED
  BY <1>1, <1>2, <1>3

\* What a confirmation saves is what its preview showed: all of it if nothing was
\* registered or archived since, and nothing else whatever was registered since; and
\* of all importers but that of students, whole or not at all.
THEOREM ImportsSaveWhatWasShown == Spec => ImportedAsShown
<1> DEFINE A == (kind # "subjects" => PreviewKept /\ ShownImported) /\ AllOrNone
<1>1. IndInv /\ [Next]_vars => [A]_vars
  BY StepAsShown
<1> QED
  BY <1>1, Invariance, PTL DEF Spec, ImportedAsShown

=============================================================================
