------------------------------- MODULE Enrolment -------------------------------
(***************************************************************************)
(* Academic years, grade levels, strands, sections and enrolments.  Every  *)
(* handler reads and checks the rows it needs (the serializer), then saves *)
(* (a statement, or one transaction): other requests run in between.  The  *)
(* only checks the save makes again are the unique constraints.            *)
(***************************************************************************)
EXTENDS Naturals, FiniteSets

CONSTANTS
    Years, Grades, Strands,
    Senior,       \* the grade levels of the Senior High School
    Names,        \* names of sections
    Students,
    SectionIds,   \* primary keys; their number is a bound
    EnrolIds,     \* primary keys; their number is a bound
    NoStrand, NoSection,  \* SQL NULL
    NoId,         \* the instance of a POST
    Slots,        \* requests that may be in flight together
    SectionsMove, \* whether PATCH /sections/ changes grade level and strand
    Clears        \* whether PATCH /enrollments/ sets columns to null

EnrolmentConstants ==
    /\ Years \cap Grades = {} /\ Years \cap Strands = {} /\ Grades \cap Strands = {}
    /\ Senior \subseteq Grades
    /\ NoStrand \notin Strands
    /\ NoId \notin SectionIds /\ NoId \notin EnrolIds
    /\ NoSection \notin SectionIds
    /\ SectionsMove \in BOOLEAN /\ Clears \in BOOLEAN

ASSUME EnrolmentAssumption == EnrolmentConstants

VARIABLES
    live,        \* is_active of the years, grade levels and strands
    sections,    \* the rows of Section; {} where there is none
    enrolments,  \* the rows of Enrollment; {} where there is none
    req          \* req[s]: what the request in slot s is about to save

vars == <<live, sections, enrolments, req>>

Section == [grade: Grades, year: Years, name: Names,
            strand: Strands \cup {NoStrand}, active: BOOLEAN]
Enrollment == [student: Students, year: Years, grade: Grades,
               section: SectionIds \cup {NoSection}, strand: Strands \cup {NoStrand}]

Idle == [op |-> "idle"]
Request ==
    {Idle}
    \cup [op: {"live"}, id: Years \cup Grades \cup Strands, value: BOOLEAN]
    \cup [op: {"section"}, id: SectionIds \cup {NoId}, row: Section]
    \cup [op: {"enrol"}, rows: SUBSET Enrollment]
    \cup [op: {"enrolment"}, id: EnrolIds, row: Enrollment]

SectionRows == UNION {sections[i] : i \in SectionIds}
EnrolmentRows == UNION {enrolments[i] : i \in EnrolIds}

\* A table maps a primary key to the set of its rows, which has at most one.
Table(ids, Rows) == [ids -> {{}} \cup {{r} : r \in Rows}]

TypeOK ==
    /\ live \in [Years \cup Grades \cup Strands -> BOOLEAN]
    /\ sections \in Table(SectionIds, Section)
    /\ enrolments \in Table(EnrolIds, Enrollment)
    /\ req \in [Slots -> Request]

\* A fresh deployment: grade levels and strands are seeded, no year is active.
Init ==
    /\ live = [x \in Years \cup Grades \cup Strands |-> x \notin Years]
    /\ sections = [i \in SectionIds |-> {}]
    /\ enrolments = [i \in EnrolIds |-> {}]
    /\ req = [s \in Slots |-> Idle]

Start(s, r) ==
    /\ req[s] = Idle
    /\ req' = [req EXCEPT ![s] = r]
    /\ UNCHANGED <<live, sections, enrolments>>

Finish(s) == req' = [req EXCEPT ![s] = Idle]

-----------------------------------------------------------------------------
(* Academic years, grade levels, strands                                   *)

\* get_active_academic_year: no year, or two of them, is an error.  The dates
\* are in order in every row, as every writer of years checks.
ActiveYear(y) == {x \in Years : live[x]} = {y}

\* Mutant: every year may be activated.
PatchAnyYear(s) ==
    \E y \in Years, v \in BOOLEAN : Start(s, [op |-> "live", id |-> y, value |-> v])

\* POST or PATCH of a year.  A body without is_active saves the value just read.
PatchYear(s) ==
    \E y \in Years, v \in BOOLEAN :
        /\ v => \A x \in Years \ {y} : ~live[x]
        /\ Start(s, [op |-> "live", id |-> y, value |-> v])

\* PATCH of a grade level or a strand: nothing relates it to another row.
PatchReference(s) ==
    \E x \in Grades \cup Strands, v \in BOOLEAN :
        Start(s, [op |-> "live", id |-> x, value |-> v])

\* POST /grade-levels/<id>/restore/: 409 for an active one.
RestoreGrade(s) ==
    \E g \in Grades : ~live[g] /\ Start(s, [op |-> "live", id |-> g, value |-> TRUE])

SaveLive(s) ==
    /\ req[s].op = "live"
    /\ live' = [live EXCEPT ![req[s].id] = req[s].value]
    /\ Finish(s)
    /\ UNCHANGED <<sections, enrolments>>

-----------------------------------------------------------------------------
(* Sections                                                                *)

SameName(r, q) == r.grade = q.grade /\ r.year = q.year /\ r.name = q.name

\* SectionSerializer.validate, for the row r that instance i would become.
ValidSection(r, i) ==
    /\ live[r.grade]
    /\ \A j \in SectionIds \ {i} : \A q \in sections[j] : ~SameName(r, q)
    /\ r.strand # NoStrand => r.grade \in Senior

\* POST /sections/: always in the active year; the strand must be in use.
PostSection(s) ==
    \E r \in Section :
        /\ r.active
        /\ ActiveYear(r.year)
        /\ r.strand # NoStrand => live[r.strand]
        /\ ValidSection(r, NoId)
        /\ Start(s, [op |-> "section", id |-> NoId, row |-> r])

\* Mutant: a section may be moved to the active year.
PatchSectionYear(s) ==
    \E i \in SectionIds, r \in Section :
        /\ sections[i] # {} /\ ActiveYear(r.year)
        /\ \A old \in sections[i] : r.grade = old.grade /\ r.strand = old.strand
        /\ ValidSection(r, i)
        /\ Start(s, [op |-> "section", id |-> i, row |-> r])

\* PATCH /sections/<i>/: its year stays; a strand it had may be out of use.
PatchSection(s) ==
    \E i \in SectionIds, r \in Section : \E old \in sections[i] :
        /\ r.year = old.year
        /\ r.strand \in {NoStrand, old.strand} \cup {x \in Strands : live[x]}
        /\ ~SectionsMove => r.grade = old.grade /\ r.strand = old.strand
        /\ ValidSection(r, i)
        /\ Start(s, [op |-> "section", id |-> i, row |-> r])

\* The unique constraint of the table of sections.
UniqueSections(t) ==
    \A i, j \in DOMAIN t : \A r \in t[i], q \in t[j] : SameName(r, q) => i = j

\* The INSERT, or the UPDATE of every column.
SaveSection(s) ==
    /\ req[s].op = "section"
    /\ \E i \in SectionIds :
         /\ IF req[s].id = NoId THEN sections[i] = {} ELSE i = req[s].id
         /\ sections' = [sections EXCEPT ![i] = {req[s].row}]
         /\ UniqueSections(sections')
    /\ Finish(s)
    /\ UNCHANGED <<live, enrolments>>

-----------------------------------------------------------------------------
(* Enrolments                                                              *)

SameStudentAndYear(r, q) == r.student = q.student /\ r.year = q.year

\* Mutant: the section may be of any grade level.
ValidEnrolmentAnywhere(r, i) ==
    /\ live[r.year] /\ live[r.grade]
    /\ \A j \in EnrolIds \ {i} : \A q \in enrolments[j] : ~SameStudentAndYear(r, q)
    /\ r.section # NoSection
    /\ \E c \in sections[r.section] : c.active /\ c.year = r.year

\* Mutant: the Senior High School needs no strand.
ValidEnrolmentStrandless(r, i) ==
    /\ live[r.year] /\ live[r.grade]
    /\ \A j \in EnrolIds \ {i} : \A q \in enrolments[j] : ~SameStudentAndYear(r, q)
    /\ r.section # NoSection
    /\ \E c \in sections[r.section] :
         /\ c.active /\ c.grade = r.grade /\ c.year = r.year
         /\ c.strand \in {NoStrand, r.strand}

\* EnrollmentSerializer.validate, for the row r that instance i would become.
ValidEnrolment(r, i) ==
    /\ live[r.year] /\ live[r.grade]
    /\ r.strand # NoStrand => live[r.strand]
    /\ \A j \in EnrolIds \ {i} : \A q \in enrolments[j] : ~SameStudentAndYear(r, q)
    /\ r.section # NoSection
    /\ \E c \in sections[r.section] :
         /\ c.active /\ c.grade = r.grade /\ c.year = r.year
         /\ c.strand = NoStrand \/ r.strand \in {NoStrand, c.strand}
    /\ r.grade \in Senior <=> r.strand # NoStrand

\* POST /enrollments/ of one student, or of a list "students" that differ in
\* nothing else: one transaction, in which each row is validated like a single one.
PostEnrolments(s) ==
    \E r \in Enrollment, sts \in (SUBSET Students) \ {{}} :
        LET rows == {[r EXCEPT !.student = st] : st \in sts}
        IN  /\ r.student \in sts
            /\ ActiveYear(r.year)
            /\ \A q \in rows : ValidEnrolment(q, NoId)
            /\ Start(s, [op |-> "enrol", rows |-> rows])

\* Mutant: an enrolment of an archived year may be changed.
PatchArchivedEnrolment(s) ==
    \E i \in EnrolIds, r \in Enrollment : \E old \in enrolments[i] :
        /\ \E st \in Students : r = [old EXCEPT !.student = st]
        /\ Start(s, [op |-> "enrolment", id |-> i, row |-> r])

\* What is saved in a column of which validate() read new: for a body that sets
\* it to null, it falls back on what the instance has ("attrs.get(...) or").
Cleared(new, old, null) == {new} \cup {x \in {null} : Clears /\ new = old}

\* PATCH /enrollments/<i>/: its year stays, the student need not.
PatchEnrolment(s) ==
    \E i \in EnrolIds, r \in Enrollment : \E old \in enrolments[i] :
        /\ r.year = old.year
        /\ ValidEnrolment(r, i)
        /\ \E section \in Cleared(r.section, old.section, NoSection),
              strand \in Cleared(r.strand, old.strand, NoStrand) :
             Start(s, [op |-> "enrolment", id |-> i,
                       row |-> [r EXCEPT !.section = section, !.strand = strand]])

\* Mutant: nothing but the serializer keeps two rows apart.
SaveEnrolmentsUnchecked(s) ==
    /\ req[s].op = "enrol"
    /\ \E f \in [req[s].rows -> EnrolIds] :
         enrolments' = [i \in EnrolIds |->
                          enrolments[i] \cup {r \in req[s].rows : f[r] = i}]
    /\ Finish(s)
    /\ UNCHANGED <<live, sections>>

\* The unique constraint of the table of enrolments.
UniqueEnrolments(t) ==
    \A i, j \in DOMAIN t : \A r \in t[i], q \in t[j] : SameStudentAndYear(r, q) => i = j

\* All the INSERTs, or none: the unique constraint refuses the transaction.
SaveEnrolments(s) ==
    /\ req[s].op = "enrol"
    /\ \E f \in [req[s].rows -> {i \in EnrolIds : enrolments[i] = {}}] :
         /\ \A r, q \in req[s].rows : f[r] = f[q] => r = q
         /\ enrolments' = [i \in EnrolIds |->
                             enrolments[i] \cup {r \in req[s].rows : f[r] = i}]
    /\ UniqueEnrolments(enrolments')
    /\ Finish(s)
    /\ UNCHANGED <<live, sections>>

SaveEnrolment(s) ==
    /\ req[s].op = "enrolment"
    /\ enrolments' = [enrolments EXCEPT ![req[s].id] = {req[s].row}]
    /\ UniqueEnrolments(enrolments')
    /\ Finish(s)
    /\ UNCHANGED <<live, sections>>

\* The request fails (a constraint, a dead worker); its transaction is undone.
Abandon(s) ==
    /\ req[s] # Idle
    /\ Finish(s)
    /\ UNCHANGED <<live, sections, enrolments>>

Next == \E s \in Slots :
    \/ PatchYear(s) \/ PatchReference(s) \/ RestoreGrade(s) \/ SaveLive(s)
    \/ PostSection(s) \/ PatchSection(s) \/ SaveSection(s)
    \/ PostEnrolments(s) \/ SaveEnrolments(s)
    \/ PatchEnrolment(s) \/ SaveEnrolment(s)
    \/ Abandon(s)

Spec == Init /\ [][Next]_vars

-----------------------------------------------------------------------------
(* Properties *)

\* Requests do not overlap.
OneAtATime == \A s, t \in Slots : s = t

\* "Only one academic year can be active at a time."  Every creation of a
\* section, an assignment or an enrolment is refused while it fails.
OneActiveYear == Cardinality({y \in Years : live[y]}) <= 1

\* However requests overlap, "a student can only have one enrollment per
\* academic year": the serializer's look-up is stale, the constraint is not.
OneEnrolmentPerYear == UniqueEnrolments(enrolments)

\* However requests overlap, an enrolment is of its section's academic year:
\* neither of them can be moved to another year once it is there.
EnrolledInOwnYear ==
    \A r \in EnrolmentRows :
        r.section # NoSection => \E c \in sections[r.section] : c.year = r.year

\* An enrolment agrees with its section on the grade level and the strand
\* ("The selected section does not belong to the selected grade level").
PlacedInSection ==
    \A r \in EnrolmentRows : r.section # NoSection =>
        \E c \in sections[r.section] :
            c.grade = r.grade /\ c.strand \in {NoStrand, r.strand}

\* Every enrolment has a section, and one in the Senior High School a strand
\* ("Section is required", "A strand is required").
Complete ==
    \A r \in EnrolmentRows :
        r.section # NoSection /\ (r.grade \in Senior => r.strand # NoStrand)

\* However requests overlap, a student is enrolled once in a year, in a section
\* of that year; completely while no column is cleared, and in a section of the
\* enrolment's grade level and strand while sections keep theirs.  Requests one
\* at a time leave one year active.
EnrolmentsInOrder ==
    /\ TypeOK /\ OneEnrolmentPerYear /\ EnrolledInOwnYear
    /\ ~Clears => Complete
    /\ ~Clears /\ ~SectionsMove => PlacedInSection
    /\ OneAtATime => OneActiveYear

\* The enrolments of a year that is not active do not change: they are history
\* ("Cannot create enrollment in an archived academic year").
YearKept(y) ==
    ~live[y] => {r \in EnrolmentRows : r.year = y} = {r \in EnrolmentRows' : r.year = y}
ArchivedYearKept == [][\A y \in Years : YearKept(y)]_vars
=============================================================================
