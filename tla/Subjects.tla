-------------------------------- MODULE Subjects --------------------------------
(***************************************************************************)
(* The subject catalogue and the assignments of teachers to subjects.  A   *)
(* subject keeps its grade levels twice: a list (a table of its own) and   *)
(* its first grade level (a column).  A request validates against the rows *)
(* it reads and then writes, outside a transaction, one statement after    *)
(* the other: the row, the list, the first grade level again.              *)
(***************************************************************************)
EXTENDS Naturals, FiniteSets, Sequences

CONSTANTS
    Grades,
    Strands, NoStrand,
    Names,
    Codes, NoCode,      \* official subject codes
    NoGrade,            \* SQL NULL
    SubjectIds,         \* primary keys; their number is a bound
    Teachers, Sections, \* sections have a grade level and a strand:
    gradeOf, strandOf,
    AssignmentIds,      \* primary keys; their number is a bound
    NoId,               \* the instance of a POST
    Workers,            \* requests that may be in flight together
    Archivable,         \* the grades, teachers and sections that are archived
    LevelsMove,         \* whether PATCH /grade-levels/ changes the school level
    Crashes             \* whether a worker may die between two statements

SubjectConstants ==
    /\ NoStrand \notin Strands /\ NoCode \notin Codes /\ NoGrade \notin Grades
    /\ NoId \notin SubjectIds /\ NoId \notin AssignmentIds
    /\ gradeOf \in [Sections -> Grades]
    /\ strandOf \in [Sections -> Strands \cup {NoStrand}]
    /\ Archivable \subseteq Grades \cup Teachers \cup Sections
    /\ LevelsMove \in BOOLEAN /\ Crashes \in BOOLEAN

ASSUME SubjectAssumption == SubjectConstants

VARIABLES
    subjects,     \* the rows of Subject; {} where there is none
    assignments,  \* the rows of TeacherAssignment with a subject
    senior,       \* the grade levels of the Senior High School
    inUse,        \* is_active of grades, teachers and sections
    req,          \* req[s]: what the request in slot s has still to write
    overlapped    \* (history) an assignment was saved while another was validated
                  \* and not saved yet

subjectVars == <<subjects, assignments, senior, inUse, req, overlapped>>

Subject == [name: Names, code: Codes \cup {NoCode}, strand: Strands \cup {NoStrand},
            active: BOOLEAN, first: Grades \cup {NoGrade}, grades: SUBSET Grades]
Assignment == [teacher: Teachers, section: Sections, subject: SubjectIds, active: BOOLEAN]

Ready == [op |-> "idle"]
Todo == {<<"row">>, <<"row", "grades">>, <<"row", "grades", "first">>,
         <<"grades">>, <<"grades", "first">>, <<"first">>}
Request ==
    {Ready}
    \cup [op: {"subject"}, id: SubjectIds \cup {NoId}, row: Subject, todo: Todo]
    \cup [op: {"assign"}, rows: SUBSET Assignment]
    \cup [op: {"assignment"}, id: AssignmentIds, row: Assignment]

Table(ids, Rows) == [ids -> {{}} \cup {{r} : r \in Rows}]

SubjectTypes ==
    /\ subjects \in Table(SubjectIds, Subject)
    /\ assignments \in Table(AssignmentIds, Assignment)
    /\ senior \subseteq Grades
    /\ inUse \in [Grades \cup Teachers \cup Sections -> BOOLEAN]
    /\ req \in [Workers -> Request]
    /\ overlapped \in BOOLEAN

SubjectInit ==
    /\ subjects = [i \in SubjectIds |-> {}]
    /\ assignments = [i \in AssignmentIds |-> {}]
    /\ senior \in SUBSET Grades
    /\ inUse = [x \in Grades \cup Teachers \cup Sections |-> TRUE]
    /\ req = [s \in Workers |-> Ready]
    /\ overlapped = FALSE

Start(s, r) ==
    /\ req[s] = Ready
    /\ req' = [req EXCEPT ![s] = r]
    /\ UNCHANGED <<subjects, assignments, senior, inUse, overlapped>>

-----------------------------------------------------------------------------
(* The catalogue                                                           *)

\* Every grade level a subject is found under.
GradesOf(r) == (r.grades \cup {r.first}) \ {NoGrade}

\* The grade levels a subject is mapped to: the column only where there is no list.
Mapped(r) == IF r.grades = {} THEN {r.first} \ {NoGrade} ELSE r.grades

\* validate_active_duplicate: the same name, and found under a grade level of r.
SameSubject(r, q) ==
    q.active /\ q.name = r.name /\ GradesOf(q) \cap Mapped(r) # {}

\* validate_active_official_subject_code: only senior grade levels count.
SameCode(r, q) ==
    /\ q.active /\ q.code = r.code /\ r.code # NoCode
    /\ GradesOf(q) \cap Mapped(r) \cap senior # {}

\* Mutant: the duplicates are searched by the first grade level.
SameFirst(r, q) ==
    q.active /\ q.name = r.name /\ q.first = r.first /\ r.first # NoGrade

\* Mutant: only the names are compared.
DistinctName(r, i) ==
    r.active => \A j \in SubjectIds \ {i} : \A q \in subjects[j] : ~SameSubject(r, q)

\* Mutant: the duplicates are searched by the first grade level.
DistinctFirst(r, i) ==
    r.active => \A j \in SubjectIds \ {i} : \A q \in subjects[j] :
        ~SameFirst(r, q) /\ ~SameCode(r, q)

\* No other row of an active subject is the same.
Distinct(r, i) ==
    r.active => \A j \in SubjectIds \ {i} : \A q \in subjects[j] :
        ~SameSubject(r, q) /\ ~SameCode(r, q)

\* Mutant: the strand is compared with the first grade level of a new subject.
ValidSubjectStrand(r, i) ==
    /\ \A g \in GradesOf(r) : inUse[g]
    /\ r.strand # NoStrand /\ r.first # NoGrade /\ i = NoId => r.first \in senior
    /\ r.code # NoCode => Mapped(r) \cap senior # {}
    /\ Distinct(r, i)

\* SubjectSerializer.validate, for the row r that instance i would become.
\* (A category of the Senior High School is checked as a strand is.)
ValidSubject(r, i) ==
    /\ \A g \in GradesOf(r) : inUse[g]
    /\ r.strand # NoStrand => Mapped(r) \subseteq senior
    /\ r.code # NoCode => Mapped(r) \cap senior # {}
    /\ Distinct(r, i)

\* The grade levels of a body: of one division, the first of them the column.
Resolved(r) ==
    /\ IF r.grades = {} THEN r.first = NoGrade ELSE r.first \in r.grades
    /\ r.grades \subseteq senior \/ r.grades \cap senior = {}

\* POST /subjects/.
PostSubject(s) ==
    \E r \in Subject :
        /\ Resolved(r) /\ ValidSubject(r, NoId)
        /\ Start(s, [op |-> "subject", id |-> NoId, row |-> r, todo |-> <<"row", "grades">>])

\* PATCH /subjects/<i>/: the list is written only if the body names grade levels,
\* the column always, with the value just read.
PatchSubject(s) ==
    \E i \in SubjectIds, r \in Subject : \E old \in subjects[i] :
        /\ ValidSubject(r, i)
        /\ \/ /\ r.grades = old.grades /\ r.first = old.first
              /\ Start(s, [op |-> "subject", id |-> i, row |-> r, todo |-> <<"row">>])
           \/ /\ Resolved(r)
              /\ Start(s, [op |-> "subject", id |-> i, row |-> r,
                           todo |-> <<"row", "grades", "first">>])

\* The request in slot s has written the first of what it has to write.
Wrote(s, i) ==
    req' = [req EXCEPT ![s] =
        IF Len(req[s].todo) = 1 THEN Ready
        ELSE [op |-> "subject", id |-> i, row |-> req[s].row, todo |-> Tail(req[s].todo)]]

ToWrite(s, statement) == req[s].op = "subject" /\ Head(req[s].todo) = statement

\* INSERT, or UPDATE of every column.  The list of grade levels stays.
SaveSubjectRow(s) ==
    /\ ToWrite(s, "row")
    /\ \E i \in SubjectIds :
         /\ IF req[s].id = NoId THEN subjects[i] = {} ELSE i = req[s].id
         /\ subjects' = [subjects EXCEPT ![i] =
              {[req[s].row EXCEPT !.grades = UNION {q.grades : q \in subjects[i]}]}]
         /\ Wrote(s, i)
    /\ UNCHANGED <<assignments, senior, inUse, overlapped>>

\* Mutant: the grade levels are not written.
SaveSubjectNoGrades(s) ==
    /\ ToWrite(s, "grades")
    /\ Wrote(s, req[s].id)
    /\ UNCHANGED <<subjects, assignments, senior, inUse, overlapped>>

\* grade_levels.set(resolved_grade_levels).
SaveSubjectGrades(s) ==
    /\ ToWrite(s, "grades")
    /\ subjects' = [subjects EXCEPT ![req[s].id] =
         {[q EXCEPT !.grades = req[s].row.grades] : q \in @}]
    /\ Wrote(s, req[s].id)
    /\ UNCHANGED <<assignments, senior, inUse, overlapped>>

\* Mutant: the row is written once for every grade level.
SaveSubjectFirstEach(s) ==
    /\ ToWrite(s, "first")
    /\ subjects' = [subjects EXCEPT ![req[s].id] =
         {[q EXCEPT !.first = g] : q \in @, g \in req[s].row.grades \cup {req[s].row.first}}]
    /\ Wrote(s, req[s].id)
    /\ UNCHANGED <<assignments, senior, inUse, overlapped>>

\* save(update_fields=['grade_level']).
SaveSubjectFirst(s) ==
    /\ ToWrite(s, "first")
    /\ subjects' = [subjects EXCEPT ![req[s].id] =
         {[q EXCEPT !.first = req[s].row.first] : q \in @}]
    /\ Wrote(s, req[s].id)
    /\ UNCHANGED <<assignments, senior, inUse, overlapped>>

-----------------------------------------------------------------------------
(* Assignments of teachers to a subject and a section                      *)

\* The subject q is taught in section c: mapped to its grade level, and not
\* restricted to another strand.
Fits(q, c) ==
    /\ gradeOf[c] \in Mapped(q)
    /\ q.strand = NoStrand \/ strandOf[c] = NoStrand \/ strandOf[c] = q.strand

SameContext(a, b) == a.teacher = b.teacher /\ a.section = b.section /\ a.subject = b.subject

\* An assignment for the same teacher, section and subject, archived ones too.
Exists(a, i) == \E j \in AssignmentIds \ {i} : \E b \in assignments[j] : SameContext(a, b)

\* Mutant: a grade level in the list or in the column will do.
ValidNewEither(a) ==
    /\ inUse[a.teacher] /\ inUse[a.section] /\ inUse[gradeOf[a.section]]
    /\ \E q \in subjects[a.subject] :
         q.active /\ (Fits(q, a.section) \/ gradeOf[a.section] \in GradesOf(q))
    /\ ~Exists(a, NoId)

\* Mutant: only active assignments are looked for.
ValidNewOverArchived(a) ==
    /\ inUse[a.teacher] /\ inUse[a.section] /\ inUse[gradeOf[a.section]]
    /\ \E q \in subjects[a.subject] : q.active /\ Fits(q, a.section)
    /\ \A j \in AssignmentIds : \A b \in assignments[j] : ~(b.active /\ SameContext(a, b))

\* TeacherAssignmentSerializer.validate for a new assignment.
ValidNew(a) ==
    /\ inUse[a.teacher] /\ inUse[a.section] /\ inUse[gradeOf[a.section]]
    /\ \E q \in subjects[a.subject] : q.active /\ Fits(q, a.section)
    /\ ~Exists(a, NoId)

\* Mutant: an assignment that is activated again is not compared with its subject.
ValidChangeLax(a, i) ==
    \E old \in assignments[i] :
        /\ a.subject # old.subject \/ a.section # old.section =>
             \E q \in subjects[a.subject] : q.active /\ Fits(q, a.section)
        /\ ~Exists(a, i)

\* ... and for the row a that assignment i would become.  What does not change
\* may be archived, or no longer mapped, unless the assignment is activated.
ValidChange(a, i) ==
    \E old \in assignments[i] : \E q \in subjects[a.subject] :
        /\ a.teacher # old.teacher => inUse[a.teacher]
        /\ a.section # old.section => inUse[a.section]
        /\ gradeOf[a.section] # gradeOf[old.section] => inUse[gradeOf[a.section]]
        /\ a.subject # old.subject \/ (a.active /\ ~old.active) => q.active
        /\ a.subject # old.subject \/ a.section # old.section \/ (a.active /\ ~old.active)
             => Fits(q, a.section)
        /\ ~Exists(a, i)

\* POST /teacher-assignments/: one subject, or a list of subjects for a section
\* in one transaction, where each is validated after the previous INSERT.
PostAssignments(s) ==
    \E t \in Teachers, c \in Sections, qs \in SUBSET SubjectIds, v \in BOOLEAN :
        LET rows == {[teacher |-> t, section |-> c, subject |-> q, active |-> v] : q \in qs} IN
        /\ qs # {} /\ \A a \in rows : ValidNew(a)
        /\ Start(s, [op |-> "assign", rows |-> rows])

PatchAssignment(s) ==
    \E i \in AssignmentIds, a \in Assignment :
        /\ ValidChange(a, i)
        /\ Start(s, [op |-> "assignment", id |-> i, row |-> a])

\* An assignment that slot s saves, and whether another request was validated
\* before.  The unique constraint of active assignments has a condition: MySQL does
\* not create it, and nothing stops the second of two.
Saves(s, kind) ==
    /\ req[s].op = kind
    /\ req' = [req EXCEPT ![s] = Ready]
    /\ overlapped' = (overlapped \/ \E t \in Workers \ {s} : req[t].op \in {"assign", "assignment"})

\* The INSERTs of one transaction.
SaveAssignments(s) ==
    /\ Saves(s, "assign")
    /\ \E f \in [req[s].rows -> AssignmentIds] :
         /\ \A a, b \in req[s].rows : f[a] = f[b] => a = b
         /\ \A a \in req[s].rows : assignments[f[a]] = {}
         /\ assignments' = [i \in AssignmentIds |->
              assignments[i] \cup {a \in req[s].rows : f[a] = i}]
    /\ UNCHANGED <<subjects, senior, inUse>>

\* The UPDATE of every column.
SaveAssignment(s) ==
    /\ Saves(s, "assignment")
    /\ assignments' = [assignments EXCEPT ![req[s].id] = {req[s].row}]
    /\ UNCHANGED <<subjects, senior, inUse>>

-----------------------------------------------------------------------------

\* A grade level, a teacher or a section is archived or restored, by a request.
SetInUse(s) ==
    /\ req[s] = Ready
    /\ \E x \in Archivable : inUse' = [inUse EXCEPT ![x] = ~@]
    /\ UNCHANGED <<subjects, assignments, senior, req, overlapped>>

\* PATCH /grade-levels/: another school level; no subject is looked at.
MoveLevel(s) ==
    /\ LevelsMove /\ req[s] = Ready
    /\ \E g \in Grades :
         senior' = IF g \in senior THEN senior \ {g} ELSE senior \cup {g}
    /\ UNCHANGED <<subjects, assignments, inUse, req, overlapped>>

\* The request is refused, or fails: before its first statement, or between two.
Abandon(s) ==
    /\ req[s] # Ready
    /\ req[s].op = "subject" => Crashes \/ Head(req[s].todo) = "row"
    /\ req' = [req EXCEPT ![s] = Ready]
    /\ UNCHANGED <<subjects, assignments, senior, inUse, overlapped>>

SubjectNext == \E s \in Workers :
    \/ PostSubject(s) \/ PatchSubject(s)
    \/ SaveSubjectRow(s) \/ SaveSubjectGrades(s) \/ SaveSubjectFirst(s)
    \/ PostAssignments(s) \/ PatchAssignment(s)
    \/ SaveAssignments(s) \/ SaveAssignment(s)
    \/ SetInUse(s) \/ MoveLevel(s) \/ Abandon(s)

SubjectSpec == SubjectInit /\ [][SubjectNext]_subjectVars

-----------------------------------------------------------------------------
(* Properties                                                              *)

\* Requests do not overlap.
OneAtATime == \A s, t \in Workers : s = t

\* No request is between two statements.
Settled == \A s \in Workers : req[s] = Ready

\* "An active subject with the same name already overlaps the selected grade
\* levels", "an active Senior High School subject with this official code already
\* overlaps": no sequence of creations, renamings, moves and restorations leads
\* to two of them.
NoActiveDuplicates ==
    \A i, j \in SubjectIds : i # j =>
        \A r \in subjects[i], q \in subjects[j] : r.active => ~SameSubject(r, q)
NoDuplicateCode ==
    \A i, j \in SubjectIds : i # j =>
        \A r \in subjects[i], q \in subjects[j] : r.active => ~SameCode(r, q)

\* "Only Senior High School subjects can be associated with a strand."
OnlySeniorHasStrand ==
    \A i \in SubjectIds : \A r \in subjects[i] : r.strand # NoStrand => GradesOf(r) \subseteq senior

\* The column and the list, both read by filters, name the same grade levels.
GradesAgree ==
    \A i \in SubjectIds : \A r \in subjects[i] :
        IF r.grades = {} THEN r.first = NoGrade ELSE r.first \in r.grades

\* A teacher has one assignment of a subject in a section, archived or not.
AssignedOnce ==
    \A i, j \in AssignmentIds : i # j =>
        \A a \in assignments[i], b \in assignments[j] : ~SameContext(a, b)

\* The rows have their types.  However requests overlap, a teacher is given a subject
\* in a section once, unless an assignment was saved between the validation of another
\* and its save.  While requests do not overlap and none dies between
\* two statements, the active subjects of a grade level differ in name and name
\* their grade levels alike in both places; while grade levels keep their school
\* level, they also differ in code and have a strand only in the Senior High School.
SubjectsInOrder ==
    /\ SubjectTypes
    /\ ~overlapped => AssignedOnce
    /\ OneAtATime /\ ~Crashes /\ Settled => NoActiveDuplicates /\ GradesAgree
    /\ OneAtATime /\ ~Crashes /\ Settled /\ ~LevelsMove => NoDuplicateCode /\ OnlySeniorHasStrand

\* While requests do not overlap, a teacher never gets (or gets back) a subject that
\* is archived, or that the section's grade level does not have, also not by restoring
\* an assignment from a time when the subject was different, or after a worker died
\* while the subject was saved.  (An assignment may be moved to another section of
\* that grade level although its subject is archived.)
GivenFits ==
    \A i \in AssignmentIds : \A a \in assignments'[i] : \E q \in subjects[a.subject] :
      LET same == {b \in assignments[i] : b.active /\ b.subject = a.subject} IN
      /\ a.active /\ same = {} => q.active
      /\ a.active /\ (\A b \in same : b.section # a.section) => Fits(q, a.section)
GivenSubjectFits == [][OneAtATime => GivenFits]_subjectVars
=============================================================================
