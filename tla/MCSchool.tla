------------------------------ MODULE MCSchool ------------------------------
(***************************************************************************)
(* Instances for TLC of the components that set the school up: Subjects    *)
(* (with the assignments of teachers), BulkImport, and AdviserAssignment   *)
(* where its two copies of the adviser agree.  A behaviour is one of the   *)
(* case it begins with; the components do not meet, and the variables of   *)
(* the others are Off, or idle.  Requests one at a time to change subjects *)
(* and give them, and the importers one confirmation at a time, are those  *)
(* of the modules extended.                                                *)
(***************************************************************************)
EXTENDS BulkImport, Subjects, TLC

CONSTANTS
    g7, g11, st1, n1, n2, k1, j1, j2, a1, a2,  \* subjects
    p1, p2, q1, r1, u1,                        \* workbooks
    t1, t2, c1, c2, s1, s2,
    NoTeacher, NoSection

VARIABLES case,
          subjects2, assignments2, senior2, inUse2, req2, overlapped2,  \* of Subjects, in other cases
          kind2, table2, live2, panel2, job2, raced2,  \* of BulkImport, of subjects or overlapping
          rows, adviser, access, calls    \* of AdviserAssignment

subjectVars2 == <<subjects2, assignments2, senior2, inUse2, req2, overlapped2>>
importVars == <<vars, kind2, table2, live2, panel2, job2, raced2>>
adviserVars == <<rows, adviser, access, calls>>
schoolVars == <<case, subjectVars, subjectVars2, importVars, adviserVars>>
Off == "off"

-----------------------------------------------------------------------------
\* Two subjects of one name, and a section where they may be taught; a grade level
\* may be archived.
BothSchools == {g7, g11}
OneStrand == {st1}
OneName == {n1}
NoCodes == {}
TwoSubjects == {j1, j2}
OneTeacher == {t1}
OneSection == {c1}
SectionGrade == c1 :> g11
SectionStrand == c1 :> st1
OneAssignment == {a1}
SeniorGrade == {g11}

\* Two names, for the official codes.
Coding == INSTANCE Subjects WITH
    Grades <- {g7}, Strands <- {}, Names <- {n1, n2}, Codes <- {k1},
    Teachers <- {}, Sections <- {}, gradeOf <- <<>>, strandOf <- <<>>,
    AssignmentIds <- {}, Archivable <- {},
    subjects <- subjects2, assignments <- assignments2, senior <- senior2, inUse <- inUse2, req <- req2,
    overlapped <- overlapped2

\* A subject that changes while a teacher is given it; workers die, levels move.
Giving == INSTANCE Subjects WITH
    SubjectIds <- {j1}, Sections <- {c1, c2}, gradeOf <- c1 :> g11 @@ c2 :> g7,
    strandOf <- c1 :> st1 @@ c2 :> NoStrand, AssignmentIds <- {a1, a2},
    Archivable <- {t1}, LevelsMove <- TRUE, Crashes <- TRUE,
    subjects <- subjects2, assignments <- assignments2, senior <- senior2, inUse <- inUse2, req <- req2,
    overlapped <- overlapped2

\* Two requests at a time give it.
GivingTogether == INSTANCE Subjects WITH
    Grades <- {g11}, Strands <- {}, SubjectIds <- {j1},
    strandOf <- c1 :> NoStrand, AssignmentIds <- {a1, a2}, Workers <- {s1, s2}, Archivable <- {},
    subjects <- subjects2, assignments <- assignments2, senior <- senior2, inUse <- inUse2, req <- req2,
    overlapped <- overlapped2

-----------------------------------------------------------------------------
R(p, q, x) == [p |-> p, q |-> q, ref |-> x]
FewRows == {R(p1, q1, Nothing), R(p2, q1, Nothing), R(p1, Nothing, Nothing)}
SubjectRows == {R(p1, q1, Nothing), R(p2, q1, Nothing), R(p1, Nothing, r1)}

\* Every importer but that of subjects, one confirmation at a time.
FiveKinds == AllKinds \ {"subjects"}
TwoNames == {p1, p2}
OneEmail == {q1}
OneReference == {r1}
EveryRow == FewRows \cup SubjectRows \cup {R(p2, Nothing, Nothing)}
OneUser == {u1}
OneSlot == {s1}

\* That of subjects, which have all the columns and require none.
ImportingSubjects == INSTANCE BulkImport WITH
    Kinds <- {"subjects"}, Rows <- SubjectRows,
    kind <- kind2, table <- table2, live <- live2, panel <- panel2, job <- job2, raced <- raced2

\* Two confirmations at a time.
ImportingTogether == INSTANCE BulkImport WITH
    Rows <- FewRows, Slots <- {s1, s2},
    kind <- kind2, table <- table2, live <- live2, panel <- panel2, job <- job2, raced <- raced2

\* Every endpoint that changes an adviser, one request at a time.
Advising == INSTANCE AdviserAssignment WITH
    Teachers <- {t1, t2}, Sections <- {c1, c2}, Ids <- 1..3, Slots <- {s1},
    Legacy <- c1 :> t1 @@ c2 :> NoTeacher, req <- calls,
    Endpoints <- {"assignments", "sections", "import"}

\* The endpoints that go through the locked services, two requests at a time.
AdvisingTogether == INSTANCE AdviserAssignment WITH
    Teachers <- {t1, t2}, Sections <- {c1, c2}, Ids <- 1..3, Slots <- {s1, s2},
    Legacy <- c1 :> t1 @@ c2 :> NoTeacher, req <- calls,
    Endpoints <- {"assignments", "import"}

ASSUME SchoolConstants ==
    /\ Coding!SubjectConstants /\ Giving!SubjectConstants /\ GivingTogether!SubjectConstants
    /\ ImportingSubjects!ImportConstants /\ ImportingTogether!ImportConstants

-----------------------------------------------------------------------------
OthersOff ==
    /\ subjects2 = Off /\ assignments2 = Off /\ senior2 = Off /\ inUse2 = Off /\ req2 = Off
    /\ overlapped2 = Off
TogetherOff ==
    kind2 = Off /\ table2 = Off /\ live2 = Off /\ panel2 = Off /\ job2 = Off /\ raced2 = Off
SubjectsOff == SubjectInit /\ senior = SeniorGrade
ImportsOff == Init /\ kind = "teachers"
AdvisersOff == rows = Off /\ adviser = Off /\ access = Off /\ calls = Off

SchoolInit ==
    \/ /\ ImportsOff /\ TogetherOff /\ AdvisersOff
       /\ \/ case = "naming" /\ SubjectInit /\ OthersOff
          \/ case = "coding" /\ SubjectsOff /\ Coding!SubjectInit
          \/ case = "giving" /\ SubjectsOff /\ Giving!SubjectInit
          \/ case = "giving together" /\ SubjectsOff /\ GivingTogether!SubjectInit
    \/ /\ SubjectsOff /\ OthersOff /\ AdvisersOff
       /\ \/ case = "importing" /\ Init /\ TogetherOff
          \/ case = "importing subjects" /\ ImportsOff /\ ImportingSubjects!Init
          \/ case = "importing together" /\ ImportsOff /\ ImportingTogether!Init
    \/ /\ SubjectsOff /\ OthersOff /\ ImportsOff /\ TogetherOff
       /\ \/ case = "advising" /\ Advising!Init
          \/ case = "advising together" /\ AdvisingTogether!Init

SubjectStep == UNCHANGED <<case, subjectVars, importVars, adviserVars>>
ImportStep == UNCHANGED <<case, subjectVars, subjectVars2, adviserVars>>
AdviserStep == UNCHANGED <<case, subjectVars, subjectVars2, importVars>>

SchoolNext ==
    \/ case = "naming" /\ SubjectNext /\ UNCHANGED <<case, subjectVars2, importVars, adviserVars>>
    \/ case = "coding" /\ Coding!SubjectNext /\ SubjectStep
    \/ case = "giving" /\ Giving!SubjectNext /\ SubjectStep
    \/ case = "giving together" /\ GivingTogether!SubjectNext /\ SubjectStep
    \/ case = "importing" /\ Next /\ ImportStep
         /\ UNCHANGED <<kind2, table2, live2, panel2, job2, raced2>>
    \/ case = "importing subjects" /\ ImportingSubjects!Next /\ ImportStep /\ UNCHANGED vars
    \/ case = "importing together" /\ ImportingTogether!Next /\ ImportStep /\ UNCHANGED vars
    \/ case = "advising" /\ Advising!Next /\ AdviserStep
    \/ case = "advising together" /\ AdvisingTogether!Next /\ AdviserStep

SchoolSpec == SchoolInit /\ [][SchoolNext]_schoolVars

Symmetry == Permutations({s1, s2}) \cup Permutations({j1, j2})

-----------------------------------------------------------------------------
(* The properties of the components, in the cases in which they hold *)

\* The types of the components.
SchoolTypeOK ==
    /\ TypeOK
    /\ case = "importing subjects" => ImportingSubjects!TypeOK
    /\ case = "importing together" => ImportingTogether!TypeOK
    /\ case = "advising" => Advising!TypeOK

\* Subjects of two names differ in code where both are taught; workers that die, and
\* requests that overlap until one saves what another validates, give a teacher a
\* subject in a section once.
OthersInOrder ==
    /\ case = "coding" => Coding!SubjectsInOrder
    /\ case = "giving" => Giving!SubjectsInOrder
    /\ case = "giving together" => GivingTogether!SubjectsInOrder

\* A teacher never gets a subject that is archived or that the section does not
\* have, not even if a worker died while the subject was being saved.
GivenAfterCrash == [][case = "giving" => Giving!GivenFits]_schoolVars

\* Section.adviser names the adviser of the active assignment: with every endpoint
\* in use one request at a time, and without PATCH of sections however requests
\* overlap.
MirrorAgrees ==
    /\ case = "advising" => Advising!MirrorAgrees
    /\ case = "advising together" => AdvisingTogether!MirrorAgrees

\* No import of subjects, repeated or interrupted, registers one twice.
SubjectsRegisteredOnce == case = "importing subjects" => ImportingSubjects!RegisteredOnce

\* However confirmations overlap, what the database keeps unique is so, and nothing
\* else is registered twice until one inserts between the check of another and its
\* INSERTs.
ConfirmationsRegisterOnce == case = "importing together" => ImportingTogether!RegisteredOnce

-----------------------------------------------------------------------------
(* The properties of the run that have several parts *)

\* The rows have their types.  What is to be kept once is: subjects by code, a subject
\* given to a teacher in a section, the adviser of a section in both places, and what
\* imports register, of subjects too; assignments and imports until one is saved
\* between the check of another and its save, and what MySQL keeps unique always.
KeptOnce ==
    SchoolTypeOK /\ OthersInOrder /\ MirrorAgrees /\ SubjectsRegisteredOnce /\ ConfirmationsRegisterOnce
=============================================================================
