-------------------------------- MODULE Listings --------------------------------
(***************************************************************************)
(* What the pages list and count: the same tables are read by the lists of *)
(* students, classes, enrolments and grades, by the context of a teacher,  *)
(* by three dashboards and by the report center, each with filters of its  *)
(* own for who asks and for what is in use.  The writers of the tables are *)
(* here one request at a time, as far as the pages tell them apart;        *)
(* Enrolment, AdviserAssignment, Subjects and PeriodRecords have the rest. *)
(***************************************************************************)
EXTENDS Naturals, FiniteSets

CONSTANTS
    Teachers, NoTeacher,
    SchoolYears,
    Spans,            \* the dates offered for a year
    Levels, Classes, Learners,
    YearOf, LevelOf,  \* the year and the grade level of a section, which it keeps
    Courses, NoCourse,
    RollIds,          \* primary keys of enrolments; their number is a bound
    MaxEdits          \* bound: requests that write

Staff == {"admin", "registrar", "guidance"}
Users == Teachers \cup Staff

ListingConstants ==
    /\ NoTeacher \notin Teachers /\ Teachers \cap Staff = {} /\ NoCourse \notin Courses
    /\ IsFiniteSet(RollIds) /\ MaxEdits \in Nat
    /\ Spans \in [SchoolYears -> SUBSET (Nat \X Nat)]
    /\ \A y \in SchoolYears : \A d \in Spans[y] : d[1] < d[2]
    /\ YearOf \in [Classes -> SchoolYears] /\ LevelOf \in [Classes -> Levels]
    /\ SchoolYears \cap (Levels \cup Classes \cup Learners) = {}

ASSUME ListingAssumption == ListingConstants

VARIABLES
    inUse,     \* years, levels and sections with is_active, active students
    dates,     \* start_date and end_date of a year; years are not compared with each other
    rolls,     \* rolls[i]: an enrolment
    adviser,   \* Section.adviser
    given,     \* the rows of TeacherAssignment; an adviser's has no subject
    assigned,  \* UserProfile.assigned_sections
    marks,     \* the grades, of an enrolment in a subject
    edits

listingVars == <<inUse, dates, rolls, adviser, given, assigned, marks, edits>>

Things == SchoolYears \cup Levels \cup Classes \cup Learners
Roll == [learner: Learners, class: Classes, current: BOOLEAN]
Appointment == [teacher: Teachers, class: Classes, course: Courses \cup {NoCourse}, active: BOOLEAN]
Mark == [roll: RollIds, course: Courses]

ListingTypes ==
    /\ inUse \in SUBSET Things
    /\ DOMAIN dates = SchoolYears /\ \A y \in SchoolYears : dates[y] \in Spans[y]
    /\ DOMAIN rolls \in SUBSET RollIds /\ rolls \in [DOMAIN rolls -> Roll]
    /\ adviser \in [Classes -> Teachers \cup {NoTeacher}]
    /\ given \in SUBSET Appointment
    /\ assigned \in [Teachers -> SUBSET Classes]
    /\ marks \in SUBSET Mark
    /\ edits \in 0..MaxEdits

\* The levels are seeded and the sections made; a year may be active.
ListingInit ==
    /\ \E ys \in {{}} \cup {{y} : y \in SchoolYears} : inUse = (Things \ SchoolYears) \cup ys
    /\ dates \in {d \in [SchoolYears -> UNION {Spans[y] : y \in SchoolYears}] :
                    \A y \in SchoolYears : d[y] \in Spans[y]}
    /\ rolls = [i \in {} |-> {}]
    /\ adviser = [c \in Classes |-> NoTeacher] /\ given = {}
    /\ assigned = [t \in Teachers |-> {}]
    /\ marks = {} /\ edits = 0

-----------------------------------------------------------------------------
(* Who sees which sections: common/authorization.py.  A status is "active", *)
(* "archived" or "all".                                                     *)

ActiveYears == inUse \cap SchoolYears

Open(c) == {c, LevelOf[c], YearOf[c]} \subseteq inUse

\* filter_lifecycle_queryset, for sections.
Fits(c, status) == (status = "active" => Open(c)) /\ (status = "archived" => ~Open(c))

Appointments(t, status) ==
    {a \in given : /\ a.teacher = t
                   /\ status = "active" => a.active
                   /\ status = "archived" => ~a.active}

\* Mutant: only the assignments are looked up, with archived ones among them.
AdviserSectionsEver(u, status) ==
    {c \in Classes : \E a \in given : a.teacher = u /\ a.class = c /\ a.course = NoCourse}

\* get_adviser_sections: by the column or by an assignment.
AdviserSections(u, status) ==
    {c \in Classes :
        /\ u \in Teachers /\ Fits(c, status)
        /\ \/ adviser[c] = u
           \/ \E a \in Appointments(u, status) : a.class = c /\ a.course = NoCourse}

\* teacher_section_queryset: also sections the teacher was once given to open.
TeacherSections(u, status) ==
    {c \in Classes :
        /\ u \in Teachers /\ Fits(c, status)
        /\ \/ adviser[c] = u
           \/ \E a \in Appointments(u, status) : a.class = c
           \/ status # "archived" /\ c \in assigned[u]}

OwnSections(u, status) == AdviserSections(u, status) \cup TeacherSections(u, status)

\* authorized_enrollment_queryset
AuthorizedRolls(u, status) ==
    {i \in DOMAIN rolls : u \in Teachers => rolls[i].class \in OwnSections(u, status)}

\* authorized_students_queryset: the section and the status are looked for in any
\* enrolments of the student, not in the same one.
AuthorizedLearners(u, status) ==
    {l \in Learners :
        /\ status = "active" => l \in inUse
        /\ u \in Teachers =>
             /\ \E i \in AuthorizedRolls(u, status) : rolls[i].learner = l
             /\ status = "active" => \E i \in DOMAIN rolls : rolls[i].learner = l /\ rolls[i].current
        /\ u = "guidance" => \E i \in DOMAIN rolls : rolls[i].learner = l}

\* active_enrollment_queryset
CurrentRolls == {i \in DOMAIN rolls :
    rolls[i].current /\ rolls[i].learner \in inUse /\ Open(rolls[i].class)}

RollsOf(status) ==
    {i \in DOMAIN rolls : /\ status = "active" => i \in CurrentRolls
                          /\ status = "archived" => i \notin CurrentRolls}

LearnersOf(ids) == {rolls[i].learner : i \in ids}

-----------------------------------------------------------------------------
(* The lists                                                               *)

FirstDay(y) == dates[y][1]
LastDay(y) == dates[y][2]

\* The year of a summary is the latest of the active ones.
SummaryYear == {y \in ActiveYears : \A z \in ActiveYears : FirstDay(z) <= FirstDay(y)}

\* GET /students/; with a year, those with a current enrolment in it.
LearnerList(u, status) ==
    {l \in AuthorizedLearners(u, IF status = "active" THEN "active" ELSE "all") :
        /\ status = "active" => l \in inUse
        /\ status = "archived" => l \notin inUse}
LearnersIn(u, y) ==
    {l \in LearnerList(u, "active") : \E i \in DOMAIN rolls :
        rolls[i].learner = l /\ rolls[i].current /\ YearOf[rolls[i].class] = y /\ Open(rolls[i].class)}

\* The same for an enrolment of a type.  Students who return come from a year
\* before the preceding one; unless the dates name one preceding year, which ends
\* before the year begins, the request for them or for those who continue is refused.
EnrolledIn(l, ys) == \E i \in DOMAIN rolls : rolls[i].learner = l /\ YearOf[rolls[i].class] \in ys
Earlier(y) == {x \in SchoolYears : FirstDay(x) < FirstDay(y)}
Preceding(y) == {x \in Earlier(y) : \A z \in Earlier(y) : FirstDay(z) <= FirstDay(x)}
PrecedingNamed(y) == \E x \in Earlier(y) : Preceding(y) = {x} /\ LastDay(x) < FirstDay(y)
Before(ys) == UNION {Earlier(y) : y \in ys}

\* Mutant: those who return come from the preceding year too, those who continue too.
OfferedOnceGone(type, y) ==
    {l \in Learners \cap inUse :
        /\ ~EnrolledIn(l, {y})
        /\ type = "continuing" => EnrolledIn(l, Preceding(y))
        /\ type = "returning" => EnrolledIn(l, Preceding(y)) /\ EnrolledIn(l, Before(Preceding(y)))
        /\ type = "new" => ~EnrolledIn(l, SchoolYears)}

Offered(type, y) ==
    {l \in Learners \cap inUse :
        /\ ~EnrolledIn(l, {y})
        /\ type \in {"continuing", "returning"} => PrecedingNamed(y)
        /\ type = "continuing" => EnrolledIn(l, Preceding(y))
        /\ type = "returning" => EnrolledIn(l, Before(Preceding(y)))
        /\ type = "new" => ~EnrolledIn(l, SchoolYears)}

\* GET /sections/: a teacher is shown those that he was once given to open.
ClassList(u, status) == {c \in Classes : Fits(c, status) /\ (u \in Teachers => c \in assigned[u])}

\* GET /enrollments/
RollList(u, status) == AuthorizedRolls(u, status) \cap RollsOf(status)

\* GET /academic-records/: an adviser all of the class and what he teaches, a
\* subject teacher what he teaches, and who is neither whatever he may see.
MarkList(u, status) ==
    {m \in marks :
        /\ m.roll \in RollList(u, status)
        /\ u \in Teachers =>
             LET mine == Appointments(u, status)
                 advises == {a \in mine : a.course = NoCourse}
             IN  \/ \E a \in advises : a.class = rolls[m.roll].class
                 \/ \E a \in mine : a.class = rolls[m.roll].class /\ a.course = m.course
                 \/ mine = {}}

-----------------------------------------------------------------------------
(* What is counted                                                         *)

\* AdviserDashboard: the students of the adviser, 403 or 404 without a section.
Roster(u) == {i \in CurrentRolls : rolls[i].class \in AdviserSections(u, "active")}

\* GET /teacher-assignments/my-context/: the students counted in a section.
ContextCount(c) == {i \in DOMAIN rolls : rolls[i].class = c /\ rolls[i].current}

\* Mutant: the registrar's dashboard does not look at the level and the section.
RegistrarRollsEver ==
    {i \in DOMAIN rolls : /\ rolls[i].current /\ rolls[i].learner \in inUse
                          /\ YearOf[rolls[i].class] \in SummaryYear}

\* RegistrarDashboard: enrolments, students, and enrolments by grade level.
RegistrarRolls == {i \in CurrentRolls : YearOf[rolls[i].class] \in SummaryYear}

\* Mutant: the dashboard counts the predictions of former classes.
DashboardRollsEver(u) == AuthorizedRolls(u, "all")

\* Dashboard: what is counted of enrolments (predictions, interventions, behaviour,
\* attendance), and the students.
DashboardRolls(u) == AuthorizedRolls(u, "active") \cap CurrentRolls
DashboardLearners(u) == AuthorizedLearners(u, "active") \cap LearnersOf(CurrentRolls)

\* Reports, for filters of nothing that an enrolment has several of.
ReportRolls(u) == AuthorizedRolls(u, "active") \cap CurrentRolls

-----------------------------------------------------------------------------
(* The requests that write                                                 *)

Edit == edits < MaxEdits /\ edits' = edits + 1

Set(x, v) == inUse' = IF v THEN inUse \cup {x} ELSE inUse \ {x}

\* Mutant: a year is activated beside the others.
SetAnyYear(y, d, v) ==
    /\ Edit /\ Set(y, v) /\ dates' = [dates EXCEPT ![y] = d]
    /\ UNCHANGED <<rolls, adviser, given, assigned, marks>>

\* PATCH of a year, of a level, of a student, and of a section in a level in use.
SetYear(y, d, v) ==
    /\ Edit /\ Set(y, v) /\ (v => ActiveYears \subseteq {y})
    /\ dates' = [dates EXCEPT ![y] = d]
    /\ UNCHANGED <<rolls, adviser, given, assigned, marks>>

SetThing(x, v) ==
    /\ Edit /\ Set(x, v) /\ (x \in Classes => LevelOf[x] \in inUse)
    /\ UNCHANGED <<dates, rolls, adviser, given, assigned, marks>>

\* EnrollmentSerializer.validate: once a year, in a section in use.
MayEnrol(i, l, c) ==
    /\ Open(c)
    /\ \A j \in DOMAIN rolls \ {i} : rolls[j].learner # l \/ YearOf[rolls[j].class] # YearOf[c]

Enrol(i, l, c, v) ==
    /\ Edit /\ i \notin DOMAIN rolls /\ MayEnrol(i, l, c) /\ ActiveYears = {YearOf[c]}
    /\ rolls' = [j \in DOMAIN rolls \cup {i} |->
                 IF j = i THEN [learner |-> l, class |-> c, current |-> v] ELSE rolls[j]]
    /\ UNCHANGED <<inUse, dates, adviser, given, assigned, marks>>

PatchRoll(i, l, c, v) ==
    /\ Edit /\ i \in DOMAIN rolls /\ MayEnrol(i, l, c) /\ YearOf[c] = YearOf[rolls[i].class]
    /\ rolls' = [rolls EXCEPT ![i] = [learner |-> l, class |-> c, current |-> v]]
    /\ UNCHANGED <<inUse, dates, adviser, given, assigned, marks>>

Advises(a, c) == a.class = c /\ a.course = NoCourse /\ a.active
Archived(as) == {[a EXCEPT !.active = FALSE] : a \in as}

\* assign_section_adviser
Appoint(t, c) ==
    /\ Edit
    /\ LevelOf[c] \in inUse
    /\ LET old == {a \in given : Advises(a, c) /\ a.teacher # t}
       IN  given' = (given \ old) \cup Archived(old)
                \cup {[teacher |-> t, class |-> c, course |-> NoCourse, active |-> TRUE]}
    /\ adviser' = [adviser EXCEPT ![c] = t]
    /\ assigned' = [assigned EXCEPT ![t] = @ \cup {c}]
    /\ UNCHANGED <<inUse, dates, rolls, marks>>

\* Mutant: the column is left as it was.
DismissQuietly(c) ==
    /\ Edit
    /\ LET old == {a \in given : Advises(a, c)}
       IN  /\ old # {}
           /\ given' = (given \ old) \cup Archived(old)
    /\ UNCHANGED <<inUse, dates, rolls, adviser, assigned, marks>>

\* remove_section_adviser
Dismiss(c) ==
    /\ Edit
    /\ LET old == {a \in given : Advises(a, c)}
       IN  /\ old # {}
           /\ given' = (given \ old) \cup Archived(old)
    /\ adviser' = [adviser EXCEPT ![c] = NoTeacher]
    /\ UNCHANGED <<inUse, dates, rolls, assigned, marks>>

\* A subject is given to a teacher, in the active year; taken and given back.
Give(t, c, m) ==
    /\ Edit
    /\ Open(c) /\ \A a \in given : <<a.teacher, a.class, a.course>> # <<t, c, m>>
    /\ given' = given \cup {[teacher |-> t, class |-> c, course |-> m, active |-> TRUE]}
    /\ UNCHANGED <<inUse, dates, rolls, adviser, assigned, marks>>

Regive(a) ==
    /\ Edit /\ a.course # NoCourse
    /\ given' = (given \ {a}) \cup {[a EXCEPT !.active = ~@]}
    /\ UNCHANGED <<inUse, dates, rolls, adviser, assigned, marks>>

\* A teacher enters grades of his subject in a section he can see; an administrator
\* any; both in an active year only.
MayEncode(u, i, m) ==
    /\ YearOf[rolls[i].class] \in inUse
    /\ u \in Teachers =>
         /\ i \in AuthorizedRolls(u, "active")
         /\ \E a \in Appointments(u, "active") : a.class = rolls[i].class /\ a.course = m

Encode(u, i, m) ==
    /\ Edit /\ MayEncode(u, i, m) /\ [roll |-> i, course |-> m] \notin marks
    /\ marks' = marks \cup {[roll |-> i, course |-> m]}
    /\ UNCHANGED <<inUse, dates, rolls, adviser, given, assigned>>

\* A page is asked for: nothing is written.
Ask == UNCHANGED listingVars

References ==
    \/ \E y \in SchoolYears, v \in BOOLEAN : \E d \in Spans[y] : SetYear(y, d, v)
    \/ \E x \in Things \ SchoolYears, v \in BOOLEAN : SetThing(x, v)

Enrolments ==
    \E i \in RollIds, l \in Learners, c \in Classes, v \in BOOLEAN :
        Enrol(i, l, c, v) \/ PatchRoll(i, l, c, v)

Assignments ==
    \/ \E t \in Teachers, c \in Classes : Appoint(t, c)
    \/ \E c \in Classes : Dismiss(c)
    \/ \E t \in Teachers, c \in Classes, m \in Courses : Give(t, c, m)
    \/ \E a \in given : Regive(a)

Grading == \E u \in Teachers \cup {"admin"}, i \in DOMAIN rolls, m \in Courses : Encode(u, i, m)

ListingNext == References \/ Enrolments \/ Assignments \/ Grading \/ Ask

ListingSpec == ListingInit /\ [][ListingNext]_listingVars

-----------------------------------------------------------------------------
(* Properties *)

\* The administrator's dashboard, the registrar's and the report center count the
\* same students, once each, and as many enrolments; no student is counted in two
\* grade levels.
CountsAgree ==
    /\ Cardinality(RegistrarRolls) = Cardinality(LearnersOf(RegistrarRolls))
    /\ LearnersOf(RegistrarRolls) = DashboardLearners("admin")
    /\ LearnersOf(RegistrarRolls) = LearnersOf(ReportRolls("admin"))
    /\ \A y \in ActiveYears : LearnersOf(RegistrarRolls) = LearnersIn("registrar", y)
    /\ \A i, j \in RegistrarRolls : rolls[i].learner = rolls[j].learner => i = j

\* Whoever is on the adviser's dashboard can be found on the adviser's other pages,
\* with the class and every grade, and is there once.
RosterListed ==
    \A t \in Teachers :
        /\ AdviserSections(t, "active") \subseteq ClassList(t, "active")
        /\ Roster(t) \subseteq RollList(t, "active")
        /\ LearnersOf(Roster(t)) \subseteq LearnerList(t, "active")
        /\ {m \in marks : m.roll \in Roster(t)} \subseteq MarkList(t, "active")
        /\ \A i, j \in Roster(t) : rolls[i].learner = rolls[j].learner => i = j
        /\ \A i \in Roster(t) : i \in ContextCount(rolls[i].class)

\* A dashboard counts nothing of a student whom it does not count, and none who is
\* not on the list of students.
NumbersFit ==
    \A u \in Users \ {"registrar"} :
        /\ LearnersOf(DashboardRolls(u)) \subseteq DashboardLearners(u)
        /\ DashboardLearners(u) \subseteq LearnerList(u, "active")

\* What a teacher may grade of a current enrolment stands on the teacher's list.
EncodedListed ==
    \A t \in Teachers, m \in marks :
        m.roll \in CurrentRolls /\ MayEncode(t, m.roll, m.course) => m \in MarkList(t, "active")

\* Whoever was enrolled before the active year and is not in it is offered for enrolment as
\* continuing or returning where the dates name a preceding year, and who never was, as
\* new; nobody is who is enrolled, and nobody continues or returns who was not enrolled before.
OfferedForYear ==
    \A y \in ActiveYears, l \in Learners \cap inUse :
        /\ EnrolledIn(l, {y}) => \A type \in {"continuing", "returning", "new", "transferee"} : l \notin Offered(type, y)
        /\ PrecedingNamed(y) /\ EnrolledIn(l, Earlier(y)) /\ ~EnrolledIn(l, {y}) =>
             l \in Offered("continuing", y) \cup Offered("returning", y)
        /\ ~EnrolledIn(l, SchoolYears) => l \in Offered("new", y)
        /\ l \in Offered("continuing", y) \cup Offered("returning", y) => EnrolledIn(l, Earlier(y))

\* The pages agree with each other.
PagesAgree == CountsAgree /\ RosterListed /\ NumbersFit /\ EncodedListed /\ OfferedForYear
=============================================================================
