---------------------------- MODULE Listings_proofs ----------------------------
(***************************************************************************)
(* Proofs about Listings.                                                  *)
(***************************************************************************)
EXTENDS Listings, FiniteSetTheorems, TLAPS

(***************************************************************************)
(* What is kept of the tables.                                             *)
(***************************************************************************)

\* SetYear: one year at most is active.
OneYearInUse == \A x, y \in ActiveYears : x = y

\* MayEnrol: a student has one enrolment in a year.
OneRollInYear ==
    \A i, j \in DOMAIN rolls :
        rolls[i].learner = rolls[j].learner /\ YearOf[rolls[i].class] = YearOf[rolls[j].class] => i = j

\* Appoint and Dismiss: the column names somebody only beside an active assignment,
\* and who has one has access to the section.
ColumnBacked ==
    \A c \in Classes : adviser[c] \in Teachers =>
        \E a \in given : Advises(a, c) /\ a.teacher = adviser[c]
AdviserHasAccess ==
    \A a \in given : a.course = NoCourse /\ a.active => a.class \in assigned[a.teacher]

TablesInOrder == ListingTypes /\ OneYearInUse /\ OneRollInYear /\ ColumnBacked /\ AdviserHasAccess

\* Before any request the tables are in order.
LEMMA InitInOrder == ListingInit => TablesInOrder
<1> SUFFICES ASSUME ListingInit PROVE TablesInOrder
  OBVIOUS
<1> USE ListingAssumption DEF ListingConstants, ListingInit
<1>1. ListingTypes
  BY DEF ListingTypes, Things
<1>2. OneYearInUse
  BY DEF OneYearInUse, ActiveYears, Things
<1>3. OneRollInYear /\ ColumnBacked /\ AdviserHasAccess
  BY DEF OneRollInYear, ColumnBacked, AdviserHasAccess
<1> QED BY <1>1, <1>2, <1>3 DEF TablesInOrder

(***************************************************************************)
(* Each request leaves the tables in order.                                *)
(***************************************************************************)

\* The PATCH of a flag: a year is activated beside no other.
LEMMA FlagsInOrder ==
    ASSUME TablesInOrder, References PROVE TablesInOrder'
<1> USE DEF TablesInOrder, Edit
<1>1. ASSUME NEW y \in SchoolYears, NEW v \in BOOLEAN, NEW d \in Spans[y], SetYear(y, d, v)
      PROVE ListingTypes' /\ OneYearInUse'
  <2> USE <1>1 DEF SetYear, Set
  <2>1. ListingTypes'
    BY ListingAssumption DEF ListingTypes, ListingConstants, Things
  <2>2. ASSUME v PROVE ActiveYears' \subseteq {y}
    BY <2>2 DEF ActiveYears
  <2>3. ASSUME ~ v PROVE ActiveYears' \subseteq ActiveYears
    BY <2>3 DEF ActiveYears
  <2> QED BY <2>1, <2>2, <2>3 DEF OneYearInUse
<1>2. ASSUME NEW x \in Things \ SchoolYears, NEW v \in BOOLEAN, SetThing(x, v)
      PROVE ListingTypes' /\ OneYearInUse'
  <2> USE <1>2 DEF SetThing, Set
  <2>1. ListingTypes'
    BY ListingAssumption DEF ListingTypes, ListingConstants
  <2>2. ActiveYears' = ActiveYears
    BY DEF ActiveYears
  <2> QED BY <2>1, <2>2 DEF OneYearInUse
<1>3. UNCHANGED <<rolls, adviser, given, assigned, marks>>
  BY DEF References, SetYear, SetThing
<1>4. (OneRollInYear /\ ColumnBacked /\ AdviserHasAccess)'
  BY <1>3 DEF OneRollInYear, ColumnBacked, AdviserHasAccess, Advises
<1> QED BY <1>1, <1>2, <1>4 DEF References

\* An enrolment is saved where its student has no other in the year.
LEMMA RollsInOrder ==
    ASSUME TablesInOrder, Enrolments PROVE TablesInOrder'
<1> USE DEF TablesInOrder, Edit
<1>0. PICK i \in RollIds, l \in Learners, c \in Classes, v \in BOOLEAN :
           Enrol(i, l, c, v) \/ PatchRoll(i, l, c, v)
  BY DEF Enrolments
<1> DEFINE new == [learner |-> l, class |-> c, current |-> v]
<1>1. MayEnrol(i, l, c) /\ UNCHANGED <<inUse, dates, adviser, given, assigned, marks>> /\ edits' \in 0..MaxEdits
  BY <1>0, ListingAssumption DEF Enrol, PatchRoll, ListingTypes, ListingConstants
<1>2. /\ DOMAIN rolls' = DOMAIN rolls \cup {i}
      /\ rolls'[i] = new
      /\ \A j \in DOMAIN rolls \ {i} : rolls'[j] = rolls[j]
      /\ rolls' = [j \in DOMAIN rolls' |-> rolls'[j]]
  <2>1. CASE Enrol(i, l, c, v)
    BY <2>1 DEF Enrol
  <2>2. CASE PatchRoll(i, l, c, v)
    BY <2>2 DEF PatchRoll, ListingTypes
  <2> QED BY <1>0, <2>1, <2>2
<1>3. new \in Roll /\ new.learner = l /\ new.class = c
  BY DEF Roll
<1> HIDE DEF new
<1>4. ListingTypes'
  <2>1. \A j \in DOMAIN rolls' : rolls'[j] \in Roll
    BY <1>2, <1>3 DEF ListingTypes
  <2>2. DOMAIN rolls' \in SUBSET RollIds
    BY <1>2 DEF ListingTypes
  <2>3. rolls' \in [DOMAIN rolls' -> Roll]
    BY <1>2, <2>1
  <2> QED BY <1>1, <2>2, <2>3 DEF ListingTypes
<1>5. OneRollInYear'
  <2> SUFFICES ASSUME NEW j \in DOMAIN rolls', NEW k \in DOMAIN rolls',
                      rolls'[j].learner = rolls'[k].learner,
                      YearOf[rolls'[j].class] = YearOf[rolls'[k].class], j # k
               PROVE FALSE
    BY DEF OneRollInYear
  <2>1. CASE j = i
    BY <2>1, <1>1, <1>2, <1>3 DEF MayEnrol
  <2>2. CASE k = i
    BY <2>2, <1>1, <1>2, <1>3 DEF MayEnrol
  <2>3. CASE j # i /\ k # i
    BY <2>3, <1>2 DEF OneRollInYear
  <2> QED BY <2>1, <2>2, <2>3
<1>6. (OneYearInUse /\ ColumnBacked /\ AdviserHasAccess)'
  BY <1>1 DEF OneYearInUse, ActiveYears, ColumnBacked, AdviserHasAccess, Advises
<1> QED BY <1>4, <1>5, <1>6

\* Grades do not tell who sees them.
LEMMA GradingInOrder ==
    ASSUME TablesInOrder, Grading PROVE TablesInOrder'
<1>1. PICK u \in Teachers \cup {"admin"}, i \in DOMAIN rolls, m \in Courses : Encode(u, i, m)
  BY DEF Grading
<1>2. [roll |-> i, course |-> m] \in Mark
  BY DEF TablesInOrder, ListingTypes, Mark
<1>3. ListingTypes'
  BY <1>1, <1>2, ListingAssumption DEF Encode, Edit, TablesInOrder, ListingTypes, ListingConstants
<1>4. (OneYearInUse /\ OneRollInYear /\ ColumnBacked /\ AdviserHasAccess)'
  BY <1>1 DEF Encode, TablesInOrder, OneYearInUse, ActiveYears, OneRollInYear, ColumnBacked, AdviserHasAccess, Advises
<1> QED BY <1>3, <1>4 DEF TablesInOrder

\* An archived row is one that was there, and advises nobody.
LEMMA ArchivedRows ==
    ASSUME NEW as \in SUBSET Appointment
    PROVE  /\ Archived(as) \in SUBSET Appointment
           /\ \A a \in Archived(as) : ~ a.active
<1> QED BY DEF Archived, Appointment

\* Appoint: whoever advised is archived, the column follows and access is given.
LEMMA AppointInOrder ==
    ASSUME TablesInOrder, NEW t \in Teachers, NEW c \in Classes, Appoint(t, c) PROVE TablesInOrder'
<1> USE DEF TablesInOrder
<1> DEFINE old == {a \in given : Advises(a, c) /\ a.teacher # t}
           new == [teacher |-> t, class |-> c, course |-> NoCourse, active |-> TRUE]
<1>1. /\ given' = (given \ old) \cup Archived(old) \cup {new}
      /\ adviser' = [adviser EXCEPT ![c] = t]
      /\ assigned' = [assigned EXCEPT ![t] = @ \cup {c}]
      /\ UNCHANGED <<inUse, dates, rolls, marks>> /\ edits' \in 0..MaxEdits
  BY ListingAssumption DEF Appoint, Edit, ListingTypes, ListingConstants
<1>2. new \in Appointment /\ new.teacher = t /\ new.class = c /\ new.course = NoCourse /\ new.active
  BY DEF Appointment
<1>3. old \in SUBSET Appointment /\ old \subseteq given
  BY DEF ListingTypes
<1>4. Archived(old) \in SUBSET Appointment /\ \A a \in Archived(old) : ~ a.active
  BY <1>3, ArchivedRows
<1>5. \A a \in given : a \in old <=> Advises(a, c) /\ a.teacher # t
  OBVIOUS
<1> HIDE DEF old, new
<1>6. ListingTypes'
  <2>1. given' \in SUBSET Appointment
    BY <1>1, <1>2, <1>3, <1>4 DEF ListingTypes
  <2>2. adviser' \in [Classes -> Teachers \cup {NoTeacher}] /\ assigned' \in [Teachers -> SUBSET Classes]
    BY <1>1 DEF ListingTypes
  <2> QED BY <1>1, <2>1, <2>2 DEF ListingTypes
<1>7. ColumnBacked'
  <2> SUFFICES ASSUME NEW d \in Classes, adviser'[d] \in Teachers
               PROVE \E a \in given' : Advises(a, d) /\ a.teacher = adviser'[d]
    BY DEF ColumnBacked, Advises
  <2>1. CASE d = c
    BY <2>1, <1>1, <1>2 DEF Advises, ListingTypes
  <2>2. CASE d # c
    <3>1. adviser'[d] = adviser[d]
      BY <2>2, <1>1 DEF ListingTypes
    <3>2. PICK a \in given : Advises(a, d) /\ a.teacher = adviser[d]
      BY <3>1 DEF ColumnBacked
    <3>3. a \notin old
      BY <3>2, <2>2, <1>5 DEF Advises
    <3> QED BY <3>1, <3>2, <3>3, <1>1
  <2> QED BY <2>1, <2>2
<1>8. AdviserHasAccess'
  <2> SUFFICES ASSUME NEW a \in given', a.course = NoCourse, a.active PROVE a.class \in assigned'[a.teacher]
    BY DEF AdviserHasAccess
  <2>1. CASE a = new
    BY <2>1, <1>1, <1>2 DEF ListingTypes
  <2>2. CASE a \in given
    <3>1. a.class \in assigned[a.teacher] /\ a.teacher \in Teachers
      BY <2>2 DEF AdviserHasAccess, ListingTypes, Appointment
    <3> QED BY <3>1, <1>1 DEF ListingTypes
  <2>3. CASE a \in Archived(old)
    BY <2>3, <1>4
  <2> QED BY <2>1, <2>2, <2>3, <1>1
<1>9. (OneYearInUse /\ OneRollInYear)'
  BY <1>1 DEF OneYearInUse, ActiveYears, OneRollInYear
<1> QED BY <1>6, <1>7, <1>8, <1>9

\* Dismiss: the column is emptied with the assignment.
LEMMA DismissInOrder ==
    ASSUME TablesInOrder, NEW c \in Classes, Dismiss(c) PROVE TablesInOrder'
<1> USE DEF TablesInOrder
<1> DEFINE old == {a \in given : Advises(a, c)}
<1>1. /\ given' = (given \ old) \cup Archived(old)
      /\ adviser' = [adviser EXCEPT ![c] = NoTeacher]
      /\ UNCHANGED <<inUse, dates, rolls, assigned, marks>> /\ edits' \in 0..MaxEdits
  BY ListingAssumption DEF Dismiss, Edit, ListingTypes, ListingConstants
<1>2. old \in SUBSET Appointment /\ old \subseteq given
  BY DEF ListingTypes
<1>3. Archived(old) \in SUBSET Appointment /\ \A a \in Archived(old) : ~ a.active
  BY <1>2, ArchivedRows
<1>4. \A a \in given : a \in old <=> Advises(a, c)
  OBVIOUS
<1> HIDE DEF old
<1>5. ListingTypes'
  <2>1. given' \in SUBSET Appointment
    BY <1>1, <1>2, <1>3 DEF ListingTypes
  <2>2. adviser' \in [Classes -> Teachers \cup {NoTeacher}]
    BY <1>1 DEF ListingTypes
  <2> QED BY <1>1, <2>1, <2>2 DEF ListingTypes
<1>6. ColumnBacked'
  <2> SUFFICES ASSUME NEW d \in Classes, adviser'[d] \in Teachers
               PROVE \E a \in given' : Advises(a, d) /\ a.teacher = adviser'[d]
    BY DEF ColumnBacked, Advises
  <2>1. d # c /\ adviser'[d] = adviser[d]
    BY <1>1, ListingAssumption DEF ListingTypes, ListingConstants
  <2>2. PICK a \in given : Advises(a, d) /\ a.teacher = adviser[d]
    BY <2>1 DEF ColumnBacked
  <2>3. a \notin old
    BY <2>1, <2>2, <1>4 DEF Advises
  <2> QED BY <2>1, <2>2, <2>3, <1>1
<1>7. AdviserHasAccess'
  BY <1>1, <1>3 DEF AdviserHasAccess
<1>8. (OneYearInUse /\ OneRollInYear)'
  BY <1>1 DEF OneYearInUse, ActiveYears, OneRollInYear
<1> QED BY <1>5, <1>6, <1>7, <1>8

\* Subjects are given beside the advisers.
LEMMA GivingInOrder ==
    ASSUME TablesInOrder,
           \/ \E t \in Teachers, c \in Classes, m \in Courses : Give(t, c, m)
           \/ \E a \in given : Regive(a)
    PROVE  TablesInOrder'
<1> USE DEF TablesInOrder
<1>1. UNCHANGED <<inUse, dates, rolls, adviser, assigned, marks>> /\ edits' \in 0..MaxEdits
  BY ListingAssumption DEF Give, Regive, Edit, ListingTypes, ListingConstants
<1>2. /\ given' \in SUBSET Appointment
      /\ \A a \in given : a.course = NoCourse => a \in given'
      /\ \A a \in given' : a.course = NoCourse => a \in given
  <2>1. ASSUME NEW t \in Teachers, NEW c \in Classes, NEW m \in Courses, Give(t, c, m) PROVE <1>2!:
    <3> DEFINE new == [teacher |-> t, class |-> c, course |-> m, active |-> TRUE]
    <3>1. new \in Appointment /\ new.course # NoCourse
      BY ListingAssumption DEF Appointment, ListingConstants
    <3>2. given' = given \cup {new}
      BY <2>1 DEF Give
    <3> HIDE DEF new
    <3> QED BY <3>1, <3>2 DEF ListingTypes
  <2>2. ASSUME NEW a \in given, Regive(a) PROVE <1>2!:
    <3> DEFINE new == [a EXCEPT !.active = ~@]
    <3>1. new \in Appointment /\ new.course # NoCourse
      BY <2>2 DEF Appointment, ListingTypes, Regive
    <3>2. given' = (given \ {a}) \cup {new} /\ a.course # NoCourse
      BY <2>2 DEF Regive
    <3> HIDE DEF new
    <3> QED BY <3>1, <3>2 DEF ListingTypes
  <2> QED BY <2>1, <2>2
<1>3. (OneYearInUse /\ OneRollInYear)'
  BY <1>1 DEF OneYearInUse, ActiveYears, OneRollInYear
<1>4. ColumnBacked'
  BY <1>1, <1>2 DEF ColumnBacked, Advises
<1>5. AdviserHasAccess'
  BY <1>1, <1>2 DEF AdviserHasAccess
<1>6. ListingTypes'
  BY <1>1, <1>2 DEF ListingTypes
<1> QED BY <1>3, <1>4, <1>5, <1>6

\* The tables are in order after any number of requests.
THEOREM TablesStayInOrder == ListingSpec => []TablesInOrder
<1>1. ASSUME TablesInOrder, [ListingNext]_listingVars PROVE TablesInOrder'
  <2>1. CASE UNCHANGED listingVars
    BY <1>1, <2>1 DEF TablesInOrder, ListingTypes, OneYearInUse, ActiveYears, OneRollInYear,
                      ColumnBacked, AdviserHasAccess, Advises, listingVars
  <2>2. CASE References
    BY <1>1, <2>2, FlagsInOrder
  <2>3. CASE Enrolments
    BY <1>1, <2>3, RollsInOrder
  <2>4. CASE Assignments
    BY <1>1, <2>4, AppointInOrder, DismissInOrder, GivingInOrder DEF Assignments
  <2>5. CASE Grading
    BY <1>1, <2>5, GradingInOrder
  <2> QED BY <1>1, <2>1, <2>2, <2>3, <2>4, <2>5 DEF ListingNext, Ask
<1> QED BY InitInOrder, <1>1, PTL DEF ListingSpec

(***************************************************************************)
(* What the pages make of tables in order.                                 *)
(***************************************************************************)

\* Who is neither a teacher nor of the guidance office is shown every student in use.
LEMMA SchoolwideLearners ==
    ASSUME NEW u \in {"admin", "registrar"}
    PROVE  /\ LearnerList(u, "active") = Learners \cap inUse
           /\ AuthorizedLearners(u, "active") = Learners \cap inUse
           /\ AuthorizedRolls(u, "active") = DOMAIN rolls
<1>1. u \notin Teachers /\ u # "guidance"
  BY ListingAssumption DEF ListingConstants, Staff
<1> QED BY <1>1 DEF LearnerList, AuthorizedLearners, AuthorizedRolls

\* A year keeps dates, the first before the last.
LEMMA DatesOfYear ==
    ASSUME ListingTypes, NEW y \in SchoolYears
    PROVE  FirstDay(y) \in Nat /\ LastDay(y) \in Nat
<1>1. dates[y] \in Nat \X Nat
  BY ListingAssumption DEF ListingTypes, ListingConstants
<1> QED BY <1>1 DEF FirstDay, LastDay

\* With one year active, the year of the summary is that of every current enrolment.
LEMMA RegistrarSeesCurrent ==
    ASSUME TablesInOrder
    PROVE  /\ RegistrarRolls = CurrentRolls
           /\ \A i, j \in CurrentRolls : rolls[i].learner = rolls[j].learner => i = j
           /\ \A i \in CurrentRolls : /\ i \in DOMAIN rolls /\ rolls[i].learner \in Learners
                                      /\ rolls[i].class \in Classes /\ YearOf[rolls[i].class] \in ActiveYears
<1> USE ListingAssumption DEF TablesInOrder, ListingConstants
<1>1. ASSUME NEW i \in CurrentRolls
      PROVE  /\ i \in DOMAIN rolls /\ rolls[i].learner \in Learners
             /\ rolls[i].class \in Classes /\ YearOf[rolls[i].class] \in ActiveYears
  <2>1. i \in DOMAIN rolls /\ rolls[i] \in Roll
    BY <1>1 DEF CurrentRolls, ListingTypes
  <2>2. YearOf[rolls[i].class] \in SchoolYears /\ YearOf[rolls[i].class] \in inUse
    BY <1>1, <2>1 DEF CurrentRolls, Open, Roll
  <2> QED BY <2>1, <2>2 DEF ActiveYears, Roll
<1>2. ASSUME NEW y \in ActiveYears PROVE y \in SummaryYear
  <2>1. y \in SchoolYears /\ \A z \in ActiveYears : z = y
    BY <1>2 DEF OneYearInUse, ActiveYears
  <2>2. FirstDay(y) \in Nat
    BY <2>1, DatesOfYear
  <2>3. \A z \in ActiveYears : FirstDay(z) <= FirstDay(y)
    BY <2>1, <2>2
  <2> QED BY <1>2, <2>3 DEF SummaryYear
<1>3. RegistrarRolls = CurrentRolls
  BY <1>1, <1>2 DEF RegistrarRolls
<1>4. \A i, j \in CurrentRolls : rolls[i].learner = rolls[j].learner => i = j
  BY <1>1 DEF OneYearInUse, OneRollInYear
<1> QED BY <1>1, <1>3, <1>4

\* As many enrolments are counted as students.
LEMMA CountedOnceEach ==
    ASSUME NEW ids \in SUBSET DOMAIN rolls, IsFiniteSet(ids),
           \A i, j \in ids : rolls[i].learner = rolls[j].learner => i = j
    PROVE  Cardinality(ids) = Cardinality(LearnersOf(ids))
<1> DEFINE f == [i \in ids |-> rolls[i].learner]
<1>1. f \in Surjection(ids, LearnersOf(ids))
  BY DEF LearnersOf, Surjection
<1>2. f \in Injection(ids, LearnersOf(ids))
  BY DEF LearnersOf, Injection, IsInjective
<1> QED BY <1>1, <1>2, FS_Surjection

\* CountsAgree.
LEMMA InOrderCountsAgree == TablesInOrder => CountsAgree
<1> SUFFICES ASSUME TablesInOrder PROVE CountsAgree
  OBVIOUS
<1>1. /\ RegistrarRolls = CurrentRolls
      /\ \A i, j \in CurrentRolls : rolls[i].learner = rolls[j].learner => i = j
      /\ \A i \in CurrentRolls : /\ i \in DOMAIN rolls /\ rolls[i].learner \in Learners
                                 /\ rolls[i].class \in Classes /\ YearOf[rolls[i].class] \in ActiveYears
  BY RegistrarSeesCurrent
<1>2. IsFiniteSet(CurrentRolls)
  <2>1. CurrentRolls \in SUBSET RollIds /\ IsFiniteSet(RollIds)
    BY <1>1, ListingAssumption DEF TablesInOrder, ListingTypes, ListingConstants
  <2> QED BY <2>1, FS_Subset
<1>3. Cardinality(CurrentRolls) = Cardinality(LearnersOf(CurrentRolls))
  BY <1>1, <1>2, CountedOnceEach
<1>4. LearnersOf(CurrentRolls) \subseteq Learners \cap inUse
  BY <1>1 DEF LearnersOf, CurrentRolls
<1>5. DashboardLearners("admin") = LearnersOf(CurrentRolls)
  BY <1>4, SchoolwideLearners DEF DashboardLearners
<1>6. ReportRolls("admin") = CurrentRolls
  BY <1>1, SchoolwideLearners DEF ReportRolls
<1>7. ASSUME NEW y \in ActiveYears PROVE LearnersOf(CurrentRolls) = LearnersIn("registrar", y)
  <2>1. ASSUME NEW i \in CurrentRolls PROVE rolls[i].learner \in LearnersIn("registrar", y)
    <3>1. YearOf[rolls[i].class] = y
      BY <1>1, <2>1 DEF TablesInOrder, OneYearInUse
    <3> QED BY <3>1, <1>1, <2>1, SchoolwideLearners DEF LearnersIn, CurrentRolls
  <2>2. ASSUME NEW l \in LearnersIn("registrar", y) PROVE l \in LearnersOf(CurrentRolls)
    <3>1. PICK i \in DOMAIN rolls : rolls[i].learner = l /\ rolls[i].current /\ Open(rolls[i].class)
      BY <2>2 DEF LearnersIn
    <3>2. l \in inUse
      BY <2>2, SchoolwideLearners DEF LearnersIn
    <3> QED BY <3>1, <3>2 DEF CurrentRolls, LearnersOf
  <2> QED BY <2>1, <2>2 DEF LearnersOf
<1> QED BY <1>1, <1>3, <1>5, <1>6, <1>7 DEF CountsAgree

\* RosterListed.
LEMMA InOrderRosterListed == TablesInOrder => RosterListed
<1> SUFFICES ASSUME TablesInOrder, NEW t \in Teachers
             PROVE  /\ AdviserSections(t, "active") \subseteq ClassList(t, "active")
                    /\ Roster(t) \subseteq RollList(t, "active")
                    /\ LearnersOf(Roster(t)) \subseteq LearnerList(t, "active")
                    /\ {m \in marks : m.roll \in Roster(t)} \subseteq MarkList(t, "active")
                    /\ \A i, j \in Roster(t) : rolls[i].learner = rolls[j].learner => i = j
                    /\ \A i \in Roster(t) : i \in ContextCount(rolls[i].class)
  BY Zenon DEF RosterListed
<1>1. \A c \in AdviserSections(t, "active") :
          c \in Classes /\ Open(c) /\ \E a \in Appointments(t, "active") : a.class = c /\ a.course = NoCourse
  BY DEF AdviserSections, Fits, TablesInOrder, ColumnBacked, Advises, Appointments
<1>2. AdviserSections(t, "active") \subseteq ClassList(t, "active")
  BY <1>1 DEF ClassList, Fits, TablesInOrder, AdviserHasAccess, Appointments
<1>3. /\ \A i, j \in CurrentRolls : rolls[i].learner = rolls[j].learner => i = j
      /\ \A i \in CurrentRolls : i \in DOMAIN rolls /\ rolls[i].learner \in Learners
  BY RegistrarSeesCurrent
<1>4. Roster(t) \subseteq RollList(t, "active")
  BY <1>3 DEF Roster, RollList, RollsOf, AuthorizedRolls, OwnSections
<1>5. LearnersOf(Roster(t)) \subseteq LearnerList(t, "active")
  <2> SUFFICES ASSUME NEW i \in Roster(t) PROVE rolls[i].learner \in LearnerList(t, "active")
    BY DEF LearnersOf
  <2>1. i \in AuthorizedRolls(t, "active") /\ i \in CurrentRolls
    BY <1>4 DEF RollList, Roster
  <2>2. t # "guidance"
    BY ListingAssumption DEF ListingConstants, Staff
  <2>3. rolls[i].learner \in AuthorizedLearners(t, "active")
    BY <1>3, <2>1, <2>2 DEF AuthorizedLearners, CurrentRolls
  <2> QED BY <2>1, <2>3 DEF LearnerList, CurrentRolls
<1>6. {m \in marks : m.roll \in Roster(t)} \subseteq MarkList(t, "active")
  BY <1>1, <1>4 DEF MarkList, Roster
<1>7. \A i \in Roster(t) : i \in ContextCount(rolls[i].class)
  BY <1>3 DEF Roster, ContextCount, CurrentRolls
<1> QED BY <1>2, <1>3, <1>4, <1>5, <1>6, <1>7 DEF Roster

\* NumbersFit.
LEMMA InOrderNumbersFit == TablesInOrder => NumbersFit
<1> SUFFICES ASSUME TablesInOrder, NEW u \in Users \ {"registrar"}
             PROVE  /\ LearnersOf(DashboardRolls(u)) \subseteq DashboardLearners(u)
                    /\ DashboardLearners(u) \subseteq LearnerList(u, "active")
  BY DEF NumbersFit
<1>1. ASSUME NEW i \in DashboardRolls(u) PROVE rolls[i].learner \in DashboardLearners(u)
  <2>1. i \in AuthorizedRolls(u, "active") /\ i \in CurrentRolls /\ i \in DOMAIN rolls
    BY <1>1 DEF DashboardRolls, CurrentRolls
  <2>2. rolls[i].learner \in Learners /\ rolls[i].learner \in inUse /\ rolls[i].current
    BY <2>1, RegistrarSeesCurrent DEF CurrentRolls
  <2>3. rolls[i].learner \in AuthorizedLearners(u, "active")
    BY <2>1, <2>2 DEF AuthorizedLearners
  <2> QED BY <2>1, <2>3 DEF DashboardLearners, LearnersOf
<1>2. DashboardLearners(u) \subseteq LearnerList(u, "active")
  BY DEF DashboardLearners, LearnerList, AuthorizedLearners
<1> QED BY <1>1, <1>2 DEF LearnersOf

\* EncodedListed.
LEMMA InOrderEncodedListed == TablesInOrder => EncodedListed
<1> SUFFICES ASSUME TablesInOrder, NEW t \in Teachers, NEW m \in marks,
                    m.roll \in CurrentRolls, MayEncode(t, m.roll, m.course)
             PROVE  m \in MarkList(t, "active")
  BY DEF EncodedListed
<1>1. m.roll \in AuthorizedRolls(t, "active")
      /\ \E a \in Appointments(t, "active") : a.class = rolls[m.roll].class /\ a.course = m.course
  BY DEF MayEncode
<1>2. m.roll \in RollList(t, "active")
  BY <1>1 DEF RollList, RollsOf, AuthorizedRolls
<1> QED BY <1>1, <1>2 DEF MarkList

\* OfferedForYear: a year before the preceding one, or the preceding one itself, is where
\* a student of an earlier year was.
LEMMA InOrderOfferedForYear == TablesInOrder => OfferedForYear
<1> SUFFICES ASSUME TablesInOrder, NEW y \in ActiveYears, NEW l \in Learners \cap inUse
             PROVE  /\ EnrolledIn(l, {y}) =>
                         \A type \in {"continuing", "returning", "new", "transferee"} : l \notin Offered(type, y)
                    /\ PrecedingNamed(y) /\ EnrolledIn(l, Earlier(y)) /\ ~EnrolledIn(l, {y}) =>
                         l \in Offered("continuing", y) \cup Offered("returning", y)
                    /\ ~EnrolledIn(l, SchoolYears) => l \in Offered("new", y)
                    /\ l \in Offered("continuing", y) \cup Offered("returning", y) => EnrolledIn(l, Earlier(y))
  BY Zenon DEF OfferedForYear
<1>0. ListingTypes /\ y \in SchoolYears
  BY DEF TablesInOrder, ActiveYears
<1>1. EnrolledIn(l, {y}) => \A type \in {"continuing", "returning", "new", "transferee"} : l \notin Offered(type, y)
  BY DEF Offered
<1>2. ASSUME ~EnrolledIn(l, SchoolYears) PROVE l \in Offered("new", y)
  <2>1. ~EnrolledIn(l, {y})
    BY <1>0, <1>2 DEF EnrolledIn
  <2> QED BY <1>2, <2>1 DEF Offered
<1>3. ASSUME PrecedingNamed(y), EnrolledIn(l, Earlier(y)), ~EnrolledIn(l, {y})
      PROVE  l \in Offered("continuing", y) \cup Offered("returning", y)
  <2>1. PICK i \in DOMAIN rolls : rolls[i].learner = l /\ YearOf[rolls[i].class] \in Earlier(y)
    BY <1>3 DEF EnrolledIn
  <2>2. PICK p \in Earlier(y) : Preceding(y) = {p}
    BY <1>3 DEF PrecedingNamed
  <2>3. PICK x \in Earlier(y) : x = YearOf[rolls[i].class]
    BY <2>1
  <2>4. x \in SchoolYears /\ p \in SchoolYears
    BY DEF Earlier
  <2>5. FirstDay(x) \in Nat /\ FirstDay(p) \in Nat
    BY <1>0, <2>4, DatesOfYear
  <2>6. FirstDay(x) <= FirstDay(p) /\ \A z \in Earlier(y) : FirstDay(z) <= FirstDay(p)
    BY <2>2 DEF Preceding
  <2>7. CASE FirstDay(x) < FirstDay(p)
    <3>1. x \in Before(Preceding(y))
      BY <2>2, <2>4, <2>7 DEF Before, Earlier
    <3>2. EnrolledIn(l, Before(Preceding(y)))
      BY <2>1, <2>3, <3>1 DEF EnrolledIn
    <3> QED BY <1>3, <3>2 DEF Offered
  <2>8. CASE FirstDay(x) = FirstDay(p)
    <3>1. x \in Preceding(y)
      BY <2>6, <2>8 DEF Preceding
    <3>2. EnrolledIn(l, Preceding(y))
      BY <2>1, <2>3, <3>1 DEF EnrolledIn
    <3> QED BY <1>3, <3>2 DEF Offered
  <2> QED BY <2>5, <2>6, <2>7, <2>8
<1>4. ASSUME NEW x \in Before(Preceding(y)) PROVE x \in Earlier(y)
  <2>1. PICK p \in Preceding(y) : x \in Earlier(p)
    BY <1>4 DEF Before
  <2>2. /\ x \in SchoolYears /\ p \in SchoolYears
        /\ FirstDay(x) < FirstDay(p) /\ FirstDay(p) < FirstDay(y)
    BY <2>1 DEF Preceding, Earlier
  <2>3. FirstDay(x) \in Nat /\ FirstDay(p) \in Nat /\ FirstDay(y) \in Nat
    BY <1>0, <2>2, DatesOfYear
  <2>4. FirstDay(x) < FirstDay(y)
    BY <2>2, <2>3
  <2> QED BY <2>2, <2>4 DEF Earlier
<1>5. l \in Offered("continuing", y) => EnrolledIn(l, Earlier(y))
  BY DEF Offered, EnrolledIn, Preceding
<1>6. l \in Offered("returning", y) => EnrolledIn(l, Earlier(y))
  BY <1>4 DEF Offered, EnrolledIn
<1> QED BY <1>1, <1>2, <1>3, <1>5, <1>6

\* The lists, the dashboards and the reports agree on who is enrolled, whom a teacher
\* sees and whom the next enrolment is offered to, after any number of requests.
THEOREM PagesAlwaysAgree == ListingSpec => []PagesAgree
<1>1. TablesInOrder => PagesAgree
  BY InOrderCountsAgree, InOrderRosterListed, InOrderNumbersFit, InOrderEncodedListed,
     InOrderOfferedForYear DEF PagesAgree
<1> QED BY TablesStayInOrder, <1>1, PTL

=============================================================================
