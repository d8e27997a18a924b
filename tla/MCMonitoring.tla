---------------------------- MODULE MCMonitoring ----------------------------
(***************************************************************************)
(* Instances for TLC of the components with which a class is monitored:    *)
(* those of Monitoring.  A behaviour is one of the case it begins with;    *)
(* meanwhile the other components do nothing.                              *)
(***************************************************************************)
EXTENDS Monitoring, TLC

CONSTANTS u1, a1, a2, i1, i2, q1, q2, v1, v2,                              \* grades
          NoWindow, morning, noon, gym, nowhere, school, c1, c2,  \* calendar
          ana, ben,                                                       \* enrolments
          s0, s1, s2

VARIABLES case,
          table, encodes, active, asked, away, puts        \* of PeriodRecords, in other cases

gradeVars == vars
valueVars == <<table, encodes, active, asked, away, puts>>
monitoringVars == <<case, gradeVars, valueVars, calendarVars, attendanceVars, predictionVars,
                    notificationVars>>
Off == "off"

-----------------------------------------------------------------------------
\* Two subjects and two quarters of one student, one request at a time.
OneTeacher == {u1}
OneStudent == {a1}
TwoItems == {i1, i2}
TwoPeriods == {q1, q2}
OneGrade == {v1}
TwoIds == 1..2
OneSlot == {s0}

\* Two requests at a time, on one subject.
GradingTogether == INSTANCE PeriodRecords WITH
    Items <- {i1}, Slots <- {s1, s2}, Ids <- 1..3,
    records <- table, teaches <- encodes, open <- active, sent <- asked,
    refiled <- away, req <- puts

\* Ratings of two students for a quarter, one request at a time.
Rating == INSTANCE PeriodRecords WITH
    Kind <- "behavior", Students <- {a1, a2}, Items <- {i1}, Periods <- {q1},
    Grades <- {v1, v2},
    Endpoints <- {"patch", "bulk"},
    records <- table, teaches <- encodes, open <- active, sent <- asked,
    refiled <- away, req <- puts

-----------------------------------------------------------------------------
\* Entries of sections in the gym and elsewhere, one of two days for the school; a
\* definition of the section and one of the school; and a provider that names one date
\* twice, and one of another year.
Windows == {<<morning, morning>>, <<morning, noon>>, <<noon, morning>>, <<noon, noon>>}

Entry(date, last, time, place, scope, status) ==
    [date |-> date, last |-> last, time |-> time, place |-> place, scope |-> scope,
     kind |-> "EVENT", name |-> "n1", status |-> status]
Rule(dates, time, scope) ==
    [dates |-> dates, time |-> time, place |-> gym, scope |-> scope, name |-> "n1",
     active |-> TRUE]

FourBodies ==
    {Entry(1, 1, morning, gym, c1, "absent"), Entry(2, 2, noon, gym, c2, "absent"),
     Entry(1, 2, noon, nowhere, school, "PUBLISHED"),
     Entry(2, 2, morning, nowhere, c1, "ARCHIVED")}
ThreeRules == {Rule({1}, morning, c1)}
             \cup {Rule(ds, NoWindow, school) : ds \in {{1}, {1, 2}}}
BothDates == {<<1, 2>>}
FourHolidays == <<<<1, "n1">>, <<3, "n1">>, <<1, "n2">>, <<2, "n1">>>>

OfTime(time) ==
    /\ \A e \in event : e.time = time
    /\ \A s \in Editors : saving[s].pc \in {"update", "generate"} => saving[s].rule.time = time
NoImport == \A s \in Editors : saving[s].pc \notin {"look", "insert", "rename"}

\* Every handler but the import, one request at a time; many dates are edited with one
\* body.
Scheduling ==
    /\ OfTime(morning) /\ Len(days) <= 2
    /\ \A s \in Editors : saving[s].pc = "bulk" => saving[s].body.scope = c2

\* Only a definition of the school and its occurrences, two requests at a time.  A PATCH
\* that leaves active as it was read does what one does that says the same.
SchedulingTogether ==
    /\ OfTime(NoWindow) /\ NoImport /\ Len(days) <= 2
    /\ \A i \in DOMAIN days : days[i].rec /\ days[i].place = gym
    /\ \A s \in Editors : saving[s].pc # "bulk"
    /\ \A s \in Editors : saving[s].pc = "update" => saving[s].says # "absent"

\* Holidays, imported one request at a time.
ImportingHolidays ==
    /\ event = {} /\ \A i \in DOMAIN days : days[i].kind = "HOLIDAY"
    /\ \A s \in Editors : saving[s].pc \in {"idle", "look", "insert", "rename"}

-----------------------------------------------------------------------------
\* A record of the first day that says both present and absent.
Contradiction ==
    [enr |-> ana, date |-> 1, month |-> 1, school |-> 1, present |-> 1, absent |-> 1,
     excused |-> -1]
TwoEnrolments == {ana, ben}
TwoDays == 1..2
TwoLabels == {10, 11}
TwoTables == {<<>>, <<Contradiction>>}

OnDesk(s) == IF desks[s] = NotEncoding THEN {} ELSE desks[s].items
NobodyEncodes == \A s \in Desks : desks[s] = NotEncoding

\* Days under their labels, the whole month, and a record whose date was moved or cleared;
\* and the whole month under two labels.
DaysCalled == {<<1, 1>>, <<2, 2>>, <<2, 1>>, <<NoDate, 10>>, <<NoDate, 1>>}
MonthsCalled == {<<1, 1>>, <<NoDate, 10>>, <<NoDate, 11>>}

\* Two records of a student.  A period-level one keeps its day of presence, and tells of
\* no excused day.
OfAna(called) ==
    /\ Len(attendance) <= 2 /\ \A i \in DOMAIN attendance : attendance[i].enr = ana
    /\ \A s \in Desks : Cardinality(OnDesk(s)) <= 1
    /\ \A s \in Desks : \A p \in OnDesk(s) :
         /\ p.row.enr = ana /\ <<p.row.date, p.row.month>> \in called
         /\ p.row.date = NoDate => p.row.present = 1 /\ p.row.excused <= 0

\* Two days of a student, one request at a time; the student leaves, or the first day is
\* entered in the calendar and called off.
Attending ==
    /\ OfAna(DaysCalled) /\ ~crossed /\ ben \in attending
    /\ \A c \in almanac : c.date = 1
    /\ changes > 1 => \E c \in almanac : c.off

\* A class encoded as a whole, by two requests.
AttendingClass ==
    /\ flawed = {}
    /\ \A s \in Desks : Cardinality(OnDesk(s)) # 1 /\ (desks[s] # NotEncoding => ~desks[s].all)

\* One day of a student and its month, two requests at a time, of staff who see history too.
AttendingTogether ==
    /\ flawed = {} /\ OfAna(MonthsCalled)
    /\ \A s \in Desks : desks[s] # NotEncoding => desks[s].all \/ \A p \in OnDesk(s) : p.id = NewRecord

-----------------------------------------------------------------------------
\* Two enrolments of one student, and one of another.
Owner == <<"ana", "ana", "ben">>
TwoPersons == {"ana", "ben"}
ThreeEnrolments == 1..3
TwoFactors == {"average", "attendance"}
OneWorker == work[s2] = NotWorking

\* One request at a time; enrolments and records change between requests.
Predicting == OneWorker /\ ~raced

\* Staff review and correct.
Reviewing == OneWorker /\ ~raced /\ 2 \notin current /\ transfers <= 2 /\ Len(predictions) <= 1

\* Two requests at a time, and enrolments that change under them.
PredictingTogether == transfers <= 1

-----------------------------------------------------------------------------
\* An examination of one class, and a suspension of two days for the staff.
TwoPeople == {"head", "teacher"}
Heads == {"head"}
Exam == [author |-> "teacher", audience |-> {"teacher"}, date |-> 1, last |-> 1, kind |-> "EXAMINATION"]
Suspension == [author |-> "head", audience |-> {}, date |-> 1, last |-> 2, kind |-> "SUSPENSION"]
TwoPlans == [exam |-> Exam, storm |-> Suspension]
TwoKinds == {"EXAMINATION", "SUSPENSION"}
TwoSlots == {s1, s2}

OneList == listing[s2].stage = "free"
OnlyExam == timetable["storm"].status = "absent"

\* Both, one request at a time.
Notifying == OneList /\ moved = {} /\ planChanges <= 1

\* The examination, two requests at a time.
NotifyingTogether == OnlyExam /\ moved = {} /\ planChanges <= 1 /\ DayOf(now) <= 1

\* The examination, moved to other days.
NotifyingMoved == OneList /\ OnlyExam

ASSUME MonitoringConstants ==
    GradingTogether!PeriodRecordsConstants /\ Rating!PeriodRecordsConstants

-----------------------------------------------------------------------------
NoGrades == Init /\ teaches = [u \in Users |-> {}]
ValuesOff == table = Off /\ encodes = Off /\ active = Off /\ asked = Off /\ away = Off /\ puts = Off
NothingScheduled == CalendarInit
NobodyAttends == AttendanceInit /\ attendance = <<>>
NothingPredicted == PredictionInit /\ current = {1} /\ outcome = [e \in EnrolmentIds |-> "Low"]
NothingPlanned == NotificationInit /\ \A e \in Planned : timetable[e].status = "absent"

MonitoringInit ==
    \/ /\ NothingScheduled /\ NobodyAttends /\ NothingPredicted /\ NothingPlanned
       /\ \/ case = "grading" /\ Init /\ ValuesOff
          \/ case = "grading together" /\ NoGrades /\ GradingTogether!Init
          \/ case = "rating" /\ NoGrades /\ Rating!Init
    \/ /\ NoGrades /\ ValuesOff /\ NobodyAttends /\ NothingPredicted /\ NothingPlanned
       /\ CalendarInit
       /\ case \in {"scheduling", "scheduling together", "importing"}
    \/ /\ NoGrades /\ ValuesOff /\ NothingScheduled /\ NothingPredicted /\ NothingPlanned
       /\ AttendanceInit
       /\ \/ case = "attending" /\ Attending
          \/ case = "attending class" /\ AttendingClass
          \/ case = "attending together" /\ AttendingTogether
    \/ /\ NoGrades /\ ValuesOff /\ NothingScheduled /\ NobodyAttends /\ NothingPlanned
       /\ PredictionInit
       /\ \/ case = "predicting" /\ Predicting
          \/ case = "reviewing" /\ Reviewing
          \/ case = "predicting together" /\ PredictingTogether
    \/ /\ NoGrades /\ ValuesOff /\ NothingScheduled /\ NobodyAttends /\ NothingPredicted
       /\ NotificationInit
       /\ \/ case = "notifying" /\ Notifying
          \/ case = "notifying together" /\ NotifyingTogether
          \/ case = "notifying moved" /\ NotifyingMoved

GradeStep ==
    UNCHANGED <<case, valueVars, calendarVars, attendanceVars, predictionVars, notificationVars>>
ValueStep ==
    UNCHANGED <<case, gradeVars, calendarVars, attendanceVars, predictionVars, notificationVars>>
DayStep ==
    UNCHANGED <<case, gradeVars, valueVars, attendanceVars, predictionVars, notificationVars>>
AttendanceStep == UNCHANGED <<case, gradeVars, valueVars, calendarVars, predictionVars, notificationVars>>
PredictionStep == UNCHANGED <<case, gradeVars, valueVars, calendarVars, attendanceVars, notificationVars>>
NoticeStep ==
    UNCHANGED <<case, gradeVars, valueVars, calendarVars, attendanceVars, predictionVars>>

MonitoringNext ==
    \/ case = "grading" /\ Next /\ GradeStep
    \/ case = "grading together" /\ GradingTogether!Next /\ ValueStep
    \/ case = "rating" /\ Rating!Next /\ ValueStep
    \/ case = "scheduling" /\ (Entries(s1) \/ Recurring(s1)) /\ Scheduling' /\ DayStep
    \/ case = "scheduling together" /\ CalendarNext /\ SchedulingTogether' /\ DayStep
    \/ case = "importing" /\ (Entries(s1) \/ Importing(s1)) /\ ImportingHolidays' /\ DayStep
    \/ case = "attending" /\ NobodyEncodes /\ (SavesOne \/ Changes) /\ Attending' /\ AttendanceStep
    \/ case = "attending" /\ GoesOn /\ Attending' /\ AttendanceStep
    \/ case = "attending class" /\ (SavesClass \/ GoesOn) /\ AttendingClass' /\ AttendanceStep
    \/ case = "attending together" /\ (SavesOne \/ GoesOn) /\ AttendingTogether' /\ AttendanceStep
    \/ case = "predicting" /\ (Transfers \/ Generates) /\ Predicting' /\ PredictionStep
    \/ case = "reviewing" /\ PredictionNext /\ Reviewing' /\ PredictionStep
    \/ case = "predicting together" /\ (Transfers \/ Generates) /\ PredictingTogether' /\ PredictionStep
    \/ case = "notifying" /\ NotificationNext /\ Notifying' /\ NoticeStep
    \/ case = "notifying together" /\ NotificationNext /\ NotifyingTogether' /\ NoticeStep
    \/ case = "notifying moved" /\ NotificationNext /\ NotifyingMoved' /\ NoticeStep

MonitoringSpec == MonitoringInit /\ [][MonitoringNext]_monitoringVars

Symmetry == Permutations({s1, s2})

-----------------------------------------------------------------------------
(* The properties of the components, in the cases in which they hold *)

\* However requests overlap, grades and values stand where they were entered; one
\* at a time, they are recorded once.
ValuesInOrder ==
    /\ case = "grading together" => GradingTogether!RecordsInOrder
    /\ case = "rating" => Rating!RecordsInOrder

\* And what was encoded stays encoded.
ValuesKept ==
    [][/\ case = "grading together" => GradingTogether!EncodedKept
       /\ case = "rating" => Rating!EncodedKept /\ Rating!Kept]_monitoringVars

-----------------------------------------------------------------------------
(* The properties of the run that have several parts *)

\* Observed values, and grades where requests overlap, stand where they were entered
\* and stay.
NothingTakenBack == []ValuesInOrder /\ ValuesKept
=============================================================================
