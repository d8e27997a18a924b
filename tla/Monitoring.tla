----------------------------- MODULE Monitoring -----------------------------
(***************************************************************************)
(* The components with which a class is monitored, for one run and one     *)
(* module of proofs: their variables are apart, so each is a system of its *)
(* own.  What they promise that is alike is one property here.             *)
(***************************************************************************)
EXTENDS PeriodRecords, Notifications, Predictions, AttendanceRecords, CalendarDays

\* Types of the tables, and that nothing is counted twice: no day of a student in a
\* total by a dated record and another, no month under one label, and no prediction as
\* the answer of two generations.
CountedOnce == AttendanceTypes /\ DaysCountedOnce /\ PredictionTypes /\ AnswersNew

\* Attendance is written without contradiction, of a school day and of current
\* enrolments, and of a class as a whole; a prediction is stored for the current
\* enrolment it was scored from, what was said of it in review stays; a notification is
\* read when it was shown; and a definition out of use gets no occurrences until a PATCH
\* puts it back in use.
WrittenInOrder ==
    /\ ContradictionsAreOld /\ OnSchoolDay /\ OnlyCurrent /\ WholeClass
    /\ ScoredItsRecords /\ StoredForCurrent /\ ReviewStays
    /\ ReadWhenShown /\ InactiveAddsNothing
=============================================================================
