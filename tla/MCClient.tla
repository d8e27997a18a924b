------------------------------ MODULE MCClient ------------------------------
(***************************************************************************)
(* Instances for TLC of the components of the client: the session          *)
(* (TokenRefresh), the three encoding pages (EncodingSheet), one row of    *)
(* the attendance page (AttendanceRow), the page of a student              *)
(* (StudentPage) and the page that enrols students (EnrolmentWizard).  A   *)
(* behaviour is one of the case it begins with; meanwhile the other pages  *)
(* stay as they are opened, and nobody is logged in.                       *)
(***************************************************************************)
EXTENDS TokenRefresh, EncodingSheet, AttendanceRow, StudentPage, EnrolmentWizard, Sequences, TLC

CONSTANTS Cases,                           \* the cases of the run
          p1, p2, b1, b2, v1, l1, o1,      \* requests of the session
          c1, c2, none, e1, e2, e3, d1, d2, m1, blank,  \* encoding
          ana, ben                         \* students

VARIABLE case

clientVars == <<case, vars, sheetVars, rowVars, studentVars, wizardVars>>
Wizards == {"choosing", "enrolling", "searching"}

-----------------------------------------------------------------------------
\* The requests of the session.
TwoPages == {p1, p2}
TwoBoots == {b1, b2}
OneSave == {v1}
OneLogin == {l1}
OneLogout == {o1}
NoRequests == {}

TwoStudents == {ana, ben}

\* A user who waits for a generation before going on; and one who does not, while
\* others generate predictions too.
Staying == [waits |-> TRUE, others |-> FALSE, turns |-> 3, made |-> 2]
Hurrying == [waits |-> FALSE, others |-> TRUE, turns |-> 2, made |-> 1]
BothVisits == {Staying, Hurrying}
HurryingVisit == {Hurrying}

\* Juniors and seniors, of whom one is continuing and both may be transferees.
BothLevels == [g7 |-> "junior", g11 |-> "senior"]
FitsTypes == [continuing |-> {ana}, transferee |-> {ana, ben}]
GradeOf == [rizal |-> "g7", stem |-> "g11", shared |-> "g11"]
StrandsOf == [rizal |-> "", stem |-> "STEM", shared |-> ""]
FoundBy == [q \in {"", "b"} |-> IF q = "" THEN {ana, ben} ELSE {ben}]

ClassLists == c1 :> {e1} @@ c2 :> {e2, e3}

\* The attendance page of a teacher with two classes, who saves twice; and the pages whose
\* answers all come: attendance, grades opened by a link, and behaviour of an administrator.
Encoding == [kind |-> "attendance", teacher |-> TRUE, linked |-> FALSE, loads |-> 3, saves |-> 2]
EncodingDays == [Encoding EXCEPT !.saves = 1]
EncodingGrades ==
    [kind |-> "grades", teacher |-> TRUE, linked |-> TRUE, loads |-> 2, saves |-> 1]
EncodingBehavior == [EncodingGrades EXCEPT !.kind = "behavior", !.teacher = FALSE, !.linked = FALSE]
FourSheets == {Encoding, EncodingDays, EncodingGrades, EncodingBehavior}
FairSheets == {"encoding days", "encoding grades", "encoding behavior"}
SheetCases == FairSheets \cup {"encoding"}
TwoDates == <<d1, d2>>

-----------------------------------------------------------------------------
\* What the components are while another one is looked at.
LoggedOut == Init /\ ~stored
RowOpened == RowInit /\ record = {}
StudentOpened == StudentInit /\ visit = Hurrying /\ id = ana
SheetOpened == SheetInit /\ sheet = Encoding

ClientInit ==
    /\ case \in Cases /\ WizardInit
    /\ \/ case = "session" /\ Init /\ SheetOpened /\ RowOpened /\ StudentOpened
       \/ case = "row" /\ RowInit /\ LoggedOut /\ SheetOpened /\ StudentOpened
       \/ case = "student" /\ StudentInit /\ LoggedOut /\ SheetOpened /\ RowOpened
       \/ case \in Wizards /\ LoggedOut /\ SheetOpened /\ RowOpened /\ StudentOpened
       \/ /\ LoggedOut /\ RowOpened /\ StudentOpened
          /\ SheetInit
          /\ \/ case = "encoding" /\ sheet = Encoding
             \/ case = "encoding days" /\ sheet = EncodingDays
             \/ case = "encoding grades" /\ sheet = EncodingGrades
             \/ case = "encoding behavior" /\ sheet = EncodingBehavior

SessionStep == UNCHANGED <<case, sheetVars, rowVars, studentVars, wizardVars>>
\* One case has one class.
SheetStep ==
    /\ UNCHANGED <<case, vars, rowVars, studentVars, wizardVars>>
    /\ case = "encoding days" => filters'.class # c2
RowStep == UNCHANGED <<case, vars, sheetVars, studentVars, wizardVars>>
StudentStep == UNCHANGED <<case, vars, sheetVars, rowVars, wizardVars>>
WizardOnly == UNCHANGED <<case, vars, sheetVars, rowVars, studentVars>>

\* One case chooses everything and submits nothing; one enrols seniors, and others do;
\* one searches.
Chosen == UNION {Range(choice), Range(assigned), Range(enrolled)}
ChoosingStep == WizardOnly /\ UNCHANGED <<enrolled, query, job>>
EnrollingStep ==
    /\ WizardOnly /\ UNCHANGED query
    /\ Chosen' \subseteq {"", "transferee", "senior", "g11", "STEM", "shared"}
SearchingStep ==
    WizardOnly /\ Chosen' \subseteq {"", "continuing", "junior", "g7", "rizal"}

ClientNext ==
    \/ case = "session" /\ Next /\ SessionStep
    \/ case \in SheetCases /\ SheetNext /\ SheetStep
    \/ case = "row" /\ RowNext /\ RowStep
    \/ case = "student" /\ StudentNext /\ StudentStep
    \/ case = "choosing" /\ WizardNext /\ ChoosingStep
    \/ case = "enrolling" /\ WizardNext /\ EnrollingStep
    \/ case = "searching" /\ WizardNext /\ SearchingStep

ClientSpec == ClientInit /\ [][ClientNext]_clientVars

\* Every request ends, with an answer or with an error: the fairness of the
\* components, in the cases that need it.
SheetAnswers == case \in FairSheets /\ Answers /\ SheetStep
StudentLoads == case = "student" /\ (\E l \in loads : Read(l) \/ Finish(l)) /\ StudentStep
StudentGeneration ==
    case = "student" /\ (\E g \in generation : Advance(g) \/ Conclude(g)) /\ StudentStep
WizardFinds == case \in Wizards /\ Finds /\ WizardOnly
WizardSubmits == case \in Wizards /\ Submits /\ WizardOnly

FairSpec ==
    /\ ClientSpec /\ Fairness
    /\ WF_clientVars(WizardFinds) /\ WF_clientVars(WizardSubmits)
    /\ WF_clientVars(SheetAnswers)
    /\ WF_clientVars(StudentLoads) /\ WF_clientVars(StudentGeneration)

-----------------------------------------------------------------------------
(* The properties of the encoding pages, and those that have several parts *)

\* What the pages of the fair cases show while requests are under way: a class, a
\* profile or a search that is loading, records that are, and a button that is disabled.
Loading ==
    \/ case \in FairSheets /\ loadingClass
    \/ case = "student" /\ busy["profile"]
    \/ case \in Wizards /\ Searching
LoadingRecords == case = "student" /\ busy["records"]
Pressed ==
    \/ case = "student" /\ generation # {}
    \/ case \in Wizards /\ job # Idle
TypingOn == case \in Wizards /\ SearchChanges

\* Every spinner of the pages stops and every button comes back, also where answers
\* of earlier loads are passed over; a search, unless the user types, or chooses
\* another type, for ever.
SpinnersStop ==
    /\ []<><<TypingOn>>_clientVars \/ []<>~Loading
    /\ []<>~LoadingRecords
    /\ []<>~Pressed
=============================================================================
