--------------------------- MODULE EnrolmentWizard ---------------------------
(***************************************************************************)
(* The page that enrols students (pages/students/EnrollmentPage.jsx): six  *)
(* steps, of which each depends on the choices of those before it, a       *)
(* search whose answers come in any order, and a submission that goes      *)
(* through the chosen students one by one, each of whom may be refused,    *)
(* while other staff enrol students too.                                   *)
(*                                                                         *)
(* Years, grade levels, strands and sections are those the page loaded     *)
(* when it was opened; that the server accepts what fits them is           *)
(* Enrolment's.                                                            *)
(***************************************************************************)
EXTENDS Naturals, FiniteSets, Functions

CONSTANTS
    Students,
    Types,          \* enrollmentTypes
    Fits,           \* Fits[t]: the students with the history that type t asks for
    OneByOne,       \* the types without "select all" (Transferee)
    Levels, Senior, \* school levels
    Grades, levelOf,
    Strands,
    Sections, gradeOf, strandOf,
    Nothing,        \* '': nothing is chosen; a section shared across strands
    Queries, Blank, \* what is typed into the search; ''
    Found,          \* Found[q]: the students whose name or LRN has q in it
    WaitsForSubmission,  \* the user starts anew only when nothing is being submitted
    OthersEnrol     \* other staff enrol students

WizardConstants ==
    /\ Fits \in [Types -> SUBSET Students] /\ OneByOne \subseteq Types
    /\ levelOf \in [Grades -> Levels]
    /\ gradeOf \in [Sections -> Grades] /\ strandOf \in [Sections -> Strands \cup {Nothing}]
    /\ \A c \in Sections : levelOf[gradeOf[c]] # Senior => strandOf[c] = Nothing
    /\ Nothing \notin Types \cup Levels \cup Grades \cup Strands \cup Sections
    /\ Blank \in Queries /\ Found \in [Queries -> SUBSET Students]
    /\ {WaitsForSubmission, OthersEnrol} \subseteq BOOLEAN

ASSUME WizardAssumption == WizardConstants

VARIABLES
    enrolled,   \* enrolled[s]: the section of s in the active year
    step,       \* currentStep
    choice,     \* enrollmentType, selectedLevel, -GradeId, -StrandId, -SectionId
    assigned,   \* studentStrandSelections
    selected,   \* selectedStudentIds
    completed,  \* completedStudentIds
    report,     \* the students named by successMessage; {} or {failures} of enrollmentResult
    query,      \* studentSearch
    found,      \* the search: is it on, and what was found for which type and query
    looks,      \* searches under way
    job         \* the local variables of handleEnroll, or Idle

pageVars == <<step, choice, assigned, selected, completed, report>>
searchVars == <<query, found, looks>>
wizardVars == <<enrolled, pageVars, searchVars, job>>

Idle == [stage |-> "idle"]
Empty == [type |-> Nothing, level |-> Nothing, grade |-> Nothing, strand |-> Nothing,
          section |-> Nothing]
NoReport == [message |-> {}, result |-> {}]
Look(t, q) == [active |-> TRUE, type |-> t, query |-> q]

WizardInit ==
    /\ enrolled = [s \in Students |-> Nothing]
    /\ step = 0 /\ choice = Empty /\ assigned = << >>
    /\ selected = {} /\ completed = {} /\ report = NoReport
    /\ query = Blank /\ looks = {Look(Nothing, Blank)}
    /\ found = [loading |-> TRUE, ids |-> {}, type |-> Nothing, query |-> Blank]
    /\ job = Idle

-----------------------------------------------------------------------------
(* The search: an effect of the type and the query *)

\* enrollment_type of GET /students/.
Eligible(s, t) == t = Nothing \/ (s \in Fits[t] /\ enrolled[s] = Nothing)

\* The clean-up of the effect makes the searches before the last one inactive.
LookFor(t, q) ==
    /\ query' = q
    /\ IF <<t, q>> = <<choice.type, query>>
       THEN UNCHANGED <<found, looks>>
       ELSE /\ looks' = {[l EXCEPT !.active = FALSE] : l \in looks} \cup {Look(t, q)}
            /\ found' = [found EXCEPT !.loading = TRUE]

Shown(l, ids) == [loading |-> FALSE, ids |-> ids, type |-> l.type, query |-> l.query]

ArriveLook(l) ==
    /\ looks' = looks \ {l}
    /\ found' = IF l.active THEN Shown(l, {s \in Found[l.query] : Eligible(s, l.type)}) ELSE found
    /\ UNCHANGED <<enrolled, pageVars, query, job>>

\* Mutant: a search that failed does not say what was searched for.
FailLookSilently(l) ==
    /\ looks' = looks \ {l}
    /\ found' = IF l.active THEN [found EXCEPT !.loading = FALSE, !.ids = {}] ELSE found
    /\ UNCHANGED <<enrolled, pageVars, query, job>>

FailLook(l) ==
    /\ looks' = looks \ {l}
    /\ found' = IF l.active THEN Shown(l, {}) ELSE found
    /\ UNCHANGED <<enrolled, pageVars, query, job>>

\* "Searching student records..."
Searching == found.loading \/ found.type # choice.type \/ found.query # query
Visible == IF Searching THEN {} ELSE found.ids

-----------------------------------------------------------------------------
(* The choices *)

Unsent == UNCHANGED <<enrolled, job>>

\* Mutant: the students stay selected.
ChooseTypeOnly(t) ==
    /\ step = 0 /\ t # choice.type
    /\ choice' = [choice EXCEPT !.type = t] /\ LookFor(t, query)
    /\ assigned' = << >> /\ completed' = {} /\ report' = NoReport
    /\ UNCHANGED <<step, selected>> /\ Unsent

ChooseType(t) ==
    /\ step = 0 /\ t # choice.type
    /\ choice' = [choice EXCEPT !.type = t] /\ LookFor(t, query)
    /\ assigned' = << >> /\ selected' = {} /\ completed' = {} /\ report' = NoReport
    /\ UNCHANGED step /\ Unsent

\* What the choice of a level or a grade level takes back.
StartOver(c) ==
    /\ choice' = c /\ LookFor(c.type, Blank)
    /\ assigned' = << >> /\ selected' = {} /\ completed' = {}
    /\ report' = [report EXCEPT !.result = {}]
    /\ UNCHANGED step /\ Unsent

ChooseLevel(v) == step = 0 /\ StartOver([Empty EXCEPT !.type = choice.type, !.level = v])
ChooseGrade(g) ==
    /\ step = 1 /\ levelOf[g] = choice.level
    /\ StartOver([Empty EXCEPT !.type = choice.type, !.level = choice.level, !.grade = g])

RequiresStrand == choice.grade # Nothing /\ levelOf[choice.grade] = Senior
Allows(c, x) == c = Nothing \/ strandOf[c] \in {Nothing, x}

\* Mutant: the section of another strand stays.
ChooseStrandOnly(x) ==
    /\ step = 2 /\ RequiresStrand
    /\ choice' = [choice EXCEPT !.strand = x]
    /\ UNCHANGED <<step, assigned, selected, completed, report, searchVars>> /\ Unsent

ChooseStrand(x) ==
    /\ step = 2 /\ RequiresStrand
    /\ choice' = [choice EXCEPT !.strand = x,
                                !.section = IF Allows(@, x) THEN @ ELSE Nothing]
    /\ assigned' = IF Allows(choice.section, x) THEN assigned ELSE << >>
    /\ UNCHANGED <<step, selected, completed, report, searchVars>> /\ Unsent

ChooseSection(c) ==
    /\ step = 3 /\ gradeOf[c] = choice.grade /\ (RequiresStrand => Allows(c, choice.strand))
    /\ choice' = [choice EXCEPT !.section = c] /\ assigned' = << >>
    /\ UNCHANGED <<step, selected, completed, report, searchVars>> /\ Unsent

Search(q) ==
    /\ step = 4 /\ q # query /\ LookFor(choice.type, q) /\ UNCHANGED pageVars /\ Unsent

Select(ids) ==
    /\ selected' = ids /\ report' = [report EXCEPT !.result = {}]
    /\ UNCHANGED <<step, choice, assigned, completed, searchVars>> /\ Unsent

Toggle(s) ==
    /\ step = 4 /\ s \in Visible
    /\ Select(IF s \in selected THEN selected \ {s} ELSE selected \cup {s})

ToggleAll ==
    /\ step = 4 /\ Visible # {} /\ choice.type \notin OneByOne
    /\ Select(IF Visible \subseteq selected THEN selected \ Visible ELSE selected \cup Visible)

ClearSelection ==
    /\ step = 4 /\ selected # {}
    /\ selected' = {} /\ completed' = {} /\ report' = NoReport
    /\ UNCHANGED <<step, choice, assigned, searchVars>> /\ Unsent

\* The strand of one student, on the review; also while it is being submitted.
Assign(s, x) ==
    /\ step = 5 /\ RequiresStrand /\ s \in selected
    /\ x = Nothing \/ Allows(choice.section, x)
    /\ assigned' = [r \in DOMAIN assigned \cup {s} |-> IF r = s THEN x ELSE assigned[r]]
    /\ UNCHANGED <<step, choice, selected, completed, report, searchVars>> /\ Unsent

-----------------------------------------------------------------------------
(* The steps *)

\* validateCurrentStep
Valid ==
    CASE step = 0 -> choice.type # Nothing /\ choice.level # Nothing
      [] step = 1 -> choice.grade # Nothing
      [] step = 2 -> RequiresStrand => choice.strand # Nothing
      [] step = 3 -> choice.section # Nothing
      [] OTHER -> selected # {}

GoTo(n) ==
    /\ step' = n
    /\ UNCHANGED <<choice, assigned, selected, completed, report, searchVars>> /\ Unsent

GoNext == step < 5 /\ Valid /\ GoTo(IF step = 1 /\ ~RequiresStrand THEN 3 ELSE step + 1)
GoBack == step \in 1..4 /\ GoTo(step - 1)

Reset ==
    /\ step' = 0 /\ choice' = Empty /\ assigned' = << >> /\ selected' = {} /\ completed' = {}
    /\ report' = NoReport /\ LookFor(Nothing, Blank) /\ Unsent

Restart == step < 5 /\ <<step, choice, selected>> # <<0, Empty, {}>> /\ Reset

\* The button that ends the review; there is no other way back from it.  It is
\* there while students who were refused are submitted again.
StartNew ==
    /\ step = 5 /\ report.message # {} /\ report.result \subseteq {{}}
    /\ WaitsForSubmission => job = Idle
    /\ Reset

-----------------------------------------------------------------------------
(* handleEnroll *)

\* What is looked at once more before anything is submitted.
Reviewed ==
    /\ choice.grade # Nothing /\ choice.section # Nothing /\ selected # {}
    /\ levelOf[choice.grade] = choice.level /\ gradeOf[choice.section] = choice.grade
    /\ RequiresStrand <=> choice.strand # Nothing
    /\ Allows(choice.section, choice.strand)

StrandOf(s) == IF s \in DOMAIN assigned THEN assigned[s] ELSE choice.strand

Submit(todo) ==
    /\ step = 5 /\ job = Idle /\ selected \ completed # {} /\ Reviewed
    /\ job' = [stage |-> "next", todo |-> todo, to |-> choice, needs |-> RequiresStrand,
               strand |-> [s \in todo |-> StrandOf(s)], before |-> completed,
               of |-> Nothing, done |-> {}, refused |-> {}]
    /\ report' = [report EXCEPT !.result = {}]
    /\ UNCHANGED <<enrolled, step, choice, assigned, selected, completed, searchVars>>

\* Mutant: those who are enrolled are submitted again with the others.
SubmitAgain == Submit(selected)
SubmitRest == Submit(selected \ completed)

Working == UNCHANGED <<pageVars, searchVars>>
AfterRefusal(s) == [job EXCEPT !.stage = "next", !.of = Nothing, !.todo = @ \ {s}, !.refused = @ \cup {s}]
AfterCreation(s) == [job EXCEPT !.stage = "next", !.of = Nothing, !.todo = @ \ {s}, !.done = @ \cup {s}]
Refuse(s) == job' = AfterRefusal(s) /\ UNCHANGED enrolled /\ Working

StrandFits(s) ==
    job.needs => job.strand[s] # Nothing /\ Allows(job.to.section, job.strand[s])

Ask(s) ==
    /\ job.stage = "next" /\ s \in job.todo
    /\ \/ ~StrandFits(s) /\ Refuse(s)
       \/ /\ StrandFits(s) /\ Eligible(s, job.to.type)
          /\ job' = [job EXCEPT !.stage = "create", !.of = s]
          /\ UNCHANGED enrolled /\ Working
       \/ StrandFits(s) /\ Refuse(s)  \* not eligible any more, or no answer

\* POST /enrollments/: created, and perhaps the answer is lost; or refused.
Create ==
    /\ job.stage = "create" /\ enrolled[job.of] = Nothing
    /\ enrolled' = [enrolled EXCEPT ![job.of] = job.to.section]
    /\ job' \in {AfterCreation(job.of), AfterRefusal(job.of)} /\ Working
RefuseCreation == job.stage = "create" /\ Refuse(job.of)

\* Mutant: the message tells only of this time.
ReportNow ==
    /\ job.stage = "next" /\ job.todo = {}
    /\ completed' = completed \cup job.done
    /\ report' = [message |-> job.done, result |-> {job.refused}]
    /\ job' = [job EXCEPT !.stage = "refresh"]
    /\ UNCHANGED <<enrolled, step, choice, assigned, selected, searchVars>>

Report ==
    /\ job.stage = "next" /\ job.todo = {}
    /\ completed' = completed \cup job.done
    /\ report' = [message |-> job.before \cup job.done, result |-> {job.refused}]
    /\ job' = [job EXCEPT !.stage = "refresh"]
    /\ UNCHANGED <<enrolled, step, choice, assigned, selected, searchVars>>

\* Mutant: submitting stays true when the list cannot be read again.
ListRefreshedOnly ==
    /\ job.stage = "refresh" /\ job' \in {Idle, [job EXCEPT !.stage = "stuck"]}
    /\ UNCHANGED enrolled /\ Working

\* The list of enrolments was read again, or could not be.
ListRefreshed == job.stage = "refresh" /\ job' = Idle /\ UNCHANGED enrolled /\ Working

-----------------------------------------------------------------------------
OtherEnrols(s, c) ==
    /\ OthersEnrol /\ enrolled[s] = Nothing /\ enrolled' = [enrolled EXCEPT ![s] = c]
    /\ UNCHANGED <<pageVars, searchVars, job>>

Choose ==
    \/ \E t \in Types : ChooseType(t)
    \/ \E v \in Levels : ChooseLevel(v)
    \/ \E g \in Grades : ChooseGrade(g)
    \/ \E x \in Strands : ChooseStrand(x)
    \/ \E c \in Sections : ChooseSection(c)
    \/ \E q \in Queries : Search(q)
    \/ \E s \in Students : Toggle(s) \/ \E x \in Strands \cup {Nothing} : Assign(s, x)
    \/ ToggleAll \/ ClearSelection
    \/ GoNext \/ GoBack \/ Restart \/ StartNew

Finds == \E l \in looks : ArriveLook(l) \/ FailLook(l)
Submits == (\E s \in Students : Ask(s)) \/ Create \/ RefuseCreation \/ Report \/ ListRefreshed

WizardNext ==
    \/ Choose \/ SubmitRest \/ Finds \/ Submits
    \/ \E s \in Students, c \in Sections : OtherEnrols(s, c)

WizardSpec == WizardInit /\ [][WizardNext]_wizardVars

-----------------------------------------------------------------------------
Choices == [type: Types \cup {Nothing}, level: Levels \cup {Nothing}, grade: Grades \cup {Nothing},
            strand: Strands \cup {Nothing}, section: Sections \cup {Nothing}]
StrandsGiven == UNION {[S -> Strands \cup {Nothing}] : S \in SUBSET Students}
Jobs == [stage: {"next", "create", "refresh"}, todo: SUBSET Students, to: Choices, needs: BOOLEAN,
         strand: StrandsGiven, before: SUBSET Students, of: Students \cup {Nothing},
         done: SUBSET Students, refused: SUBSET Students]

WizardTypes ==
    /\ step \in 0..5 /\ selected \subseteq Students /\ completed \subseteq Students
    /\ enrolled \in [Students -> Sections \cup {Nothing}]
    /\ choice \in Choices /\ assigned \in StrandsGiven
    /\ report \in [message: SUBSET Students, result: SUBSET SUBSET Students]
    /\ query \in Queries
    /\ looks \subseteq [active: BOOLEAN, type: Types \cup {Nothing}, query: Queries]
    /\ found \in [loading: BOOLEAN, ids: SUBSET Students, type: Types \cup {Nothing}, query: Queries]
    /\ job \in {Idle} \cup Jobs

\* There is no way back from the review, so what it shows passes the check of
\* handleEnroll, however the user went forth and back and changed choices that
\* others depend on.
ReviewPasses == step = 5 => Reviewed

\* Whoever is selected has the history that the chosen type asks for, whichever
\* types and searches came before and in whichever order they were answered.
SelectedFit == choice.type # Nothing => selected \subseteq Fits[choice.type]

\* After a submission, and after every repetition for those who were refused, each
\* selected student is either told of as enrolled or as refused; and those told
\* of as enrolled are so, in the section the review shows.
OutcomeTold ==
    step = 5 => \A failures \in report.result :
        /\ report.message = completed
        /\ completed \cup failures = selected /\ completed \cap failures = {}
        /\ \A s \in completed : enrolled[s] = choice.section

\* The page keeps all this, and the last, if the user waits for each submission.
EnrolledAsReviewed ==
    WizardTypes /\ ReviewPasses /\ SelectedFit /\ (WaitsForSubmission => OutcomeTold)

\* What the user does that goes on with a search.
SearchChanges == query' # query \/ choice'.type # choice.type
=============================================================================
