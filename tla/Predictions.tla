---------------------------- MODULE Predictions ----------------------------
(***************************************************************************)
(* Risk predictions: a request to generate one checks that the student has *)
(* a current enrolment, scores its records with the trained model, looks   *)
(* for the current enrolment again, stores the prediction with its factors *)
(* and writes an audit row.  Staff also post and patch predictions by      *)
(* hand.                                                                   *)
(*                                                                         *)
(* An enrolment is a number, a later school year a greater one.  Only what *)
(* the model says of the records of an enrolment is kept: its level, or    *)
(* that they do not fit the vocabulary the model was trained with.         *)
(***************************************************************************)
EXTENDS Naturals, Sequences, FiniteSets

CONSTANTS
    Persons,
    EnrolmentIds,   \* the primary keys, counted up with the school years
    StudentOf,      \* StudentOf[e]
    Workers,        \* requests that are under way at the same time
    TopFactors,     \* the features the model weighs most
    MaxPredictions, \* bound: predictions stored
    MaxTransfers    \* bound: changes of enrolments, of records and of factors

RiskLevels == {"High", "Moderate", "Low"}
NoPrediction == 0

PredictionConstants ==
    /\ EnrolmentIds \subseteq Nat \ {0} /\ IsFiniteSet(EnrolmentIds)
    /\ \A e \in EnrolmentIds : StudentOf[e] \in Persons
    /\ {MaxPredictions, MaxTransfers} \subseteq Nat

ASSUME PredictionAssumption == PredictionConstants

VARIABLES
    current,        \* enrolments in an active year, section and level, themselves active
    outcome,        \* outcome[e]: what the model says of its records
    predictions,    \* the table, oldest first
    factors,        \* PredictionFactor rows: [of, feature]
    work,           \* the requests
    answered,       \* history: the predictions named by the answers of generate, in order
    audit,          \* history: the predictions with an audit row of their generation
    raced,          \* history: enrolments changed, or a PATCH was saved, during a request
    transfers

predictionData == <<current, outcome, predictions, factors>>
predictionVars == <<predictionData, work, answered, audit, raced, transfers>>

NotWorking == [op |-> "idle"]

PredictionInit ==
    /\ current \in {{e} : e \in EnrolmentIds} /\ outcome \in [EnrolmentIds -> {"High", "Low"}]
    /\ predictions = <<>> /\ factors = {}
    /\ work = [w \in Workers |-> NotWorking] /\ answered = <<>> /\ audit = {}
    /\ raced = FALSE /\ transfers = 0

-----------------------------------------------------------------------------
(* Enrolments and records, as the other components change them *)

Transfer == transfers < MaxTransfers /\ transfers' = transfers + 1

\* The requests of the others may have read what is changed.
RaceWith(others) == raced' = (raced \/ \E w \in others : work[w] # NotWorking)

\* A student is enrolled in another year or section; what was current is not.
EnrolAgain(e) ==
    /\ Transfer /\ e \notin current /\ RaceWith(Workers)
    /\ current' = {f \in current : StudentOf[f] # StudentOf[e]} \cup {e}
    /\ UNCHANGED <<outcome, predictions, factors, work, answered, audit>>

\* The enrolment, its section or its year is closed.
CloseEnrolment(e) ==
    /\ Transfer /\ e \in current /\ RaceWith(Workers)
    /\ current' = current \ {e}
    /\ UNCHANGED <<outcome, predictions, factors, work, answered, audit>>

\* Grades, attendance or behaviour are encoded.
EncodeRecords(e, o) ==
    /\ Transfer /\ outcome[e] # o /\ outcome' = [outcome EXCEPT ![e] = o]
    /\ UNCHANGED <<current, predictions, factors, work, answered, audit, raced>>

-----------------------------------------------------------------------------
(* Generating a prediction *)

\* Mutant: enrolments that are over are taken too.
NewestEver(s) ==
    LET mine == {e \in EnrolmentIds : StudentOf[e] = s}
    IN  IF mine = {} THEN NoPrediction ELSE CHOOSE e \in mine : \A f \in mine : f <= e

\* active_enrollment_queryset(...).order_by('-academic_year__start_date').first()
Newest(s) ==
    LET mine == {e \in current : StudentOf[e] = s}
    IN  IF mine = {} THEN NoPrediction ELSE CHOOSE e \in mine : \A f \in mine : f <= e

CheckStudent(w, s) ==
    /\ work[w] = NotWorking /\ Len(predictions) < MaxPredictions /\ Newest(s) # NoPrediction
    /\ work' = [work EXCEPT ![w] = [op |-> "checked", student |-> s]]
    /\ UNCHANGED <<predictionData, answered, audit, raced, transfers>>

\* The records fit the vocabulary: build_feature_vector and
\* validate_feature_frame raise no FeatureContractError.
FitsModel(e) == outcome[e] # "unknown"

\* The label the model gives them, as a level of the application.
LevelOf(e) == outcome[e]

\* Mutant: the factors name the prediction after.
FactorRowsAhead(id) == {[of |-> id + 1, feature |-> f] : f \in TopFactors}

\* The five features of the greatest importance, which is the model's and the
\* same for every student.
FactorRows(id) == {[of |-> id, feature |-> f] : f \in TopFactors}

\* predict_for_student: a second look for the enrolment, and the score.
ScoreRecords(w) ==
    /\ work[w].op = "checked"
    /\ LET e == Newest(work[w].student)
       IN  work' = [work EXCEPT ![w] =
               IF e = NoPrediction \/ ~FitsModel(e) THEN NotWorking
               ELSE [op |-> "scored", student |-> work[w].student, scored |-> e,
                     level |-> LevelOf(e)]]
    /\ UNCHANGED <<predictionData, answered, audit, raced, transfers>>

\* Mutant: the enrolment is the latest one, current or not.
LookAnyYear(w) ==
    /\ work[w].op = "scored"
    /\ LET mine == {e \in EnrolmentIds : StudentOf[e] = work[w].student}
           e == CHOOSE x \in mine : \A f \in mine : f <= x
       IN  work' = [work EXCEPT ![w] =
               [op |-> "found", enr |-> e, scored |-> work[w].scored, level |-> work[w].level]]
    /\ UNCHANGED <<predictionData, answered, audit, raced, transfers>>

\* save_prediction looks for the enrolment a third time,
LookAgain(w) ==
    /\ work[w].op = "scored"
    /\ LET e == Newest(work[w].student)
       IN  work' = [work EXCEPT ![w] =
               IF e = NoPrediction THEN NotWorking
               ELSE [op |-> "found", enr |-> e, scored |-> work[w].scored, level |-> work[w].level]]
    /\ UNCHANGED <<predictionData, answered, audit, raced, transfers>>

\* Mutant: a stored prediction of the enrolment is answered again.
StoreReusing(w) ==
    /\ work[w].op = "found"
    /\ LET old == {i \in DOMAIN predictions : predictions[i].enr = work[w].enr}
           id == IF old = {} THEN Len(predictions) + 1 ELSE CHOOSE i \in old : TRUE
       IN  /\ work' = [work EXCEPT ![w] = [op |-> "stored", id |-> id]]
           /\ predictions' = IF old # {} THEN predictions
                 ELSE Append(predictions, [enr |-> work[w].enr, level |-> work[w].level,
                        scored |-> work[w].scored, reviewed |-> FALSE])
           /\ factors' = factors \cup FactorRows(id)
    /\ UNCHANGED <<current, outcome, answered, audit, raced, transfers>>

\* and stores the prediction and its factors in one transaction.
StorePrediction(w) ==
    /\ work[w].op = "found"
    /\ LET id == Len(predictions) + 1
       IN  /\ work' = [work EXCEPT ![w] = [op |-> "stored", id |-> id]]
           /\ predictions' = Append(predictions, [enr |-> work[w].enr, level |-> work[w].level,
                  scored |-> work[w].scored, reviewed |-> FALSE])
           /\ factors' = factors \cup FactorRows(id)
    /\ UNCHANGED <<current, outcome, answered, audit, raced, transfers>>

\* The audit row, and the answer that names the prediction.
AnswerPrediction(w) ==
    /\ work[w].op = "stored"
    /\ audit' = audit \cup {work[w].id} /\ answered' = Append(answered, work[w].id)
    /\ work' = [work EXCEPT ![w] = NotWorking]
    /\ UNCHANGED <<predictionData, raced, transfers>>

-----------------------------------------------------------------------------
(* Predictions and factors by hand *)

\* What a PATCH names; validate_enrollment wants a current enrolment.
PatchBody == [field: {"level"}, to: RiskLevels] \cup [field: {"enr"}, to: current]
            \cup [field: {"reviewed"}, to: {TRUE}]

PatchRead(w, i) ==
    /\ work[w] = NotWorking
    /\ \E b \in PatchBody : work' = [work EXCEPT ![w] =
          [op |-> "patch", id |-> i, row |-> [predictions[i] EXCEPT ![b.field] = b.to],
           field |-> b.field]]
    /\ UNCHANGED <<predictionData, answered, audit, raced, transfers>>

\* Mutant: a PATCH without a review status saves the default.
PatchFresh(w) ==
    /\ work[w].op = "patch"
    /\ predictions' = [predictions EXCEPT ![work[w].id] =
          IF work[w].field = "reviewed" THEN work[w].row
          ELSE [work[w].row EXCEPT !.reviewed = FALSE]]
    /\ work' = [work EXCEPT ![w] = NotWorking]
    /\ RaceWith(Workers \ {w}) /\ UNCHANGED <<current, outcome, factors, answered, audit, transfers>>

\* instance.save() writes every column of the row that was read.
PatchSave(w) ==
    /\ work[w].op = "patch"
    /\ predictions' = [predictions EXCEPT ![work[w].id] = work[w].row]
    /\ work' = [work EXCEPT ![w] = NotWorking]
    /\ RaceWith(Workers \ {w}) /\ UNCHANGED <<current, outcome, factors, answered, audit, transfers>>

PostPrediction(e, l) ==
    /\ Len(predictions) < MaxPredictions /\ e \in current
    /\ predictions' = Append(predictions, [enr |-> e, level |-> l, scored |-> NoPrediction, reviewed |-> FALSE])
    /\ UNCHANGED <<current, outcome, factors, work, answered, audit, raced, transfers>>

\* validate_prediction looks among the predictions an administrator is given for
\* one whose primary key is the enrolment's.
FactorAllowed(i) == predictions[i].enr \in DOMAIN predictions

PostFactor(i) ==
    /\ Transfer /\ FactorAllowed(i)
    /\ factors' = factors \cup {[of |-> i, feature |-> "note"]}
    /\ UNCHANGED <<current, outcome, predictions, work, answered, audit, raced>>

\* The worker dies; an open transaction is rolled back.
DieWorking(w) ==
    /\ work[w] # NotWorking /\ work' = [work EXCEPT ![w] = NotWorking]
    /\ UNCHANGED <<predictionData, answered, audit, raced, transfers>>

-----------------------------------------------------------------------------
Transfers ==
    \/ \E e \in EnrolmentIds : EnrolAgain(e) \/ CloseEnrolment(e)
    \/ \E e \in EnrolmentIds : \E o \in {"High", "Low", "unknown"} : EncodeRecords(e, o)

Generates ==
    \/ \E w \in Workers : \E s \in Persons : CheckStudent(w, s)
    \/ \E w \in Workers :
         ScoreRecords(w) \/ LookAgain(w) \/ StorePrediction(w) \/ AnswerPrediction(w) \/ DieWorking(w)

ByHand ==
    \/ \E w \in Workers : \E i \in DOMAIN predictions : PatchRead(w, i)
    \/ \E w \in Workers : PatchSave(w)
    \/ \E e \in EnrolmentIds : \E l \in RiskLevels : PostPrediction(e, l)
    \/ \E i \in DOMAIN predictions : PostFactor(i)

PredictionNext == Transfers \/ Generates \/ ByHand

PredictionSpec == PredictionInit /\ [][PredictionNext]_predictionVars

-----------------------------------------------------------------------------
(* Properties *)

PredictionRow == [enr : EnrolmentIds, level : RiskLevels, scored : EnrolmentIds \cup {NoPrediction},
                  reviewed : BOOLEAN]

PredictionTypes ==
    /\ current \subseteq EnrolmentIds /\ outcome \in [EnrolmentIds -> {"High", "Low", "unknown"}]
    /\ predictions \in Seq(PredictionRow)
    /\ factors \subseteq [of : DOMAIN predictions, feature : TopFactors \cup {"note"}]
    /\ transfers \in 0..MaxTransfers /\ raced \in BOOLEAN

\* A prediction is stored for the enrolment whose records were scored, while
\* enrolments do not change during the request.
StoresScored ==
    ~raced => \A i \in DOMAIN predictions' \ DOMAIN predictions :
                predictions'[i].scored \in {NoPrediction, predictions'[i].enr}
ScoredItsRecords == [][StoresScored]_predictionVars

\* And that is a current one.
StoresCurrent ==
    ~raced => \A i \in DOMAIN predictions' \ DOMAIN predictions : predictions'[i].enr \in current
StoredForCurrent == [][StoresCurrent]_predictionVars

\* However requests overlap, every generation answers with a prediction of its own.
AnswersNew == \A i, j \in DOMAIN answered : answered[i] = answered[j] => i = j

\* While PATCHes do not overlap, a review is not taken back by a later change of
\* something else.
ReviewKept ==
    ~raced => \A i \in DOMAIN predictions : predictions[i].reviewed => predictions'[i].reviewed
ReviewStays == [][ReviewKept]_predictionVars
=============================================================================
