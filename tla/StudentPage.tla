---------------------------- MODULE StudentPage ----------------------------
(***************************************************************************)
(* The page of a student: the profile and the records are loaded by two    *)
(* effects, which React runs again when the address names another student  *)
(* (and the second when the user chooses a grading period).  A load whose  *)
(* effect was run again is ignored when its answer comes.  A prediction    *)
(* can be generated from the page; its answer, and the two lists read      *)
(* after it, are taken whatever the page shows by then.                    *)
(*                                                                         *)
(* A prediction is the student and a number, the newest the greatest; of   *)
(* the other records the page shows nothing is kept.                       *)
(***************************************************************************)
EXTENDS Naturals, FiniteSets

CONSTANTS
    Learners, NoStudent,
    Features,     \* factors of a prediction; numbers, in the order of their names
    PageSize,     \* rows in one page of a list
    Visits        \* visits to the page: does the user wait for a generation before
                  \* doing anything else, do other people generate predictions too, and
                  \* two bounds: addresses and periods chosen, predictions of a student

StudentConstants ==
    /\ NoStudent \notin Learners
    /\ Features \subseteq Nat /\ IsFiniteSet(Features) /\ PageSize \in Nat
    /\ Visits \subseteq [waits: BOOLEAN, others: BOOLEAN, turns: Nat, made: Nat]

ASSUME StudentAssumption == StudentConstants

VARIABLES
    visit,      \* never changes
    made,       \* made[s]: the predictions the server has of a student
    id,         \* the student in the address
    turn,       \* turn[k]: how often the effect k was run
    profile,    \* the student whose profile is held
    busy,       \* busy[k]: studentLoading; the six flags of the records
    failed,     \* failed[k]: the error of the last load
    loads,      \* loads under way
    list,       \* predictions: whose, and the newest
    factors,    \* predictionFactors
    generation, \* {} or the generation under way
    note        \* the prediction generationMessage tells of; none: n = 0

server == <<visit, made>>
studentPage == <<id, turn, profile, busy, failed, list, factors, note>>
studentVars == <<server, studentPage, loads, generation>>

Kinds == {"profile", "records"}
Factor == [of: Learners, n: Nat, feature: Features]

\* What has been read of the two lists: nothing yet, or the answer.
Unread == [preds |-> {}, rows |-> {}]

Started(k, t, s) == [kind |-> k, turn |-> t, of |-> s, got |-> Unread]

StudentInit ==
    /\ visit \in Visits
    /\ made = [s \in Learners |-> 0]
    /\ id \in Learners /\ turn = [k \in Kinds |-> 1]
    /\ profile = NoStudent /\ busy = [k \in Kinds |-> TRUE] /\ failed = [k \in Kinds |-> FALSE]
    /\ loads = {Started(k, 1, id) : k \in Kinds}
    /\ list = [of |-> NoStudent, latest |-> 0] /\ factors = {}
    /\ generation = {} /\ note = [of |-> NoStudent, n |-> 0]

-----------------------------------------------------------------------------
(* The server *)

\* save_prediction stores a prediction with its factors.
Generated(s) == made' = [made EXCEPT ![s] = @ + 1]

AllFactors(s) == [of: {s}, n: 1..made[s], feature: Features]

\* A page of the factors: PageSize of them, by feature name.
FactorPages(s) ==
    {rows \in SUBSET AllFactors(s) :
        /\ Cardinality(rows) = IF Cardinality(AllFactors(s)) < PageSize
                               THEN Cardinality(AllFactors(s)) ELSE PageSize
        /\ \A r \in rows, q \in AllFactors(s) : q.feature < r.feature => q \in rows}

OtherGenerates(s) ==
    /\ visit.others /\ made[s] < visit.made /\ Generated(s)
    /\ UNCHANGED <<visit, studentPage, loads, generation>>

-----------------------------------------------------------------------------
(* The effects *)

\* The effects of the kinds ks are run, for student s.
Run(ks, s) ==
    /\ turn' = [k \in Kinds |-> IF k \in ks THEN turn[k] + 1 ELSE turn[k]]
    /\ busy' = [k \in Kinds |-> k \in ks \/ busy[k]]
    /\ failed' = [k \in Kinds |-> k \notin ks /\ failed[k]]
    /\ loads' = loads \cup {Started(k, turn[k] + 1, s) : k \in ks}

Free == visit.waits => generation = {}

\* A link of the search drawer, or the browser's history: the page stays mounted.
Navigate(s) ==
    /\ Free /\ s # id /\ turn["records"] < visit.turns
    /\ id' = s /\ Run(Kinds, s)
    /\ UNCHANGED <<server, profile, list, factors, generation, note>>

ChoosePeriod ==
    /\ Free /\ ~busy["profile"] /\ turn["records"] < visit.turns
    /\ Run({"records"}, id)
    /\ UNCHANGED <<server, id, profile, list, factors, generation, note>>

\* The two lists are read by requests of their own.
ReadPredictions(r) == {[r EXCEPT !.got.preds = {made[r.of]}]}
ReadFactors(r) == {[r EXCEPT !.got.rows = {rows}] : rows \in FactorPages(r.of)}
Reads(r) ==
    (IF r.got.preds = {} THEN ReadPredictions(r) ELSE {})
        \cup (IF r.got.rows = {} THEN ReadFactors(r) ELSE {})

Read(l) ==
    /\ l.kind = "records" /\ \E r \in Reads(l) : loads' = (loads \ {l}) \cup {r}
    /\ UNCHANGED <<server, studentPage, generation>>

Complete(r) == r.got.preds # {} /\ r.got.rows # {}

\* Mutant: the effects have no clean-up.
ActiveAlways(l) == TRUE

\* Mutant: only the effect of the profile has a clean-up.
ActiveRecords(l) == l.kind = "records" \/ l.turn = turn[l.kind]

\* active: the effect was not run again.
Active(l) == l.turn = turn[l.kind]

\* Mutant: the flags are reset only after an answer, not after an error.
EndAnswered(l) ==
    /\ busy' = [busy EXCEPT ![l.kind] = IF l.kind = "profile" \/ Complete(l) THEN FALSE ELSE @]
    /\ loads' = loads \ {l}

\* finally: the load is over.
End(l) ==
    /\ busy' = IF Active(l) THEN [busy EXCEPT ![l.kind] = FALSE] ELSE busy
    /\ loads' = loads \ {l}

ArriveProfile(l) ==
    /\ l.kind = "profile" /\ End(l)
    /\ profile' = IF Active(l) THEN l.of ELSE profile
    /\ UNCHANGED <<server, id, turn, failed, list, factors, generation, note>>

Newest(r) == CHOOSE n \in r.got.preds : TRUE
Rows(r) == CHOOSE rows \in r.got.rows : TRUE

ArriveRecords(l) ==
    /\ l.kind = "records" /\ Complete(l) /\ End(l)
    /\ list' = IF Active(l) THEN [of |-> l.of, latest |-> Newest(l)] ELSE list
    /\ factors' = IF Active(l) THEN Rows(l) ELSE factors
    /\ UNCHANGED <<server, id, turn, profile, failed, generation, note>>

FailLoad(l) ==
    /\ End(l) /\ failed' = IF Active(l) THEN [failed EXCEPT ![l.kind] = TRUE] ELSE failed
    /\ UNCHANGED <<server, id, turn, profile, list, factors, generation, note>>

-----------------------------------------------------------------------------
(* Generating a prediction *)

\* Mutant: the button stays enabled while a generation is under way.
PressAgain ==
    /\ ~busy["profile"] /\ ~failed["profile"]
    /\ (visit.waits => loads = {})
    /\ made[id] < visit.made
    /\ generation' = generation \cup {[of |-> id, n |-> 0, got |-> Unread]}
    /\ note' = [of |-> NoStudent, n |-> 0] /\ failed' = [failed EXCEPT !["records"] = FALSE]
    /\ UNCHANGED <<server, id, turn, profile, busy, loads, list, factors>>

\* handleGeneratePrediction; generatingPrediction keeps a second one from starting.
Press ==
    /\ ~busy["profile"] /\ ~failed["profile"] /\ generation = {}
    /\ visit.waits => loads = {}
    /\ made[id] < visit.made
    /\ generation' = {[of |-> id, n |-> 0, got |-> Unread]}
    /\ note' = [of |-> NoStudent, n |-> 0] /\ failed' = [failed EXCEPT !["records"] = FALSE]
    /\ UNCHANGED <<server, id, turn, profile, busy, loads, list, factors>>

ServeGeneration(g) ==
    /\ g.n = 0 /\ made[g.of] < visit.made /\ Generated(g.of)
    /\ generation' = {[g EXCEPT !.n = made[g.of] + 1]}
    /\ UNCHANGED <<visit, studentPage, loads>>

\* Mutant: the lists are asked for before the generation is answered.
ReadGenerationEarly(g) ==
    /\ g.n = 0 /\ \E r \in Reads(g) : generation' = {r}
    /\ UNCHANGED <<server, studentPage, loads>>

ReadGeneration(g) ==
    /\ g.n > 0 /\ \E r \in Reads(g) : generation' = {r}
    /\ UNCHANGED <<server, studentPage, loads>>

\* Mutant: the button is enabled again only by a reload of the page.
EndGenerationNever == UNCHANGED generation

\* finally: the button is enabled again.
EndGeneration == generation' = {}

\* Mutant: only the predictions are set.
ArriveGenerationBare(g) ==
    /\ g.n > 0 /\ Complete(g) /\ EndGeneration
    /\ list' = [of |-> g.of, latest |-> Newest(g)] /\ note' = [of |-> g.of, n |-> g.n]
    /\ UNCHANGED <<server, id, turn, profile, busy, failed, loads, factors>>

ArriveGeneration(g) ==
    /\ g.n > 0 /\ Complete(g) /\ EndGeneration
    /\ list' = [of |-> g.of, latest |-> Newest(g)] /\ factors' = Rows(g)
    /\ note' = [of |-> g.of, n |-> g.n]
    /\ UNCHANGED <<server, id, turn, profile, busy, failed, loads>>

FailGeneration(g) ==
    /\ EndGeneration /\ failed' = [failed EXCEPT !["records"] = TRUE]
    /\ UNCHANGED <<server, id, turn, profile, busy, loads, list, factors, note>>

Finish(l) == ArriveProfile(l) \/ ArriveRecords(l) \/ FailLoad(l)
Advance(g) == ServeGeneration(g) \/ ReadGeneration(g)
Conclude(g) == ArriveGeneration(g) \/ FailGeneration(g)

StudentNext ==
    \/ \E s \in Learners : Navigate(s) \/ OtherGenerates(s)
    \/ ChoosePeriod \/ Press
    \/ \E l \in loads : Read(l) \/ Finish(l)
    \/ \E g \in generation : Advance(g) \/ Conclude(g)

StudentSpec == StudentInit /\ [][StudentNext]_studentVars

-----------------------------------------------------------------------------
(* Properties *)

Ids == Learners \cup {NoStudent}
Got == [preds: SUBSET Nat, rows: SUBSET SUBSET Factor]

StudentTypes ==
    /\ visit \in Visits /\ made \in [Learners -> Nat] /\ id \in Learners /\ profile \in Ids
    /\ turn \in [Kinds -> Nat] /\ busy \in [Kinds -> BOOLEAN] /\ failed \in [Kinds -> BOOLEAN]
    /\ list \in [of: Ids, latest: Nat] /\ factors \subseteq Factor /\ note \in [of: Ids, n: Nat]
    /\ loads \subseteq [kind: Kinds, turn: Nat, of: Learners, got: Got]
    /\ generation \subseteq [of: Learners, n: Nat, got: Got]
    /\ \A g, h \in generation : g = h

\* When the profile is there it is that of the student in the address, although
\* loads of other students are answered in any order.
ProfileOfStudent == ~busy["profile"] /\ ~failed["profile"] => profile = id

\* So are the predictions and their factors when nothing is under way, unless their last
\* load failed: the page then keeps the lists it had, and its header and its overview
\* show the prediction of the student before.
ListsOfStudent ==
    ~busy["records"] /\ ~failed["records"] /\ generation = {} =>
        list.of = id /\ \A f \in factors : f.of = id

\* While the page says that a prediction was generated, the newest one it shows is
\* that prediction or a later one.
GeneratedShown ==
    note.n > 0 /\ note.of = id /\ ~busy["records"] /\ ~failed["records"]
        => list.of = id /\ list.latest >= note.n

\* The newest prediction is shown with all its factors, while those of the student
\* are one page of the list.
FactorsShown ==
    list.of # NoStudent /\ list.latest > 0 /\ Cardinality(AllFactors(list.of)) <= PageSize =>
        {f.feature : f \in {x \in factors : x.of = list.of /\ x.n = list.latest}} = Features

\* The profile is that of the student in the address however the user hurries; the
\* lists, the prediction that was generated and its factors, if the user waits.
PageOfStudent ==
    /\ StudentTypes /\ ProfileOfStudent
    /\ visit.waits => ListsOfStudent /\ GeneratedShown
    /\ visit.waits /\ ~visit.others => FactorsShown
=============================================================================
