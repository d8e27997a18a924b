------------------------- MODULE Monitoring_proofs -------------------------
(***************************************************************************)
(* Theorems about the components of Monitoring, each for every instance:   *)
(* PeriodRecords, for any teachers, students, items, periods and grades;   *)
(* Notifications, for any users and entries of the calendar; Predictions,  *)
(* for any enrolments of any students; AttendanceRecords, for any          *)
(* enrolments and days, and any tables found; CalendarDays, for any        *)
(* entries, definitions and holidays; and for each any number of           *)
(* overlapping requests.                                                   *)
(***************************************************************************)
EXTENDS Monitoring, FiniteSetTheorems, SequenceTheorems, TLAPS

-----------------------------------------------------------------------------
(* Grades and observed values *)

\* What is about to be saved was asked for; and an update is of the record found by its
\* key, or named without another key, until the record is refiled.
RequestOK(s) == \A p \in req[s] :
    /\ p.row \in sent
    /\ p.id \notin refiled \cup {NoId} => \E r \in records[p.id] : r.key = p.row.key

IndInv == TypeOK /\ GradeWasSent /\ \A s \in Slots : RequestOK(s)

-----------------------------------------------------------------------------
(* The handlers *)

\* Updates are of records that are there, and under their key unless they move.
PutsFit(puts, away) ==
    /\ puts \in SUBSET Put /\ away \in SUBSET Ids
    /\ \A p \in puts : p.id # NoId => p.id \in Used
    /\ \A p \in puts : p.id \notin away \cup {NoId} => p.id \in Matching(p.row.key)

\* A new record has a key of which there was no record that stays, and no other put is
\* for the same record.
PutsNew(puts, away) ==
    /\ \A p \in puts : p.id = NoId => Matching(p.row.key) \subseteq away
    /\ \A p, q \in puts : p.id = q.id /\ (p.id # NoId \/ p.row.key = q.row.key) => p = q

\* A record found is a put of the transaction, or of the table without a put.
LEMMA FoundRecord ==
    ASSUME NEW puts, NEW p, NEW f \in FoundRecords(puts, p)
    PROVE  /\ IF p.id # NoId THEN f.id = p.id ELSE f.row.key = p.row.key
           /\ \/ f \in puts
              \/ f.id \in Ids /\ f.row \in records[f.id] /\ \A o \in puts : o.id # f.id
<1>1. f \in Table(puts) /\ IF p.id # NoId THEN f.id = p.id ELSE f.row.key = p.row.key
  BY DEF FoundRecords
<1>2. ASSUME f \notin puts
      PROVE  f.id \in Ids /\ f.row \in records[f.id] /\ \A o \in puts : o.id # f.id
  <2>1. PICK i \in Ids : (\A o \in puts : o.id # i) /\ f \in {[id |-> i, row |-> r] : r \in records[i]}
    BY <1>1, <1>2 DEF Table
  <2>2. PICK r \in records[i] : f = [id |-> i, row |-> r]
    BY <2>1
  <2> QED
    BY <2>1, <2>2
<1> QED
  BY <1>1, <1>2

\* And every record with the key is found.
LEMMA RecordFound ==
    ASSUME NEW puts, NEW p, p.id = NoId
    PROVE  /\ \A o \in puts : o.row.key = p.row.key => o \in FoundRecords(puts, p)
           /\ \A i \in Ids : \A r \in records[i] :
                r.key = p.row.key /\ (\A o \in puts : o.id # i) => FoundRecords(puts, p) # {}
<1>1. ASSUME NEW o \in puts, o.row.key = p.row.key PROVE o \in FoundRecords(puts, p)
  BY <1>1 DEF FoundRecords, Table
<1>2. ASSUME NEW i \in Ids, NEW r \in records[i], r.key = p.row.key, \A o \in puts : o.id # i
      PROVE  FoundRecords(puts, p) # {}
  <2>1. PICK f : f = [id |-> i, row |-> r]
    OBVIOUS
  <2>2. f \in Table(puts)
    BY <1>2, <2>1 DEF Table
  <2>3. f.row.key = p.row.key
    BY <1>2, <2>1
  <2> QED
    BY <2>2, <2>3 DEF FoundRecords
<1> QED
  BY <1>1, <1>2

\* One more put leaves the puts of a transaction in order.
LEMMA OneMorePut ==
    ASSUME TypeOK, NEW puts, NEW away, PutsFit(puts, away), PutsNew(puts, away),
           NEW p \in Put, NEW new \in WithPut(puts, p)
    PROVE  LET gone == away \cup Moves(puts, p)
           IN  PutsFit(new, gone) /\ PutsNew(new, gone)
<1> DEFINE gone == away \cup Moves(puts, p)
<1>1. /\ NoId \notin Ids /\ p.id \in Ids \cup {NoId} /\ p.row \in Row
      /\ gone \in SUBSET Ids /\ away \subseteq gone
      /\ records \in [Ids -> {{}} \cup {{r} : r \in Row}]
  BY PeriodRecordsAssumption DEF PeriodRecordsConstants, Put, Moves, PutsFit, TypeOK
<1>2. CASE p.id = NoId /\ FoundRecords(puts, p) = {}
  <2>1. new = puts \cup {p}
    BY <1>2 DEF WithPut
  <2>2. ASSUME NEW i \in Ids, NEW r \in records[i], r.key = p.row.key PROVE i \in away
    <3>1. PICK o \in puts : o.id = i
      BY <1>2, <2>2, RecordFound
    <3>2. o.row.key # p.row.key
      BY <1>2, <3>1, RecordFound
    <3>3. i \notin away => \E q \in records[i] : q.key = o.row.key
      BY <1>1, <3>1 DEF PutsFit, Matching
    <3>4. \A q \in records[i] : q = r
      BY <1>1, <2>2
    <3> QED
      BY <2>2, <3>2, <3>3, <3>4
  <2>3. Matching(p.row.key) \subseteq away
    BY <2>2 DEF Matching
  <2>4. \A o \in puts : o.row.key # p.row.key
    BY <1>2, RecordFound
  <2>5. PutsFit(new, gone)
    BY <1>1, <1>2, <2>1 DEF PutsFit
  <2>6. PutsNew(new, gone)
    BY <1>1, <1>2, <2>1, <2>3, <2>4 DEF PutsNew
  <2> QED
    BY <2>5, <2>6
<1>3. CASE ~(p.id = NoId /\ FoundRecords(puts, p) = {})
  <2>1. PICK f \in FoundRecords(puts, p) : new = (puts \ {f}) \cup {[id |-> f.id, row |-> p.row]}
    BY <1>3 DEF WithPut, Targets, LastCreated
  <2>2. /\ IF p.id # NoId THEN f.id = p.id ELSE f.row.key = p.row.key
        /\ \/ f \in puts
           \/ f.id \in Ids /\ f.row \in records[f.id] /\ \A o \in puts : o.id # f.id
    BY FoundRecord
  <2>3. PICK n : n = [id |-> f.id, row |-> p.row]
    OBVIOUS
  <2>4. n.id = f.id /\ n.row = p.row /\ new = (puts \ {f}) \cup {n}
    BY <2>1, <2>3
  <2>5. f.id \in Ids \cup {NoId} /\ (f.id # NoId => f.id \in Used)
    BY <2>2 DEF PutsFit, Put, Used
  <2>6. n \in Put
    BY <1>1, <2>3, <2>5 DEF Put
  <2>7. f.id \notin gone \cup {NoId} => f.id \in Matching(p.row.key)
    <3> SUFFICES ASSUME f.id \notin gone \cup {NoId} PROVE f.id \in Matching(p.row.key)
      OBVIOUS
    <3>1. f.row.key = p.row.key
      BY <2>1, <2>2 DEF Moves
    <3> QED
      BY <1>1, <2>2, <3>1 DEF PutsFit, Matching
  <2>8. PutsFit(new, gone)
    BY <1>1, <2>4, <2>5, <2>6, <2>7 DEF PutsFit
  <2>9. f.id = NoId => f \in puts /\ f.row.key = p.row.key
    BY <1>1, <2>2
  <2>10. \A o \in puts \ {f} :
           ~(o.id = f.id /\ (o.id # NoId \/ o.row.key = p.row.key))
    BY <2>2, <2>9 DEF PutsNew
  <2>11. PutsNew(new, gone)
    <3>1. \A o \in new : o.id = NoId => Matching(o.row.key) \subseteq gone
      BY <1>1, <2>4, <2>9 DEF PutsNew
    <3>2. \A o \in new, q \in new :
            o.id = q.id /\ (o.id # NoId \/ o.row.key = q.row.key) => o = q
      BY <2>4, <2>10 DEF PutsNew
    <3> QED
      BY <3>1, <3>2 DEF PutsNew
  <2> QED
    BY <2>8, <2>11
<1> QED
  BY <1>2, <1>3

\* The puts of each handler: of which record, and with which key.
LEMMA HandlerPuts ==
    ASSUME TypeOK, NEW s \in Slots, Post(s) \/ Patch(s) \/ Bulk(s)
    PROVE  \E puts, away :
             /\ Prepare(s, puts, away) /\ open
             /\ PutsFit(puts, away) /\ (LooksFirst => PutsNew(puts, away))
<1>1. \A u, k : Allowed(u, k) => open
  BY DEF Allowed, GradeAllowed, AssessmentAllowed
<1>2. CASE Post(s)
  <2>1. PICK r \in Row : /\ open /\ (Kind = "grade" => Matching(r.key) = {})
                         /\ Prepare(s, {[id |-> NoId, row |-> r]}, {})
    BY <1>1, <1>2 DEF Post
  <2>2. LooksFirst => Matching(r.key) = {}
    BY <1>2, <2>1 DEF Post, LooksFirst
  <2>3. PICK p : p = [id |-> NoId, row |-> r]
    OBVIOUS
  <2>4. p \in Put /\ p.id = NoId /\ p.row = r
    BY <2>3 DEF Put
  <2>5. PutsFit({p}, {}) /\ (LooksFirst => PutsNew({p}, {}))
    BY <2>2, <2>4 DEF PutsFit, PutsNew
  <2> QED
    BY <2>1, <2>3, <2>5
<1>3. PutsFit({}, {}) /\ PutsNew({}, {})
  BY DEF PutsFit, PutsNew
<1>4. ASSUME NEW p \in Put, NEW one \in WithPut({}, p)
      PROVE  PutsFit(one, Moves({}, p)) /\ PutsNew(one, Moves({}, p))
  BY <1>3, OneMorePut
<1>5. CASE Patch(s)
  <2>1. PICK p \in Put : \E one \in WithPut({}, p) : open /\ Prepare(s, one, Moves({}, p))
    BY <1>1, <1>5 DEF Patch
  <2> QED
    BY <1>4, <2>1
<1>6. CASE Bulk(s)
  <2>1. PICK p \in Put : \E one \in WithPut({}, p) :
          /\ open
          /\ \/ Prepare(s, one, Moves({}, p))
             \/ \E q \in Put : \E two \in WithPut(one, q) :
                  Prepare(s, two, Moves({}, p) \cup Moves(one, q))
    BY <1>1, <1>6 DEF Bulk
  <2>2. PICK one \in WithPut({}, p) :
          /\ open
          /\ \/ Prepare(s, one, Moves({}, p))
             \/ \E q \in Put : \E two \in WithPut(one, q) :
                  Prepare(s, two, Moves({}, p) \cup Moves(one, q))
    BY <2>1
  <2>3. CASE Prepare(s, one, Moves({}, p))
    BY <1>4, <2>2, <2>3
  <2>4. ASSUME NEW q \in Put, NEW two \in WithPut(one, q),
               Prepare(s, two, Moves({}, p) \cup Moves(one, q))
        PROVE  \E puts, away :
                 /\ Prepare(s, puts, away) /\ open
                 /\ PutsFit(puts, away) /\ (LooksFirst => PutsNew(puts, away))
    <3>1. LET gone == Moves({}, p) \cup Moves(one, q)
          IN  PutsFit(two, gone) /\ PutsNew(two, gone)
      BY <1>4, OneMorePut
    <3> QED
      BY <2>2, <2>4, <3>1
  <2> QED
    BY <2>2, <2>3, <2>4
<1> QED
  BY <1>2, <1>5, <1>6

\* The save: every record of the table is as it was, or one of those sent, new
\* or in the place of the record that was found.
SaveEffect(s, f) ==
    /\ \A p, q \in req[s] : f[p] = f[q] => p = q
    /\ \A p \in req[s] : IF p.id = NoId THEN f[p] \notin Used ELSE f[p] = p.id
    /\ \A p \in req[s] : records'[f[p]] = {p.row}
    /\ \A i \in Ids : (\A p \in req[s] : f[p] # i) => records'[i] = records[i]

LEMMA SaveRows ==
    ASSUME TypeOK, NEW s \in Slots, Save(s)
    PROVE  /\ records' \in [Ids -> {{}} \cup {{r} : r \in Row}]
           /\ \E f \in [req[s] -> Ids] : SaveEffect(s, f)
<1>1. PICK f \in [req[s] -> Ids] :
        /\ \A p, q \in req[s] : f[p] = f[q] => p = q
        /\ \A p \in req[s] : IF p.id = NoId THEN f[p] \notin Used ELSE f[p] = p.id
        /\ records' = [i \in Ids |->
             IF \E p \in req[s] : f[p] = i
             THEN {p.row : p \in {q \in req[s] : f[q] = i}} ELSE records[i]]
  BY DEF Save
<1>2. req[s] \subseteq Put /\ records \in [Ids -> {{}} \cup {{r} : r \in Row}]
  BY DEF TypeOK
<1>3. ASSUME NEW p \in req[s] PROVE records'[f[p]] = {p.row}
  <2>1. {q \in req[s] : f[q] = f[p]} = {p}
    BY <1>1
  <2>2. records'[f[p]] = {q.row : q \in {p}}
    BY <1>1, <2>1
  <2> QED
    BY <2>2
<1>4. \A i \in Ids : (\A p \in req[s] : f[p] # i) => records'[i] = records[i]
  BY <1>1
<1>5. ASSUME NEW i \in Ids PROVE records'[i] \in {{}} \cup {{r} : r \in Row}
  <2>1. CASE \E p \in req[s] : f[p] = i
    <3>1. PICK p \in req[s] : f[p] = i
      BY <2>1
    <3>2. p.row \in Row
      BY <1>2 DEF Put
    <3> QED
      BY <1>3, <3>1, <3>2
  <2>2. CASE \A p \in req[s] : f[p] # i
    BY <1>2, <1>4, <2>2
  <2> QED
    BY <2>1, <2>2
<1>6. records' \in [Ids -> {{}} \cup {{r} : r \in Row}]
  BY <1>1, <1>5
<1> QED
  BY <1>1, <1>3, <1>4, <1>6 DEF SaveEffect

\* A handler that reads and checks, and means to save puts.
LEMMA PrepareOK ==
    ASSUME IndInv, NEW s \in Slots, NEW puts, NEW away, Prepare(s, puts, away),
           PutsFit(puts, away)
    PROVE  IndInv'
<1>1. /\ req' = [req EXCEPT ![s] = puts] /\ sent' = sent \cup {p.row : p \in puts}
      /\ records' = records /\ teaches' = teaches /\ open' = open
      /\ refiled' = refiled \cup away
      /\ req \in [Slots -> SUBSET Put]
  BY DEF Prepare, IndInv, TypeOK
<1>2. {p.row : p \in puts} \subseteq Row /\ puts \in SUBSET Put /\ away \subseteq Ids
  BY DEF Put, PutsFit
<1>3. TypeOK'
  BY <1>1, <1>2 DEF IndInv, TypeOK
<1>4. GradeWasSent'
  BY <1>1 DEF IndInv, GradeWasSent, Rows
<1>5. ASSUME NEW x \in Slots PROVE RequestOK(x)'
  <2>1. CASE x = s
    <3>1. req'[x] = puts
      BY <1>1, <2>1
    <3> QED
      BY <1>1, <3>1 DEF RequestOK, Matching, PutsFit
  <2>2. CASE x # s
    <3>1. req'[x] = req[x]
      BY <1>1, <2>2
    <3> QED
      BY <1>1, <3>1 DEF IndInv, RequestOK
  <2> QED
    BY <2>1, <2>2
<1> QED
  BY <1>3, <1>4, <1>5 DEF IndInv

\* A save keeps the key of every record that is not refiled.
LEMMA SaveKeepsKeys ==
    ASSUME IndInv, NEW s \in Slots, Save(s)
    PROVE  \A i \in Ids \ refiled : \A r \in records[i] : \E q \in records'[i] : q.key = r.key
<1>1. PICK f \in [req[s] -> Ids] : SaveEffect(s, f)
  BY SaveRows DEF IndInv
<1>2. RequestOK(s) /\ records \in [Ids -> {{}} \cup {{r} : r \in Row}]
  BY DEF IndInv, TypeOK
<1> SUFFICES ASSUME NEW i \in Ids \ refiled, NEW r \in records[i]
             PROVE  \E q \in records'[i] : q.key = r.key
  OBVIOUS
<1>3. CASE \E p \in req[s] : f[p] = i
  <2>1. PICK p \in req[s] : f[p] = i
    BY <1>3
  <2>2. p.id = i /\ p.id # NoId /\ records'[i] = {p.row}
    BY <1>1, <2>1 DEF SaveEffect, Used
  <2>3. PICK q \in records[i] : q.key = p.row.key
    BY <1>2, <2>1, <2>2 DEF RequestOK
  <2>4. q = r
    BY <1>2, <2>3
  <2> QED
    BY <2>2, <2>3, <2>4
<1>4. CASE \A p \in req[s] : f[p] # i
  BY <1>1, <1>4 DEF SaveEffect
<1> QED
  BY <1>3, <1>4

LEMMA SaveOK ==
    ASSUME IndInv, NEW s \in Slots, Save(s)
    PROVE  IndInv'
<1>1. /\ req' = [req EXCEPT ![s] = {}] /\ sent' = sent /\ teaches' = teaches /\ open' = open
      /\ refiled' = refiled /\ RequestOK(s) /\ TypeOK
  BY DEF Save, IndInv
<1>2. TypeOK'
  BY <1>1, SaveRows DEF TypeOK
<1>3. PICK f \in [req[s] -> Ids] : SaveEffect(s, f)
  BY <1>1, SaveRows
<1>4. GradeWasSent'
  <2> SUFFICES ASSUME NEW i \in Ids, NEW r \in records'[i] PROVE r \in sent
    BY <1>1 DEF GradeWasSent, Rows
  <2>1. CASE \E p \in req[s] : f[p] = i
    <3>1. PICK p \in req[s] : f[p] = i
      BY <2>1
    <3>2. r = p.row
      BY <1>3, <3>1 DEF SaveEffect
    <3> QED
      BY <1>1, <3>2 DEF RequestOK
  <2>2. CASE \A p \in req[s] : f[p] # i
    BY <1>3, <2>2 DEF SaveEffect, IndInv, GradeWasSent, Rows
  <2> QED
    BY <2>1, <2>2
<1>5. ASSUME NEW x \in Slots PROVE RequestOK(x)'
  <2>1. CASE x = s
    BY <1>1, <2>1 DEF RequestOK, TypeOK
  <2>2. CASE x # s
    <3>1. req'[x] = req[x] /\ RequestOK(x) /\ req[x] \subseteq Put
      BY <1>1, <2>2 DEF TypeOK, IndInv
    <3>2. ASSUME NEW p \in req[x], p.id \notin refiled \cup {NoId}
          PROVE  \E q \in records'[p.id] : q.key = p.row.key
      <4>1. PICK r \in records[p.id] : r.key = p.row.key
        BY <3>1, <3>2 DEF RequestOK
      <4>2. p.id \in Ids
        BY <3>1, <3>2 DEF Put
      <4> QED
        BY <3>2, <4>1, <4>2, SaveKeepsKeys
    <3> QED
      BY <1>1, <3>1, <3>2 DEF RequestOK
  <2> QED
    BY <2>1, <2>2
<1> QED
  BY <1>2, <1>4, <1>5 DEF IndInv

-----------------------------------------------------------------------------
(* The invariant *)

\* A table without records satisfies the invariant.
THEOREM InitOK == Init => IndInv
BY DEF Init, IndInv, TypeOK, GradeWasSent, Rows, RequestOK

\* Every step keeps it.
THEOREM NextOK == IndInv /\ [Next]_vars => IndInv'
<1> SUFFICES ASSUME IndInv, [Next]_vars PROVE IndInv'
  OBVIOUS
<1>1. ASSUME NEW s \in Slots, Post(s) \/ Patch(s) \/ Bulk(s) PROVE IndInv'
  BY <1>1, HandlerPuts, PrepareOK DEF IndInv
<1>2. ASSUME NEW s \in Slots, Abandon(s) \/ Reassign(s) \/ Archive(s) PROVE IndInv'
  <2>1. /\ records' = records /\ sent' = sent /\ refiled' = refiled
        /\ \A x \in Slots : req'[x] = req[x] \/ req'[x] = {}
    BY <1>2 DEF Abandon, Reassign, Archive, IndInv, TypeOK
  <2>2. TypeOK'
    <3>1. CASE Abandon(s)
      BY <3>1 DEF Abandon, IndInv, TypeOK
    <3>2. CASE Reassign(s)
      BY <3>2 DEF Reassign, IndInv, TypeOK
    <3>3. CASE Archive(s)
      BY <3>3 DEF Archive, IndInv, TypeOK
    <3> QED
      BY <1>2, <3>1, <3>2, <3>3
  <2> QED
    BY <2>1, <2>2 DEF IndInv, GradeWasSent, Rows, RequestOK
<1>3. CASE UNCHANGED vars
  BY <1>3 DEF vars, IndInv, TypeOK, GradeWasSent, Rows, RequestOK
<1> QED
  BY <1>1, <1>2, <1>3, SaveOK DEF Next

\* The inductive invariant, for any number of overlapping requests.
THEOREM Invariance == Spec => []IndInv
BY InitOK, NextOK, PTL DEF Spec

-----------------------------------------------------------------------------
(* Requests one at a time *)

\* The year is open until a request has saved; and where every handler looks for
\* the record of a key first, what it found there is still all there is, but for records
\* that are refiled.
SerialRequestOK(s) ==
    /\ req[s] # {} => open
    /\ LooksFirst =>
         /\ \A p \in req[s] : IF p.id = NoId THEN Matching(p.row.key) \subseteq refiled
                              ELSE p.id \in refiled \/ p.id \in Matching(p.row.key)
         /\ \A p, q \in req[s] : p.row.key = q.row.key /\ p.id \notin refiled /\ q.id \notin refiled
                                 => p = q

KeysApart ==
    \A i, j \in Ids \ refiled : \A r \in records[i], q \in records[j] : r.key = q.key => i = j

SerialInv ==
    /\ LooksFirst => KeysApart
    /\ \A s \in Slots : SerialRequestOK(s)

\* A save of records that were looked for leaves one for each key.
LEMMA SaveApart ==
    ASSUME IndInv, SerialInv, LooksFirst, NEW s \in Slots, Save(s)
    PROVE  KeysApart'
<1>1. PICK f \in [req[s] -> Ids] : SaveEffect(s, f)
  BY SaveRows DEF IndInv
<1>2. /\ KeysApart /\ SerialRequestOK(s) /\ records \in [Ids -> {{}} \cup {{r} : r \in Row}]
      /\ refiled' = refiled /\ refiled \subseteq Ids /\ NoId \notin Ids
  BY PeriodRecordsAssumption DEF PeriodRecordsConstants, SerialInv, IndInv, TypeOK, Save
<1>0. \A p \in req[s] : p.id = NoId \/ p.id = f[p]
  BY <1>1 DEF SaveEffect
<1>3. ASSUME NEW i \in Ids \ refiled, NEW j \in Ids \ refiled,
             NEW r \in records'[i], NEW q \in records'[j], r.key = q.key, NEW p \in req[s], f[p] = i
      PROVE  i = j
  <2>1. r = p.row
    BY <1>1, <1>3 DEF SaveEffect
  <2>2. CASE \E o \in req[s] : f[o] = j
    <3>1. PICK o \in req[s] : f[o] = j
      BY <2>2
    <3>2. q = o.row
      BY <1>1, <1>3, <3>1 DEF SaveEffect
    <3>3. p = o
      BY <1>0, <1>2, <1>3, <2>1, <3>1, <3>2 DEF SerialRequestOK
    <3> QED
      BY <1>3, <3>1, <3>3
  <2>3. CASE \A o \in req[s] : f[o] # j
    <3>1. q \in records[j]
      BY <1>1, <1>3, <2>3 DEF SaveEffect
    <3>2. j \in Matching(p.row.key)
      BY <1>3, <2>1, <3>1 DEF Matching
    <3>3. p.id # NoId /\ p.id \in Matching(p.row.key)
      BY <1>0, <1>2, <1>3, <3>2 DEF SerialRequestOK
    <3>4. p.id = i
      BY <1>0, <1>3, <3>3
    <3> QED
      BY <1>2, <3>2, <3>3, <3>4 DEF Matching, KeysApart
  <2> QED
    BY <2>2, <2>3
<1>4. ASSUME NEW i \in Ids \ refiled, NEW j \in Ids \ refiled,
             NEW r \in records'[i], NEW q \in records'[j],
             r.key = q.key, \A p \in req[s] : f[p] # i, \A p \in req[s] : f[p] # j
      PROVE  i = j
  <2>1. r \in records[i] /\ q \in records[j]
    BY <1>1, <1>4 DEF SaveEffect
  <2> QED
    BY <1>2, <1>4, <2>1 DEF KeysApart
<1>5. ASSUME NEW i \in Ids \ refiled, NEW j \in Ids \ refiled,
             NEW r \in records'[i], NEW q \in records'[j],
             r.key = q.key
      PROVE  i = j
  <2>1. CASE \E p \in req[s] : f[p] = i
    BY <1>3, <1>5, <2>1
  <2>2. CASE \E p \in req[s] : f[p] = j
    BY <1>3, <1>5, <2>2
  <2> QED
    BY <1>4, <1>5, <2>1, <2>2
<1> QED
  BY <1>2, <1>5 DEF KeysApart

\* Each step, taken alone.
LEMMA StepSerial ==
    ASSUME OneAtATime, IndInv, SerialInv, [Next]_vars
    PROVE  SerialInv' /\ Kept
<1>1. req \in [Slots -> SUBSET Put] /\ \A x, s \in Slots : x = s
  BY DEF OneAtATime, IndInv, TypeOK
<1>2. ASSUME NEW s \in Slots, Post(s) \/ Patch(s) \/ Bulk(s) PROVE SerialInv' /\ Kept
  <2>1. PICK puts, away :
          /\ Prepare(s, puts, away) /\ open
          /\ PutsFit(puts, away) /\ (LooksFirst => PutsNew(puts, away))
    BY <1>2, HandlerPuts DEF IndInv
  <2>2. req'[s] = puts /\ records' = records /\ open' = open /\ refiled' = refiled \cup away
    BY <1>1, <2>1 DEF Prepare
  <2>3. LooksFirst => KeysApart'
    BY <2>2 DEF SerialInv, KeysApart
  <2>4. puts \in SUBSET Put /\ NoId \notin Ids /\ refiled' \subseteq Ids
    BY <2>1, <2>2, PeriodRecordsAssumption
       DEF PeriodRecordsConstants, PutsFit, IndInv, TypeOK
  <2>5. ASSUME LooksFirst, NEW p \in puts, NEW q \in puts, p.row.key = q.row.key,
               p.id \notin refiled', q.id \notin refiled'
        PROVE  p = q
    <3>1. PutsNew(puts, away) /\ PutsFit(puts, away) /\ p.id \notin away /\ q.id \notin away
      BY <2>1, <2>2, <2>5
    <3>2. CASE p.id = NoId /\ q.id = NoId
      BY <2>5, <3>1, <3>2 DEF PutsNew
    <3>3. CASE p.id # NoId /\ q.id # NoId
      <4>1. p.id \in Matching(p.row.key) /\ q.id \in Matching(p.row.key)
        BY <2>5, <3>1, <3>3 DEF PutsFit
      <4>2. p.id = q.id
        BY <2>2, <2>3, <2>5, <4>1 DEF KeysApart, Matching
      <4> QED
        BY <3>1, <3>3, <4>2 DEF PutsNew
    <3>4. CASE p.id = NoId /\ q.id # NoId
      BY <2>5, <3>1, <3>4 DEF PutsFit, PutsNew
    <3>5. CASE p.id # NoId /\ q.id = NoId
      BY <2>5, <3>1, <3>5 DEF PutsFit, PutsNew
    <3> QED
      BY <3>2, <3>3, <3>4, <3>5
  <2>6. ASSUME LooksFirst, NEW p \in puts
        PROVE  IF p.id = NoId THEN Matching(p.row.key) \subseteq refiled'
               ELSE p.id \in refiled' \/ p.id \in Matching(p.row.key)
    BY <2>1, <2>2, <2>6 DEF PutsFit, PutsNew
  <2>7. SerialRequestOK(s)'
    BY <2>1, <2>2, <2>5, <2>6 DEF SerialRequestOK, LooksFirst, Matching
  <2> QED
    BY <1>1, <2>2, <2>3, <2>7 DEF SerialInv, Kept
<1>3. ASSUME NEW s \in Slots, Save(s) PROVE SerialInv' /\ Kept
  <2>1. req'[s] = {} /\ open
    BY <1>1, <1>3 DEF Save, SerialInv, SerialRequestOK
  <2>2. SerialRequestOK(s)'
    BY <2>1 DEF SerialRequestOK
  <2>3. LooksFirst => KeysApart'
    BY <1>3, SaveApart
  <2> QED
    BY <1>1, <2>1, <2>2, <2>3 DEF SerialInv, Kept
<1>4. ASSUME NEW s \in Slots, Abandon(s) \/ Reassign(s) \/ Archive(s) PROVE SerialInv' /\ Kept
  <2>1. req'[s] = {} /\ records' = records /\ refiled' = refiled
    BY <1>1, <1>4 DEF Abandon, Reassign, Archive
  <2>2. SerialRequestOK(s)'
    BY <2>1 DEF SerialRequestOK
  <2> QED
    BY <1>1, <2>1, <2>2 DEF SerialInv, KeysApart, Kept
<1>5. CASE UNCHANGED vars
  BY <1>5 DEF vars, SerialInv, SerialRequestOK, KeysApart, Matching, Kept
<1> QED
  BY <1>2, <1>3, <1>4, <1>5 DEF Next

\* The invariant of requests that do not overlap.
THEOREM SerialInvariance ==
    ASSUME OneAtATime PROVE Spec => []SerialInv
<1>1. Init => SerialInv
  BY DEF Init, SerialInv, SerialRequestOK, KeysApart
<1> QED
  BY <1>1, StepSerial, Invariance, PTL DEF Spec

-----------------------------------------------------------------------------
(* The theorems *)

\* Records whose keys differ are counted once.
LEMMA OneEach ==
    ASSUME KeysApart PROVE OneRecordPerPeriod
<1> SUFFICES ASSUME NEW k \in Key PROVE Cardinality(Matching(k) \ refiled) <= 1
  BY DEF OneRecordPerPeriod
<1>1. CASE Matching(k) \ refiled = {}
  BY <1>1, FS_EmptySet
<1>2. CASE Matching(k) \ refiled # {}
  <2>1. PICK i : Matching(k) \ refiled = {i}
    BY <1>2 DEF KeysApart, Matching
  <2>2. Cardinality(Matching(k) \ refiled) = 1
    BY <2>1, FS_Singleton, Zenon
  <2> QED
    BY <2>2
<1> QED
  BY <1>1, <1>2

\* However requests overlap, a grade stands where somebody entered it; one at a
\* time, requests that look first never record a student, item and period twice.
THEOREM RecordsAreInOrder == Spec => []RecordsInOrder
<1>1. CASE OneAtATime
  <2>1. IndInv /\ SerialInv => RecordsInOrder
    BY OneEach DEF IndInv, SerialInv, RecordsInOrder
  <2> QED
    BY <1>1, <2>1, Invariance, SerialInvariance, PTL
<1>2. CASE ~OneAtATime
  <2>1. IndInv => RecordsInOrder
    BY <1>2 DEF IndInv, RecordsInOrder
  <2> QED
    BY <2>1, Invariance, PTL
<1> QED
  BY <1>1, <1>2

\* No step takes away what was encoded, but of records that a request moves.
LEMMA StepKeepsEncoded ==
    ASSUME IndInv, [Next]_vars
    PROVE  EncodedKept
<1>1. CASE records' = records
  BY <1>1 DEF EncodedKept
<1>2. ASSUME NEW s \in Slots, Save(s) PROVE EncodedKept
  BY <1>2, SaveKeepsKeys DEF EncodedKept
<1>3. ASSUME NEW s \in Slots,
             Post(s) \/ Patch(s) \/ Bulk(s) \/ Abandon(s) \/ Reassign(s) \/ Archive(s)
      PROVE  records' = records
  BY <1>3 DEF Post, Patch, Bulk, Prepare, Abandon, Reassign, Archive
<1> QED
  BY <1>1, <1>2, <1>3 DEF Next, vars

\* What was encoded stays encoded where it was until a request names the record and moves
\* it, however requests overlap; one at a time, an archived year stays as it is.
THEOREM HistoryIsKept == Spec => HistoryKept
<1> DEFINE A == EncodedKept /\ (OneAtATime => Kept)
<1>1. CASE OneAtATime
  <2>1. IndInv /\ SerialInv /\ [Next]_vars => [A]_vars
    BY <1>1, StepSerial, StepKeepsEncoded
  <2> QED
    BY <1>1, <2>1, Invariance, SerialInvariance, PTL DEF Spec, HistoryKept
<1>2. CASE ~OneAtATime
  <2>1. IndInv /\ [Next]_vars => [A]_vars
    BY <1>2, StepKeepsEncoded
  <2> QED
    BY <2>1, Invariance, PTL DEF Spec, HistoryKept
<1> QED
  BY <1>1, <1>2

-----------------------------------------------------------------------------
(* Notifications *)

Owings == {"approval", "reminder"} \X Planned
Todos == UNION {[K -> Notice] : K \in SUBSET NoticeKey}
Doing == [stage : {"approvals", "reminders"}, user : Recipients, at : Nat, todo : Todos,
          owed : SUBSET Owings]
Answered == [stage : {"answered"}, user : Recipients, shown : SUBSET NoticeKey, owed : SUBSET Owings]

\* The row that tells u of p.
KeyOf(u, p) == <<u, IF p[1] = "approval" THEN "APPROVAL_PENDING" ELSE Plans[p[2]].kind, p[2]>>

\* A row of an entry that was not edited is listed from the reminder, or at once, until
\* the entry is over.
DueOK(k, row) ==
    k[3] \notin moved =>
        /\ row.expires = 2 * (Plans[k[3]].last + 1)
        /\ row.at <= IF k[2] = "APPROVAL_PENDING" THEN now ELSE 2 * Plans[k[3]].date - 1

\* What a request owes has a row or is still to get one.
DoingOK(l) ==
    /\ l.at <= now /\ \A k \in DOMAIN l.todo : DueOK(k, l.todo[k])
    /\ \A p \in l.owed : p[2] \notin moved => KeyOf(l.user, p) \in DOMAIN l.todo \cup DOMAIN notices

NotificationInv ==
    /\ NotificationTypes /\ AnswersTellAll
    /\ \A e \in Planned \ moved :
         /\ timetable[e].date = Plans[e].date /\ timetable[e].last = Plans[e].last
         /\ timetable[e].kind = Plans[e].kind
    /\ listing \in [Lists -> {NotListing} \cup Doing \cup Answered]
    /\ \A k \in DOMAIN notices : DueOK(k, notices[k])
    /\ \A s \in Lists : listing[s] \in Doing => DoingOK(listing[s])

LEMMA NotificationInvInit == NotificationInit => NotificationInv
<1> SUFFICES ASSUME NotificationInit PROVE NotificationInv
  OBVIOUS
<1> USE NotificationAssumption DEF NotificationConstants
<1>1. PICK status \in [Planned -> PlanStatuses] :
        timetable = [e \in Planned |-> [status |-> status[e], date |-> Plans[e].date,
                                        last |-> Plans[e].last, kind |-> Plans[e].kind]]
  BY DEF NotificationInit
<1>2. \A e \in Planned : Plans[e].date \in 1..LastDay /\ Plans[e].last \in 1..LastDay
                         /\ Plans[e].kind \in NoticeKinds
  OBVIOUS
<1>3. timetable \in [Planned -> PlanRow]
  BY <1>1, <1>2 DEF PlanRow
<1>4. DOMAIN notices = {}
  BY DEF NotificationInit
<1>5. NotificationTypes
  BY <1>3, <1>4 DEF NotificationTypes, NotificationInit
<1>6. \A s \in Lists : listing[s] = NotListing
  BY DEF NotificationInit
<1>7. NotListing \notin Doing /\ NotListing.stage = "free"
  BY DEF NotListing, Doing
<1>8. listing \in [Lists -> {NotListing} \cup Doing \cup Answered]
  BY DEF NotificationInit
<1> QED
  BY <1>1, <1>4, <1>5, <1>6, <1>7, <1>8 DEF NotificationInv, AnswersTellAll

\* A step of one request keeps the others' part of the invariant.
LEMMA OthersListOn ==
    ASSUME NotificationInv, NEW s \in Lists, NEW l \in {NotListing} \cup Doing \cup Answered,
           listing' = [listing EXCEPT ![s] = l], UNCHANGED <<now, plans>>,
           DOMAIN notices \subseteq DOMAIN notices'
    PROVE  /\ listing' \in [Lists -> {NotListing} \cup Doing \cup Answered]
           /\ listing'[s] = l
           /\ \A r \in Lists \ {s} : listing'[r] \in Doing => DoingOK(listing[r])' 
           /\ \A r \in Lists \ {s} : listing'[r] = listing[r]
<1>1. \A r \in Lists \ {s} : listing'[r] = listing[r]
  BY DEF NotificationInv
<1>2. \A r \in Lists \ {s} : listing[r] \in Doing => DoingOK(listing[r])
  BY DEF NotificationInv
<1>3. ASSUME NEW r \in Lists \ {s}, listing'[r] \in Doing PROVE DoingOK(listing[r])'
  <2> DEFINE m == listing[r]
  <2>1. m \in Doing /\ DoingOK(m) /\ listing'[r] = m
    BY <1>1, <1>2, <1>3
  <2> QED
    BY <2>1 DEF DoingOK, DueOK, plans
<1> QED
  BY <1>1, <1>3 DEF NotificationInv

\* While nothing of the calendar changes, the tables keep what is said of them.
LEMMA PlansStay ==
    ASSUME NotificationInv, UNCHANGED plans, now' \in Nat, now' >= now,
           DOMAIN notices' \subseteq NoticeKey, \A k \in DOMAIN notices' : notices'[k] \in Notice
    PROVE  /\ NotificationTypes'
           /\ \A e \in Planned \ moved' :
                /\ timetable'[e].date = Plans[e].date /\ timetable'[e].last = Plans[e].last
                /\ timetable'[e].kind = Plans[e].kind
BY DEF NotificationInv, NotificationTypes, plans

LEMMA ApprovalsDue ==
    ASSUME NotificationInv, NEW u \in Recipients
    PROVE  /\ ApprovalRows(u) \in Todos
           /\ \A k \in DOMAIN ApprovalRows(u) : DueOK(k, ApprovalRows(u)[k])
           /\ OwedApprovals(u) \subseteq Owings
           /\ \A p \in OwedApprovals(u) : KeyOf(u, p) \in DOMAIN ApprovalRows(u)
<1> DEFINE K == {<<u, "APPROVAL_PENDING", e>> : e \in Approvals(u)}
<1>1. Approvals(u) \subseteq Planned
  BY DEF Approvals
<1>2. K \subseteq NoticeKey
  BY <1>1 DEF NoticeKey
<1>3. \A e \in Planned : NoticeRow(now, e) \in Notice /\ NoticeRow(now, e).at = now
                         /\ (e \notin moved => NoticeRow(now, e).expires = 2 * (Plans[e].last + 1))
  <2> TAKE e \in Planned
  <2>1. now \in Nat /\ timetable[e].last \in Nat
    BY DEF NotificationInv, NotificationTypes, PlanRow
  <2>2. e \notin moved => timetable[e].last = Plans[e].last
    BY DEF NotificationInv
  <2> QED
    BY <2>1, <2>2 DEF NoticeRow, Notice, Expiry
<1>4. DOMAIN ApprovalRows(u) = K /\ \A k \in K : ApprovalRows(u)[k] = NoticeRow(now, k[3])
  BY DEF ApprovalRows
<1>5. \A k \in K : k[3] \in Planned /\ k[2] = "APPROVAL_PENDING"
  BY <1>1
<1>6. ApprovalRows(u) \in [K -> Notice]
  BY <1>3, <1>5 DEF ApprovalRows
<1>7. ApprovalRows(u) \in Todos
  BY <1>2, <1>6 DEF Todos
<1>8. now \in Nat
  BY DEF NotificationInv, NotificationTypes
<1>9. \A k \in K : DueOK(k, NoticeRow(now, k[3]))
  BY <1>3, <1>5, <1>8 DEF DueOK
<1>10. OwedApprovals(u) \subseteq Owings /\ \A p \in OwedApprovals(u) : KeyOf(u, p) \in K
  BY <1>1 DEF OwedApprovals, Owings, KeyOf
<1> QED
  BY <1>4, <1>7, <1>9, <1>10

\* What is due tomorrow at nine, and today, lies within any lookahead of a day or more.
LEMMA DueWithinLookahead ==
    ASSUME NEW t \in Nat, NEW d \in Nat, 2 * d - 1 <= t
    PROVE  d <= (t \div 2) + Lookahead
<1>1. Lookahead \in Nat /\ Lookahead >= 1
  BY NotificationAssumption DEF NotificationConstants
<1>2. d <= (t \div 2) + 1
  OBVIOUS
<1>3. t \div 2 \in Int
  OBVIOUS
<1> QED
  BY <1>1, <1>2, <1>3

LEMMA RemindersDue ==
    ASSUME NotificationInv, NEW u \in Recipients, NEW t \in Nat
    PROVE  /\ ReminderRows(u, t) \in Todos
           /\ \A k \in DOMAIN ReminderRows(u, t) : DueOK(k, ReminderRows(u, t)[k])
           /\ OwedReminders(u, t) \subseteq Owings
           /\ \A p \in OwedReminders(u, t) :
                p[2] \notin moved => KeyOf(u, p) \in DOMAIN ReminderRows(u, t)
<1> USE NotificationAssumption
<1> DEFINE K == {<<u, timetable[e].kind, e>> : e \in Upcoming(u, t)}
<1>1. Upcoming(u, t) \subseteq Planned
  BY DEF Upcoming
<1>2. \A e \in Planned : timetable[e].kind \in NoticeKinds /\ timetable[e].date \in 1..LastDay
                         /\ timetable[e].last \in 1..LastDay /\ LastDay \in Nat
  BY DEF NotificationInv, NotificationTypes, PlanRow, NotificationConstants
<1>3. K \subseteq NoticeKey
  BY <1>1, <1>2 DEF NoticeKey
<1>4. \A e \in Planned : NoticeRow(Reminder(e), e) \in Notice
                         /\ NoticeRow(Reminder(e), e).at = 2 * timetable[e].date - 1
                         /\ NoticeRow(Reminder(e), e).expires = 2 * (timetable[e].last + 1)
  <2> TAKE e \in Planned
  <2>1. timetable[e].date \in Nat /\ timetable[e].date >= 1 /\ timetable[e].last \in Nat
    BY <1>2
  <2> QED
    BY <2>1 DEF NoticeRow, Notice, Expiry, Reminder
<1>5. DOMAIN ReminderRows(u, t) = K
      /\ \A k \in K : ReminderRows(u, t)[k] = NoticeRow(Reminder(k[3]), k[3])
  BY DEF ReminderRows
<1>6. \A k \in K : k[3] \in Planned /\ k[2] \in NoticeKinds /\ k[2] # "APPROVAL_PENDING"
  BY <1>1, <1>2 DEF NotificationConstants
<1>7. ReminderRows(u, t) \in [K -> Notice]
  BY <1>4, <1>6 DEF ReminderRows
<1>8. ReminderRows(u, t) \in Todos
  BY <1>3, <1>7 DEF Todos
<1>9. ASSUME NEW k \in K PROVE DueOK(k, NoticeRow(Reminder(k[3]), k[3]))
  <2>1. k[3] \notin moved => timetable[k[3]].date = Plans[k[3]].date /\ timetable[k[3]].last = Plans[k[3]].last
    BY <1>6 DEF NotificationInv
  <2>2. timetable[k[3]].date \in Nat
    BY <1>2, <1>6
  <2> QED
    BY <1>4, <1>6, <2>1, <2>2 DEF DueOK
<1>10. ASSUME NEW p \in OwedReminders(u, t)
       PROVE  p \in Owings /\ (p[2] \notin moved => KeyOf(u, p) \in K)
  <2>1. PICK e \in Planned : /\ p = <<"reminder", e>> /\ timetable[e].status \in {"APPROVED", "PUBLISHED"}
                             /\ Authorized(u, e) /\ DayOf(t) <= timetable[e].date /\ Reminder(e) <= t
    BY DEF OwedReminders
  <2>2. timetable[e].date \in Nat
    BY <1>2
  <2>3. timetable[e].date <= DayOf(t) + Lookahead
    BY <2>1, <2>2, DueWithinLookahead DEF DayOf, Reminder
  <2>4. e \in Upcoming(u, t)
    BY <2>1, <2>3 DEF Upcoming
  <2>5. e \notin moved => timetable[e].kind = Plans[e].kind
    BY DEF NotificationInv
  <2> QED
    BY <2>1, <2>4, <2>5 DEF Owings, KeyOf
<1> QED
  BY <1>5, <1>8, <1>9, <1>10

\* An answer leaves out nothing that it owed.
Tells(l) ==
    l.stage = "answered" =>
        \A p \in l.owed : \E k \in l.shown :
            k[3] = p[2] /\ (p[1] = "approval" <=> k[2] = "APPROVAL_PENDING")

LEMMA OneListGoesOn ==
    ASSUME NotificationInv, NEW s \in Lists, NEW l \in {NotListing} \cup Doing \cup Answered,
           listing' = [listing EXCEPT ![s] = l], UNCHANGED <<now, plans, notices>>,
           l \in Doing => DoingOK(l), Tells(l)
    PROVE  NotificationInv'
<1>1. /\ listing' \in [Lists -> {NotListing} \cup Doing \cup Answered]
      /\ listing'[s] = l
      /\ \A r \in Lists \ {s} : listing'[r] \in Doing => DoingOK(listing[r])'
      /\ \A r \in Lists \ {s} : listing'[r] = listing[r]
  BY OthersListOn
<1>2. l \in Doing => DoingOK(listing[s])'
  BY <1>1 DEF DoingOK, DueOK, plans
<1>3. AnswersTellAll'
  BY <1>1 DEF AnswersTellAll, Tells, NotificationInv
<1>4. \A k \in DOMAIN notices' : DueOK(k, notices[k])'
  BY DEF NotificationInv, DueOK, plans
<1>5. now' \in Nat /\ now' >= now /\ DOMAIN notices' \subseteq NoticeKey
      /\ \A k \in DOMAIN notices' : notices'[k] \in Notice
  BY DEF NotificationInv, NotificationTypes
<1> QED
  BY <1>1, <1>2, <1>3, <1>4, <1>5, PlansStay DEF NotificationInv

LEMMA AskStays ==
    ASSUME NotificationInv, NEW s \in Lists, NEW u \in Recipients, AskList(s, u)
    PROVE  NotificationInv'
<1> DEFINE l == [stage |-> "approvals", user |-> u, at |-> now, todo |-> ApprovalRows(u),
                 owed |-> OwedApprovals(u)]
<1>1. /\ ApprovalRows(u) \in Todos
      /\ \A k \in DOMAIN ApprovalRows(u) : DueOK(k, ApprovalRows(u)[k])
      /\ OwedApprovals(u) \subseteq Owings
      /\ \A p \in OwedApprovals(u) : KeyOf(u, p) \in DOMAIN ApprovalRows(u)
  BY ApprovalsDue
<1>2. now \in Nat
  BY DEF NotificationInv, NotificationTypes
<1>3. l \in Doing /\ DoingOK(l) /\ Tells(l)
  BY <1>1, <1>2 DEF Doing, DoingOK, Tells
<1>4. listing' = [listing EXCEPT ![s] = l] /\ UNCHANGED <<now, plans, notices>>
  BY DEF AskList
<1> HIDE DEF l
<1> QED
  BY <1>3, <1>4, OneListGoesOn

\* What the fields of a request under way are.
LEMMA DoingFields ==
    ASSUME NotificationInv, NEW s \in Lists, listing[s].stage \in {"approvals", "reminders"}
    PROVE  listing[s] \in Doing /\ DoingOK(listing[s])
<1>1. listing[s] \in {NotListing} \cup Doing \cup Answered
  BY DEF NotificationInv
<1> QED
  BY <1>1 DEF NotificationInv, NotListing, Answered

LEMMA DieStays ==
    ASSUME NotificationInv, NEW s \in Lists, DieListing(s)
    PROVE  NotificationInv'
<1>1. NotListing \notin Doing /\ Tells(NotListing)
  BY DEF NotListing, Doing, Tells
<1> QED
  BY <1>1, OneListGoesOn DEF DieListing

LEMMA ReadEventsStays ==
    ASSUME NotificationInv, NEW s \in Lists, ReadEvents(s)
    PROVE  NotificationInv'
<1>1. PICK m : m = listing[s]
  OBVIOUS
<1>2. m \in Doing /\ DoingOK(m) /\ DOMAIN m.todo = {}
  BY <1>1, DoingFields DEF ReadEvents
<1> DEFINE l == [stage |-> "reminders", user |-> m.user, at |-> m.at,
                 todo |-> ReminderRows(m.user, m.at), owed |-> m.owed \cup OwedReminders(m.user, m.at)]
<1>3. m.user \in Recipients /\ m.at \in Nat /\ m.owed \subseteq Owings /\ m.at <= now
  BY <1>2 DEF Doing, DoingOK
<1>4. /\ ReminderRows(m.user, m.at) \in Todos
      /\ \A k \in DOMAIN ReminderRows(m.user, m.at) : DueOK(k, ReminderRows(m.user, m.at)[k])
      /\ OwedReminders(m.user, m.at) \subseteq Owings
      /\ \A p \in OwedReminders(m.user, m.at) :
           p[2] \notin moved => KeyOf(m.user, p) \in DOMAIN ReminderRows(m.user, m.at)
  BY <1>3, RemindersDue
<1>5. \A p \in m.owed : p[2] \notin moved => KeyOf(m.user, p) \in DOMAIN notices
  BY <1>2 DEF DoingOK
<1>6. l \in Doing
  BY <1>3, <1>4 DEF Doing
<1>7. DoingOK(l)
  BY <1>3, <1>4, <1>5 DEF DoingOK
<1>8. Tells(l)
  BY DEF Tells
<1>9. listing' = [listing EXCEPT ![s] = l] /\ UNCHANGED <<now, plans, notices>>
  BY <1>1 DEF ReadEvents
<1> HIDE DEF l
<1> QED
  BY <1>6, <1>7, <1>8, <1>9, OneListGoesOn

LEMMA AnswerStays ==
    ASSUME NotificationInv, NEW s \in Lists, AnswerList(s)
    PROVE  NotificationInv'
<1>1. PICK m : m = listing[s]
  OBVIOUS
<1>2. m \in Doing /\ DoingOK(m) /\ DOMAIN m.todo = {}
  BY <1>1, DoingFields DEF AnswerList
<1> DEFINE owed == {p \in m.owed \cap (OwedApprovals(m.user) \cup OwedReminders(m.user, m.at)) :
                      p[2] \notin moved}
           l == [stage |-> "answered", user |-> m.user, shown |-> Listed(m.user), owed |-> owed]
<1>3. m.user \in Recipients /\ m.at \in Nat /\ m.owed \subseteq Owings /\ m.at <= now
  BY <1>2 DEF Doing, DoingOK
<1>4. DOMAIN notices \subseteq NoticeKey /\ now \in Nat
      /\ \A k \in DOMAIN notices : DueOK(k, notices[k]) /\ notices[k] \in Notice
  BY DEF NotificationInv, NotificationTypes
<1>5. l \in Answered
  BY <1>3, <1>4 DEF Answered, Listed
<1>6. ASSUME NEW p \in owed
      PROVE  \E k \in Listed(m.user) :
                k[3] = p[2] /\ (p[1] = "approval" <=> k[2] = "APPROVAL_PENDING")
  <2>1. p \in m.owed /\ p \in Owings /\ p[2] \notin moved /\ p[2] \in Planned
    BY <1>3 DEF Owings
  <2>2. KeyOf(m.user, p) \in DOMAIN notices
    BY <1>2, <2>1 DEF DoingOK
  <2>3. PICK e \in Planned : p[2] = e /\ e \notin moved
    BY <2>1
  <2>4. /\ timetable[e].date = Plans[e].date /\ timetable[e].last = Plans[e].last
        /\ Plans[e].kind # "APPROVAL_PENDING" /\ Plans[e].date \in Nat /\ Plans[e].last \in Nat
    BY <2>3, NotificationAssumption DEF NotificationInv, NotificationConstants
  <2>5. PICK k \in DOMAIN notices : k = KeyOf(m.user, p)
    BY <2>2
  <2>6. /\ k[1] = m.user /\ k[3] = e /\ (k[2] = "APPROVAL_PENDING" <=> p[1] = "approval")
    BY <2>3, <2>4, <2>5 DEF KeyOf
  <2>7. /\ notices[k].expires = 2 * (Plans[e].last + 1) /\ notices[k].at \in Nat
        /\ notices[k].at <= IF k[2] = "APPROVAL_PENDING" THEN now ELSE 2 * Plans[e].date - 1
    BY <1>4, <2>3, <2>6 DEF DueOK, Notice
  <2>8. CASE p \in OwedApprovals(m.user)
    <3>1. p[1] = "approval" /\ timetable[e].status = "PENDING_APPROVAL" /\ now < Expiry(e)
      BY <2>3, <2>8 DEF OwedApprovals, Approvals
    <3>2. k \in Listed(m.user)
      BY <2>4, <2>6, <2>7, <3>1 DEF Listed, Expiry
    <3> QED
      BY <2>3, <2>6, <3>2
  <2>9. CASE p \in OwedReminders(m.user, m.at)
    <3>1. /\ p[1] # "approval" /\ timetable[e].status \in {"APPROVED", "PUBLISHED"} /\ now < Expiry(e)
          /\ Reminder(e) <= m.at
      BY <2>3, <2>9 DEF OwedReminders
    <3>2. notices[k].at <= now
      BY <1>3, <1>4, <2>4, <2>6, <2>7, <3>1 DEF Reminder
    <3>3. k \in Listed(m.user)
      BY <2>4, <2>6, <2>7, <3>1, <3>2 DEF Listed, Expiry
    <3> QED
      BY <2>3, <2>6, <3>3
  <2> QED
    BY <2>8, <2>9
<1>7. Tells(l)
  BY <1>6 DEF Tells
<1>8. l \notin Doing
  BY DEF Doing
<1>9. listing' = [listing EXCEPT ![s] = l] /\ UNCHANGED <<now, plans, notices>>
  BY <1>1 DEF AnswerList
<1> HIDE DEF l
<1> QED
  BY <1>5, <1>7, <1>8, <1>9, OneListGoesOn

LEMMA CreateStays ==
    ASSUME NotificationInv, NEW s \in Lists, CreateNotice(s)
    PROVE  NotificationInv'
<1>1. PICK m : m = listing[s]
  OBVIOUS
<1>2. m \in Doing /\ DoingOK(m)
  BY <1>1, DoingFields DEF CreateNotice
<1>3. PICK k \in DOMAIN m.todo :
        /\ notices' = [j \in DOMAIN notices \cup {k} |->
                          IF j \in DOMAIN notices THEN notices[j] ELSE m.todo[k]]
        /\ listing' = [listing EXCEPT ![s].todo = Restrict(m.todo, DOMAIN m.todo \ {k})]
  BY <1>1 DEF CreateNotice
<1> DEFINE rest == Restrict(m.todo, DOMAIN m.todo \ {k})
           l == [m EXCEPT !.todo = rest]
<1>4. PICK K \in SUBSET NoticeKey : m.todo \in [K -> Notice]
  BY <1>2 DEF Doing, Todos
<1>5. /\ rest \in Todos /\ DOMAIN rest = K \ {k} /\ k \in K
      /\ \A j \in K \ {k} : rest[j] = m.todo[j]
  BY <1>4 DEF Restrict, Todos
<1> HIDE DEF rest
<1>6. /\ l \in Doing /\ l.user = m.user /\ l.at = m.at /\ l.owed = m.owed /\ l.todo = rest
      /\ l.stage \in {"approvals", "reminders"}
  BY <1>2, <1>5 DEF Doing
<1>7. listing' = [listing EXCEPT ![s] = l]
  BY <1>1, <1>3 DEF rest
<1> HIDE DEF l
<1>8. UNCHANGED <<now, plans>>
  BY DEF CreateNotice
<1>9. /\ DOMAIN notices' = DOMAIN notices \cup {k}
      /\ \A j \in DOMAIN notices : notices'[j] = notices[j]
      /\ k \notin DOMAIN notices => notices'[k] = m.todo[k]
  BY <1>3
<1>10. /\ DOMAIN notices \subseteq NoticeKey /\ now \in Nat
       /\ \A j \in DOMAIN notices : notices[j] \in Notice /\ DueOK(j, notices[j])
  BY DEF NotificationInv, NotificationTypes
<1>11. k \in NoticeKey /\ m.todo[k] \in Notice /\ DueOK(k, m.todo[k])
  BY <1>2, <1>4, <1>5 DEF DoingOK
<1>12. DOMAIN notices' \subseteq NoticeKey /\ \A j \in DOMAIN notices' : notices'[j] \in Notice
  BY <1>9, <1>10, <1>11
<1>13. \A j \in DOMAIN notices' : DueOK(j, notices'[j])
  BY <1>9, <1>10, <1>11
<1>14. \A j \in DOMAIN notices' : DueOK(j, notices[j])'
  BY <1>8, <1>13 DEF DueOK, plans
<1>15. /\ listing' \in [Lists -> {NotListing} \cup Doing \cup Answered]
       /\ listing'[s] = l
       /\ \A r \in Lists \ {s} : listing'[r] \in Doing => DoingOK(listing[r])'
       /\ \A r \in Lists \ {s} : listing'[r] = listing[r]
  BY <1>6, <1>7, <1>8, <1>9, OthersListOn
<1>16. \A p \in m.owed : p[2] \notin moved =>
          KeyOf(m.user, p) \in K \cup DOMAIN notices
  BY <1>2, <1>4 DEF DoingOK
<1>17. m.at <= now /\ \A j \in K \ {k} : DueOK(j, rest[j])
  BY <1>2, <1>4, <1>5 DEF DoingOK
<1>18. DoingOK(listing[s])'
  BY <1>5, <1>6, <1>8, <1>9, <1>15, <1>16, <1>17 DEF DoingOK, DueOK, plans
<1>19. AnswersTellAll'
  BY <1>6, <1>15 DEF AnswersTellAll, NotificationInv
<1>20. now' \in Nat /\ now' >= now
  BY <1>8, <1>10
<1> QED
  BY <1>8, <1>12, <1>14, <1>15, <1>18, <1>19, <1>20, PlansStay DEF NotificationInv

LEMMA MarkStays ==
    ASSUME NotificationInv, NEW keys, Mark(keys)
    PROVE  NotificationInv'
<1>1. /\ DOMAIN notices \subseteq NoticeKey /\ now \in Nat
      /\ \A j \in DOMAIN notices : notices[j] \in Notice /\ DueOK(j, notices[j])
  BY DEF NotificationInv, NotificationTypes
<1>2. UNCHANGED <<now, plans, listing>>
  BY DEF Mark
<1>3. DOMAIN notices' = DOMAIN notices
  BY DEF Mark
<1>4. ASSUME NEW j \in DOMAIN notices
      PROVE  notices'[j] \in Notice /\ DueOK(j, notices[j])'
  <2>1. notices'[j] = [notices[j] EXCEPT !.read = notices[j].read \/ j \in keys]
    BY DEF Mark
  <2>2. notices[j] \in Notice /\ DueOK(j, notices[j])
    BY <1>1
  <2>3. (notices[j].read \/ j \in keys) \in BOOLEAN
    OBVIOUS
  <2>4. notices'[j] \in Notice /\ notices'[j].at = notices[j].at
        /\ notices'[j].expires = notices[j].expires
    BY <2>1, <2>2, <2>3 DEF Notice
  <2> QED
    BY <1>2, <2>2, <2>4 DEF DueOK, plans
<1>5. \A s \in Lists : listing'[s] \in Doing => DoingOK(listing[s])'
  <2> SUFFICES ASSUME NEW s \in Lists, listing'[s] \in Doing PROVE DoingOK(listing[s])'
    OBVIOUS
  <2>1. PICK l : l = listing[s] /\ listing'[s] = l
    BY <1>2
  <2>2. DoingOK(l)
    BY <2>1 DEF NotificationInv
  <2> QED
    BY <1>2, <1>3, <2>1, <2>2 DEF DoingOK, DueOK, plans
<1>6. AnswersTellAll'
  BY <1>2 DEF AnswersTellAll, NotificationInv
<1>7. now' \in Nat /\ now' >= now /\ listing' \in [Lists -> {NotListing} \cup Doing \cup Answered]
  BY <1>1, <1>2 DEF NotificationInv
<1> QED
  BY <1>1, <1>2, <1>3, <1>4, <1>5, <1>6, <1>7, PlansStay DEF NotificationInv

\* An edit of the calendar, or time that goes by.
LEMMA CalendarGoesOn ==
    ASSUME NotificationInv, UNCHANGED <<notices, listing>>,
           timetable' \in [Planned -> PlanRow], moved \subseteq moved', moved' \subseteq Planned,
           planChanges' \in 0..MaxPlanChanges, now' \in Nat, now' >= now,
           \A e \in Planned \ moved' :
             /\ timetable'[e].date = timetable[e].date /\ timetable'[e].last = timetable[e].last
             /\ timetable'[e].kind = timetable[e].kind
    PROVE  NotificationInv'
<1>1. NotificationTypes'
  BY DEF NotificationInv, NotificationTypes
<1>2. \A e \in Planned \ moved' :
         /\ timetable'[e].date = Plans[e].date /\ timetable'[e].last = Plans[e].last
         /\ timetable'[e].kind = Plans[e].kind
  BY DEF NotificationInv
<1>3. now \in Nat
  BY DEF NotificationInv, NotificationTypes
<1>4. ASSUME NEW k, NEW row \in Notice, DueOK(k, row)
      PROVE  k[3] \notin moved' =>
               /\ row.expires = 2 * (Plans[k[3]].last + 1)
               /\ row.at <= IF k[2] = "APPROVAL_PENDING" THEN now' ELSE 2 * Plans[k[3]].date - 1
  <2>1. row.at \in Nat
    BY DEF Notice
  <2> QED
    BY <1>3, <1>4, <2>1 DEF DueOK
<1>5. \A k \in DOMAIN notices' : DueOK(k, notices[k])'
  <2> SUFFICES ASSUME NEW k \in DOMAIN notices PROVE DueOK(k, notices[k])'
    OBVIOUS
  <2>1. PICK row \in Notice : row = notices[k] /\ notices'[k] = row /\ DueOK(k, row)
    BY DEF NotificationInv, NotificationTypes
  <2> QED
    BY <1>4, <2>1 DEF DueOK
<1>6. ASSUME NEW s \in Lists, listing[s] \in Doing PROVE DoingOK(listing[s])'
  <2>1. PICK l \in Doing : l = listing[s] /\ listing'[s] = l /\ DoingOK(l)
    BY <1>6 DEF NotificationInv
  <2>2. PICK K \in SUBSET NoticeKey : l.todo \in [K -> Notice]
    BY <2>1 DEF Doing, Todos
  <2>3. l.at \in Nat /\ l.at <= now'
    BY <1>3, <2>1 DEF Doing, DoingOK
  <2>4. ASSUME NEW k \in DOMAIN l.todo
        PROVE  k[3] \notin moved' =>
               /\ l.todo[k].expires = 2 * (Plans[k[3]].last + 1)
               /\ l.todo[k].at <= IF k[2] = "APPROVAL_PENDING" THEN now' ELSE 2 * Plans[k[3]].date - 1
    <3>1. PICK row \in Notice : row = l.todo[k] /\ DueOK(k, row)
      BY <2>1, <2>2 DEF DoingOK
    <3> QED
      BY <1>4, <3>1
  <2> QED
    BY <2>1, <2>3, <2>4 DEF DoingOK, DueOK
<1>7. AnswersTellAll'
  BY DEF AnswersTellAll, NotificationInv
<1> QED
  BY <1>1, <1>2, <1>5, <1>6, <1>7 DEF NotificationInv

LEMMA StepStays ==
    ASSUME NotificationInv, NEW e \in Planned, StepEntry(e)
    PROVE  NotificationInv'
<1>1. PICK st \in PlanSteps[timetable[e].status] : ChangeEntry(e, [timetable[e] EXCEPT !.status = st])
  BY DEF StepEntry
<1>2. timetable \in [Planned -> PlanRow] /\ planChanges \in 0..MaxPlanChanges /\ now \in Nat
      /\ moved \subseteq Planned /\ MaxPlanChanges \in Nat
  BY NotificationAssumption DEF NotificationInv, NotificationTypes, NotificationConstants
<1>3. timetable[e].status \in PlanStatuses
  BY <1>2 DEF PlanRow
<1>4. st \in PlanStatuses
  BY <1>1, <1>3 DEF PlanSteps, PlanStatuses, LiveStatuses
<1> DEFINE row == [timetable[e] EXCEPT !.status = st]
<1>5. /\ row \in PlanRow /\ row.date = timetable[e].date /\ row.last = timetable[e].last
      /\ row.kind = timetable[e].kind
  BY <1>2, <1>4 DEF PlanRow
<1>6. timetable' = [timetable EXCEPT ![e] = row]
  BY <1>1 DEF ChangeEntry
<1> HIDE DEF row
<1>7. timetable' \in [Planned -> PlanRow]
  BY <1>2, <1>5, <1>6
<1>8. \A f \in Planned : /\ timetable'[f].date = timetable[f].date
                         /\ timetable'[f].last = timetable[f].last
                         /\ timetable'[f].kind = timetable[f].kind
  BY <1>2, <1>5, <1>6
<1>9. planChanges' \in 0..MaxPlanChanges /\ UNCHANGED <<now, moved, notices, listing>>
  BY <1>1, <1>2 DEF ChangeEntry, StepEntry
<1> QED
  BY <1>2, <1>7, <1>8, <1>9, CalendarGoesOn

LEMMA MoveStays ==
    ASSUME NotificationInv, NEW e \in Planned, MoveEntry(e)
    PROVE  NotificationInv'
<1>1. timetable \in [Planned -> PlanRow] /\ planChanges \in 0..MaxPlanChanges /\ now \in Nat
      /\ moved \subseteq Planned /\ MaxPlanChanges \in Nat
  BY NotificationAssumption DEF NotificationInv, NotificationTypes, NotificationConstants
<1>2. PICK d \in 1..LastDay, k \in NoticeKinds :
        ChangeEntry(e, [status |-> IF timetable[e].status \in {"APPROVED", "PUBLISHED"}
                                   THEN "PENDING_APPROVAL" ELSE timetable[e].status,
                        date |-> d, last |-> d, kind |-> k])
  BY DEF MoveEntry
<1>3. timetable[e].status \in PlanStatuses
  BY <1>1 DEF PlanRow
<1> DEFINE row == [status |-> IF timetable[e].status \in {"APPROVED", "PUBLISHED"}
                              THEN "PENDING_APPROVAL" ELSE timetable[e].status,
                   date |-> d, last |-> d, kind |-> k]
<1>4. row \in PlanRow
  BY <1>3 DEF PlanRow, PlanStatuses, LiveStatuses
<1>5. timetable' = [timetable EXCEPT ![e] = row]
  BY <1>2 DEF ChangeEntry
<1> HIDE DEF row
<1>6. timetable' \in [Planned -> PlanRow] /\ \A f \in Planned \ {e} : timetable'[f] = timetable[f]
  BY <1>1, <1>4, <1>5
<1>7. planChanges' \in 0..MaxPlanChanges /\ UNCHANGED <<now, notices, listing>>
      /\ moved' = moved \cup {e}
  BY <1>1, <1>2 DEF ChangeEntry, MoveEntry
<1> QED
  BY <1>1, <1>6, <1>7, CalendarGoesOn

LEMMA TickStays ==
    ASSUME NotificationInv, Tick
    PROVE  NotificationInv'
<1>1. timetable \in [Planned -> PlanRow] /\ planChanges \in 0..MaxPlanChanges /\ now \in Nat
      /\ moved \subseteq Planned
  BY DEF NotificationInv, NotificationTypes
<1>2. UNCHANGED <<timetable, moved, planChanges, notices, listing>> /\ now' = now + 1
  BY DEF Tick, plans
<1> QED
  BY <1>1, <1>2, CalendarGoesOn

LEMMA NotificationInvStays == NotificationInv /\ [NotificationNext]_notificationVars => NotificationInv'
<1> SUFFICES ASSUME NotificationInv, [NotificationNext]_notificationVars PROVE NotificationInv'
  OBVIOUS
<1>1. CASE UNCHANGED notificationVars
  <2>1. timetable \in [Planned -> PlanRow] /\ planChanges \in 0..MaxPlanChanges /\ now \in Nat
        /\ moved \subseteq Planned
    BY DEF NotificationInv, NotificationTypes
  <2>2. UNCHANGED <<timetable, moved, planChanges, notices, listing, now>>
    BY <1>1 DEF notificationVars, plans
  <2> QED
    BY <2>1, <2>2, CalendarGoesOn
<1>2. CASE \E s \in Lists, u \in Recipients : AskList(s, u)
  BY <1>2, AskStays
<1>3. CASE \E s \in Lists : CreateNotice(s) \/ ReadEvents(s) \/ AnswerList(s) \/ DieListing(s)
  BY <1>3, CreateStays, ReadEventsStays, AnswerStays, DieStays
<1>4. CASE \E u \in Recipients : MarkRead(u) \/ MarkAllRead(u)
  BY <1>4, MarkStays DEF MarkRead, MarkAllRead
<1>5. CASE \E e \in Planned : StepEntry(e) \/ MoveEntry(e)
  BY <1>5, StepStays, MoveStays
<1>6. CASE Tick
  BY <1>6, TickStays
<1> QED
  BY <1>1, <1>2, <1>3, <1>4, <1>5, <1>6 DEF NotificationNext

\* Whoever lists notifications is told of all that is due, for any users, entries and
\* number of requests that overlap or break off.
THEOREM ListsTellAll == NotificationSpec => []ListTellsAll
<1>1. NotificationInv => ListTellsAll
  BY DEF NotificationInv, ListTellsAll
<1> QED
  BY <1>1, NotificationInvInit, NotificationInvStays, PTL DEF NotificationSpec

\* Notifications do not disappear, are read only when they are shown, and stay read.
LEMMA ReadsStay == NotificationInv /\ [NotificationNext]_notificationVars => [ReadsShown]_notificationVars
<1> SUFFICES ASSUME NotificationInv, NotificationNext PROVE ReadsShown
  OBVIOUS
<1>1. \A k \in DOMAIN notices : notices[k] \in Notice
  BY DEF NotificationInv, NotificationTypes
<1>2. ASSUME NEW keys, Mark(keys), \A k \in keys : k \in Listed(k[1]) PROVE ReadsShown
  <2> SUFFICES ASSUME NEW k \in DOMAIN notices
               PROVE  /\ k \in DOMAIN notices'
                      /\ notices[k].read => notices'[k].read
                      /\ notices'[k].read => notices[k].read \/ k \in Listed(k[1])
    BY DEF ReadsShown
  <2>1. k \in DOMAIN notices' /\ notices'[k] = [notices[k] EXCEPT !.read = notices[k].read \/ k \in keys]
    BY <1>2 DEF Mark
  <2>2. notices'[k].read = (notices[k].read \/ k \in keys)
    BY <1>1, <2>1 DEF Notice
  <2> QED
    BY <1>2, <2>1, <2>2
<1>3. ASSUME NEW s \in Lists, CreateNotice(s) PROVE ReadsShown
  <2>1. \A k \in DOMAIN notices : k \in DOMAIN notices' /\ notices'[k] = notices[k]
    BY <1>3 DEF CreateNotice
  <2> QED
    BY <2>1 DEF ReadsShown
<1>4. CASE UNCHANGED notices
  BY <1>4 DEF ReadsShown
<1>5. ASSUME NEW u \in Recipients, MarkRead(u) \/ MarkAllRead(u) PROVE ReadsShown
  BY <1>2, <1>5 DEF MarkRead, MarkAllRead, Listed
<1> QED
  BY <1>3, <1>4, <1>5 DEF NotificationNext, AskList, ReadEvents, AnswerList, DieListing, StepEntry,
     MoveEntry, ChangeEntry, Tick

THEOREM ReadsAreOfShown == NotificationSpec => ReadWhenShown
<1> QED
  BY ReadsStay, NotificationInvInit, NotificationInvStays, PTL DEF NotificationSpec, ReadWhenShown

-----------------------------------------------------------------------------
(* Predictions *)

Works ==
    {NotWorking} \cup [op : {"checked"}, student : Persons]
    \cup [op : {"scored"}, student : Persons, scored : EnrolmentIds, level : RiskLevels]
    \cup [op : {"found"}, enr : EnrolmentIds, scored : EnrolmentIds, level : RiskLevels]
    \cup [op : {"stored"}, id : Nat]
    \cup [op : {"patch"}, id : Nat, row : PredictionRow, field : {"level", "enr", "reviewed"}]

\* What a request has read is so still, unless something was changed meanwhile.
FreshOK(v) ==
    /\ v.op = "scored" => v.scored \in current /\ StudentOf[v.scored] = v.student
    /\ v.op = "found" => v.enr = v.scored /\ v.enr \in current
    /\ v.op = "patch" => (predictions[v.id].reviewed => v.row.reviewed)

\* A prediction that is stored and not yet answered is in the table and in no answer.
StoredOK(v) ==
    /\ v.op \in {"stored", "patch"} => v.id \in DOMAIN predictions
    /\ v.op = "stored" => \A i \in DOMAIN answered : answered[i] # v.id

Stored(w) == work[w].op = "stored"

PredictionInv ==
    /\ PredictionTypes /\ AnswersNew
    /\ \A e, f \in current : StudentOf[e] = StudentOf[f] => e = f
    /\ work \in [Workers -> Works]
    /\ answered \in Seq(Nat) /\ \A i \in DOMAIN answered : answered[i] \in DOMAIN predictions
    /\ \A w \in Workers : StoredOK(work[w])
    /\ \A w, v \in Workers : Stored(w) /\ Stored(v) /\ work[w].id = work[v].id => w = v
    /\ ~raced => \A w \in Workers : FreshOK(work[w])

LEMMA PredictionInvInit == PredictionInit => PredictionInv
<1> SUFFICES ASSUME PredictionInit PROVE PredictionInv
  OBVIOUS
<1>1. PICK e \in EnrolmentIds : current = {e}
  BY DEF PredictionInit
<1>2. predictions \in Seq(PredictionRow) /\ answered \in Seq(Nat) /\ DOMAIN answered = {}
  BY DEF PredictionInit
<1>3. PredictionTypes
  <2>1. current \subseteq EnrolmentIds /\ outcome \in [EnrolmentIds -> {"High", "Low", "unknown"}]
    BY <1>1 DEF PredictionInit
  <2>2. factors = {} /\ raced = FALSE /\ transfers = 0 /\ MaxTransfers \in Nat
    BY PredictionAssumption DEF PredictionInit, PredictionConstants
  <2>3. transfers \in 0..MaxTransfers
    BY <2>2
  <2>4. raced \in BOOLEAN
    BY <2>2
  <2> QED
    BY <1>2, <2>1, <2>2, <2>3, <2>4 DEF PredictionTypes
<1>4. work \in [Workers -> Works] /\ \A w \in Workers : work[w].op = "idle"
  BY DEF PredictionInit, Works, NotWorking
<1> QED
  BY <1>1, <1>2, <1>3, <1>4 DEF PredictionInv, AnswersNew, StoredOK, Stored, FreshOK

\* The enrolment of a student is the one that is current.
LEMMA NewestIsCurrent ==
    ASSUME PredictionInv, NEW s, Newest(s) # NoPrediction
    PROVE  /\ Newest(s) \in current /\ Newest(s) \in EnrolmentIds /\ StudentOf[Newest(s)] = s
           /\ \A e \in current : StudentOf[e] = s => e = Newest(s)
<1> DEFINE mine == {e \in current : StudentOf[e] = s}
<1>1. mine # {} /\ Newest(s) = CHOOSE e \in mine : \A f \in mine : f <= e
  BY DEF Newest
<1>2. PICK e \in mine : TRUE
  BY <1>1
<1>3. current \subseteq EnrolmentIds /\ EnrolmentIds \subseteq Nat
  BY PredictionAssumption DEF PredictionInv, PredictionTypes, PredictionConstants
<1>4. mine = {e}
  BY <1>2 DEF PredictionInv
<1>5. e <= e
  BY <1>2, <1>3
<1>6. \E x \in mine : \A f \in mine : f <= x
  BY <1>4, <1>5
<1>7. Newest(s) = e
  BY <1>1, <1>4, <1>6
<1> QED
  BY <1>2, <1>3, <1>4, <1>7

\* A step of one request that leaves the table of predictions and the answers.
LEMMA OneWorksOn ==
    ASSUME PredictionInv, NEW w \in Workers, NEW v \in Works, work' = [work EXCEPT ![w] = v],
           UNCHANGED <<current, predictions, outcome, factors, answered, raced, transfers>>,
           v.op # "stored", StoredOK(v), ~raced => FreshOK(v)
    PROVE  PredictionInv'
<1>1. work' \in [Workers -> Works] /\ work'[w] = v /\ \A u \in Workers \ {w} : work'[u] = work[u]
  BY DEF PredictionInv
<1>2. PredictionTypes' /\ AnswersNew'
  BY DEF PredictionInv, PredictionTypes, AnswersNew
<1>3. \A u \in Workers : StoredOK(work[u])'
  <2> SUFFICES ASSUME NEW u \in Workers PROVE StoredOK(work[u])'
    OBVIOUS
  <2>1. PICK x : work'[u] = x /\ StoredOK(x)
    BY <1>1 DEF PredictionInv
  <2> QED
    BY <2>1 DEF StoredOK
<1>4. ~raced' => \A u \in Workers : FreshOK(work[u])'
  <2> SUFFICES ASSUME ~raced', NEW u \in Workers PROVE FreshOK(work[u])'
    OBVIOUS
  <2>1. PICK x : work'[u] = x /\ FreshOK(x)
    BY <1>1 DEF PredictionInv
  <2> QED
    BY <2>1 DEF FreshOK
<1>5. \A u, x \in Workers : Stored(u)' /\ Stored(x)' /\ work'[u].id = work'[x].id => u = x
  BY <1>1 DEF PredictionInv, Stored
<1>6. \A e, f \in current' : StudentOf[e] = StudentOf[f] => e = f
  BY DEF PredictionInv
<1>7. answered' \in Seq(Nat) /\ \A i \in DOMAIN answered' : answered'[i] \in DOMAIN predictions'
  BY DEF PredictionInv
<1> QED
  BY <1>1, <1>2, <1>3, <1>4, <1>5, <1>6, <1>7 DEF PredictionInv

LEMMA IdleWorks == NotWorking \in Works /\ NotWorking.op = "idle" /\ StoredOK(NotWorking) /\ FreshOK(NotWorking)
BY DEF NotWorking, Works, StoredOK, FreshOK

LEMMA CheckStays ==
    ASSUME PredictionInv, NEW w \in Workers, NEW s \in Persons, CheckStudent(w, s)
    PROVE  PredictionInv'
<1> DEFINE v == [op |-> "checked", student |-> s]
<1>1. v \in Works /\ StoredOK(v) /\ FreshOK(v) /\ v.op # "stored"
  BY DEF Works, StoredOK, FreshOK
<1>2. work' = [work EXCEPT ![w] = v] /\ UNCHANGED <<current, predictions, outcome, factors, answered, raced, transfers>>
  BY DEF CheckStudent, predictionData
<1> HIDE DEF v
<1> QED
  BY <1>1, <1>2, OneWorksOn

LEMMA DieWorkingStays ==
    ASSUME PredictionInv, NEW w \in Workers, DieWorking(w)
    PROVE  PredictionInv'
BY IdleWorks, OneWorksOn DEF DieWorking, predictionData

\* The fields of what a request has read.
LEMMA WorkFields ==
    ASSUME PredictionInv, NEW w \in Workers
    PROVE  LET v == work[w]
           IN  /\ v.op \in {"checked", "scored"} => v.student \in Persons
               /\ v.op \in {"scored", "found"} => v.scored \in EnrolmentIds /\ v.level \in RiskLevels
               /\ v.op = "found" => v.enr \in EnrolmentIds
               /\ v.op \in {"stored", "patch"} => v.id \in DOMAIN predictions /\ v.id \in Nat
               /\ v.op = "patch" => v.row \in PredictionRow
               /\ StoredOK(v) /\ (~raced => FreshOK(v))
<1>1. work[w] \in Works /\ StoredOK(work[w]) /\ (~raced => FreshOK(work[w]))
  BY DEF PredictionInv
<1>2. PICK v \in Works : v = work[w]
  BY <1>1
<1>3. v.op \in {"stored", "patch"} => v.id \in DOMAIN predictions
  BY <1>1, <1>2 DEF StoredOK
<1>4. /\ v.op \in {"checked", "scored"} => v.student \in Persons
      /\ v.op \in {"scored", "found"} => v.scored \in EnrolmentIds /\ v.level \in RiskLevels
      /\ v.op = "found" => v.enr \in EnrolmentIds
      /\ v.op \in {"stored", "patch"} => v.id \in Nat
      /\ v.op = "patch" => v.row \in PredictionRow
  BY DEF Works, NotWorking
<1> QED
  BY <1>1, <1>2, <1>3, <1>4

LEMMA ScoreStays ==
    ASSUME PredictionInv, NEW w \in Workers, ScoreRecords(w)
    PROVE  PredictionInv'
<1>1. UNCHANGED <<current, predictions, outcome, factors, answered, raced, transfers>>
  BY DEF ScoreRecords, predictionData
<1>2. PICK s \in Persons : s = work[w].student
  BY WorkFields DEF ScoreRecords
<1>3. PICK e : e = Newest(s)
  OBVIOUS
<1>4. CASE e = NoPrediction \/ ~FitsModel(e)
  <2>1. work' = [work EXCEPT ![w] = NotWorking]
    BY <1>2, <1>3, <1>4 DEF ScoreRecords
  <2> QED
    BY <1>1, <2>1, IdleWorks, OneWorksOn
<1>5. CASE e # NoPrediction /\ FitsModel(e)
  <2> DEFINE v == [op |-> "scored", student |-> s, scored |-> e, level |-> LevelOf(e)]
  <2>1. e \in current /\ e \in EnrolmentIds /\ StudentOf[e] = s
    BY <1>3, <1>5, NewestIsCurrent
  <2>2. LevelOf(e) \in RiskLevels
    BY <1>5, <2>1 DEF LevelOf, FitsModel, RiskLevels, PredictionInv, PredictionTypes
  <2>3. v \in Works /\ StoredOK(v) /\ FreshOK(v) /\ v.op # "stored"
    BY <2>1, <2>2 DEF Works, StoredOK, FreshOK
  <2>4. work' = [work EXCEPT ![w] = v]
    BY <1>2, <1>3, <1>5 DEF ScoreRecords
  <2> HIDE DEF v
  <2> QED
    BY <1>1, <2>3, <2>4, OneWorksOn
<1> QED
  BY <1>4, <1>5

LEMMA LookStays ==
    ASSUME PredictionInv, NEW w \in Workers, LookAgain(w)
    PROVE  PredictionInv'
<1>1. UNCHANGED <<current, predictions, outcome, factors, answered, raced, transfers>>
  BY DEF LookAgain, predictionData
<1>2. PICK m : m = work[w]
  OBVIOUS
<1>3. m.op = "scored" /\ m.student \in Persons /\ m.scored \in EnrolmentIds /\ m.level \in RiskLevels
      /\ (~raced => m.scored \in current /\ StudentOf[m.scored] = m.student)
  BY <1>2, WorkFields DEF LookAgain, FreshOK
<1>4. PICK e : e = Newest(m.student)
  OBVIOUS
<1>5. CASE e = NoPrediction
  <2>1. work' = [work EXCEPT ![w] = NotWorking]
    BY <1>2, <1>4, <1>5 DEF LookAgain
  <2> QED
    BY <1>1, <2>1, IdleWorks, OneWorksOn
<1>6. CASE e # NoPrediction
  <2> DEFINE v == [op |-> "found", enr |-> e, scored |-> m.scored, level |-> m.level]
  <2>1. /\ e \in current /\ e \in EnrolmentIds
        /\ \A f \in current : StudentOf[f] = m.student => f = e
    BY <1>4, <1>6, NewestIsCurrent
  <2>2. v \in Works /\ StoredOK(v) /\ (~raced => FreshOK(v)) /\ v.op # "stored"
    BY <1>3, <2>1 DEF Works, StoredOK, FreshOK
  <2>3. work' = [work EXCEPT ![w] = v]
    BY <1>2, <1>4, <1>6 DEF LookAgain
  <2> HIDE DEF v
  <2> QED
    BY <1>1, <2>2, <2>3, OneWorksOn
<1> QED
  BY <1>5, <1>6

\* A step that appends a prediction, and may hand it to one request.
LEMMA OneMorePrediction ==
    ASSUME PredictionInv, NEW row \in PredictionRow, predictions' = Append(predictions, row),
           UNCHANGED <<current, outcome, answered, raced, transfers>>,
           factors' \subseteq [of : DOMAIN predictions', feature : TopFactors \cup {"note"}],
           \/ work' = work
           \/ \E z \in Workers : work' = [work EXCEPT ![z] = [op |-> "stored", id |-> Len(predictions) + 1]]
    PROVE  PredictionInv'
<1> DEFINE n == Len(predictions)
<1>1. predictions \in Seq(PredictionRow) /\ n \in Nat /\ DOMAIN predictions = 1..n
  BY DEF PredictionInv, PredictionTypes
<1>2. /\ predictions' \in Seq(PredictionRow) /\ DOMAIN predictions' = 1..(n + 1)
      /\ \A i \in 1..n : predictions'[i] = predictions[i]
  BY <1>1
<1>3. DOMAIN predictions \subseteq DOMAIN predictions' /\ n + 1 \in DOMAIN predictions'
      /\ n + 1 \notin DOMAIN predictions /\ n + 1 \in Nat
  BY <1>1, <1>2
<1> HIDE DEF n
<1>4. PredictionTypes' /\ AnswersNew'
  BY <1>2 DEF PredictionInv, PredictionTypes, AnswersNew
<1>5. answered' \in Seq(Nat) /\ \A i \in DOMAIN answered' : answered'[i] \in DOMAIN predictions'
  BY <1>3 DEF PredictionInv
<1>6. \A u \in Workers : StoredOK(work[u]) /\ work[u] \in Works /\ (~raced => FreshOK(work[u]))
  BY DEF PredictionInv
<1>7. ASSUME NEW x, StoredOK(x) PROVE StoredOK(x)'
  <2>1. x' = x
    OBVIOUS
  <2> QED
    BY <1>3, <1>7 DEF StoredOK
<1>8. ASSUME NEW x, StoredOK(x), FreshOK(x) PROVE FreshOK(x)'
  <2>1. x.op = "patch" => predictions'[x.id] = predictions[x.id]
    BY <1>1, <1>2, <1>8 DEF StoredOK
  <2> QED
    BY <2>1, <1>8 DEF FreshOK
<1>9. \A e, f \in current' : StudentOf[e] = StudentOf[f] => e = f
  BY DEF PredictionInv
<1>10. CASE work' = work
  <2>1. \A u \in Workers : StoredOK(work[u])' /\ (~raced' => FreshOK(work[u])')
    <3> SUFFICES ASSUME NEW u \in Workers PROVE StoredOK(work[u])' /\ (~raced' => FreshOK(work[u])')
      OBVIOUS
    <3>1. PICK x : x = work[u]
      OBVIOUS
    <3>2. work'[u] = x /\ StoredOK(x) /\ (~raced => FreshOK(x))
      BY <1>6, <1>10, <3>1
    <3>3. StoredOK(x)' /\ (~raced => FreshOK(x)')
      BY <1>7, <1>8, <3>2
    <3> QED
      BY <3>2, <3>3 DEF StoredOK, FreshOK
  <2> QED
    BY <1>4, <1>5, <1>9, <1>10, <2>1 DEF PredictionInv, Stored
<1>11. ASSUME NEW w \in Workers, NEW k \in Nat, k = n + 1,
              work' = [work EXCEPT ![w] = [op |-> "stored", id |-> k]]
       PROVE  PredictionInv'
  <2>1. PICK v \in Works : v = [op |-> "stored", id |-> k]
    BY <1>3 DEF Works
  <2>2. \A i \in DOMAIN answered : answered[i] # k
    BY <1>3, <1>11 DEF PredictionInv
  <2>3. v.op = "stored" /\ v.id = k
    BY <2>1
  <2>4. StoredOK(v)' /\ FreshOK(v)'
    <3>1. v' = v
      OBVIOUS
    <3> QED
      BY <1>3, <1>11, <2>2, <2>3, <3>1 DEF StoredOK, FreshOK
  <2>5. work' \in [Workers -> Works] /\ work'[w] = v /\ \A u \in Workers \ {w} : work'[u] = work[u]
    BY <1>11, <2>1 DEF PredictionInv
  <2>6. \A u \in Workers : StoredOK(work[u])' /\ (~raced' => FreshOK(work[u])')
    <3> SUFFICES ASSUME NEW u \in Workers PROVE StoredOK(work[u])' /\ (~raced' => FreshOK(work[u])')
      OBVIOUS
    <3>1. CASE u = w
      BY <2>4, <2>5, <3>1 DEF StoredOK, FreshOK
    <3>2. CASE u # w
      <4>1. PICK x : x = work[u]
        OBVIOUS
      <4>2. work'[u] = x /\ StoredOK(x) /\ (~raced => FreshOK(x))
        BY <1>6, <2>5, <3>2, <4>1
      <4>3. StoredOK(x)' /\ (~raced => FreshOK(x)')
        BY <1>7, <1>8, <4>2
      <4> QED
        BY <4>2, <4>3 DEF StoredOK, FreshOK
    <3> QED
      BY <3>1, <3>2
  <2>7. \A u \in Workers \ {w} : Stored(u) => work[u].id # k
    BY <1>3, <1>6, <1>11 DEF Stored, StoredOK
  <2>8. \A u, x \in Workers : Stored(u)' /\ Stored(x)' /\ work'[u].id = work'[x].id => u = x
    BY <2>3, <2>5, <2>7 DEF PredictionInv, Stored
  <2> QED
    BY <1>4, <1>5, <1>9, <2>5, <2>6, <2>8 DEF PredictionInv
<1> QED
  BY <1>3, <1>10, <1>11 DEF n

LEMMA StoreStays ==
    ASSUME PredictionInv, NEW w \in Workers, StorePrediction(w)
    PROVE  PredictionInv'
<1>1. PICK m : m = work[w]
  OBVIOUS
<1>2. m.enr \in EnrolmentIds /\ m.scored \in EnrolmentIds /\ m.level \in RiskLevels
  BY <1>1, WorkFields DEF StorePrediction
<1> DEFINE row == [enr |-> m.enr, level |-> m.level, scored |-> m.scored, reviewed |-> FALSE]
           id == Len(predictions) + 1
<1>3. row \in PredictionRow
  BY <1>2 DEF PredictionRow
<1>4. /\ work' = [work EXCEPT ![w] = [op |-> "stored", id |-> id]]
      /\ predictions' = Append(predictions, row) /\ factors' = factors \cup FactorRows(id)
      /\ UNCHANGED <<current, outcome, answered, raced, transfers>>
  BY <1>1 DEF StorePrediction
<1>5. predictions \in Seq(PredictionRow) /\ factors \subseteq [of : DOMAIN predictions, feature : TopFactors \cup {"note"}]
  BY DEF PredictionInv, PredictionTypes
<1> HIDE DEF row
<1>6. id \in DOMAIN predictions' /\ DOMAIN predictions \subseteq DOMAIN predictions'
  BY <1>3, <1>4, <1>5
<1> HIDE DEF id
<1>7. FactorRows(id) \subseteq [of : DOMAIN predictions', feature : TopFactors \cup {"note"}]
  BY <1>6 DEF FactorRows
<1>8. factors' \subseteq [of : DOMAIN predictions', feature : TopFactors \cup {"note"}]
  BY <1>4, <1>5, <1>6, <1>7
<1> QED
  BY <1>3, <1>4, <1>8, OneMorePrediction DEF id

LEMMA PostStays ==
    ASSUME PredictionInv, NEW e \in EnrolmentIds, NEW l \in RiskLevels, PostPrediction(e, l)
    PROVE  PredictionInv'
<1> DEFINE row == [enr |-> e, level |-> l, scored |-> NoPrediction, reviewed |-> FALSE]
<1>1. row \in PredictionRow
  BY DEF PredictionRow
<1>2. predictions' = Append(predictions, row) /\ work' = work /\ factors' = factors
      /\ UNCHANGED <<current, outcome, answered, raced, transfers>>
  BY DEF PostPrediction
<1>3. predictions \in Seq(PredictionRow) /\ factors \subseteq [of : DOMAIN predictions, feature : TopFactors \cup {"note"}]
  BY DEF PredictionInv, PredictionTypes
<1> HIDE DEF row
<1>4. DOMAIN predictions \subseteq DOMAIN predictions'
  BY <1>1, <1>2, <1>3
<1>5. factors' \subseteq [of : DOMAIN predictions', feature : TopFactors \cup {"note"}]
  BY <1>2, <1>3, <1>4
<1> QED
  BY <1>1, <1>2, <1>5, OneMorePrediction

LEMMA AnswerPredictionStays ==
    ASSUME PredictionInv, NEW w \in Workers, AnswerPrediction(w)
    PROVE  PredictionInv'
<1>1. PICK k : k = work[w].id
  OBVIOUS
<1>2. /\ Stored(w) /\ k \in Nat /\ k \in DOMAIN predictions
      /\ \A i \in DOMAIN answered : answered[i] # k
  BY <1>1, WorkFields DEF AnswerPrediction, Stored, StoredOK
<1>3. /\ answered' = Append(answered, k) /\ work' = [work EXCEPT ![w] = NotWorking]
      /\ UNCHANGED <<current, outcome, predictions, factors, raced, transfers>>
  BY <1>1 DEF AnswerPrediction, predictionData
<1>4. answered \in Seq(Nat) /\ \A i \in DOMAIN answered : answered[i] \in DOMAIN predictions
  BY DEF PredictionInv
<1> DEFINE n == Len(answered)
<1>5. n \in Nat /\ DOMAIN answered = 1..n
  BY <1>4
<1>6. /\ answered' \in Seq(Nat) /\ DOMAIN answered' = 1..(n + 1) /\ answered'[n + 1] = k
      /\ \A i \in 1..n : answered'[i] = answered[i]
  BY <1>2, <1>3, <1>4, <1>5
<1> HIDE DEF n
<1>7. \A i \in DOMAIN answered' : i = n + 1 \/ (i \in DOMAIN answered /\ answered'[i] = answered[i])
  BY <1>5, <1>6
<1>8. PredictionTypes' /\ \A i \in DOMAIN answered' : answered'[i] \in DOMAIN predictions'
  BY <1>2, <1>3, <1>4, <1>6, <1>7 DEF PredictionInv, PredictionTypes
<1>9. AnswersNew'
  BY <1>2, <1>6, <1>7 DEF PredictionInv, AnswersNew
<1>10. work' \in [Workers -> Works] /\ work'[w] = NotWorking /\ \A u \in Workers \ {w} : work'[u] = work[u]
  BY <1>3, IdleWorks DEF PredictionInv
<1>11. \A u \in Workers : StoredOK(work[u])' /\ (~raced' => FreshOK(work[u])')
  <2> SUFFICES ASSUME NEW u \in Workers PROVE StoredOK(work[u])' /\ (~raced' => FreshOK(work[u])')
    OBVIOUS
  <2>1. CASE u = w
    BY <1>10, <2>1, IdleWorks DEF StoredOK, FreshOK
  <2>2. CASE u # w
    <3>1. PICK x : x = work[u]
      OBVIOUS
    <3>2. work'[u] = x /\ StoredOK(x) /\ (~raced => FreshOK(x))
      BY <1>10, <2>2, <3>1 DEF PredictionInv
    <3>3. x.op = "stored" => x.id # k
      BY <1>1, <1>2, <2>2, <3>1 DEF PredictionInv, Stored
    <3>4. \A i \in DOMAIN answered' : x.op = "stored" => answered'[i] # x.id
      BY <1>6, <1>7, <3>2, <3>3 DEF StoredOK
    <3> QED
      BY <1>3, <3>2, <3>4 DEF StoredOK, FreshOK
  <2> QED
    BY <2>1, <2>2
<1>12. \A u, x \in Workers : Stored(u)' /\ Stored(x)' /\ work'[u].id = work'[x].id => u = x
  BY <1>10, IdleWorks DEF PredictionInv, Stored
<1>13. \A e, f \in current' : StudentOf[e] = StudentOf[f] => e = f
  BY <1>3 DEF PredictionInv
<1> QED
  BY <1>6, <1>8, <1>9, <1>10, <1>11, <1>12, <1>13 DEF PredictionInv

LEMMA PatchReadStays ==
    ASSUME PredictionInv, NEW w \in Workers, NEW i \in DOMAIN predictions, PatchRead(w, i)
    PROVE  PredictionInv'
<1>1. predictions \in Seq(PredictionRow) /\ predictions[i] \in PredictionRow /\ i \in Nat
  BY DEF PredictionInv, PredictionTypes
<1>2. PICK p \in PredictionRow : p = predictions[i]
  BY <1>1
<1>3. PICK b \in PatchBody :
        work' = [work EXCEPT ![w] = [op |-> "patch", id |-> i, row |-> [p EXCEPT ![b.field] = b.to],
                                     field |-> b.field]]
  BY <1>2 DEF PatchRead
<1>4. current \subseteq EnrolmentIds
  BY DEF PredictionInv, PredictionTypes
<1>5. \/ b.field = "level" /\ b.to \in RiskLevels
      \/ b.field = "enr" /\ b.to \in EnrolmentIds
      \/ b.field = "reviewed" /\ b.to = TRUE
  BY <1>4 DEF PatchBody
<1>6. PICK q : q = [p EXCEPT ![b.field] = b.to]
  OBVIOUS
<1>7. q \in PredictionRow /\ (p.reviewed => q.reviewed)
  <2>1. CASE b.field = "level" /\ b.to \in RiskLevels
    BY <1>6, <2>1 DEF PredictionRow
  <2>2. CASE b.field = "enr" /\ b.to \in EnrolmentIds
    BY <1>6, <2>2 DEF PredictionRow
  <2>3. CASE b.field = "reviewed" /\ b.to = TRUE
    BY <1>6, <2>3 DEF PredictionRow
  <2> QED
    BY <1>5, <2>1, <2>2, <2>3
<1>8. PICK f \in {"level", "enr", "reviewed"} : f = b.field
  BY <1>5
<1> DEFINE v == [op |-> "patch", id |-> i, row |-> q, field |-> f]
<1>9. v \in Works /\ v.op = "patch" /\ v.id = i /\ v.row = q
  BY <1>1, <1>7 DEF Works
<1>10. work' = [work EXCEPT ![w] = v]
  BY <1>3, <1>6, <1>8
<1> HIDE DEF v
<1>11. StoredOK(v) /\ FreshOK(v)
  BY <1>2, <1>7, <1>9 DEF StoredOK, FreshOK
<1>12. UNCHANGED <<current, predictions, outcome, factors, answered, raced, transfers>>
  BY DEF PatchRead, predictionData
<1> QED
  BY <1>9, <1>10, <1>11, <1>12, OneWorksOn

\* What a PATCH saves is a row of the table.
LEMMA PatchSaves ==
    ASSUME PredictionInv, NEW w \in Workers, PatchSave(w)
    PROVE  /\ predictions' \in Seq(PredictionRow) /\ DOMAIN predictions' = DOMAIN predictions
           /\ ~raced => \A i \in DOMAIN predictions : predictions[i].reviewed => predictions'[i].reviewed
<1>1. PICK m : m = work[w]
  OBVIOUS
<1>2. /\ m.id \in DOMAIN predictions /\ m.row \in PredictionRow
      /\ ~raced => (predictions[m.id].reviewed => m.row.reviewed)
  BY <1>1, WorkFields DEF PatchSave, FreshOK
<1>3. PICK k \in DOMAIN predictions : k = m.id
  BY <1>2
<1>4. PICK q \in PredictionRow : q = m.row
  BY <1>2
<1>5. predictions' = [predictions EXCEPT ![k] = q]
  BY <1>1, <1>3, <1>4 DEF PatchSave
<1>6. predictions \in Seq(PredictionRow)
  BY DEF PredictionInv, PredictionTypes
<1>7. predictions' \in Seq(PredictionRow) /\ DOMAIN predictions' = DOMAIN predictions
      /\ \A i \in DOMAIN predictions : predictions'[i] = IF i = k THEN q ELSE predictions[i]
  BY <1>5, <1>6
<1> QED
  BY <1>2, <1>3, <1>4, <1>7

LEMMA PatchSaveStays ==
    ASSUME PredictionInv, NEW w \in Workers, PatchSave(w)
    PROVE  PredictionInv'
<1>1. /\ work' = [work EXCEPT ![w] = NotWorking]
      /\ UNCHANGED <<current, outcome, factors, answered, transfers>>
      /\ raced' = (raced \/ \E v \in Workers \ {w} : work[v] # NotWorking)
  BY DEF PatchSave, RaceWith
<1>2. predictions' \in Seq(PredictionRow) /\ DOMAIN predictions' = DOMAIN predictions
  BY PatchSaves
<1>3. raced' \in BOOLEAN
  BY <1>1 DEF PredictionInv, PredictionTypes
<1>4. PredictionTypes' /\ AnswersNew'
  BY <1>1, <1>2, <1>3 DEF PredictionInv, PredictionTypes, AnswersNew
<1>5. work' \in [Workers -> Works] /\ work'[w] = NotWorking /\ \A u \in Workers \ {w} : work'[u] = work[u]
  BY <1>1, IdleWorks DEF PredictionInv
<1>6. \A u \in Workers : StoredOK(work[u])' /\ (~raced' => FreshOK(work[u])')
  <2> SUFFICES ASSUME NEW u \in Workers PROVE StoredOK(work[u])' /\ (~raced' => FreshOK(work[u])')
    OBVIOUS
  <2>1. CASE work'[u] = NotWorking
    BY <2>1, IdleWorks DEF StoredOK, FreshOK
  <2>2. CASE work'[u] # NotWorking
    <3>1. u # w /\ raced'
      BY <1>1, <1>5, <2>2
    <3>2. PICK x : x = work[u]
      OBVIOUS
    <3>3. work'[u] = x /\ StoredOK(x)
      BY <1>5, <3>1, <3>2 DEF PredictionInv
    <3> QED
      BY <1>1, <1>2, <3>1, <3>3 DEF StoredOK
  <2> QED
    BY <2>1, <2>2
<1>7. \A u, x \in Workers : Stored(u)' /\ Stored(x)' /\ work'[u].id = work'[x].id => u = x
  BY <1>5, IdleWorks DEF PredictionInv, Stored
<1>8. \A e, f \in current' : StudentOf[e] = StudentOf[f] => e = f
  BY <1>1 DEF PredictionInv
<1>9. answered' \in Seq(Nat) /\ \A i \in DOMAIN answered' : answered'[i] \in DOMAIN predictions'
  BY <1>1, <1>2 DEF PredictionInv
<1> QED
  BY <1>4, <1>5, <1>6, <1>7, <1>8, <1>9 DEF PredictionInv

\* A step around the requests.
LEMMA TransferStays ==
    ASSUME PredictionInv,
           \/ \E e \in EnrolmentIds : EnrolAgain(e) \/ CloseEnrolment(e)
           \/ \E e \in EnrolmentIds : \E o \in {"High", "Low", "unknown"} : EncodeRecords(e, o)
           \/ \E i \in DOMAIN predictions : PostFactor(i)
    PROVE  PredictionInv'
<1>1. UNCHANGED <<predictions, work, answered>> /\ transfers < MaxTransfers /\ transfers' = transfers + 1
  BY DEF EnrolAgain, CloseEnrolment, EncodeRecords, PostFactor, Transfer
<1>2. \/ current' = current /\ raced' = raced
      \/ raced' = (raced \/ \E w \in Workers : work[w] # NotWorking)
  BY DEF EnrolAgain, CloseEnrolment, EncodeRecords, PostFactor, RaceWith
<1>3. \/ current' = current
      \/ \E e \in EnrolmentIds : \/ current' = {f \in current : StudentOf[f] # StudentOf[e]} \cup {e}
                                  \/ current' = current \ {e}
  BY DEF EnrolAgain, CloseEnrolment, EncodeRecords, PostFactor
<1>4. current' \subseteq EnrolmentIds /\ \A e, f \in current' : StudentOf[e] = StudentOf[f] => e = f
  BY <1>3 DEF PredictionInv, PredictionTypes
<1>5. \/ outcome' = outcome
      \/ \E e \in EnrolmentIds : \E o \in {"High", "Low", "unknown"} : outcome' = [outcome EXCEPT ![e] = o]
  BY DEF EnrolAgain, CloseEnrolment, EncodeRecords, PostFactor
<1>6. outcome' \in [EnrolmentIds -> {"High", "Low", "unknown"}]
  BY <1>5 DEF PredictionInv, PredictionTypes
<1>7. \/ factors' = factors
      \/ \E i \in DOMAIN predictions : factors' = factors \cup {[of |-> i, feature |-> "note"]}
  BY DEF EnrolAgain, CloseEnrolment, EncodeRecords, PostFactor
<1>8. factors' \subseteq [of : DOMAIN predictions', feature : TopFactors \cup {"note"}]
  BY <1>1, <1>7 DEF PredictionInv, PredictionTypes
<1>9. transfers' \in 0..MaxTransfers
  BY <1>1, PredictionAssumption DEF PredictionInv, PredictionTypes, PredictionConstants
<1>10. raced' \in BOOLEAN
  BY <1>2 DEF PredictionInv, PredictionTypes
<1>11. PredictionTypes' /\ AnswersNew'
  BY <1>1, <1>4, <1>6, <1>8, <1>9, <1>10 DEF PredictionInv, PredictionTypes, AnswersNew
<1>12. \A u \in Workers : StoredOK(work[u])' /\ (~raced' => FreshOK(work[u])')
  <2> SUFFICES ASSUME NEW u \in Workers PROVE StoredOK(work[u])' /\ (~raced' => FreshOK(work[u])')
    OBVIOUS
  <2>1. PICK x : x = work[u]
    OBVIOUS
  <2>2. work'[u] = x /\ StoredOK(x) /\ (~raced => FreshOK(x))
    BY <1>1, <2>1 DEF PredictionInv
  <2>3. StoredOK(x)'
    BY <1>1, <2>2 DEF StoredOK
  <2>4. ~raced' => FreshOK(x)'
    <3>1. CASE current' = current /\ raced' = raced
      BY <1>1, <2>2, <3>1 DEF FreshOK
    <3>2. CASE x = NotWorking
      BY <3>2, IdleWorks DEF FreshOK
    <3>3. CASE x # NotWorking /\ raced' = (raced \/ \E w \in Workers : work[w] # NotWorking)
      BY <2>1, <3>3
    <3> QED
      BY <1>2, <3>1, <3>2, <3>3
  <2> QED
    BY <2>2, <2>3, <2>4 DEF StoredOK, FreshOK
<1> QED
  BY <1>1, <1>4, <1>11, <1>12 DEF PredictionInv, Stored

LEMMA PredictionInvStays == PredictionInv /\ [PredictionNext]_predictionVars => PredictionInv'
<1> SUFFICES ASSUME PredictionInv, [PredictionNext]_predictionVars PROVE PredictionInv'
  OBVIOUS
<1>1. CASE Transfers
  BY <1>1, TransferStays DEF Transfers
<1>2. CASE Generates
  BY <1>2, CheckStays, ScoreStays, LookStays, StoreStays, AnswerPredictionStays, DieWorkingStays DEF Generates
<1>3. CASE ByHand
  BY <1>3, PatchReadStays, PatchSaveStays, PostStays, TransferStays DEF ByHand
<1>4. CASE UNCHANGED predictionVars
  BY <1>4 DEF predictionVars, predictionData, PredictionInv, PredictionTypes, AnswersNew, Stored, StoredOK, FreshOK
<1> QED
  BY <1>1, <1>2, <1>3, <1>4 DEF PredictionNext

\* What a step does to the predictions that are stored already, and which it adds.
LEMMA PredictionsGrow ==
    ASSUME PredictionInv, [PredictionNext]_predictionVars
    PROVE  StoresScored /\ StoresCurrent /\ ReviewKept
<1>1. CASE predictions' = predictions
  BY <1>1 DEF StoresScored, StoresCurrent, ReviewKept
<1>2. ASSUME NEW w \in Workers, PatchSave(w) PROVE StoresScored /\ StoresCurrent /\ ReviewKept
  BY <1>2, PatchSaves DEF StoresScored, StoresCurrent, ReviewKept
<1>3. ASSUME NEW row \in PredictionRow, predictions' = Append(predictions, row),
             ~raced => row.scored \in {NoPrediction, row.enr} /\ row.enr \in current
      PROVE  StoresScored /\ StoresCurrent /\ ReviewKept
  <2> DEFINE n == Len(predictions)
  <2>1. predictions \in Seq(PredictionRow) /\ n \in Nat /\ DOMAIN predictions = 1..n
    BY DEF PredictionInv, PredictionTypes
  <2>2. /\ DOMAIN predictions' = 1..(n + 1) /\ predictions'[n + 1] = row
        /\ \A i \in 1..n : predictions'[i] = predictions[i]
    BY <1>3, <2>1
  <2> HIDE DEF n
  <2>3. \A i \in DOMAIN predictions' \ DOMAIN predictions : predictions'[i] = row
    BY <2>1, <2>2
  <2> QED
    BY <1>3, <2>1, <2>2, <2>3 DEF StoresScored, StoresCurrent, ReviewKept
<1>4. ASSUME NEW w \in Workers, StorePrediction(w) PROVE StoresScored /\ StoresCurrent /\ ReviewKept
  <2>1. PICK m : m = work[w]
    OBVIOUS
  <2>2. /\ m.enr \in EnrolmentIds /\ m.scored \in EnrolmentIds /\ m.level \in RiskLevels
        /\ ~raced => m.enr = m.scored /\ m.enr \in current
    BY <1>4, <2>1, WorkFields DEF StorePrediction, FreshOK
  <2>3. PICK row : row = [enr |-> m.enr, level |-> m.level, scored |-> m.scored, reviewed |-> FALSE]
    OBVIOUS
  <2>4. row \in PredictionRow /\ row.scored = m.scored /\ row.enr = m.enr
    BY <2>2, <2>3 DEF PredictionRow
  <2>5. predictions' = Append(predictions, row)
    BY <1>4, <2>1, <2>3 DEF StorePrediction
  <2> QED
    BY <1>3, <2>2, <2>4, <2>5
<1>5. ASSUME NEW e \in EnrolmentIds, NEW l \in RiskLevels, PostPrediction(e, l)
      PROVE  StoresScored /\ StoresCurrent /\ ReviewKept
  <2>1. PICK row : row = [enr |-> e, level |-> l, scored |-> NoPrediction, reviewed |-> FALSE]
    OBVIOUS
  <2>2. row \in PredictionRow /\ row.scored = NoPrediction /\ row.enr = e
    BY <2>1 DEF PredictionRow
  <2>3. predictions' = Append(predictions, row) /\ e \in current
    BY <1>5, <2>1 DEF PostPrediction
  <2> QED
    BY <1>3, <2>2, <2>3
<1>6. CASE Transfers
  BY <1>1, <1>6 DEF Transfers, EnrolAgain, CloseEnrolment, EncodeRecords
<1>7. CASE Generates
  BY <1>1, <1>4, <1>7 DEF Generates, CheckStudent, ScoreRecords, LookAgain, AnswerPrediction, DieWorking, predictionData
<1>8. CASE ByHand
  BY <1>1, <1>2, <1>5, <1>8 DEF ByHand, PatchRead, PostFactor, predictionData
<1>9. CASE UNCHANGED predictionVars
  BY <1>1, <1>9 DEF predictionVars, predictionData
<1> QED
  BY <1>6, <1>7, <1>8, <1>9 DEF PredictionNext

\* However requests overlap, every generation answers with a prediction of its own.
THEOREM AnswersAreNew == PredictionSpec => [](PredictionTypes /\ AnswersNew)
<1>1. PredictionInv => PredictionTypes /\ AnswersNew
  BY DEF PredictionInv
<1> QED
  BY <1>1, PredictionInvInit, PredictionInvStays, PTL DEF PredictionSpec

\* While enrolments do not change during a request, a prediction is stored for the
\* current enrolment whose records were scored; and while PATCHes do not overlap, a
\* review stays.
THEOREM PredictionsInOrder ==
    PredictionSpec => ScoredItsRecords /\ StoredForCurrent /\ ReviewStays
<1>1. PredictionInv /\ [PredictionNext]_predictionVars
        => [StoresScored]_predictionVars /\ [StoresCurrent]_predictionVars /\ [ReviewKept]_predictionVars
  BY PredictionsGrow
<1> QED
  BY <1>1, PredictionInvInit, PredictionInvStays, PTL
     DEF PredictionSpec, ScoredItsRecords, StoredForCurrent, ReviewStays

-----------------------------------------------------------------------------
(* Attendance *)

Saving == [step : {"valid", "checked"}, items : SUBSET [id : Nat, row : Record], all : BOOLEAN]

\* A request names a record once; what was checked contradicts itself only as a
\* record did that was found.
SavingOK(d) ==
    d.step # "idle" =>
        /\ IsFiniteSet(d.items)
        /\ \A p \in d.items : p.id \in DOMAIN attendance \cup {NewRecord}
        /\ \A p, q \in d.items : p.id = q.id /\ p.id # NewRecord => p = q
        /\ d.step = "checked" => \A p \in d.items : AddsUp(p.row) \/ p.id \in flawed

\* What was looked at is so still, unless something changed.
SavingFresh(d) ==
    d.step # "idle" =>
        /\ d.step = "checked" => \A p \in d.items :
             /\ p.row.date # NoDate => ~Blocked(p.row.date)
             /\ ~AddsUp(p.row) => ~AddsUp(attendance[p.id])
        /\ ~d.all => \A p \in d.items :
             /\ p.row.enr \in attending
             /\ p.id # NewRecord => attendance[p.id].enr \in attending

AttendanceInv ==
    /\ AttendanceTypes /\ Unique(attendance)
    /\ \A i \in DOMAIN attendance : AddsUp(attendance[i]) \/ i \in flawed
    /\ desks \in [Desks -> {NotEncoding} \cup Saving]
    /\ \A s \in Desks : SavingOK(desks[s])
    /\ ~crossed => \A s \in Desks : SavingFresh(desks[s])

-----------------------------------------------------------------------------
(* The table with the items of a request in it *)

LEMMA SequenceOf ==
    ASSUME NEW S, IsFiniteSet(S)
    PROVE  /\ SetToSeq(S) \in [1..Cardinality(S) -> S]
           /\ IsInjective(SetToSeq(S))
           /\ \A x \in S : \E k \in 1..Cardinality(S) : SetToSeq(S)[k] = x
           /\ Cardinality(S) \in Nat
<1> DEFINE n == Cardinality(S)
<1>1. n \in Nat /\ ExistsBijection(1..n, S)
  BY FS_CardinalityType
<1>2. PICK b \in Bijection(1..n, S) : TRUE
  BY <1>1 DEF ExistsBijection
<1>3. b \in [1..n -> S] /\ IsInjective(b)
  BY <1>2 DEF Bijection, Injection, IsInjective
<1>4. SetToSeq(S) \in [1..n -> S] /\ IsInjective(SetToSeq(S))
  BY <1>3 DEF SetToSeq
<1>5. SetToSeq(S) \in Injection(1..n, S)
  BY <1>4 DEF Injection
<1>6. IsFiniteSet(1..n) /\ Cardinality(1..n) = n
  BY <1>1, FS_Interval
<1>7. SetToSeq(S) \in Surjection(1..n, S)
  BY <1>5, <1>6, FS_Injection
<1> QED
  BY <1>1, <1>4, <1>7 DEF Surjection

LEMMA WithItems ==
    ASSUME AttendanceInv, NEW items \in SUBSET [id : Nat, row : Record], IsFiniteSet(items),
           \A p \in items : p.id \in DOMAIN attendance \cup {NewRecord},
           \A p, q \in items : p.id = q.id /\ p.id # NewRecord => p = q
    PROVE  LET W == With(items)
           IN  /\ W \in Seq(Record) /\ DOMAIN attendance \subseteq DOMAIN W
               /\ \A i \in DOMAIN W :
                    \/ i \in DOMAIN attendance /\ W[i] = attendance[i]
                    \/ \E p \in items : /\ W[i] = p.row
                                       /\ p.id = IF i \in DOMAIN attendance THEN i ELSE NewRecord
               /\ \A p \in items : \E i \in DOMAIN W : W[i] = p.row
<1> DEFINE n == Len(attendance)
           fresh == {p \in items : p.id = NewRecord}
           m == Cardinality(fresh)
           q == SetToSeq(fresh)
           mine(i) == {p \in items : p.id = i}
           F == [i \in DOMAIN attendance |->
                   IF mine(i) = {} THEN attendance[i] ELSE (CHOOSE p \in mine(i) : TRUE).row]
           G == [k \in 1..m |-> q[k].row]
<1>1. attendance \in Seq(Record) /\ n \in Nat /\ DOMAIN attendance = 1..n
  BY DEF AttendanceInv, AttendanceTypes
<1>2. IsFiniteSet(fresh)
  BY FS_Subset
<1>3. m \in Nat /\ q \in [1..m -> fresh] /\ \A x \in fresh : \E k \in 1..m : q[k] = x
  BY <1>2, SequenceOf
<1>4. With(items) = F \o G
  BY DEF With
<1> HIDE DEF m, q, n
<1>5. G \in [1..m -> Record] /\ \A k \in 1..m : G[k] = q[k].row /\ q[k] \in fresh
  BY <1>3
<1>6. ASSUME NEW i \in 1..n
      PROVE  /\ F[i] \in Record
             /\ F[i] = attendance[i] \/ \E p \in items : F[i] = p.row /\ p.id = i
             /\ \A p \in items : p.id = i => F[i] = p.row
  <2>1. CASE mine(i) = {}
    BY <1>1, <1>6, <2>1
  <2>2. CASE mine(i) # {}
    <3>1. PICK p : p = CHOOSE x \in mine(i) : TRUE
      OBVIOUS
    <3>2. p \in mine(i)
      BY <2>2, <3>1
    <3>3. F[i] = p.row /\ p \in items /\ p.id = i
      BY <1>1, <1>6, <2>2, <3>1, <3>2
    <3>4. i # NewRecord
      BY <1>6 DEF NewRecord
    <3> QED
      BY <3>3, <3>4
  <2> QED
    BY <2>1, <2>2
<1>7. F \in [1..n -> Record]
  BY <1>1, <1>6
<1> HIDE DEF F, G
<1>8. F \in Seq(Record) /\ G \in Seq(Record) /\ Len(F) = n /\ Len(G) = m
  BY <1>1, <1>3, <1>5, <1>7
<1>9. /\ F \o G \in Seq(Record) /\ DOMAIN (F \o G) = 1..(n + m)
      /\ \A i \in 1..(n + m) : (F \o G)[i] = IF i <= n THEN F[i] ELSE G[i - n]
  <2>1. PICK f \in Seq(Record), g \in Seq(Record), a \in Nat, b \in Nat :
          f = F /\ g = G /\ a = n /\ b = m /\ Len(f) = a /\ Len(g) = b
    BY <1>1, <1>3, <1>8
  <2>2. /\ f \o g \in Seq(Record) /\ Len(f \o g) = Len(f) + Len(g)
        /\ \A i \in 1..(Len(f) + Len(g)) : (f \o g)[i] = IF i <= Len(f) THEN f[i] ELSE g[i - Len(f)]
    BY ConcatProperties
  <2>3. DOMAIN (f \o g) = 1..Len(f \o g)
    BY <2>2
  <2> QED
    BY <2>1, <2>2, <2>3
<1> DEFINE W == F \o G
<1> HIDE DEF W
<1>10. ASSUME NEW i \in 1..(n + m)
       PROVE  \/ i \in DOMAIN attendance /\ W[i] = attendance[i]
              \/ \E p \in items : W[i] = p.row /\ p.id = IF i \in DOMAIN attendance THEN i ELSE NewRecord
  <2>1. CASE i <= n
    <3>1. i \in 1..n /\ W[i] = F[i]
      BY <1>1, <1>3, <1>9, <1>10, <2>1 DEF W
    <3> QED
      BY <1>1, <1>6, <3>1
  <2>2. CASE ~(i <= n)
    <3>1. i \notin DOMAIN attendance /\ i - n \in 1..m /\ W[i] = G[i - n]
      BY <1>1, <1>3, <1>9, <1>10, <2>2 DEF W
    <3> QED
      BY <1>5, <3>1
  <2> QED
    BY <2>1, <2>2
<1>11. ASSUME NEW p \in items PROVE \E i \in 1..(n + m) : W[i] = p.row
  <2>1. CASE p.id = NewRecord
    <3>1. PICK k \in 1..m : q[k] = p
      BY <1>3, <2>1
    <3>2. G[k] = p.row
      BY <1>5, <3>1
    <3>3. n + k \in 1..(n + m) /\ ~(n + k <= n) /\ (n + k) - n = k
      BY <1>1, <1>3, <3>1
    <3> QED
      BY <1>9, <3>2, <3>3 DEF W
  <2>2. CASE p.id # NewRecord
    <3>1. p.id \in 1..n
      BY <1>1, <2>2
    <3>2. F[p.id] = p.row
      BY <1>6, <3>1
    <3>3. p.id \in 1..(n + m) /\ p.id <= n
      BY <1>1, <1>3, <3>1
    <3> QED
      BY <1>9, <3>2, <3>3 DEF W
  <2> QED
    BY <2>1, <2>2
<1>12. DOMAIN attendance \subseteq 1..(n + m)
  BY <1>1, <1>3
<1> QED
  BY <1>4, <1>9, <1>10, <1>11, <1>12 DEF W

-----------------------------------------------------------------------------
(* The requests *)

LEMMA IdleSaving == NotEncoding.step = "idle" /\ SavingOK(NotEncoding) /\ SavingFresh(NotEncoding)
BY DEF NotEncoding, SavingOK, SavingFresh

LEMMA SavingFields ==
    ASSUME AttendanceInv, NEW s \in Desks, desks[s].step # "idle"
    PROVE  /\ desks[s] \in Saving /\ SavingOK(desks[s]) /\ (~crossed => SavingFresh(desks[s]))
           /\ desks[s].items \in SUBSET [id : Nat, row : Record] /\ desks[s].all \in BOOLEAN
<1>1. desks[s] \in {NotEncoding} \cup Saving
  BY DEF AttendanceInv
<1>2. desks[s] \in Saving
  BY <1>1 DEF NotEncoding
<1> QED
  BY <1>2 DEF AttendanceInv, Saving

LEMMA AttendanceInvInit == AttendanceInit => AttendanceInv
<1> SUFFICES ASSUME AttendanceInit PROVE AttendanceInv
  OBVIOUS
<1>1. attendance \in Seq(Record) /\ Unique(attendance)
  BY AttendanceAssumption DEF AttendanceInit, AttendanceConstants
<1>2. \A i \in DOMAIN attendance : AddsUp(attendance[i]) \/ i \in flawed
  BY DEF AttendanceInit
<1>3. changes \in 0..MaxChanges
  <2>1. MaxChanges \in Nat /\ changes = 0
    BY AttendanceAssumption DEF AttendanceInit, AttendanceConstants
  <2> QED
    BY <2>1
<1>4. desks \in [Desks -> {NotEncoding} \cup Saving] /\ \A s \in Desks : desks[s] = NotEncoding
  BY DEF AttendanceInit
<1>5. crossed \in BOOLEAN /\ flawed \subseteq DOMAIN attendance /\ almanac = {} /\ attending = Enrolments
  BY DEF AttendanceInit
<1>6. AttendanceTypes
  BY <1>1, <1>3, <1>4, <1>5, IdleSaving DEF AttendanceTypes
<1> QED
  BY <1>1, <1>2, <1>4, <1>6, IdleSaving DEF AttendanceInv

\* A step of one request that leaves the tables.
LEMMA OneDeskGoesOn ==
    ASSUME AttendanceInv, NEW s \in Desks, NEW d \in {NotEncoding} \cup Saving,
           desks' = [desks EXCEPT ![s] = d],
           UNCHANGED <<almanac, attendance, attending, flawed, crossed, changes>>,
           SavingOK(d), ~crossed => SavingFresh(d)
    PROVE  AttendanceInv'
<1>1. /\ desks' \in [Desks -> {NotEncoding} \cup Saving] /\ desks'[s] = d
      /\ \A u \in Desks \ {s} : desks'[u] = desks[u]
  BY DEF AttendanceInv
<1>2. \A u \in Desks : SavingOK(desks[u])' /\ (~crossed' => SavingFresh(desks[u])')
  <2> SUFFICES ASSUME NEW u \in Desks PROVE SavingOK(desks[u])' /\ (~crossed' => SavingFresh(desks[u])')
    OBVIOUS
  <2>1. PICK x : desks'[u] = x /\ SavingOK(x) /\ (~crossed => SavingFresh(x))
    BY <1>1 DEF AttendanceInv
  <2> QED
    BY <2>1 DEF SavingOK, SavingFresh, Blocked
<1>3. d.step \in {"idle", "valid", "checked"}
  BY IdleSaving DEF Saving
<1>4. AttendanceTypes'
  BY <1>1, <1>3 DEF AttendanceInv, AttendanceTypes
<1>5. /\ Unique(attendance)'
      /\ \A i \in DOMAIN attendance' : AddsUp(attendance'[i]) \/ i \in flawed'
  BY DEF AttendanceInv, Unique
<1> QED
  BY <1>1, <1>2, <1>4, <1>5 DEF AttendanceInv

\* A request that begins with valid items.
LEMMA BeginSavingStays ==
    ASSUME AttendanceInv, NEW s \in Desks, NEW items \in SUBSET [id : Nat, row : Record],
           NEW all \in BOOLEAN, BeginSaving(s, items, all), IsFiniteSet(items),
           \A p \in items : p.id \in DOMAIN attendance \cup {NewRecord},
           \A p, q \in items : p.id = q.id /\ p.id # NewRecord => p = q,
           ~all => \A p \in items :
                     /\ p.row.enr \in attending
                     /\ p.id # NewRecord => attendance[p.id].enr \in attending
    PROVE  AttendanceInv'
<1> DEFINE d == [step |-> "valid", items |-> items, all |-> all]
<1>1. d \in Saving /\ d.step = "valid" /\ d.items = items /\ d.all = all
  BY DEF Saving
<1>2. desks' = [desks EXCEPT ![s] = d]
      /\ UNCHANGED <<almanac, attendance, attending, flawed, crossed, changes>>
  BY DEF BeginSaving
<1> HIDE DEF d
<1>3. SavingOK(d) /\ SavingFresh(d)
  BY <1>1 DEF SavingOK, SavingFresh
<1> QED
  BY <1>1, <1>2, <1>3, OneDeskGoesOn

LEMMA DayRowsTyped ==
    \A r \in DayRows \cup MonthRows : r \in Record
BY AttendanceAssumption DEF DayRows, MonthRows, Record, AttendanceConstants, NoDate, Unknown

LEMMA PostRecordStays ==
    ASSUME AttendanceInv, NEW s \in Desks, NEW r \in DayRows \cup MonthRows, PostRecord(s, r)
    PROVE  AttendanceInv'
<1> DEFINE p == [id |-> NewRecord, row |-> r]
<1>1. p \in [id : Nat, row : Record] /\ p.id = NewRecord /\ p.row = r
  BY DayRowsTyped DEF NewRecord
<1>2. r.enr \in attending /\ BeginSaving(s, {p}, FALSE)
  BY DEF PostRecord, Valid
<1> HIDE DEF p
<1>3. IsFiniteSet({p})
  BY FS_Singleton
<1> QED
  BY <1>1, <1>2, <1>3, BeginSavingStays

LEMMA EditsTyped ==
    ASSUME NEW q \in Record, NEW r \in Edits(q)
    PROVE  r \in Record
<1>1. CASE r = q
  BY <1>1
<1>2. ASSUME NEW f \in {"present", "absent", "excused"}, NEW n \in {0, 1}, r = [q EXCEPT ![f] = n]
      PROVE  r \in Record
  BY <1>2 DEF Record
<1>3. ASSUME NEW e \in Enrolments, r = [q EXCEPT !.enr = e] PROVE r \in Record
  BY <1>3 DEF Record
<1>4. ASSUME NEW d \in MonthDays \cup {NoDate}, r = [q EXCEPT !.date = d] PROVE r \in Record
  BY <1>4 DEF Record
<1>5. ASSUME NEW m \in MonthDays \cup MonthLabels, r = [q EXCEPT !.month = m] PROVE r \in Record
  BY <1>5 DEF Record
<1> QED
  BY <1>1, <1>2, <1>3, <1>4, <1>5 DEF Edits

LEMMA PatchRecordStays ==
    ASSUME AttendanceInv, NEW s \in Desks, NEW i \in DOMAIN attendance, NEW all \in BOOLEAN,
           PatchRecord(s, i, all)
    PROVE  AttendanceInv'
<1>1. attendance[i] \in Record /\ i \in Nat
  BY DEF AttendanceInv, AttendanceTypes
<1>2. PICK r \in Edits(attendance[i]) :
        /\ Valid([id |-> i, row |-> r], r.enr # attendance[i].enr, all)
        /\ BeginSaving(s, {[id |-> i, row |-> r]}, all)
  BY DEF PatchRecord
<1>3. r \in Record
  BY <1>1, EditsTyped
<1> DEFINE p == [id |-> i, row |-> r]
<1>4. p \in [id : Nat, row : Record] /\ p.id = i /\ p.row = r
  BY <1>1, <1>3
<1>5. /\ p.id # NewRecord => p.id \in Visible(all)
      /\ r.enr # attendance[i].enr => r.enr \in attending
  BY <1>2 DEF Valid
<1>6. BeginSaving(s, {p}, all)
  BY <1>2
<1>7. i # NewRecord
  BY DEF AttendanceInv, AttendanceTypes, NewRecord
<1> HIDE DEF p
<1>8. ~all => r.enr \in attending /\ attendance[i].enr \in attending
  BY <1>4, <1>5, <1>7 DEF Visible
<1>9. IsFiniteSet({p})
  BY FS_Singleton
<1> QED
  BY <1>3, <1>4, <1>6, <1>8, <1>9, BeginSavingStays

LEMMA BulkRecordsStays ==
    ASSUME AttendanceInv, NEW s \in Desks, NEW a \in DayRows, NEW b \in DayRows, NEW all \in BOOLEAN,
           BulkRecords(s, a, b, all)
    PROVE  AttendanceInv'
<1>1. PICK i, j \in DOMAIN attendance \cup {NewRecord} :
         /\ i = NewRecord \/ i # j
         /\ Valid([id |-> i, row |-> a], TRUE, all) /\ Valid([id |-> j, row |-> b], TRUE, all)
         /\ BeginSaving(s, {[id |-> i, row |-> a], [id |-> j, row |-> b]}, all)
  BY DEF BulkRecords
<1>2. i \in Nat /\ j \in Nat
  BY DEF AttendanceInv, AttendanceTypes, NewRecord
<1> DEFINE p == [id |-> i, row |-> a]
           q == [id |-> j, row |-> b]
<1>3. /\ p \in [id : Nat, row : Record] /\ p.id = i /\ p.row = a
      /\ q \in [id : Nat, row : Record] /\ q.id = j /\ q.row = b
  BY <1>2, DayRowsTyped
<1>4. /\ i # NewRecord => i \in Visible(all)
      /\ j # NewRecord => j \in Visible(all)
      /\ a.enr \in attending /\ b.enr \in attending
  BY <1>1 DEF Valid
<1>5. BeginSaving(s, {p, q}, all)
  BY <1>1
<1> HIDE DEF p, q
<1>6. IsFiniteSet({p, q})
  <2>1. IsFiniteSet({p}) /\ IsFiniteSet({q})
    BY FS_Singleton
  <2>2. IsFiniteSet({p} \cup {q}) /\ {p, q} = {p} \cup {q}
    BY <2>1, FS_Union
  <2> QED
    BY <2>2
<1>7. \A x, y \in {p, q} : x.id = y.id /\ x.id # NewRecord => x = y
  BY <1>1, <1>3
<1>8. ~all => \A x \in {p, q} :
        /\ x.row.enr \in attending
        /\ x.id # NewRecord => attendance[x.id].enr \in attending
  BY <1>3, <1>4 DEF Visible
<1>9. \A x \in {p, q} : x.id \in DOMAIN attendance \cup {NewRecord}
  BY <1>1, <1>3
<1> QED
  BY <1>3, <1>5, <1>6, <1>7, <1>8, <1>9, BeginSavingStays

\* A row with the same classifications adds up as the other does.
LEMMA SameClasses ==
    ASSUME NEW r, NEW q, Classes(r) = Classes(q)
    PROVE  AddsUp(r) <=> AddsUp(q)
BY DEF Classes, AddsUp, Count

LEMMA RecheckStays ==
    ASSUME AttendanceInv, NEW s \in Desks, Recheck(s)
    PROVE  AttendanceInv'
<1>1. PICK d : d = desks[s]
  OBVIOUS
<1>2. d.step = "valid" /\ UNCHANGED <<almanac, attendance, attending, flawed, crossed, changes>>
  BY <1>1 DEF Recheck
<1>3. d \in Saving /\ SavingOK(d) /\ (~crossed => SavingFresh(d))
  BY <1>1, <1>2, SavingFields
<1>4. CASE Unique(With(d.items)) /\ \A p \in d.items : Clean(p.id, p.row)
  <2> DEFINE c == [step |-> "checked", items |-> d.items, all |-> d.all]
  <2>1. c \in Saving /\ c.step = "checked" /\ c.items = d.items /\ c.all = d.all
    BY <1>3 DEF Saving
  <2>2. desks' = [desks EXCEPT ![s] = c]
    BY <1>1, <1>4 DEF Recheck
  <2> HIDE DEF c
  <2>3. \A p \in d.items :
          /\ p.row.date # NoDate => ~Blocked(p.row.date)
          /\ AddsUp(p.row) \/ (p.id # NewRecord /\ ~AddsUp(attendance[p.id]))
    BY <1>4, SameClasses DEF Clean
  <2>4. \A p \in d.items : AddsUp(p.row) \/ p.id \in flawed
    BY <1>2, <1>3, <2>3 DEF SavingOK, AttendanceInv
  <2>5. SavingOK(c) /\ (~crossed => SavingFresh(c))
    BY <1>2, <1>3, <2>1, <2>3, <2>4 DEF SavingOK, SavingFresh
  <2> QED
    BY <1>2, <2>1, <2>2, <2>5, OneDeskGoesOn
<1>5. CASE ~(Unique(With(d.items)) /\ \A p \in d.items : Clean(p.id, p.row))
  <2>1. desks' = [desks EXCEPT ![s] = NotEncoding]
    BY <1>1, <1>5 DEF Recheck
  <2> QED
    BY <1>2, <2>1, IdleSaving, OneDeskGoesOn
<1> QED
  BY <1>4, <1>5

LEMMA DieEncodingStays ==
    ASSUME AttendanceInv, NEW s \in Desks, DieEncoding(s)
    PROVE  AttendanceInv'
BY IdleSaving, OneDeskGoesOn DEF DieEncoding

-----------------------------------------------------------------------------
(* What is written *)

\* A write leaves the table, or puts all the items of its request into it.
LEMMA RecordsWritten ==
    ASSUME AttendanceInv, NEW s \in Desks, WriteRecords(s)
    PROVE  /\ attendance' \in Seq(Record) /\ DOMAIN attendance \subseteq DOMAIN attendance'
           /\ Unique(attendance')
           /\ \A i \in DOMAIN attendance' :
                \/ i \in DOMAIN attendance /\ attendance'[i] = attendance[i]
                \/ \E p \in desks[s].items :
                     /\ attendance'[i] = p.row
                     /\ p.id = IF i \in DOMAIN attendance THEN i ELSE NewRecord
           /\ \/ attendance' = attendance
              \/ \A p \in desks[s].items : \E i \in DOMAIN attendance' : attendance'[i] = p.row
<1>1. PICK d : d = desks[s]
  OBVIOUS
<1>2. d.step = "checked" /\ attendance' = IF Unique(With(d.items)) THEN With(d.items) ELSE attendance
  BY <1>1 DEF WriteRecords
<1>3. d \in Saving /\ SavingOK(d) /\ d.items \in SUBSET [id : Nat, row : Record]
  BY <1>1, <1>2, SavingFields
<1>4. PICK W : W = With(d.items)
  OBVIOUS
<1>5. /\ IsFiniteSet(d.items) /\ \A p \in d.items : p.id \in DOMAIN attendance \cup {NewRecord}
      /\ \A p, q \in d.items : p.id = q.id /\ p.id # NewRecord => p = q
  BY <1>2, <1>3 DEF SavingOK
<1>6. /\ W \in Seq(Record) /\ DOMAIN attendance \subseteq DOMAIN W
      /\ \A i \in DOMAIN W :
           \/ i \in DOMAIN attendance /\ W[i] = attendance[i]
           \/ \E p \in d.items : W[i] = p.row /\ p.id = IF i \in DOMAIN attendance THEN i ELSE NewRecord
      /\ \A p \in d.items : \E i \in DOMAIN W : W[i] = p.row
  BY <1>3, <1>4, <1>5, WithItems
<1>7. CASE Unique(W)
  BY <1>1, <1>2, <1>4, <1>6, <1>7
<1>8. CASE ~Unique(W)
  <2>1. attendance' = attendance
    BY <1>2, <1>4, <1>8
  <2> QED
    BY <2>1 DEF AttendanceInv, AttendanceTypes
<1> QED
  BY <1>7, <1>8

\* A write contradicts itself only where a found record does.
LEMMA WrittenAddsUp ==
    ASSUME AttendanceInv, NEW s \in Desks, WriteRecords(s), NEW i \in DOMAIN attendance'
    PROVE  \/ AddsUp(attendance'[i])
           \/ i \in flawed /\ i \in DOMAIN attendance /\ (~crossed => ~AddsUp(attendance[i]))
<1>1. PICK d : d = desks[s]
  OBVIOUS
<1>2. d.step = "checked" /\ SavingOK(d) /\ (~crossed => SavingFresh(d))
  BY <1>1, SavingFields DEF WriteRecords
<1>3. flawed \subseteq DOMAIN attendance /\ NewRecord \notin DOMAIN attendance
  BY DEF AttendanceInv, AttendanceTypes, NewRecord
<1>4. CASE i \in DOMAIN attendance /\ attendance'[i] = attendance[i]
  <2>1. PICK r : r = attendance[i] /\ r = attendance'[i]
    BY <1>4
  <2>2. AddsUp(r) \/ i \in flawed
    BY <1>4, <2>1 DEF AttendanceInv
  <2> QED
    BY <1>4, <2>1, <2>2
<1>5. ASSUME NEW p \in d.items, attendance'[i] = p.row,
             p.id = IF i \in DOMAIN attendance THEN i ELSE NewRecord
      PROVE  \/ AddsUp(attendance'[i])
             \/ i \in flawed /\ i \in DOMAIN attendance /\ (~crossed => ~AddsUp(attendance[i]))
  <2>1. PICK r : r = p.row /\ r = attendance'[i]
    BY <1>5
  <2>2. AddsUp(r) \/ p.id \in flawed
    BY <1>2, <2>1 DEF SavingOK
  <2>3. ~crossed /\ ~AddsUp(r) => ~AddsUp(attendance[p.id])
    BY <1>2, <2>1 DEF SavingFresh
  <2>4. p.id \in flawed => p.id = i /\ i \in DOMAIN attendance
    BY <1>3, <1>5
  <2> QED
    BY <2>1, <2>2, <2>3, <2>4
<1> QED
  BY <1>1, <1>4, <1>5, RecordsWritten

LEMMA WriteRecordsStays ==
    ASSUME AttendanceInv, NEW s \in Desks, WriteRecords(s)
    PROVE  AttendanceInv'
<1>1. /\ desks' = [desks EXCEPT ![s] = NotEncoding]
      /\ crossed' = (crossed \/ \E u \in Desks \ {s} : desks[u] # NotEncoding)
      /\ UNCHANGED <<almanac, attending, flawed, changes>>
  BY DEF WriteRecords, CrossWith
<1>2. attendance' \in Seq(Record) /\ DOMAIN attendance \subseteq DOMAIN attendance' /\ Unique(attendance')
  BY RecordsWritten
<1>3. /\ desks' \in [Desks -> {NotEncoding} \cup Saving] /\ desks'[s] = NotEncoding
      /\ \A u \in Desks \ {s} : desks'[u] = desks[u]
  BY <1>1 DEF AttendanceInv
<1>4. crossed' \in BOOLEAN
  BY <1>1 DEF AttendanceInv, AttendanceTypes
<1>5. AttendanceTypes'
  BY <1>1, <1>2, <1>3, <1>4, IdleSaving DEF AttendanceInv, AttendanceTypes
<1>6. \A i \in DOMAIN attendance' : AddsUp(attendance'[i]) \/ i \in flawed'
  BY <1>1, WrittenAddsUp
<1>7. \A u \in Desks : SavingOK(desks[u])' /\ (~crossed' => SavingFresh(desks[u])')
  <2> SUFFICES ASSUME NEW u \in Desks PROVE SavingOK(desks[u])' /\ (~crossed' => SavingFresh(desks[u])')
    OBVIOUS
  <2>1. CASE desks'[u] = NotEncoding
    BY <2>1, IdleSaving DEF SavingOK, SavingFresh
  <2>2. CASE desks'[u] # NotEncoding
    <3>1. u # s /\ crossed'
      BY <1>1, <1>3, <2>2
    <3>2. PICK x : x = desks[u]
      OBVIOUS
    <3>3. desks'[u] = x /\ SavingOK(x)
      BY <1>3, <3>1, <3>2 DEF AttendanceInv
    <3> QED
      BY <1>1, <1>2, <3>1, <3>3 DEF SavingOK
  <2> QED
    BY <2>1, <2>2
<1> QED
  BY <1>2, <1>3, <1>5, <1>6, <1>7 DEF AttendanceInv, Unique

\* A step around the requests.
LEMMA ChangesStay ==
    ASSUME AttendanceInv, Changes
    PROVE  AttendanceInv'
<1>1. /\ UNCHANGED <<attendance, desks, flawed>> /\ changes < MaxChanges /\ changes' = changes + 1
      /\ crossed' = (crossed \/ \E s \in Desks : desks[s] # NotEncoding)
  BY DEF Changes, AddDay, CallOff, Leave, Change, CrossWith
<1>2. almanac' \subseteq AlmanacDay
  <2>1. almanac \subseteq AlmanacDay
    BY DEF AttendanceInv, AttendanceTypes
  <2>2. ASSUME NEW d \in MonthDays, NEW expected \in BOOLEAN, AddDay(d, expected) PROVE almanac' \subseteq AlmanacDay
    <3>1. PICK c : c = [date |-> d, expected |-> expected, off |-> FALSE]
      OBVIOUS
    <3>2. c \in AlmanacDay
      BY <3>1 DEF AlmanacDay
    <3>3. almanac' = almanac \cup {c}
      BY <2>2, <3>1 DEF AddDay
    <3> QED
      BY <2>1, <3>2, <3>3
  <2>3. ASSUME NEW c \in almanac, CallOff(c) PROVE almanac' \subseteq AlmanacDay
    <3>1. PICK x : x = [c EXCEPT !.off = TRUE]
      OBVIOUS
    <3>2. c \in AlmanacDay
      BY <2>1
    <3>3. x \in AlmanacDay
      BY <3>1, <3>2 DEF AlmanacDay
    <3>4. almanac' = (almanac \ {c}) \cup {x}
      BY <2>3, <3>1 DEF CallOff
    <3> QED
      BY <2>1, <3>3, <3>4
  <2>4. ASSUME NEW e \in Enrolments, Leave(e) PROVE almanac' \subseteq AlmanacDay
    BY <2>1, <2>4 DEF Leave
  <2> QED
    BY <2>2, <2>3, <2>4 DEF Changes
<1>3. attending' \subseteq Enrolments
  BY DEF Changes, AddDay, CallOff, Leave, AttendanceInv, AttendanceTypes
<1>4. changes' \in 0..MaxChanges
  BY <1>1, AttendanceAssumption DEF AttendanceInv, AttendanceTypes, AttendanceConstants
<1>5. crossed' \in BOOLEAN
  BY <1>1 DEF AttendanceInv, AttendanceTypes
<1>6. AttendanceTypes'
  BY <1>1, <1>2, <1>3, <1>4, <1>5 DEF AttendanceInv, AttendanceTypes
<1>7. \A u \in Desks : SavingOK(desks[u])' /\ (~crossed' => SavingFresh(desks[u])')
  <2> SUFFICES ASSUME NEW u \in Desks PROVE SavingOK(desks[u])' /\ (~crossed' => SavingFresh(desks[u])')
    OBVIOUS
  <2>1. PICK x : x = desks[u]
    OBVIOUS
  <2>2. desks'[u] = x /\ SavingOK(x)
    BY <1>1, <2>1 DEF AttendanceInv
  <2>3. SavingOK(x)'
    BY <1>1, <2>2 DEF SavingOK
  <2>4. ~crossed' => x = NotEncoding
    BY <1>1, <2>1
  <2> QED
    BY <2>2, <2>3, <2>4, IdleSaving DEF SavingOK, SavingFresh
<1>8. /\ Unique(attendance)'
      /\ \A i \in DOMAIN attendance' : AddsUp(attendance'[i]) \/ i \in flawed'
  BY <1>1 DEF AttendanceInv, Unique
<1> QED
  BY <1>1, <1>6, <1>7, <1>8 DEF AttendanceInv

LEMMA AttendanceInvStays == AttendanceInv /\ [AttendanceNext]_attendanceVars => AttendanceInv'
<1> SUFFICES ASSUME AttendanceInv, [AttendanceNext]_attendanceVars PROVE AttendanceInv'
  OBVIOUS
<1>1. CASE SavesOne
  BY <1>1, PostRecordStays, PatchRecordStays DEF SavesOne
<1>2. CASE SavesClass
  BY <1>2, BulkRecordsStays DEF SavesClass
<1>3. CASE GoesOn
  BY <1>3, RecheckStays, WriteRecordsStays, DieEncodingStays DEF GoesOn
<1>4. CASE Changes
  BY <1>4, ChangesStay
<1>5. CASE UNCHANGED attendanceVars
  <2>1. /\ AttendanceTypes' /\ Unique(attendance)'
        /\ \A i \in DOMAIN attendance' : AddsUp(attendance'[i]) \/ i \in flawed'
    BY <1>5 DEF AttendanceInv, AttendanceTypes, Unique, attendanceVars
  <2>2. \A u \in Desks : SavingOK(desks[u])' /\ (~crossed' => SavingFresh(desks[u])')
    BY <1>5 DEF AttendanceInv, SavingOK, SavingFresh, Blocked, attendanceVars
  <2> QED
    BY <1>5, <2>1, <2>2 DEF AttendanceInv, attendanceVars
<1> QED
  BY <1>1, <1>2, <1>3, <1>4, <1>5 DEF AttendanceNext

-----------------------------------------------------------------------------
(* What is summed up *)

\* Records of one kind tell of different days, or have different labels.
LEMMA OneKindIsDisjoint ==
    ASSUME AttendanceInv, NEW ids \in SUBSET DOMAIN attendance,
           \A i, j \in ids : attendance[i].enr = attendance[j].enr
               => (attendance[i].date = NoDate <=> attendance[j].date = NoDate)
    PROVE  DisjointDays(ids)
<1> SUFFICES ASSUME NEW i \in ids, NEW j \in ids, i # j, attendance[i].enr = attendance[j].enr
             PROVE  IF attendance[i].date = NoDate /\ attendance[j].date = NoDate
                    THEN attendance[i].month # attendance[j].month
                    ELSE DaysOf(attendance[i]) \cap DaysOf(attendance[j]) = {}
  BY DEF DisjointDays
<1>1. PICK r, q : r = attendance[i] /\ q = attendance[j]
  OBVIOUS
<1>2. Apart(r, q) /\ r.enr = q.enr /\ (r.date = NoDate <=> q.date = NoDate)
  BY <1>1 DEF AttendanceInv, Unique
<1>3. r.month # q.month /\ (r.date # NoDate => r.date # q.date)
  BY <1>2 DEF Apart
<1> QED
  BY <1>1, <1>2, <1>3 DEF DaysOf

LEMMA UnmixedIsDisjoint ==
    ASSUME AttendanceInv, NEW of \in SUBSET DOMAIN attendance, NEW ids \in SUBSET of,
           \A i \in ids : attendance[i].enr \notin Mixed(of)
    PROVE  DisjointDays(ids)
<1>1. \A i \in DOMAIN attendance : attendance[i].enr \in Enrolments
  <2>1. attendance \in Seq(Record)
    BY DEF AttendanceInv, AttendanceTypes
  <2>2. \A i \in DOMAIN attendance : attendance[i] \in Record
    BY <2>1
  <2> QED
    BY <2>2 DEF Record
<1>2. \A i, j \in ids : attendance[i].enr = attendance[j].enr
        => (attendance[i].date = NoDate <=> attendance[j].date = NoDate)
  BY <1>1 DEF Mixed
<1> QED
  BY <1>2, OneKindIsDisjoint

LEMMA DaysAreCountedOnce == AttendanceInv => DaysCountedOnce
<1> SUFFICES ASSUME AttendanceInv PROVE DaysCountedOnce
  OBVIOUS
<1>1. DisjointDays(SchoolSummed)
  BY UnmixedIsDisjoint DEF SchoolSummed, CurrentRecords
<1>2. ASSUME NEW e \in Enrolments PROVE DisjointDays(ClassSummed(e))
  <2>1. CASE e \in Mixed(DOMAIN attendance)
    BY <2>1 DEF ClassSummed, DisjointDays
  <2>2. CASE e \notin Mixed(DOMAIN attendance)
    BY <2>2, UnmixedIsDisjoint DEF ClassSummed
  <2> QED
    BY <2>1, <2>2
<1>3. ASSUME NEW given \in SUBSET DOMAIN attendance PROVE DisjointDays(PageSummed(given))
  BY UnmixedIsDisjoint DEF PageSummed
<1>4. ASSUME NEW e \in Enrolments \ Mixed(DOMAIN attendance) PROVE DisjointDays(FeatureSummed(e))
  BY UnmixedIsDisjoint DEF FeatureSummed
<1> QED
  BY <1>1, <1>2, <1>3, <1>4 DEF DaysCountedOnce

-----------------------------------------------------------------------------
(* What a step may write *)

\* Only a write changes the table.
LEMMA OnlyWritesChange ==
    ASSUME [AttendanceNext]_attendanceVars
    PROVE  attendance' = attendance \/ \E s \in Desks : WriteRecords(s)
BY DEF AttendanceNext, attendanceVars, SavesOne, SavesClass, GoesOn, Changes, PostRecord, PatchRecord,
       BulkRecords, BeginSaving, Recheck, DieEncoding, AddDay, CallOff, Leave

\* What a write touches is an item of its request.
LEMMA TouchedIsItem ==
    ASSUME AttendanceInv, NEW s \in Desks, WriteRecords(s),
           NEW i \in DOMAIN attendance', TouchedRecord(i)
    PROVE  \E p \in desks[s].items :
             attendance'[i] = p.row /\ p.id = IF i \in DOMAIN attendance THEN i ELSE NewRecord
BY RecordsWritten DEF TouchedRecord

LEMMA NothingTouched ==
    ASSUME attendance' = attendance, NEW i \in DOMAIN attendance', TouchedRecord(i)
    PROVE  FALSE
BY DEF TouchedRecord

LEMMA StepContradicts ==
    ASSUME AttendanceInv, [AttendanceNext]_attendanceVars PROVE NoNewContradiction
<1>1. CASE attendance' = attendance
  BY <1>1 DEF AttendanceInv, NoNewContradiction
<1>2. ASSUME NEW s \in Desks, WriteRecords(s) PROVE NoNewContradiction
  BY <1>2, WrittenAddsUp DEF NoNewContradiction
<1> QED
  BY <1>1, <1>2, OnlyWritesChange

LEMMA StepOnSchoolDay ==
    ASSUME AttendanceInv, [AttendanceNext]_attendanceVars PROVE WritesOnSchoolDay
<1>1. CASE attendance' = attendance
  BY <1>1, NothingTouched DEF WritesOnSchoolDay
<1>2. ASSUME NEW s \in Desks, WriteRecords(s) PROVE WritesOnSchoolDay
  <2> SUFFICES ASSUME ~crossed, NEW i \in DOMAIN attendance', TouchedRecord(i), attendance'[i].date # NoDate,
                      NEW c \in almanac, c.date = attendance'[i].date
               PROVE  c.expected
    BY DEF WritesOnSchoolDay
  <2>1. PICK d : d = desks[s]
    OBVIOUS
  <2>2. d.step = "checked" /\ SavingFresh(d)
    BY <1>2, <2>1, SavingFields DEF WriteRecords
  <2>3. PICK p \in d.items : attendance'[i] = p.row
    BY <1>2, <2>1, TouchedIsItem
  <2>4. ~Blocked(p.row.date)
    BY <2>2, <2>3 DEF SavingFresh
  <2> QED
    BY <2>3, <2>4 DEF Blocked
<1> QED
  BY <1>1, <1>2, OnlyWritesChange

LEMMA StepOfCurrent ==
    ASSUME AttendanceInv, [AttendanceNext]_attendanceVars PROVE WritesCurrent
<1>1. CASE attendance' = attendance
  BY <1>1, NothingTouched DEF WritesCurrent
<1>2. ASSUME NEW s \in Desks, WriteRecords(s) PROVE WritesCurrent
  <2> SUFFICES ASSUME ~crossed, NEW i \in DOMAIN attendance', TouchedRecord(i), ~desks[s].all
               PROVE  /\ attendance'[i].enr \in attending
                      /\ i \in DOMAIN attendance => attendance[i].enr \in attending
    <3>1. desks[s].step = "checked" /\ desks'[s] = NotEncoding
      BY <1>2 DEF WriteRecords, AttendanceInv
    <3> QED
      BY <3>1 DEF WritesCurrent
  <2>1. PICK d : d = desks[s]
    OBVIOUS
  <2>2. d.step = "checked" /\ SavingFresh(d) /\ ~d.all
    BY <1>2, <2>1, SavingFields DEF WriteRecords
  <2>3. PICK p \in d.items :
          attendance'[i] = p.row /\ p.id = IF i \in DOMAIN attendance THEN i ELSE NewRecord
    BY <1>2, <2>1, TouchedIsItem
  <2>4. p.row.enr \in attending /\ (p.id # NewRecord => attendance[p.id].enr \in attending)
    BY <2>2, <2>3 DEF SavingFresh
  <2>5. i \in DOMAIN attendance => p.id = i /\ i # NewRecord
    BY <2>3 DEF AttendanceInv, AttendanceTypes, NewRecord
  <2> QED
    BY <2>3, <2>4, <2>5
<1> QED
  BY <1>1, <1>2, OnlyWritesChange

LEMMA StepWritesWhole ==
    ASSUME AttendanceInv, [AttendanceNext]_attendanceVars PROVE WritesWholeClass
<1>1. CASE attendance' = attendance
  BY <1>1 DEF WritesWholeClass
<1>2. ASSUME NEW s \in Desks, WriteRecords(s), attendance' # attendance PROVE WritesWholeClass
  <2> SUFFICES ASSUME NEW u \in Desks, desks[u].step = "checked", desks'[u] = NotEncoding
               PROVE  \A p \in desks[u].items : \E i \in DOMAIN attendance' : attendance'[i] = p.row
    BY DEF WritesWholeClass
  <2>1. desks' = [desks EXCEPT ![s] = NotEncoding] /\ desks \in [Desks -> {NotEncoding} \cup Saving]
    BY <1>2 DEF WriteRecords, AttendanceInv
  <2>2. u = s
    BY <2>1, IdleSaving
  <2> QED
    BY <1>2, <2>2, RecordsWritten
<1> QED
  BY <1>1, <1>2, OnlyWritesChange

-----------------------------------------------------------------------------

\* However requests overlap, and whatever changes under them, no total of the
\* dashboards and pages counts a day of a student twice.
THEOREM DaysCounted == AttendanceSpec => [](AttendanceTypes /\ DaysCountedOnce)
<1>1. AttendanceInv => AttendanceTypes
  BY DEF AttendanceInv
<1> QED
  BY <1>1, AttendanceInvInit, AttendanceInvStays, DaysAreCountedOnce, PTL DEF AttendanceSpec

\* Whatever the requests under way, no new contradiction is stored and a class is
\* encoded as a whole; a write is about a school day and about current enrolments,
\* unless something changed while a request was under way.
THEOREM AttendanceInOrder ==
    AttendanceSpec => ContradictionsAreOld /\ OnSchoolDay /\ OnlyCurrent /\ WholeClass
<1>1. AttendanceInv /\ [AttendanceNext]_attendanceVars
        => /\ [NoNewContradiction]_attendanceVars /\ [WritesOnSchoolDay]_attendanceVars
           /\ [WritesCurrent]_attendanceVars /\ [WritesWholeClass]_attendanceVars
  BY StepContradicts, StepOnSchoolDay, StepOfCurrent, StepWritesWhole
<1> QED
  BY <1>1, AttendanceInvInit, AttendanceInvStays, PTL
     DEF AttendanceSpec, ContradictionsAreOld, OnSchoolDay, OnlyCurrent, WholeClass

-----------------------------------------------------------------------------
(* The school calendar *)

EventsOnly == \A b \in Bodies : b.kind # "HOLIDAY"

\* What the two properties about rows say of a table.
NoneCollides(t) == \A i, j \in DOMAIN t :
    i # j /\ Collide(t[i], t[j]) => t[i].rec \/ t[j].rec
OneHolidayEach(t) == \A i, j \in DOMAIN t :
    t[i].kind = "HOLIDAY" /\ t[j].kind = "HOLIDAY" /\ t[i].date = t[j].date => i = j

\* The local variables of the handlers.
DayValues == UNION {[D -> DayRow] : D \in SUBSET Nat}
DayWrites == [upd : DayValues, ins : Seq(DayRow)]
DaysRead == [id : Nat, row : DayRow]
HolidaysLeft == Seq(Nat \X Names)
DayEdits ==
    {NotSaving} \cup [pc : {"deactivate"}]
    \cup [pc : {"save"}, writes : DayWrites]
    \cup [pc : {"bulk"}, todo : Seq(SchoolDates), body : EntryBody, skip : BOOLEAN,
          writes : DayWrites, found : SUBSET DaysRead]
    \cup [pc : {"update"}, rule : RuleBody, says : UseWords]
    \cup [pc : {"generate"}, rule : RuleBody]
    \cup [pc : {"look", "insert"}, todo : HolidaysLeft]
    \cup [pc : {"rename"}, todo : HolidaysLeft, id : Nat]

\* Whatever other requests do, a row is an occurrence or not for ever, no request makes
\* one with the other columns, and holidays come from the bodies.
NoOccurrence(r) == ~r.rec /\ (EventsOnly => r.kind = "EVENT")
WritesOK(w) ==
    /\ DOMAIN w.upd \subseteq DOMAIN days
    /\ \A i \in DOMAIN w.upd :
         w.upd[i].rec = days[i].rec /\ (EventsOnly => w.upd[i].kind = "EVENT")
    /\ \A k \in DOMAIN w.ins : NoOccurrence(w.ins[k])

EditOK(q) ==
    /\ q.pc \in {"save", "bulk"} => WritesOK(q.writes)
    /\ q.pc = "bulk" =>
         /\ q.todo # <<>> /\ (EventsOnly => q.body.kind = "EVENT")
         /\ \A f \in q.found : f.id \in DOMAIN days /\ f.row.rec = days[f.id].rec
    /\ q.pc \in {"look", "insert", "rename"} => q.todo # <<>>
    /\ q.pc = "insert" => Head(q.todo)[1] \in SchoolDates
    /\ q.pc = "rename" => q.id \in DOMAIN days

\* While nothing is written under a request: what it decided still fits the table.
EditFresh(q) ==
    /\ q.pc \in {"save", "bulk"} => NoneCollides(Written(q.writes))
    /\ q.pc = "insert" => HolidaysOn(Head(q.todo)[1]) = {}
    /\ q.pc = "update" /\ q.rule.active => q.says = "active" \/ InUse
    /\ q.pc = "generate" => (q.rule.active <=> InUse)

CalendarInv ==
    /\ DayTypes /\ OnceOnDate(days)
    /\ saving \in [Editors -> DayEdits] /\ \A s \in Editors : EditOK(saving[s])
    /\ ~disturbed =>
         /\ NoneCollides(days) /\ (EventsOnly => OneHolidayEach(days))
         /\ \A s \in Editors : EditFresh(saving[s])

-----------------------------------------------------------------------------
(* Conflicts and tables *)

\* Entries that collide are found in conflict, from either side.
LEMMA CollidingBlocks ==
    ASSUME NEW a \in DayRow, NEW b \in DayRow, Collide(a, b)
    PROVE  /\ Counts(a) /\ Counts(b) /\ Blocks(a, b) /\ Blocks(b, a)
           /\ a.time # NoTime /\ b.time # NoTime
<1>1. PICK x \in a.date..a.last : x \in b.date..b.last
  BY DEF Collide
<1>2. a.date \in Nat /\ a.last \in Nat /\ b.date \in Nat /\ b.last \in Nat
  BY CalendarDaysAssumption DEF CalendarDaysConstants, DayRow
<1>3. a.date <= b.last /\ b.date <= a.last
  BY <1>1, <1>2
<1>4. <<a.time, b.time>> \in Clash /\ <<b.time, a.time>> \in Clash
      /\ a.time # NoTime /\ b.time # NoTime
  <2>1. PICK p : p = <<a.time, b.time>>
    OBVIOUS
  <2>2. p \in Clash /\ p[1] = a.time /\ p[2] = b.time
    BY <2>1 DEF Collide
  <2>3. NoTime \notin {p[1], p[2]} /\ <<p[2], p[1]>> \in Clash
    BY <2>2, CalendarDaysAssumption DEF CalendarDaysConstants
  <2> QED
    BY <2>1, <2>2, <2>3
<1> QED
  BY <1>3, <1>4 DEF Collide, Blocks, Overlap

LEMMA CollisionIsMutual ==
    ASSUME NEW a \in DayRow, NEW b \in DayRow, Collide(a, b)
    PROVE  Collide(b, a)
<1>1. PICK x \in a.date..a.last : x \in b.date..b.last
  BY DEF Collide
<1>2. (b.date..b.last) \cap (a.date..a.last) # {}
  BY <1>1
<1>3. <<b.time, a.time>> \in Clash
  BY CollidingBlocks DEF Blocks, Overlap
<1> QED
  BY <1>2, <1>3 DEF Collide

\* A row put into a table in which it meets no other collides with none.
LEMMA FreeRowFits ==
    ASSUME NEW t \in Seq(DayRow), NEW u \in Seq(DayRow), NEW k \in DOMAIN u, NEW m, NEW r,
           u[k] = r, \A j \in DOMAIN u \ {k} : j \in DOMAIN t /\ u[j] = t[j] /\ j # m,
           Conflicts(t, r, m) = {}, NoneCollides(t)
    PROVE  NoneCollides(u)
<1>1. \A j \in DOMAIN u : u[j] \in DayRow
  BY DEF Conflicts
<1>2. \A j \in DOMAIN u \ {k} : ~(Counts(u[j]) /\ Blocks(u[k], u[j]))
  BY DEF Conflicts
<1>3. \A j \in DOMAIN u \ {k} : ~Collide(u[k], u[j]) /\ ~Collide(u[j], u[k])
  BY <1>1, <1>2, CollidingBlocks
<1> QED
  BY <1>3 DEF NoneCollides

\* A table whose other rows stay where and when they were, and count only if they did,
\* has no new collisions.
LEMMA NoneMoreCollides ==
    ASSUME NEW t \in Seq(DayRow), NEW u \in Seq(DayRow), NoneCollides(t),
           \A i \in DOMAIN u :
             \/ u[i].rec \/ u[i].time = NoTime
             \/ /\ i \in DOMAIN t /\ u[i].rec = t[i].rec /\ (Counts(u[i]) => Counts(t[i]))
                /\ u[i].date = t[i].date /\ u[i].last = t[i].last /\ u[i].time = t[i].time
                /\ u[i].place = t[i].place /\ u[i].scope = t[i].scope
    PROVE  NoneCollides(u)
<1> SUFFICES ASSUME NEW i \in DOMAIN u, NEW j \in DOMAIN u, i # j, Collide(u[i], u[j]),
                    ~u[i].rec, ~u[j].rec
             PROVE  FALSE
  BY DEF NoneCollides
<1>1. u[i] \in DayRow /\ u[j] \in DayRow
  OBVIOUS
<1>2. /\ Counts(u[i]) /\ Counts(u[j]) /\ u[i].time # NoTime /\ u[j].time # NoTime
  BY <1>1, CollidingBlocks
<1>3. i \in DOMAIN t /\ j \in DOMAIN t /\ Counts(t[i]) /\ Counts(t[j])
      /\ ~t[i].rec /\ ~t[j].rec
  BY <1>2
<1>4. /\ u[i].date = t[i].date /\ u[i].last = t[i].last /\ u[i].time = t[i].time
      /\ u[i].place = t[i].place /\ u[i].scope = t[i].scope
      /\ u[j].date = t[j].date /\ u[j].last = t[j].last /\ u[j].time = t[j].time
      /\ u[j].place = t[j].place /\ u[j].scope = t[j].scope
  BY <1>2
<1>5. Collide(t[i], t[j])
  BY <1>3, <1>4 DEF Collide
<1> QED
  BY <1>3, <1>5 DEF NoneCollides

\* The table with what a handler has decided to write.
LEMMA TableWritten ==
    ASSUME days \in Seq(DayRow), NEW w \in DayWrites, DOMAIN w.upd \subseteq DOMAIN days
    PROVE  /\ Written(w) \in Seq(DayRow)
           /\ Len(Written(w)) = Len(days) + Len(w.ins)
           /\ \A i \in 1..Len(days) :
                Written(w)[i] = IF i \in DOMAIN w.upd THEN w.upd[i] ELSE days[i]
           /\ \A k \in 1..Len(w.ins) : Written(w)[Len(days) + k] = w.ins[k]
<1> DEFINE old == [i \in DOMAIN days |-> IF i \in DOMAIN w.upd THEN w.upd[i] ELSE days[i]]
<1>1. w.upd \in DayValues /\ w.ins \in Seq(DayRow)
  BY DEF DayWrites
<1>2. PICK D \in SUBSET Nat : w.upd \in [D -> DayRow]
  BY <1>1 DEF DayValues
<1>3. \A i \in DOMAIN w.upd : w.upd[i] \in DayRow
  BY <1>2
<1>4. Len(days) \in Nat /\ DOMAIN days = 1..Len(days) /\ Len(w.ins) \in Nat
  BY <1>1
<1>5. old \in [1..Len(days) -> DayRow]
  BY <1>3, <1>4
<1>6. old \in Seq(DayRow) /\ Len(old) = Len(days)
  BY <1>4, <1>5
<1>7. Written(w) = old \o w.ins
  BY DEF Written
<1> HIDE DEF old
<1>8. /\ Written(w) \in Seq(DayRow) /\ Len(Written(w)) = Len(old) + Len(w.ins)
      /\ \A i \in 1..Len(old) : Written(w)[i] = old[i]
      /\ \A k \in 1..Len(w.ins) : Written(w)[Len(old) + k] = w.ins[k]
  BY <1>1, <1>4, <1>6, <1>7
<1> QED
  BY <1>4, <1>6, <1>8 DEF old

\* One more row to insert.
LEMMA OneMoreRow ==
    ASSUME days \in Seq(DayRow), NEW w \in DayWrites, WritesOK(w), NEW r \in DayRow
    PROVE  /\ NewRow(w, r) \in DayWrites
           /\ NoOccurrence(r) => WritesOK(NewRow(w, r))
           /\ NoneCollides(Written(w)) /\ Conflicts(Written(w), r, 0) = {} =>
                NoneCollides(Written(NewRow(w, r)))
<1>1. PICK n : n = NewRow(w, r)
  OBVIOUS
<1>2. w.upd \in DayValues /\ w.ins \in Seq(DayRow) /\ DOMAIN w.upd \subseteq DOMAIN days
  BY DEF DayWrites, WritesOK
<1>3. n.upd = w.upd /\ n.ins = Append(w.ins, r)
  BY <1>1 DEF NewRow
<1>4. n \in DayWrites
  BY <1>1, <1>2 DEF DayWrites, NewRow
<1>5. NoOccurrence(r) => WritesOK(n)
  BY <1>2, <1>3 DEF WritesOK
<1>6. PICK t : t = Written(w)
  OBVIOUS
<1>7. PICK u : u = Written(n)
  OBVIOUS
<1>8. /\ t \in Seq(DayRow) /\ Len(t) = Len(days) + Len(w.ins)
      /\ \A i \in 1..Len(days) : t[i] = IF i \in DOMAIN w.upd THEN w.upd[i] ELSE days[i]
      /\ \A k \in 1..Len(w.ins) : t[Len(days) + k] = w.ins[k]
  BY <1>2, <1>6, TableWritten
<1>9. /\ u \in Seq(DayRow) /\ Len(u) = Len(days) + Len(n.ins)
      /\ \A i \in 1..Len(days) : u[i] = IF i \in DOMAIN n.upd THEN n.upd[i] ELSE days[i]
      /\ \A k \in 1..Len(n.ins) : u[Len(days) + k] = n.ins[k]
  BY <1>2, <1>3, <1>4, <1>7, TableWritten
<1>10. Len(days) \in Nat /\ Len(w.ins) \in Nat /\ Len(n.ins) = Len(w.ins) + 1
       /\ n.ins[Len(w.ins) + 1] = r /\ \A k \in 1..Len(w.ins) : n.ins[k] = w.ins[k]
  BY <1>2, <1>3
<1>11. Len(u) = Len(t) + 1 /\ u[Len(t) + 1] = r /\ DOMAIN t = 1..Len(t) /\ DOMAIN u = 1..Len(u)
  <2>1. Len(u) = Len(t) + 1 /\ Len(t) + 1 = Len(days) + (Len(w.ins) + 1)
    BY <1>8, <1>9, <1>10
  <2>2. Len(w.ins) + 1 \in 1..Len(n.ins)
    BY <1>10
  <2>3. u[Len(days) + (Len(w.ins) + 1)] = n.ins[Len(w.ins) + 1]
    BY <1>9, <2>2
  <2> QED
    BY <1>8, <1>9, <1>10, <2>1, <2>3
<1>12. ASSUME NEW j \in 1..Len(t) PROVE u[j] = t[j]
  <2>1. CASE j <= Len(days)
    BY <1>3, <1>8, <1>9, <1>10, <2>1
  <2>2. CASE ~(j <= Len(days))
    <3>1. PICK k \in 1..Len(w.ins) : j = Len(days) + k
      <4>1. j - Len(days) \in 1..Len(w.ins) /\ j = Len(days) + (j - Len(days))
        BY <1>8, <1>10, <1>12, <2>2
      <4> QED
        BY <4>1
    <3>2. k \in 1..Len(n.ins)
      BY <1>10
    <3> QED
      BY <1>8, <1>9, <1>10, <3>1, <3>2
  <2> QED
    BY <2>1, <2>2
<1>13. NoneCollides(t) /\ Conflicts(t, r, 0) = {} => NoneCollides(u)
  <2>1. Len(t) \in Nat
    BY <1>8
  <2>2. PICK k : k = Len(t) + 1
    OBVIOUS
  <2>3. k \in DOMAIN u /\ u[k] = r
        /\ \A j \in DOMAIN u \ {k} : j \in DOMAIN t /\ u[j] = t[j] /\ j # 0
    BY <1>11, <1>12, <2>1, <2>2
  <2>4. t \in Seq(DayRow) /\ u \in Seq(DayRow)
    BY <1>8, <1>9
  <2> QED
    BY <2>3, <2>4, FreeRowFits
<1> QED
  BY <1>1, <1>4, <1>5, <1>6, <1>7, <1>13

\* One more row to change.
LEMMA OneMoreValue ==
    ASSUME days \in Seq(DayRow), NEW w \in DayWrites, WritesOK(w), NEW i \in DOMAIN days,
           NEW r \in DayRow
    PROVE  /\ NewValue(w, i, r) \in DayWrites
           /\ r.rec = days[i].rec /\ (EventsOnly => r.kind = "EVENT") =>
                WritesOK(NewValue(w, i, r))
           /\ NoneCollides(Written(w)) /\ Conflicts(Written(w), r, i) = {} =>
                NoneCollides(Written(NewValue(w, i, r)))
<1>1. PICK n : n = NewValue(w, i, r)
  OBVIOUS
<1>2. w.upd \in DayValues /\ w.ins \in Seq(DayRow) /\ DOMAIN w.upd \subseteq DOMAIN days
  BY DEF DayWrites, WritesOK
<1>3. /\ n.ins = w.ins /\ DOMAIN n.upd = DOMAIN w.upd \cup {i} /\ n.upd[i] = r
      /\ \A j \in DOMAIN w.upd \ {i} : n.upd[j] = w.upd[j]
  BY <1>1 DEF NewValue
<1>4. n.upd \in DayValues
  <2>1. PICK D \in SUBSET Nat : w.upd \in [D -> DayRow]
    BY <1>2 DEF DayValues
  <2>2. D \cup {i} \in SUBSET Nat /\ DOMAIN w.upd = D
        /\ \A j \in D : w.upd[j] \in DayRow
    <3>1. i \in Nat
      OBVIOUS
    <3> QED
      BY <2>1, <3>1
  <2>3. n.upd = [j \in D \cup {i} |-> IF j = i THEN r ELSE w.upd[j]]
    BY <1>1, <2>2 DEF NewValue
  <2>4. n.upd \in [D \cup {i} -> DayRow]
    BY <2>2, <2>3
  <2> QED
    BY <2>2, <2>4 DEF DayValues
<1>5. n \in DayWrites
  <2>1. n = [upd |-> n.upd, ins |-> w.ins]
    BY <1>1 DEF NewValue
  <2> QED
    BY <1>2, <1>4, <2>1 DEF DayWrites
<1>6. r.rec = days[i].rec /\ (EventsOnly => r.kind = "EVENT") => WritesOK(n)
  BY <1>2, <1>3 DEF WritesOK
<1>7. PICK t : t = Written(w)
  OBVIOUS
<1>8. PICK u : u = Written(n)
  OBVIOUS
<1>9. /\ t \in Seq(DayRow) /\ Len(t) = Len(days) + Len(w.ins)
      /\ \A j \in 1..Len(days) : t[j] = IF j \in DOMAIN w.upd THEN w.upd[j] ELSE days[j]
      /\ \A k \in 1..Len(w.ins) : t[Len(days) + k] = w.ins[k]
  BY <1>2, <1>7, TableWritten
<1>10. /\ u \in Seq(DayRow) /\ Len(u) = Len(days) + Len(n.ins)
       /\ \A j \in 1..Len(days) : u[j] = IF j \in DOMAIN n.upd THEN n.upd[j] ELSE days[j]
       /\ \A k \in 1..Len(n.ins) : u[Len(days) + k] = n.ins[k]
  <2>1. DOMAIN n.upd \subseteq DOMAIN days
    BY <1>2, <1>3
  <2> QED
    BY <1>5, <1>8, <2>1, TableWritten
<1>11. Len(days) \in Nat /\ DOMAIN days = 1..Len(days) /\ Len(w.ins) \in Nat
       /\ DOMAIN t = 1..Len(t) /\ DOMAIN u = 1..Len(t)
  BY <1>2, <1>3, <1>9, <1>10
<1>12. u[i] = r /\ i \in 1..Len(t)
  <2>1. i \in 1..Len(days) /\ i \in DOMAIN n.upd /\ n.upd[i] = r
    BY <1>3, <1>11
  <2>2. u[i] = n.upd[i]
    BY <1>10, <2>1
  <2> QED
    BY <1>9, <1>11, <2>1, <2>2
<1>13. ASSUME NEW j \in 1..Len(t), j # i PROVE u[j] = t[j]
  <2>1. CASE j <= Len(days)
    <3>1. j \in 1..Len(days) /\ (j \in DOMAIN n.upd <=> j \in DOMAIN w.upd)
      BY <1>3, <1>11, <1>13, <2>1
    <3>2. t[j] = IF j \in DOMAIN w.upd THEN w.upd[j] ELSE days[j]
      BY <1>9, <3>1
    <3>3. u[j] = IF j \in DOMAIN n.upd THEN n.upd[j] ELSE days[j]
      BY <1>10, <3>1
    <3> QED
      BY <1>3, <1>13, <3>1, <3>2, <3>3
  <2>2. CASE ~(j <= Len(days))
    <3>1. j - Len(days) \in 1..Len(w.ins) /\ j = Len(days) + (j - Len(days))
      BY <1>9, <1>11, <1>13, <2>2
    <3>2. PICK k \in 1..Len(w.ins) : j = Len(days) + k
      BY <3>1
    <3> QED
      BY <1>3, <1>9, <1>10, <3>2
  <2> QED
    BY <2>1, <2>2
<1>14. NoneCollides(t) /\ Conflicts(t, r, i) = {} => NoneCollides(u)
  <2>1. \A j \in DOMAIN u \ {i} : j \in DOMAIN t /\ u[j] = t[j] /\ j # i
    BY <1>11, <1>13
  <2>2. i \in DOMAIN u
    BY <1>11, <1>12
  <2>3. t \in Seq(DayRow) /\ u \in Seq(DayRow) /\ u[i] = r
    BY <1>9, <1>10, <1>12
  <2> QED
    BY <2>1, <2>2, <2>3, FreeRowFits
<1> QED
  BY <1>1, <1>5, <1>6, <1>7, <1>8, <1>14

\* Nothing to write leaves the table.
LEMMA NothingWritten ==
    ASSUME days \in Seq(DayRow)
    PROVE  NoWrites \in DayWrites /\ WritesOK(NoWrites) /\ Written(NoWrites) = days
<1>1. PICK w : w = NoWrites
  OBVIOUS
<1>2. w.upd = <<>> /\ w.ins = <<>> /\ w = [upd |-> <<>>, ins |-> <<>>]
  BY <1>1 DEF NoWrites
<1>3. <<>> \in Seq(DayRow) /\ <<>> \in [{} -> DayRow] /\ DOMAIN <<>> = {} /\ Len(<<>>) = 0
  OBVIOUS
<1>4. w \in DayWrites
  BY <1>2, <1>3 DEF DayWrites, DayValues
<1>5. WritesOK(w)
  BY <1>2, <1>3 DEF WritesOK
<1>6. PICK t : t = Written(w)
  OBVIOUS
<1>7. t \in Seq(DayRow) /\ Len(t) = Len(days) /\ \A i \in 1..Len(days) : t[i] = days[i]
  BY <1>2, <1>3, <1>4, <1>6, TableWritten
<1>8. t = days
  BY <1>7
<1> QED
  BY <1>1, <1>4, <1>5, <1>6, <1>8

-----------------------------------------------------------------------------
(* Rows *)

LEMMA RowOfBody ==
    ASSUME NEW b \in EntryBody, NEW st \in DayStatuses, NEW rec \in BOOLEAN
    PROVE  /\ RowOf(b, st, rec) \in DayRow
           /\ RowOf(b, st, rec).rec = rec /\ RowOf(b, st, rec).kind = b.kind
BY DEF RowOf, EntryBody, DayRow

LEMMA CreatedRow ==
    ASSUME NEW b \in EntryBody
    PROVE  /\ Created(b) \in DayRow
           /\ (EventsOnly => b.kind = "EVENT") => NoOccurrence(Created(b))
<1>1. b.status \in DayStatuses \cup {"absent"}
  BY DEF EntryBody
<1>2. PICK st \in DayStatuses : Created(b) = RowOf(b, st, FALSE)
  BY <1>1 DEF Created, DayStatuses, InUseStatuses
<1>3. PICK r : r = RowOf(b, st, FALSE)
  OBVIOUS
<1>4. r \in DayRow /\ r.rec = FALSE /\ r.kind = b.kind
  BY <1>3, RowOfBody
<1> QED
  BY <1>2, <1>3, <1>4 DEF NoOccurrence

LEMMA PatchedRow ==
    ASSUME NEW old \in DayRow, NEW b \in EntryBody
    PROVE  /\ Patched(old, b) \in DayRow
           /\ Patched(old, b).rec = old.rec /\ Patched(old, b).kind = b.kind
<1>1. b.status \in DayStatuses \cup {"absent"} /\ old.status \in DayStatuses /\ old.rec \in BOOLEAN
  BY DEF EntryBody, DayRow
<1>2. "PENDING_APPROVAL" \in DayStatuses
  BY DEF DayStatuses, InUseStatuses
<1>3. PICK st \in DayStatuses : Patched(old, b) = RowOf(b, st, old.rec)
  BY <1>1, <1>2 DEF Patched
<1> QED
  BY <1>1, <1>3, RowOfBody

LEMMA EventBodies ==
    ASSUME NEW b \in Bodies
    PROVE  b \in EntryBody /\ (EventsOnly => b.kind = "EVENT")
<1>1. b \in EntryBody
  BY CalendarDaysAssumption DEF CalendarDaysConstants
<1>2. b.kind \in {"EVENT", "HOLIDAY"}
  BY <1>1 DEF EntryBody, DayKinds
<1> QED
  BY <1>1, <1>2 DEF EventsOnly

-----------------------------------------------------------------------------
(* The fields of a request under way *)

LEMMA EditFields ==
    ASSUME NEW q \in DayEdits
    PROVE  /\ q.pc = "save" => q.writes \in DayWrites
           /\ q.pc = "bulk" =>
                /\ q.todo \in Seq(SchoolDates) /\ q.body \in EntryBody
                /\ q.writes \in DayWrites /\ q.found \in SUBSET DaysRead
                /\ q = [pc |-> "bulk", todo |-> q.todo, body |-> q.body, skip |-> q.skip,
                        writes |-> q.writes, found |-> q.found]
                /\ q.skip \in BOOLEAN
           /\ q.pc \in {"update", "generate"} => q.rule \in RuleBody
           /\ q.pc \in {"look", "insert", "rename"} => q.todo \in HolidaysLeft
           /\ q.pc = "rename" => q.id \in Nat
           /\ q.pc = "idle" => q = NotSaving
           /\ q.pc \in {"idle", "save", "bulk", "update", "generate", "deactivate", "look",
                        "insert", "rename"}
BY DEF DayEdits, NotSaving

LEMMA QuietEdits ==
    ASSUME NEW q, q.pc \in {"idle", "deactivate", "look"},
           q.pc = "look" => q.todo # <<>>
    PROVE  EditOK(q) /\ EditFresh(q) /\ EditOK(q)' /\ EditFresh(q)'
BY DEF EditOK, EditFresh

-----------------------------------------------------------------------------
(* The steps of a request *)

LEMMA CalendarInvInit == CalendarInit => CalendarInv
<1> SUFFICES ASSUME CalendarInit PROVE CalendarInv
  OBVIOUS
<1>1. days = <<>> /\ event = {} /\ disturbed = FALSE /\ saving = [s \in Editors |-> NotSaving]
  BY DEF CalendarInit
<1>2. NotSaving \in DayEdits /\ NotSaving.pc = "idle"
  BY DEF DayEdits, NotSaving
<1>3. \A s \in Editors : saving[s] = NotSaving
  BY <1>1
<1>4. DayTypes
  <2>1. days \in Seq(DayRow)
    <3>1. <<>> \in Seq(DayRow)
      OBVIOUS
    <3> QED
      BY <1>1, <3>1
  <2>2. \A s \in Editors : saving[s].pc = "idle"
    BY <1>2, <1>3
  <2> QED
    BY <1>1, <2>1, <2>2 DEF DayTypes
<1>5. \A s \in Editors : EditOK(saving[s]) /\ EditFresh(saving[s])
  BY <1>2, <1>3, QuietEdits
<1>6. OnceOnDate(days) /\ NoneCollides(days) /\ OneHolidayEach(days)
  BY <1>1 DEF OnceOnDate, NoneCollides, OneHolidayEach
<1> QED
  BY <1>1, <1>2, <1>4, <1>5, <1>6 DEF CalendarInv

\* A request that goes on without writing.
LEMMA CalendarReadStays ==
    ASSUME CalendarInv, NEW s \in Editors, NEW q \in DayEdits, Reads(s, q),
           EditOK(q), ~disturbed => EditFresh(q)
    PROVE  CalendarInv'
<1>1. days' = days /\ event' = event /\ disturbed' = disturbed
      /\ saving' = [saving EXCEPT ![s] = q]
  BY DEF Reads, GoesTo
<1>2. saving \in [Editors -> DayEdits]
  BY DEF CalendarInv
<1>3. /\ saving' \in [Editors -> DayEdits]
      /\ \A u \in Editors : saving'[u] = IF u = s THEN q ELSE saving[u]
  BY <1>1, <1>2
<1>4. \A u \in Editors : saving'[u].pc \in {"idle", "save", "bulk", "update", "generate",
                                            "deactivate", "look", "insert", "rename"}
  BY <1>3, EditFields
<1>5. DayTypes'
  <2>1. DayTypes
    BY DEF CalendarInv
  <2> QED
    BY <1>1, <1>4, <2>1 DEF DayTypes
<1>6. \A u \in Editors : EditOK(saving'[u]) /\ (~disturbed => EditFresh(saving'[u]))
  BY <1>3 DEF CalendarInv
<1>7. \A p : (EditOK(p)' <=> EditOK(p)) /\ (EditFresh(p)' <=> EditFresh(p))
  BY <1>1 DEF EditOK, EditFresh, WritesOK, Written, HolidaysOn, InUse
<1>8. \A u \in Editors : EditOK(saving[u])' /\ (~disturbed' => EditFresh(saving[u])')
  <2> SUFFICES ASSUME NEW u \in Editors
               PROVE  EditOK(saving[u])' /\ (~disturbed' => EditFresh(saving[u])')
    OBVIOUS
  <2>1. PICK p : p = saving'[u]
    OBVIOUS
  <2>2. EditOK(p) /\ (~disturbed => EditFresh(p))
    BY <1>6, <2>1
  <2>3. EditOK(p)' /\ (~disturbed' => EditFresh(p)')
    BY <1>1, <1>7, <2>2
  <2> QED
    BY <2>1, <2>3 DEF EditOK, EditFresh
<1>9. OnceOnDate(days') /\ (~disturbed' => NoneCollides(days') /\ (EventsOnly => OneHolidayEach(days')))
  BY <1>1 DEF CalendarInv
<1> QED
  BY <1>3, <1>5, <1>8, <1>9 DEF CalendarInv

\* A request that writes.
LEMMA CalendarWriteStays ==
    ASSUME CalendarInv, NEW s \in Editors, NEW q \in DayEdits,
           saving' = [saving EXCEPT ![s] = q], Disturbs(s),
           days' \in Seq(DayRow), DOMAIN days \subseteq DOMAIN days',
           \A i \in DOMAIN days : days'[i].rec = days[i].rec,
           OnceOnDate(days'),
           event' \subseteq RuleBody, \A e, f \in event' : e = f,
           q.pc \in {"idle", "deactivate", "look"}, q.pc = "look" => q.todo # <<>>,
           ~disturbed => NoneCollides(days') /\ (EventsOnly => OneHolidayEach(days'))
    PROVE  CalendarInv'
<1>1. saving \in [Editors -> DayEdits] /\ disturbed \in BOOLEAN
  BY DEF CalendarInv, DayTypes
<1>2. /\ saving' \in [Editors -> DayEdits]
      /\ \A u \in Editors : saving'[u] = IF u = s THEN q ELSE saving[u]
  BY <1>1
<1>3. \A u \in Editors : saving'[u].pc \in {"idle", "save", "bulk", "update", "generate",
                                            "deactivate", "look", "insert", "rename"}
  BY <1>2, EditFields
<1>4. /\ disturbed' \in BOOLEAN
      /\ ~disturbed' => ~disturbed /\ \A u \in Editors \ {s} : saving[u] = NotSaving
  BY <1>1 DEF Disturbs, Ready
<1>5. DayTypes'
  BY <1>3, <1>4 DEF DayTypes
<1>6. EditOK(q)' /\ EditFresh(q)'
  BY QuietEdits
<1>7. \A u \in Editors : EditOK(saving[u])' /\ (~disturbed' => EditFresh(saving[u])')
  <2> SUFFICES ASSUME NEW u \in Editors
               PROVE  EditOK(saving[u])' /\ (~disturbed' => EditFresh(saving[u])')
    OBVIOUS
  <2>1. PICK p : p = saving'[u]
    OBVIOUS
  <2>2. CASE u = s
    <3>1. p = q
      BY <1>2, <2>1, <2>2
    <3> QED
      BY <1>6, <2>1, <3>1 DEF EditOK, EditFresh
  <2>3. CASE u # s
    <3>1. p = saving[u] /\ p \in DayEdits
      BY <1>1, <1>2, <2>1, <2>3
    <3>2. EditOK(p)
      BY <3>1 DEF CalendarInv
    <3>3. WritesOK(p.writes) => WritesOK(p.writes)'
      BY DEF WritesOK
    <3>4. EditOK(p)'
      BY <3>2, <3>3 DEF EditOK
    <3>5. ~disturbed' => EditFresh(p)'
      <4>1. NotSaving.pc = "idle"
        BY DEF NotSaving
      <4> QED
        BY <1>4, <2>3, <3>1, <4>1, QuietEdits
    <3> QED
      BY <2>1, <3>4, <3>5 DEF EditOK, EditFresh
  <2> QED
    BY <2>2, <2>3
<1> QED
  BY <1>2, <1>4, <1>5, <1>7 DEF CalendarInv

\* What is known of the table and of a request.
LEMMA CalendarFacts ==
    ASSUME CalendarInv, NEW s \in Editors
    PROVE  /\ days \in Seq(DayRow) /\ OnceOnDate(days)
           /\ event \subseteq RuleBody /\ \A e, f \in event : e = f
           /\ saving[s] \in DayEdits /\ EditOK(saving[s])
           /\ ~disturbed => /\ NoneCollides(days) /\ (EventsOnly => OneHolidayEach(days))
                            /\ EditFresh(saving[s])
BY DEF CalendarInv, DayTypes

LEMMA Leaving == NotSaving \in DayEdits /\ NotSaving.pc = "idle"
BY DEF DayEdits, NotSaving

LEMMA GiveUpStays ==
    ASSUME CalendarInv, NEW s \in Editors, GiveUp(s)
    PROVE  CalendarInv'
BY Leaving, QuietEdits, CalendarReadStays DEF GiveUp

\* To save what the table with it allows.
LEMMA DecidesToSave ==
    ASSUME CalendarInv, NEW s \in Editors, NEW w \in DayWrites, WritesOK(w),
           ~disturbed => NoneCollides(Written(w)),
           Reads(s, [pc |-> "save", writes |-> w])
    PROVE  CalendarInv'
<1>1. PICK q : q = [pc |-> "save", writes |-> w]
  OBVIOUS
<1>2. q.pc = "save" /\ q.writes = w
  BY <1>1
<1>3. q \in DayEdits
  BY <1>1 DEF DayEdits
<1>4. EditOK(q) /\ (~disturbed => EditFresh(q))
  BY <1>2 DEF EditOK, EditFresh
<1> QED
  BY <1>1, <1>3, <1>4, CalendarReadStays

LEMMA PostEntryStays ==
    ASSUME CalendarInv, NEW s \in Editors, NEW b \in Bodies, PostEntry(s, b)
    PROVE  CalendarInv'
<1>1. days \in Seq(DayRow) /\ (~disturbed => NoneCollides(days))
  BY CalendarFacts
<1>2. NoWrites \in DayWrites /\ WritesOK(NoWrites) /\ Written(NoWrites) = days
  BY <1>1, NothingWritten
<1>3. PICK r : r = Created(b)
  OBVIOUS
<1>4. r \in DayRow /\ NoOccurrence(r)
  BY <1>3, EventBodies, CreatedRow
<1>5. Conflicts(Written(NoWrites), r, 0) = {}
  BY <1>2, <1>3 DEF PostEntry
<1>6. PICK w : w = NewRow(NoWrites, r)
  OBVIOUS
<1>7. w \in DayWrites /\ WritesOK(w) /\ (~disturbed => NoneCollides(Written(w)))
  BY <1>1, <1>2, <1>4, <1>5, <1>6, OneMoreRow
<1>8. Reads(s, [pc |-> "save", writes |-> w])
  BY <1>3, <1>6 DEF PostEntry
<1> QED
  BY <1>7, <1>8, DecidesToSave

LEMMA PatchEntryStays ==
    ASSUME CalendarInv, NEW s \in Editors, NEW i \in DOMAIN days, NEW b \in Bodies,
           PatchEntry(s, i, b)
    PROVE  CalendarInv'
<1>1. days \in Seq(DayRow) /\ (~disturbed => NoneCollides(days)) /\ days[i] \in DayRow
  BY CalendarFacts
<1>2. NoWrites \in DayWrites /\ WritesOK(NoWrites) /\ Written(NoWrites) = days
  BY <1>1, NothingWritten
<1>3. PICK r : r = Patched(days[i], b)
  OBVIOUS
<1>4. r \in DayRow /\ r.rec = days[i].rec /\ (EventsOnly => r.kind = "EVENT")
  BY <1>1, <1>3, EventBodies, PatchedRow
<1>5. Conflicts(Written(NoWrites), r, i) = {}
  BY <1>2, <1>3 DEF PatchEntry, Accepted
<1>6. PICK w : w = NewValue(NoWrites, i, r)
  OBVIOUS
<1>7. w \in DayWrites /\ WritesOK(w) /\ (~disturbed => NoneCollides(Written(w)))
  BY <1>1, <1>2, <1>4, <1>5, <1>6, OneMoreValue
<1>8. Reads(s, [pc |-> "save", writes |-> w])
  BY <1>3, <1>6 DEF PatchEntry
<1> QED
  BY <1>7, <1>8, DecidesToSave

LEMMA BeginBulkStays ==
    ASSUME CalendarInv, NEW s \in Editors, NEW ds \in DateLists, NEW b \in Bodies,
           NEW skip \in BOOLEAN, BeginBulk(s, ds, b, skip)
    PROVE  CalendarInv'
<1>1. days \in Seq(DayRow) /\ (~disturbed => NoneCollides(days))
  BY CalendarFacts
<1>2. PICK f \in FoundFor(ds) :
        Reads(s, [pc |-> "bulk", todo |-> ds, body |-> b, skip |-> skip, writes |-> NoWrites,
                  found |-> {[id |-> f[d], row |-> days[f[d]]] : d \in DOMAIN f}])
  BY DEF BeginBulk
<1>3. \A d \in DOMAIN f : f[d] \in DOMAIN days
  BY DEF FoundFor
<1>4. PICK found : found = {[id |-> f[d], row |-> days[f[d]]] : d \in DOMAIN f}
  OBVIOUS
<1>5. \A g \in found : g \in DaysRead /\ g.id \in DOMAIN days /\ g.row = days[g.id]
  <2> SUFFICES ASSUME NEW d \in DOMAIN f, NEW g, g = [id |-> f[d], row |-> days[f[d]]]
               PROVE  g \in DaysRead /\ g.id \in DOMAIN days /\ g.row = days[g.id]
    BY <1>4
  <2>1. f[d] \in DOMAIN days /\ f[d] \in Nat /\ days[f[d]] \in DayRow
    BY <1>1, <1>3
  <2> QED
    BY <2>1 DEF DaysRead
<1>6. PICK q : q = [pc |-> "bulk", todo |-> ds, body |-> b, skip |-> skip, writes |-> NoWrites,
                    found |-> found]
  OBVIOUS
<1>7. q.pc = "bulk" /\ q.todo = ds /\ q.body = b /\ q.writes = NoWrites /\ q.found = found
  BY <1>6
<1>8. NoWrites \in DayWrites /\ WritesOK(NoWrites) /\ Written(NoWrites) = days
  BY <1>1, NothingWritten
<1>9. ds \in Seq(SchoolDates) /\ ds # <<>> /\ b \in EntryBody /\ (EventsOnly => b.kind = "EVENT")
  BY EventBodies, CalendarDaysAssumption DEF CalendarDaysConstants
<1>10. q \in DayEdits
  BY <1>5, <1>6, <1>8, <1>9 DEF DayEdits
<1>11. EditOK(q) /\ (~disturbed => EditFresh(q))
  BY <1>1, <1>5, <1>7, <1>8, <1>9 DEF EditOK, EditFresh
<1>12. Reads(s, q)
  BY <1>2, <1>4, <1>6
<1> QED
  BY <1>10, <1>11, <1>12, CalendarReadStays

LEMMA SomeLeft ==
    ASSUME NEW S, NEW t \in Seq(S), t # <<>>, Len(t) # 1
    PROVE  Tail(t) \in Seq(S) /\ Tail(t) # <<>>
<1>1. Len(t) \in Nat \ {0}
  BY EmptySeq
<1>2. Tail(t) \in Seq(S) /\ Len(Tail(t)) = Len(t) - 1
  BY HeadTailProperties
<1>3. Len(Tail(t)) # 0
  BY <1>1, <1>2
<1> QED
  BY <1>2, <1>3, EmptySeq

\* After a date: the next one, or the write.
LEMMA NextDateStays ==
    ASSUME CalendarInv, NEW s \in Editors, saving[s].pc = "bulk", NEW w \in DayWrites,
           WritesOK(w), ~disturbed => NoneCollides(Written(w)),
           Reads(s, NextDate(saving[s], w))
    PROVE  CalendarInv'
<1>1. PICK q : q = saving[s]
  OBVIOUS
<1>2. q \in DayEdits /\ q.pc = "bulk" /\ EditOK(q)
  BY <1>1, CalendarFacts
<1>3. q.todo \in Seq(SchoolDates) /\ q.todo # <<>>
  BY <1>2, EditFields DEF EditOK
<1>4. CASE Len(q.todo) = 1
  BY <1>1, <1>4, DecidesToSave DEF NextDate
<1>5. CASE Len(q.todo) # 1
  <2>1. PICK p : p = [q EXCEPT !.todo = Tail(q.todo), !.writes = w]
    OBVIOUS
  <2>2. Tail(q.todo) \in Seq(SchoolDates) /\ Tail(q.todo) # <<>>
    BY <1>3, <1>5, SomeLeft
  <2>3. q = [pc |-> "bulk", todo |-> q.todo, body |-> q.body, skip |-> q.skip,
             writes |-> q.writes, found |-> q.found]
        /\ q.body \in EntryBody /\ q.skip \in BOOLEAN /\ q.found \in SUBSET DaysRead
    BY <1>2, EditFields
  <2>4. PICK todo : todo = Tail(q.todo)
    OBVIOUS
  <2>5. p = [pc |-> "bulk", todo |-> todo, body |-> q.body, skip |-> q.skip,
             writes |-> w, found |-> q.found]
    <3>1. PICK old, body, skip, writes, found :
            /\ q = [pc |-> "bulk", todo |-> old, body |-> body, skip |-> skip,
                    writes |-> writes, found |-> found]
            /\ body = q.body /\ skip = q.skip /\ found = q.found
      BY <2>3
    <3>2. p = [[q EXCEPT !.todo = todo] EXCEPT !.writes = w]
      BY <2>1, <2>4
    <3>3. [q EXCEPT !.todo = todo] = [pc |-> "bulk", todo |-> todo, body |-> body,
                                      skip |-> skip, writes |-> writes, found |-> found]
      BY <3>1
    <3> QED
      BY <3>1, <3>2, <3>3
  <2>6. p \in DayEdits
    BY <2>2, <2>3, <2>4, <2>5 DEF DayEdits
  <2>7. p.pc = "bulk" /\ p.todo # <<>> /\ p.body = q.body /\ p.writes = w /\ p.found = q.found
    BY <2>2, <2>4, <2>5
  <2>8. EditOK(p)
    BY <1>2, <2>7 DEF EditOK
  <2>9. ~disturbed => EditFresh(p)
    BY <2>7 DEF EditFresh
  <2>10. Reads(s, p)
    BY <1>1, <1>5, <2>1 DEF NextDate
  <2> QED
    BY <2>6, <2>8, <2>9, <2>10, CalendarReadStays
<1> QED
  BY <1>4, <1>5

LEMMA BulkDateStays ==
    ASSUME CalendarInv, NEW s \in Editors, BulkDate(s)
    PROVE  CalendarInv'
<1>1. PICK q : q = saving[s]
  OBVIOUS
<1>2. /\ days \in Seq(DayRow) /\ q \in DayEdits /\ q.pc = "bulk" /\ EditOK(q)
      /\ ~disturbed => NoneCollides(Written(q.writes))
  BY <1>1, CalendarFacts DEF BulkDate, EditFresh
<1>3. q.writes \in DayWrites /\ WritesOK(q.writes)
  BY <1>2, EditFields DEF EditOK
<1>4. PICK b : b = BodyOn(q)
  OBVIOUS
<1>5. b \in EntryBody /\ (EventsOnly => b.kind = "EVENT")
  <2>1. q.todo \in Seq(SchoolDates) /\ q.todo # <<>> /\ q.body \in EntryBody
        /\ (EventsOnly => q.body.kind = "EVENT")
    BY <1>2, EditFields DEF EditOK
  <2>2. PICK d : d = Head(q.todo)
    OBVIOUS
  <2>3. d \in SchoolDates /\ d \in Nat
    BY <2>1, <2>2, CalendarDaysAssumption DEF CalendarDaysConstants
  <2>4. PICK e, st : /\ e = IF q.body.last = q.body.date THEN d ELSE q.body.last
                     /\ st = IF q.body.status = "absent" THEN "DRAFT" ELSE q.body.status
    OBVIOUS
  <2>5. e \in Nat /\ st \in DayStatuses \cup {"absent"}
    BY <2>1, <2>3, <2>4 DEF EntryBody, DayStatuses, InUseStatuses
  <2>6. b = [q.body EXCEPT !.date = d, !.last = e, !.status = st]
    BY <1>4, <2>2, <2>4 DEF BodyOn
  <2> QED
    BY <2>1, <2>3, <2>5, <2>6 DEF EntryBody
<1>6. CASE Inserts(q) /\ Reads(s, NextDate(q, NewRow(q.writes, Created(BodyOn(q)))))
  <2>1. PICK r : r = Created(b)
    OBVIOUS
  <2>2. r \in DayRow /\ NoOccurrence(r)
    BY <1>5, <2>1, CreatedRow
  <2>3. Conflicts(Written(q.writes), r, 0) = {}
    BY <1>4, <1>6, <2>1 DEF Inserts
  <2>4. PICK w : w = NewRow(q.writes, r)
    OBVIOUS
  <2>5. w \in DayWrites /\ WritesOK(w) /\ (~disturbed => NoneCollides(Written(w)))
    BY <1>2, <1>3, <2>2, <2>3, <2>4, OneMoreRow
  <2>6. Reads(s, NextDate(saving[s], w))
    BY <1>1, <1>4, <1>6, <2>1, <2>4
  <2> QED
    BY <1>1, <1>2, <2>5, <2>6, NextDateStays
<1>7. ASSUME NEW f \in There(q), Replaces(q, f),
             Reads(s, NextDate(q, NewValue(q.writes, f.id, Patched(f.row, BodyOn(q)))))
      PROVE  CalendarInv'
  <2>1. PICK r : r = Patched(f.row, b)
    OBVIOUS
  <2>2. f \in DaysRead /\ f.id \in DOMAIN days /\ f.row.rec = days[f.id].rec
    BY <1>2, EditFields DEF EditOK, There
  <2>3. f.row \in DayRow
    BY <2>2 DEF DaysRead
  <2>4. r \in DayRow /\ r.rec = days[f.id].rec /\ (EventsOnly => r.kind = "EVENT")
    BY <1>5, <2>1, <2>2, <2>3, PatchedRow
  <2>5. Conflicts(Written(q.writes), r, f.id) = {}
    BY <1>4, <1>7, <2>1 DEF Replaces, Accepted
  <2>6. PICK w : w = NewValue(q.writes, f.id, r)
    OBVIOUS
  <2>7. w \in DayWrites /\ WritesOK(w) /\ (~disturbed => NoneCollides(Written(w)))
    BY <1>2, <1>3, <2>2, <2>4, <2>5, <2>6, OneMoreValue
  <2>8. Reads(s, NextDate(saving[s], w))
    BY <1>1, <1>4, <1>7, <2>1, <2>6
  <2> QED
    BY <1>1, <1>2, <2>7, <2>8, NextDateStays
<1>8. CASE Reads(s, NextDate(q, q.writes))
  BY <1>1, <1>2, <1>3, <1>8, NextDateStays
<1> QED
  BY <1>1, <1>6, <1>7, <1>8 DEF BulkDate

\* The rows are written as they were decided on, or not at all.
LEMMA SaveEntriesStays ==
    ASSUME CalendarInv, NEW s \in Editors, SaveEntries(s)
    PROVE  CalendarInv'
<1>1. PICK q : q = saving[s]
  OBVIOUS
<1>2. /\ days \in Seq(DayRow) /\ q \in DayEdits /\ q.pc = "save" /\ EditOK(q)
      /\ event \subseteq RuleBody /\ (\A e, f \in event : e = f)
      /\ ~disturbed => /\ NoneCollides(days) /\ (EventsOnly => OneHolidayEach(days))
                       /\ EditFresh(q)
  BY <1>1, CalendarFacts DEF SaveEntries
<1>3. PICK w : w = q.writes
  OBVIOUS
<1>4. w \in DayWrites /\ WritesOK(w) /\ (~disturbed => NoneCollides(Written(w)))
  BY <1>2, <1>3, EditFields DEF EditOK, EditFresh
<1>5. PICK t : t = Written(w)
  OBVIOUS
<1>6. days' = t /\ OnceOnDate(t) /\ saving' = [saving EXCEPT ![s] = NotSaving] /\ Disturbs(s)
      /\ event' = event
  BY <1>1, <1>3, <1>5 DEF SaveEntries, GoesTo
<1>7. DOMAIN w.upd \subseteq DOMAIN days
  BY <1>4 DEF WritesOK
<1>8. /\ t \in Seq(DayRow) /\ Len(t) = Len(days) + Len(w.ins)
      /\ \A i \in 1..Len(days) : t[i] = IF i \in DOMAIN w.upd THEN w.upd[i] ELSE days[i]
      /\ \A k \in 1..Len(w.ins) : t[Len(days) + k] = w.ins[k]
  BY <1>2, <1>4, <1>5, <1>7, TableWritten
<1>9. Len(days) \in Nat /\ Len(w.ins) \in Nat /\ DOMAIN days = 1..Len(days)
      /\ DOMAIN w.ins = 1..Len(w.ins) /\ DOMAIN t = 1..(Len(days) + Len(w.ins))
  BY <1>2, <1>4, <1>8 DEF DayWrites
<1>10. DOMAIN days \subseteq DOMAIN t
  BY <1>9
<1>11. \A i \in DOMAIN days : t[i].rec = days[i].rec
  BY <1>4, <1>8, <1>9 DEF WritesOK
<1>12. ASSUME EventsOnly, NEW i \in DOMAIN t, t[i].kind = "HOLIDAY"
       PROVE  i \in DOMAIN days /\ days[i] = t[i]
  <2>1. CASE i <= Len(days)
    <3>1. i \in 1..Len(days)
      BY <1>9, <1>12, <2>1
    <3>2. t[i] = IF i \in DOMAIN w.upd THEN w.upd[i] ELSE days[i]
      BY <1>8, <3>1
    <3>3. i \in DOMAIN w.upd => w.upd[i].kind = "EVENT"
      BY <1>4, <1>12 DEF WritesOK
    <3> QED
      BY <1>9, <1>12, <3>1, <3>2, <3>3
  <2>2. CASE ~(i <= Len(days))
    <3>1. i - Len(days) \in 1..Len(w.ins) /\ i = Len(days) + (i - Len(days))
      BY <1>9, <1>12, <2>2
    <3>2. PICK k \in 1..Len(w.ins) : i = Len(days) + k
      BY <3>1
    <3>3. w.ins[k].kind = "EVENT"
      BY <1>4, <1>9, <1>12 DEF WritesOK, NoOccurrence
    <3> QED
      BY <1>8, <1>12, <3>2, <3>3
  <2> QED
    BY <2>1, <2>2
<1>13. ~disturbed => NoneCollides(t) /\ (EventsOnly => OneHolidayEach(t))
  <2>1. EventsOnly /\ OneHolidayEach(days) => OneHolidayEach(t)
    BY <1>12 DEF OneHolidayEach
  <2> QED
    BY <1>2, <1>4, <1>5, <2>1
<1> QED
  BY <1>2, <1>6, <1>8, <1>10, <1>11, <1>13, Leaving, CalendarWriteStays

\* A statement that sets names, or statuses that count only where they did.
LEMMA ColumnStays ==
    ASSUME CalendarInv, NEW s \in Editors, NEW q \in DayEdits,
           saving' = [saving EXCEPT ![s] = q], Disturbs(s),
           q.pc \in {"idle", "deactivate", "look"}, q.pc = "look" => q.todo # <<>>,
           event' \subseteq RuleBody, \A e, f \in event' : e = f,
           days' \in Seq(DayRow), DOMAIN days' = DOMAIN days,
           \A i \in DOMAIN days :
             /\ days'[i].rec = days[i].rec /\ (Counts(days'[i]) => Counts(days[i]))
             /\ days'[i].date = days[i].date /\ days'[i].last = days[i].last
             /\ days'[i].time = days[i].time /\ days'[i].place = days[i].place
             /\ days'[i].scope = days[i].scope /\ days'[i].kind = days[i].kind
    PROVE  CalendarInv'
<1>1. PICK t : t = days'
  OBVIOUS
<1>2. /\ days \in Seq(DayRow) /\ OnceOnDate(days)
      /\ ~disturbed => NoneCollides(days) /\ (EventsOnly => OneHolidayEach(days))
  BY CalendarFacts
<1>3. OnceOnDate(t)
  BY <1>1, <1>2 DEF OnceOnDate
<1>4. NoneCollides(days) => NoneCollides(t)
  <2> HAVE NoneCollides(days)
  <2>1. t \in Seq(DayRow)
    BY <1>1
  <2>2. \A i \in DOMAIN t :
           /\ i \in DOMAIN days /\ t[i].rec = days[i].rec /\ (Counts(t[i]) => Counts(days[i]))
           /\ t[i].date = days[i].date /\ t[i].last = days[i].last /\ t[i].time = days[i].time
           /\ t[i].place = days[i].place /\ t[i].scope = days[i].scope
    BY <1>1
  <2> QED
    BY <1>2, <2>1, <2>2, NoneMoreCollides
<1>5. OneHolidayEach(days) => OneHolidayEach(t)
  BY <1>1 DEF OneHolidayEach
<1> QED
  BY <1>1, <1>2, <1>3, <1>4, <1>5, CalendarWriteStays

LEMMA StaysIdle ==
    ASSUME CalendarInv, NEW s \in Editors, Ready(s), UNCHANGED saving
    PROVE  saving' = [saving EXCEPT ![s] = NotSaving]
<1>1. saving \in [Editors -> DayEdits] /\ saving[s] = NotSaving /\ saving' = saving
  BY DEF CalendarInv, Ready
<1> QED
  BY <1>1

LEMMA MoveStatusStays ==
    ASSUME CalendarInv, NEW s \in Editors, NEW i \in DOMAIN days, NEW st \in DayStatuses,
           MoveStatus(s, i, st)
    PROVE  CalendarInv'
<1>1. days \in Seq(DayRow) /\ event \subseteq RuleBody /\ (\A e, f \in event : e = f)
  BY CalendarFacts
<1>2. days' = [days EXCEPT ![i].status = st] /\ Disturbs(s) /\ event' = event
  BY DEF MoveStatus
<1>3. saving' = [saving EXCEPT ![s] = NotSaving]
  BY StaysIdle DEF MoveStatus
<1>4. PICK t : t = days'
  OBVIOUS
<1>5. PICK r : r = [days[i] EXCEPT !.status = st]
  OBVIOUS
<1>6. days[i] \in DayRow /\ r \in DayRow /\ r.status = st
      /\ r.rec = days[i].rec /\ r.date = days[i].date /\ r.last = days[i].last
      /\ r.time = days[i].time /\ r.place = days[i].place /\ r.scope = days[i].scope
      /\ r.kind = days[i].kind
  <2>1. days[i] \in DayRow
    BY <1>1
  <2> QED
    BY <1>5, <2>1 DEF DayRow
<1>7. t = [days EXCEPT ![i] = r]
  BY <1>2, <1>4, <1>5
<1>8. t \in Seq(DayRow) /\ DOMAIN t = DOMAIN days
      /\ \A j \in DOMAIN days : t[j] = IF j = i THEN r ELSE days[j]
  BY <1>1, <1>6, <1>7
<1>9. Counts(r) => Counts(days[i])
  BY <1>6 DEF MoveStatus, Counts
<1>10. \A j \in DOMAIN days :
         /\ t[j].rec = days[j].rec /\ (Counts(t[j]) => Counts(days[j]))
         /\ t[j].date = days[j].date /\ t[j].last = days[j].last
         /\ t[j].time = days[j].time /\ t[j].place = days[j].place
         /\ t[j].scope = days[j].scope /\ t[j].kind = days[j].kind
  BY <1>6, <1>8, <1>9
<1> QED
  BY <1>1, <1>2, <1>3, <1>4, <1>8, <1>10, Leaving, ColumnStays

LEMMA CancelFutureStays ==
    ASSUME CalendarInv, NEW s \in Editors, CancelFuture(s)
    PROVE  CalendarInv'
<1>1. days \in Seq(DayRow) /\ event \subseteq RuleBody /\ (\A e, f \in event : e = f)
  BY CalendarFacts
<1>2. PICK q : q = [pc |-> "deactivate"]
  OBVIOUS
<1>3. q \in DayEdits /\ q.pc = "deactivate"
  BY <1>2 DEF DayEdits
<1>4. saving' = [saving EXCEPT ![s] = q] /\ Disturbs(s) /\ event' = event
  BY <1>2 DEF CancelFuture, GoesTo
<1>5. PICK t : t = days'
  OBVIOUS
<1>6. t = [i \in DOMAIN days |->
             IF days[i].rec /\ days[i].date >= Today /\ days[i].status \in InUseStatuses
             THEN [days[i] EXCEPT !.status = "CANCELLED"] ELSE days[i]]
  BY <1>5 DEF CancelFuture
<1>7. ASSUME NEW i \in DOMAIN days
      PROVE  /\ t[i] \in DayRow
             /\ t[i].rec = days[i].rec /\ (Counts(t[i]) => Counts(days[i]))
             /\ t[i].date = days[i].date /\ t[i].last = days[i].last
             /\ t[i].time = days[i].time /\ t[i].place = days[i].place
             /\ t[i].scope = days[i].scope /\ t[i].kind = days[i].kind
  <2>1. days[i] \in DayRow
    BY <1>1
  <2>2. PICK r : r = [days[i] EXCEPT !.status = "CANCELLED"]
    OBVIOUS
  <2>3. "CANCELLED" \in DayStatuses
    BY DEF DayStatuses
  <2>4. r \in DayRow /\ r.status = "CANCELLED"
        /\ r.rec = days[i].rec /\ r.date = days[i].date /\ r.last = days[i].last
        /\ r.time = days[i].time /\ r.place = days[i].place /\ r.scope = days[i].scope
        /\ r.kind = days[i].kind
    BY <2>1, <2>2, <2>3 DEF DayRow
  <2>5. t[i] = r \/ t[i] = days[i]
    BY <1>6, <2>2
  <2>6. ~Counts(r)
    BY <2>4 DEF Counts
  <2> QED
    BY <2>1, <2>4, <2>5, <2>6
<1>8. t \in Seq(DayRow) /\ DOMAIN t = DOMAIN days
  <2>1. DOMAIN days = 1..Len(days) /\ Len(days) \in Nat
    BY <1>1
  <2>2. t \in [1..Len(days) -> DayRow]
    BY <1>6, <1>7, <2>1
  <2> QED
    BY <2>1, <2>2
<1> QED
  BY <1>1, <1>3, <1>4, <1>5, <1>7, <1>8, ColumnStays

-----------------------------------------------------------------------------
(* The recurring definition *)

\* Generation adds an occurrence on each date that has none, if the definition is in use.
LEMMA GeneratedRows ==
    ASSUME days \in Seq(DayRow), OnceOnDate(days), NEW r \in RuleBody
    PROVE  /\ Generated(r) \in Seq(DayRow) /\ DOMAIN days \subseteq DOMAIN Generated(r)
           /\ \A i \in DOMAIN days : Generated(r)[i] = days[i]
           /\ \A i \in DOMAIN Generated(r) \ DOMAIN days :
                Generated(r)[i].rec /\ Generated(r)[i].kind = "EVENT"
           /\ OnceOnDate(Generated(r))
           /\ ~r.active => Generated(r) = days
<1>1. PICK t : t = Generated(r)
  OBVIOUS
<1>2. CASE ~r.active
  BY <1>2 DEF Generated
<1>3. CASE r.active
  <2>1. PICK M : M = Missing(r)
    OBVIOUS
  <2>2. /\ M \subseteq SchoolDates /\ M \subseteq r.dates
        /\ \A d \in M : \A i \in DOMAIN days : days[i].rec => days[i].date # d
    BY <2>1 DEF Missing, RuleBody
  <2>3. IsFiniteSet(M)
    BY <2>2, FS_Subset, CalendarDaysAssumption DEF CalendarDaysConstants
  <2>4. PICK O : O = {Occurrence(r, d) : d \in M}
    OBVIOUS
  <2>5. IsFiniteSet(O)
    <3>1. PICK f : f = [d \in M |-> Occurrence(r, d)]
      OBVIOUS
    <3>2. f \in Surjection(M, O)
      BY <2>4, <3>1 DEF Surjection
    <3> QED
      BY <2>3, <3>2, FS_Surjection
  <2>6. ASSUME NEW d \in M, NEW o, o = Occurrence(r, d)
        PROVE  o \in DayRow /\ o.date = d /\ o.rec /\ o.kind = "EVENT"
    <3>1. d \in SchoolDates /\ d \in Nat
      BY <2>2, CalendarDaysAssumption DEF CalendarDaysConstants
    <3>2. r.time \in Times /\ r.place \in Places /\ r.scope \in Scopes /\ r.name \in Names
      BY DEF RuleBody
    <3>3. "DRAFT" \in DayStatuses /\ "EVENT" \in DayKinds
      BY DEF DayStatuses, InUseStatuses, DayKinds
    <3> QED
      BY <2>6, <3>1, <3>2, <3>3 DEF Occurrence, DayRow
  <2>7. \A o \in O : /\ o \in DayRow /\ o.date \in M /\ o.rec /\ o.kind = "EVENT"
                     /\ o = Occurrence(r, o.date)
    BY <2>4, <2>6
  <2>8. PICK n : n = Cardinality(O)
    OBVIOUS
  <2>9. PICK u : u = SetToSeq(O)
    OBVIOUS
  <2>10. u \in [1..n -> O] /\ n \in Nat /\ \A j, k \in 1..n : u[j] = u[k] => j = k
    <3>1. u \in [1..n -> O] /\ n \in Nat /\ IsInjective(u)
      BY <2>5, <2>8, <2>9, SequenceOf
    <3> QED
      BY <3>1 DEF IsInjective
  <2>11. u \in Seq(DayRow) /\ Len(u) = n
    BY <2>7, <2>10
  <2>12. t = days \o u
    BY <1>1, <1>3, <2>1, <2>4, <2>9 DEF Generated
  <2>13. Len(days) \in Nat /\ DOMAIN days = 1..Len(days)
    OBVIOUS
  <2>14. /\ t \in Seq(DayRow) /\ Len(t) = Len(days) + n /\ DOMAIN t = 1..(Len(days) + n)
         /\ \A i \in DOMAIN days : t[i] = days[i]
         /\ \A k \in 1..n : t[Len(days) + k] = u[k]
    <3>1. /\ t \in Seq(DayRow) /\ Len(t) = Len(days) + n
          /\ \A i \in 1..(Len(days) + n) :
               t[i] = IF i <= Len(days) THEN days[i] ELSE u[i - Len(days)]
      BY <2>11, <2>12, ConcatProperties
    <3>2. DOMAIN t = 1..(Len(days) + n)
      BY <3>1
    <3>3. ASSUME NEW i \in DOMAIN days PROVE t[i] = days[i]
      <4>1. i \in 1..(Len(days) + n) /\ i <= Len(days)
        BY <2>10, <2>13
      <4> QED
        BY <3>1, <4>1
    <3>4. ASSUME NEW k \in 1..n PROVE t[Len(days) + k] = u[k]
      <4>1. /\ Len(days) + k \in 1..(Len(days) + n) /\ ~(Len(days) + k <= Len(days))
            /\ (Len(days) + k) - Len(days) = k
        BY <2>10, <2>13
      <4> QED
        BY <3>1, <4>1
    <3> QED
      BY <3>1, <3>2, <3>3, <3>4
  <2>15. DOMAIN days \subseteq DOMAIN t
    BY <2>10, <2>13, <2>14
  <2>16. ASSUME NEW i \in DOMAIN t \ DOMAIN days
         PROVE  \E k \in 1..n : i = Len(days) + k /\ t[i] = u[k] /\ u[k] \in O
    <3>1. i - Len(days) \in 1..n /\ i = Len(days) + (i - Len(days))
      BY <2>10, <2>13, <2>14
    <3>2. PICK k \in 1..n : i = Len(days) + k
      BY <3>1
    <3> QED
      BY <2>10, <2>14, <3>2
  <2>17. \A i \in DOMAIN t \ DOMAIN days :
           t[i].rec /\ t[i].kind = "EVENT" /\ t[i].date \in M
    BY <2>7, <2>16
  <2>18. OnceOnDate(t)
    <3> SUFFICES ASSUME NEW i \in DOMAIN t, NEW j \in DOMAIN t, t[i].rec, t[j].rec,
                        t[i].date = t[j].date
                 PROVE  i = j
      BY DEF OnceOnDate
    <3>1. CASE i \in DOMAIN days /\ j \in DOMAIN days
      BY <2>14, <3>1 DEF OnceOnDate
    <3>2. CASE i \in DOMAIN days /\ j \notin DOMAIN days
      BY <2>2, <2>14, <2>17, <3>2
    <3>3. CASE i \notin DOMAIN days /\ j \in DOMAIN days
      BY <2>2, <2>14, <2>17, <3>3
    <3>4. CASE i \notin DOMAIN days /\ j \notin DOMAIN days
      <4>1. PICK k \in 1..n : i = Len(days) + k /\ t[i] = u[k] /\ u[k] \in O
        BY <2>16, <3>4
      <4>2. PICK m \in 1..n : j = Len(days) + m /\ t[j] = u[m] /\ u[m] \in O
        BY <2>16, <3>4
      <4>3. u[k] = u[m]
        BY <2>7, <4>1, <4>2
      <4> QED
        BY <2>10, <4>1, <4>2, <4>3
    <3> QED
      BY <3>1, <3>2, <3>3, <3>4
  <2> QED
    BY <1>1, <1>3, <2>14, <2>15, <2>17, <2>18
<1> QED
  BY <1>2, <1>3

\* A statement that generates.
LEMMA GenerationStays ==
    ASSUME CalendarInv, NEW s \in Editors, NEW r \in RuleBody, days' = Generated(r),
           saving' = [saving EXCEPT ![s] = NotSaving], Disturbs(s),
           event' \subseteq RuleBody, \A e, f \in event' : e = f
    PROVE  CalendarInv'
<1>1. PICK t : t = Generated(r)
  OBVIOUS
<1>2. /\ days \in Seq(DayRow) /\ OnceOnDate(days)
      /\ ~disturbed => NoneCollides(days) /\ (EventsOnly => OneHolidayEach(days))
  BY CalendarFacts
<1>3. /\ t \in Seq(DayRow) /\ DOMAIN days \subseteq DOMAIN t
      /\ \A i \in DOMAIN days : t[i] = days[i]
      /\ \A i \in DOMAIN t \ DOMAIN days : t[i].rec /\ t[i].kind = "EVENT"
      /\ OnceOnDate(t)
  BY <1>1, <1>2, GeneratedRows
<1>4. NoneCollides(days) => NoneCollides(t)
  BY <1>2, <1>3, NoneMoreCollides
<1>5. OneHolidayEach(days) => OneHolidayEach(t)
  BY <1>3 DEF OneHolidayEach
<1>6. days' = t
  BY <1>1
<1>7. \A i \in DOMAIN days : days'[i].rec = days[i].rec
  BY <1>3, <1>6
<1> QED
  BY <1>2, <1>3, <1>4, <1>5, <1>6, <1>7, Leaving, CalendarWriteStays

LEMMA RuleBodies == Rules \subseteq RuleBody
BY CalendarDaysAssumption DEF CalendarDaysConstants

LEMMA RuleInUse ==
    ASSUME NEW r \in RuleBody, NEW a \in BOOLEAN
    PROVE  [r EXCEPT !.active = a] \in RuleBody /\ [r EXCEPT !.active = a].active = a
BY DEF RuleBody

LEMMA CreateEventStays ==
    ASSUME CalendarInv, NEW s \in Editors, NEW r \in Rules, CreateEvent(s, r)
    PROVE  CalendarInv'
<1>1. days' = Generated(r) /\ event' = {r} /\ Disturbs(s)
  BY DEF CreateEvent
<1>2. saving' = [saving EXCEPT ![s] = NotSaving]
  BY StaysIdle DEF CreateEvent
<1>3. r \in RuleBody
  BY RuleBodies
<1> QED
  BY <1>1, <1>2, <1>3, GenerationStays

\* A PATCH that says nothing of the use of the definition keeps it.
LEMMA UseKept ==
    ASSUME CalendarInv, NEW s \in Editors, NEW e \in event, NEW says \in UseWords
    PROVE  /\ UseAfter(says, e) \in BOOLEAN
           /\ UseAfter(says, e) => says = "active" \/ InUse
<1>1. e \in RuleBody
  BY CalendarFacts
<1>2. e.active \in BOOLEAN
  BY <1>1 DEF RuleBody
<1> QED
  BY <1>2 DEF UseAfter, InUse

LEMMA PatchEventStays ==
    ASSUME CalendarInv, NEW s \in Editors, NEW r \in Rules, PatchEvent(s, r)
    PROVE  CalendarInv'
<1>1. PICK e \in event, says \in UseWords :
        Reads(s, [pc |-> "update", says |-> says,
                  rule |-> [r EXCEPT !.active = UseAfter(says, e)]])
  BY DEF PatchEvent
<1>2. PICK u : u = UseAfter(says, e)
  OBVIOUS
<1>3. u \in BOOLEAN /\ (u => says = "active" \/ InUse)
  BY <1>2, UseKept
<1>4. PICK n : n = [r EXCEPT !.active = u]
  OBVIOUS
<1>5. n \in RuleBody /\ n.active = u
  BY <1>3, <1>4, RuleBodies, RuleInUse
<1>6. PICK q : q = [pc |-> "update", says |-> says, rule |-> n]
  OBVIOUS
<1>7. q.pc = "update" /\ q.rule = n /\ q.says = says
  BY <1>6
<1>8. q \in DayEdits
  BY <1>5, <1>6 DEF DayEdits
<1>9. EditOK(q)
  BY <1>7 DEF EditOK
<1>10. EditFresh(q)
  BY <1>3, <1>5, <1>7 DEF EditFresh
<1> QED
  BY <1>1, <1>2, <1>4, <1>6, <1>8, <1>9, <1>10, CalendarReadStays

LEMMA GenerateStays ==
    ASSUME CalendarInv, NEW s \in Editors, Generate(s)
    PROVE  CalendarInv'
<1>1. PICK e \in event : Reads(s, [pc |-> "generate", rule |-> e])
  BY DEF Generate
<1>2. e \in RuleBody /\ \A f \in event : f = e
  BY CalendarFacts
<1>3. e.active <=> InUse
  BY <1>2 DEF InUse
<1>4. PICK q : q = [pc |-> "generate", rule |-> e]
  OBVIOUS
<1>5. q.pc = "generate" /\ q.rule = e
  BY <1>4
<1>6. q \in DayEdits
  BY <1>2, <1>4 DEF DayEdits
<1>7. EditOK(q) /\ EditFresh(q)
  BY <1>3, <1>5 DEF EditOK, EditFresh
<1> QED
  BY <1>1, <1>4, <1>6, <1>7, CalendarReadStays

LEMMA SaveEventStays ==
    ASSUME CalendarInv, NEW s \in Editors, SaveEvent(s)
    PROVE  CalendarInv'
<1>1. PICK r : r = saving[s].rule
  OBVIOUS
<1>2. r \in RuleBody
  BY <1>1, CalendarFacts, EditFields DEF SaveEvent
<1>3. days' = Generated(r) /\ event' = {r} /\ Disturbs(s)
      /\ saving' = [saving EXCEPT ![s] = NotSaving]
  BY <1>1 DEF SaveEvent, GoesTo
<1> QED
  BY <1>2, <1>3, GenerationStays

LEMMA SaveGeneratedStays ==
    ASSUME CalendarInv, NEW s \in Editors, SaveGenerated(s)
    PROVE  CalendarInv'
<1>1. PICK r : r = saving[s].rule
  OBVIOUS
<1>2. r \in RuleBody
  BY <1>1, CalendarFacts, EditFields DEF SaveGenerated
<1>3. days' = Generated(r) /\ event' = event /\ Disturbs(s)
      /\ saving' = [saving EXCEPT ![s] = NotSaving]
  BY <1>1 DEF SaveGenerated, GoesTo
<1>4. event \subseteq RuleBody /\ \A e, f \in event : e = f
  BY CalendarFacts
<1> QED
  BY <1>2, <1>3, <1>4, GenerationStays

\* A statement that writes the definition alone.
LEMMA EventStays ==
    ASSUME CalendarInv, NEW s \in Editors, days' = days,
           saving' = [saving EXCEPT ![s] = NotSaving], Disturbs(s),
           event' \subseteq RuleBody, \A e, f \in event' : e = f
    PROVE  CalendarInv'
<1>1. days \in Seq(DayRow)
  BY CalendarFacts
<1> QED
  BY <1>1, Leaving, ColumnStays

LEMMA DeactivateStays ==
    ASSUME CalendarInv, NEW s \in Editors, Deactivate(s)
    PROVE  CalendarInv'
<1>1. PICK e \in event : event' = {[e EXCEPT !.active = FALSE]}
  BY DEF Deactivate
<1>2. e \in RuleBody
  BY CalendarFacts
<1>3. event' \subseteq RuleBody /\ \A f, g \in event' : f = g
  BY <1>1, <1>2, RuleInUse
<1>4. saving' = [saving EXCEPT ![s] = NotSaving] /\ days' = days /\ Disturbs(s)
  BY StaysIdle DEF Deactivate
<1> QED
  BY <1>3, <1>4, EventStays

LEMMA SaveCancelFutureStays ==
    ASSUME CalendarInv, NEW s \in Editors, SaveCancelFuture(s)
    PROVE  CalendarInv'
<1>1. event' = {[e EXCEPT !.active = FALSE] : e \in event}
  BY DEF SaveCancelFuture
<1>2. event \subseteq RuleBody /\ \A e, f \in event : e = f
  BY CalendarFacts
<1>3. event' \subseteq RuleBody
  BY <1>1, <1>2, RuleInUse
<1>4. \A f, g \in event' : f = g
  BY <1>1, <1>2
<1>5. saving' = [saving EXCEPT ![s] = NotSaving] /\ days' = days /\ Disturbs(s)
  BY DEF SaveCancelFuture, GoesTo
<1> QED
  BY <1>3, <1>4, <1>5, EventStays

-----------------------------------------------------------------------------
(* The import of holidays *)

LEMMA HolidaysProvided == Holidays \in HolidaysLeft
BY CalendarDaysAssumption DEF CalendarDaysConstants, HolidaysLeft

\* After a holiday: the next one, or the end.
LEMMA NextHolidayEdit ==
    ASSUME NEW todo \in HolidaysLeft, todo # <<>>
    PROVE  /\ NextHoliday(todo) \in DayEdits /\ NextHoliday(todo).pc \in {"idle", "look"}
           /\ NextHoliday(todo).pc = "look" => NextHoliday(todo).todo # <<>>
<1>1. CASE Len(todo) = 1
  BY <1>1, Leaving DEF NextHoliday
<1>2. CASE Len(todo) # 1
  <2>1. Tail(todo) \in HolidaysLeft /\ Tail(todo) # <<>>
    BY <1>2, SomeLeft DEF HolidaysLeft
  <2>2. PICK q : q = [pc |-> "look", todo |-> Tail(todo)]
    OBVIOUS
  <2>3. q \in DayEdits /\ q.pc = "look" /\ q.todo = Tail(todo)
    BY <2>1, <2>2 DEF DayEdits
  <2>4. NextHoliday(todo) = q
    BY <1>2, <2>2 DEF NextHoliday
  <2> QED
    BY <2>1, <2>3, <2>4
<1> QED
  BY <1>1, <1>2

LEMMA ImportHolidaysStays ==
    ASSUME CalendarInv, NEW s \in Editors, ImportHolidays(s)
    PROVE  CalendarInv'
<1>1. PICK q : q = [pc |-> "look", todo |-> Holidays]
  OBVIOUS
<1>2. q \in DayEdits /\ q.pc = "look" /\ q.todo = Holidays
  BY <1>1, HolidaysProvided DEF DayEdits
<1>3. q.todo # <<>> /\ Reads(s, q)
  BY <1>1, <1>2 DEF ImportHolidays
<1> QED
  BY <1>2, <1>3, QuietEdits, CalendarReadStays

LEMMA LookHolidayStays ==
    ASSUME CalendarInv, NEW s \in Editors, LookHoliday(s)
    PROVE  CalendarInv'
<1>1. PICK todo : todo = saving[s].todo
  OBVIOUS
<1>2. todo \in HolidaysLeft /\ todo # <<>>
  BY <1>1, CalendarFacts, EditFields DEF LookHoliday, EditOK
<1>3. PICK h : h = Head(todo)
  OBVIOUS
<1>4. CASE Reads(s, NextHoliday(todo))
  <2>1. PICK q : q = NextHoliday(todo)
    OBVIOUS
  <2>2. q \in DayEdits /\ q.pc \in {"idle", "look"} /\ (q.pc = "look" => q.todo # <<>>)
    BY <1>2, <2>1, NextHolidayEdit
  <2> QED
    BY <1>4, <2>1, <2>2, QuietEdits, CalendarReadStays
<1>5. CASE h[1] \in SchoolDates /\ HolidaysOn(h[1]) = {}
           /\ Reads(s, [pc |-> "insert", todo |-> todo])
  <2>1. PICK q : q = [pc |-> "insert", todo |-> todo]
    OBVIOUS
  <2>2. q \in DayEdits /\ q.pc = "insert" /\ q.todo = todo
    BY <1>2, <2>1 DEF DayEdits
  <2>3. EditOK(q) /\ EditFresh(q)
    BY <1>2, <1>3, <1>5, <2>2 DEF EditOK, EditFresh
  <2> QED
    BY <1>5, <2>1, <2>2, <2>3, CalendarReadStays
<1>6. ASSUME NEW i \in HolidaysOn(h[1]), Reads(s, [pc |-> "rename", todo |-> todo, id |-> i])
      PROVE  CalendarInv'
  <2>1. PICK q : q = [pc |-> "rename", todo |-> todo, id |-> i]
    OBVIOUS
  <2>2. i \in DOMAIN days /\ i \in Nat
    <3>1. days \in Seq(DayRow)
      BY CalendarFacts
    <3> QED
      BY <3>1 DEF HolidaysOn
  <2>3. q \in DayEdits /\ q.pc = "rename" /\ q.todo = todo /\ q.id = i
    BY <1>2, <2>1, <2>2 DEF DayEdits
  <2>4. EditOK(q) /\ EditFresh(q)
    BY <1>2, <2>2, <2>3 DEF EditOK, EditFresh
  <2> QED
    BY <1>6, <2>1, <2>3, <2>4, CalendarReadStays
<1> QED
  BY <1>1, <1>3, <1>4, <1>5, <1>6 DEF LookHoliday

LEMMA InsertHolidayStays ==
    ASSUME CalendarInv, NEW s \in Editors, InsertHoliday(s)
    PROVE  CalendarInv'
<1>1. PICK p : p = saving[s]
  OBVIOUS
<1>2. /\ days \in Seq(DayRow) /\ OnceOnDate(days)
      /\ event \subseteq RuleBody /\ (\A e, f \in event : e = f)
      /\ p \in DayEdits /\ p.pc = "insert" /\ EditOK(p)
      /\ ~disturbed => /\ NoneCollides(days) /\ (EventsOnly => OneHolidayEach(days))
                       /\ EditFresh(p)
  BY <1>1, CalendarFacts DEF InsertHoliday
<1>3. PICK todo : todo = p.todo
  OBVIOUS
<1>4. PICK h : h = Head(todo)
  OBVIOUS
<1>5. todo \in HolidaysLeft /\ todo # <<>> /\ h[1] \in SchoolDates
      /\ (~disturbed => HolidaysOn(h[1]) = {})
  BY <1>2, <1>3, <1>4, EditFields DEF EditOK, EditFresh
<1>6. h \in Nat \X Names
  BY <1>4, <1>5, HeadTailProperties DEF HolidaysLeft
<1>7. PICK r : r = HolidayRow(h)
  OBVIOUS
<1>8. r \in DayRow /\ r.time = NoTime /\ ~r.rec /\ r.date = h[1]
  <2>1. h[1] \in Nat /\ h[2] \in Names
    BY <1>6
  <2>2. NoTime \in Times /\ NoPlace \in Places /\ SchoolWide \in Scopes
    BY DEF Times, Places, Scopes
  <2>3. "DRAFT" \in DayStatuses /\ "HOLIDAY" \in DayKinds
    BY DEF DayStatuses, InUseStatuses, DayKinds
  <2> QED
    BY <1>5, <1>7, <2>1, <2>2, <2>3 DEF HolidayRow, DayRow
<1>9. PICK t : t = Append(days, r)
  OBVIOUS
<1>10. /\ t \in Seq(DayRow) /\ DOMAIN days = 1..Len(days) /\ DOMAIN t = 1..(Len(days) + 1)
       /\ Len(days) \in Nat
       /\ t[Len(days) + 1] = r /\ \A i \in DOMAIN days : t[i] = days[i]
  BY <1>2, <1>8, <1>9
<1>11. DOMAIN days \subseteq DOMAIN t
       /\ \A i \in DOMAIN t : i \in DOMAIN days \/ i = Len(days) + 1
  BY <1>10
<1>12. OnceOnDate(t)
  BY <1>2, <1>8, <1>10, <1>11 DEF OnceOnDate
<1>13. NoneCollides(days) => NoneCollides(t)
  <2>1. \A i \in DOMAIN t : t[i].time = NoTime \/ (i \in DOMAIN days /\ t[i] = days[i])
    BY <1>8, <1>10, <1>11
  <2> QED
    BY <1>2, <1>10, <2>1, NoneMoreCollides
<1>14. HolidaysOn(h[1]) = {} /\ OneHolidayEach(days) => OneHolidayEach(t)
  BY <1>8, <1>10, <1>11 DEF HolidaysOn, OneHolidayEach
<1>15. PICK q : q = NextHoliday(todo)
  OBVIOUS
<1>16. q \in DayEdits /\ q.pc \in {"idle", "look"} /\ (q.pc = "look" => q.todo # <<>>)
  BY <1>5, <1>15, NextHolidayEdit
<1>17. days' = t /\ saving' = [saving EXCEPT ![s] = q] /\ Disturbs(s) /\ event' = event
  BY <1>1, <1>3, <1>4, <1>7, <1>9, <1>15 DEF InsertHoliday, GoesTo
<1>18. \A i \in DOMAIN days : days'[i].rec = days[i].rec
  BY <1>10, <1>17
<1>19. ~disturbed => NoneCollides(days') /\ (EventsOnly => OneHolidayEach(days'))
  BY <1>2, <1>5, <1>13, <1>14, <1>17
<1> QED
  BY <1>2, <1>10, <1>11, <1>12, <1>16, <1>17, <1>18, <1>19, CalendarWriteStays

LEMMA RenameHolidayStays ==
    ASSUME CalendarInv, NEW s \in Editors, RenameHoliday(s)
    PROVE  CalendarInv'
<1>1. PICK p : p = saving[s]
  OBVIOUS
<1>2. /\ days \in Seq(DayRow) /\ event \subseteq RuleBody /\ (\A e, f \in event : e = f)
      /\ p \in DayEdits /\ p.pc = "rename" /\ EditOK(p)
  BY <1>1, CalendarFacts DEF RenameHoliday
<1>3. PICK todo : todo = p.todo
  OBVIOUS
<1>4. PICK h : h = Head(todo)
  OBVIOUS
<1>5. PICK i : i = p.id
  OBVIOUS
<1>6. todo \in HolidaysLeft /\ todo # <<>> /\ i \in DOMAIN days
  BY <1>2, <1>3, <1>5, EditFields DEF EditOK
<1>7. h[2] \in Names
  <2>1. h \in Nat \X Names
    BY <1>4, <1>6, HeadTailProperties DEF HolidaysLeft
  <2> QED
    BY <2>1
<1>8. PICK r : r = [days[i] EXCEPT !.name = h[2]]
  OBVIOUS
<1>9. /\ r \in DayRow /\ r.status = days[i].status
      /\ r.rec = days[i].rec /\ r.date = days[i].date /\ r.last = days[i].last
      /\ r.time = days[i].time /\ r.place = days[i].place /\ r.scope = days[i].scope
      /\ r.kind = days[i].kind
  <2>1. days[i] \in DayRow
    BY <1>2, <1>6
  <2> QED
    BY <1>7, <1>8, <2>1 DEF DayRow
<1>10. PICK t : t = [days EXCEPT ![i] = r]
  OBVIOUS
<1>11. /\ t \in Seq(DayRow) /\ DOMAIN t = DOMAIN days
       /\ \A j \in DOMAIN days : t[j] = IF j = i THEN r ELSE days[j]
  BY <1>2, <1>6, <1>9, <1>10
<1>12. Counts(r) => Counts(days[i])
  BY <1>9 DEF Counts
<1>13. \A j \in DOMAIN days :
         /\ t[j].rec = days[j].rec /\ (Counts(t[j]) => Counts(days[j]))
         /\ t[j].date = days[j].date /\ t[j].last = days[j].last
         /\ t[j].time = days[j].time /\ t[j].place = days[j].place
         /\ t[j].scope = days[j].scope /\ t[j].kind = days[j].kind
  BY <1>9, <1>11, <1>12
<1>14. PICK q : q = NextHoliday(todo)
  OBVIOUS
<1>15. q \in DayEdits /\ q.pc \in {"idle", "look"} /\ (q.pc = "look" => q.todo # <<>>)
  BY <1>6, <1>14, NextHolidayEdit
<1>16. days' = [days EXCEPT ![i].name = h[2]]
  BY <1>1, <1>3, <1>4, <1>5 DEF RenameHoliday
<1>17. days' = t
  BY <1>8, <1>10, <1>16
<1>18. saving' = [saving EXCEPT ![s] = q] /\ Disturbs(s) /\ event' = event
  BY <1>1, <1>3, <1>14 DEF RenameHoliday, GoesTo
<1> QED
  BY <1>2, <1>11, <1>13, <1>15, <1>17, <1>18, ColumnStays

-----------------------------------------------------------------------------
(* The calendar *)

LEMMA CalendarInvStays == CalendarInv /\ [CalendarNext]_calendarVars => CalendarInv'
<1> SUFFICES ASSUME CalendarInv, [CalendarNext]_calendarVars PROVE CalendarInv'
  OBVIOUS
<1>1. CASE UNCHANGED calendarVars
  BY <1>1 DEF CalendarInv, calendarVars, DayTypes, OnceOnDate, EditOK, EditFresh, WritesOK,
              Written, HolidaysOn, InUse
<1>2. ASSUME NEW s \in Editors, Entries(s) PROVE CalendarInv'
  <2>1. CASE \E b \in Bodies : PostEntry(s, b)
    BY <2>1, PostEntryStays
  <2>2. CASE \E i \in DOMAIN days : \E b \in Bodies : PatchEntry(s, i, b)
    BY <2>2, PatchEntryStays
  <2>3. CASE \E i \in DOMAIN days : \E st \in DayStatuses : MoveStatus(s, i, st)
    BY <2>3, MoveStatusStays
  <2>4. CASE \E ds \in DateLists : \E b \in Bodies : \E skip \in BOOLEAN :
               BeginBulk(s, ds, b, skip)
    BY <2>4, BeginBulkStays
  <2>5. CASE BulkDate(s) \/ SaveEntries(s) \/ GiveUp(s)
    BY <2>5, BulkDateStays, SaveEntriesStays, GiveUpStays
  <2> QED
    BY <1>2, <2>1, <2>2, <2>3, <2>4, <2>5 DEF Entries
<1>3. ASSUME NEW s \in Editors, Recurring(s) PROVE CalendarInv'
  <2>1. CASE \E r \in Rules : CreateEvent(s, r) \/ PatchEvent(s, r)
    BY <2>1, CreateEventStays, PatchEventStays
  <2>2. CASE SaveEvent(s) \/ Generate(s) \/ SaveGenerated(s)
    BY <2>2, SaveEventStays, GenerateStays, SaveGeneratedStays
  <2>3. CASE Deactivate(s) \/ CancelFuture(s) \/ SaveCancelFuture(s)
    BY <2>3, DeactivateStays, CancelFutureStays, SaveCancelFutureStays
  <2> QED
    BY <1>3, <2>1, <2>2, <2>3 DEF Recurring
<1>4. ASSUME NEW s \in Editors, Importing(s) PROVE CalendarInv'
  BY <1>4, ImportHolidaysStays, LookHolidayStays, InsertHolidayStays, RenameHolidayStays
     DEF Importing
<1> QED
  BY <1>1, <1>2, <1>3, <1>4 DEF CalendarNext

LEMMA CalendarInOrderFollows == CalendarInv => CalendarInOrder
<1> SUFFICES ASSUME CalendarInv PROVE CalendarInOrder
  OBVIOUS
<1>1. OnlyOccurrencesCollide
  BY DEF CalendarInv, NoneCollides, OnlyOccurrencesCollide
<1>2. OneHolidayPerDate
  BY DEF CalendarInv, OneHolidayEach, OneHolidayPerDate, EventsOnly
<1> QED
  BY <1>1, <1>2 DEF CalendarInv, CalendarInOrder, OneOccurrencePerDate

\* However requests overlap, a definition occurs once on a date; and while nothing is
\* written under a request, entries that collide are occurrences, and the import leaves
\* one holiday on a date.
THEOREM CalendarStaysInOrder == CalendarSpec => []CalendarInOrder
<1>1. CalendarSpec => []CalendarInv
  BY CalendarInvInit, CalendarInvStays, PTL DEF CalendarSpec
<1> QED
  BY <1>1, CalendarInOrderFollows, PTL

LEMMA SameOccurrences ==
    ASSUME DOMAIN days \subseteq DOMAIN days', \A i \in DOMAIN days : days'[i].rec = days[i].rec,
           \A i \in DOMAIN days' \ DOMAIN days : ~days'[i].rec
    PROVE  Occurrences' = Occurrences
BY DEF Occurrences

LEMMA SavedNoOccurrence ==
    ASSUME CalendarInv, NEW s \in Editors, SaveEntries(s)
    PROVE  Occurrences' = Occurrences
<1>1. PICK w : w = saving[s].writes
  OBVIOUS
<1>2. days \in Seq(DayRow) /\ w \in DayWrites /\ WritesOK(w)
  BY <1>1, CalendarFacts, EditFields DEF SaveEntries, EditOK
<1>3. PICK t : t = Written(w)
  OBVIOUS
<1>4. days' = t
  BY <1>1, <1>3 DEF SaveEntries
<1>5. DOMAIN w.upd \subseteq DOMAIN days
  BY <1>2 DEF WritesOK
<1>6. /\ t \in Seq(DayRow) /\ Len(t) = Len(days) + Len(w.ins)
      /\ \A i \in 1..Len(days) : t[i] = IF i \in DOMAIN w.upd THEN w.upd[i] ELSE days[i]
      /\ \A k \in 1..Len(w.ins) : t[Len(days) + k] = w.ins[k]
  BY <1>2, <1>3, <1>5, TableWritten
<1>7. Len(days) \in Nat /\ Len(w.ins) \in Nat /\ DOMAIN days = 1..Len(days)
      /\ DOMAIN w.ins = 1..Len(w.ins) /\ DOMAIN t = 1..(Len(days) + Len(w.ins))
  BY <1>2, <1>6 DEF DayWrites
<1>8. DOMAIN days \subseteq DOMAIN t
  BY <1>7
<1>9. \A i \in DOMAIN days : t[i].rec = days[i].rec
  BY <1>2, <1>6, <1>7 DEF WritesOK
<1>10. ASSUME NEW i \in DOMAIN t \ DOMAIN days PROVE ~t[i].rec
  <2>1. i - Len(days) \in 1..Len(w.ins) /\ i = Len(days) + (i - Len(days))
    BY <1>7
  <2>2. PICK k \in 1..Len(w.ins) : i = Len(days) + k
    BY <2>1
  <2>3. ~w.ins[k].rec
    BY <1>2, <1>7 DEF WritesOK, NoOccurrence
  <2> QED
    BY <1>6, <2>2, <2>3
<1> QED
  BY <1>4, <1>8, <1>9, <1>10, SameOccurrences

LEMMA EntriesAddNothing ==
    ASSUME CalendarInv, NEW s \in Editors, Entries(s)
    PROVE  Occurrences' = Occurrences
<1>1. CASE days' = days
  BY <1>1 DEF Occurrences
<1>2. CASE SaveEntries(s)
  BY <1>2, SavedNoOccurrence
<1>3. ASSUME NEW i \in DOMAIN days, NEW st \in DayStatuses, MoveStatus(s, i, st)
      PROVE  Occurrences' = Occurrences
  <2>1. days \in Seq(DayRow) /\ days[i] \in DayRow
    BY CalendarFacts
  <2>2. PICK r : r = [days[i] EXCEPT !.status = st]
    OBVIOUS
  <2>3. r.rec = days[i].rec
    BY <2>1, <2>2 DEF DayRow
  <2>4. days' = [days EXCEPT ![i] = r]
    BY <1>3, <2>2 DEF MoveStatus
  <2> QED
    BY <2>1, <2>3, <2>4, SameOccurrences
<1>4. SaveEntries(s) \/ days' = days
      \/ \E i \in DOMAIN days : \E st \in DayStatuses : MoveStatus(s, i, st)
  BY DEF Entries, PostEntry, PatchEntry, BeginBulk, BulkDate, GiveUp, Reads
<1> QED
  BY <1>1, <1>2, <1>3, <1>4

\* What a request generates from a definition, it generates from one in use.
LEMMA RecurringAddsOfUsed ==
    ASSUME CalendarInv, NEW s \in Editors, Recurring(s), ~disturbed,
           Occurrences' # Occurrences
    PROVE  InUse'
<1>1. CASE days' = days
  BY <1>1 DEF Occurrences
<1>2. ASSUME NEW r, days' = Generated(r), event' = {r} PROVE InUse'
  <2>1. CASE r.active
    BY <1>2, <2>1 DEF InUse
  <2>2. CASE ~r.active
    BY <1>1, <1>2, <2>2 DEF Generated
  <2> QED
    BY <2>1, <2>2
<1>3. CASE SaveGenerated(s)
  <2>1. PICK q : q = saving[s]
    OBVIOUS
  <2>2. q \in DayEdits /\ EditFresh(q)
    BY <2>1, CalendarFacts
  <2>3. q.pc = "generate" /\ days' = Generated(q.rule) /\ event' = event
    BY <1>3, <2>1 DEF SaveGenerated
  <2>4. CASE q.rule.active
    BY <2>2, <2>3, <2>4 DEF EditFresh, InUse
  <2>5. CASE ~q.rule.active
    BY <1>1, <2>3, <2>5 DEF Generated
  <2> QED
    BY <2>4, <2>5
<1>4. CASE CancelFuture(s)
  <2>1. days' = [i \in DOMAIN days |->
                   IF days[i].rec /\ days[i].date >= Today /\ days[i].status \in InUseStatuses
                   THEN [days[i] EXCEPT !.status = "CANCELLED"] ELSE days[i]]
    BY <1>4 DEF CancelFuture
  <2>2. ASSUME NEW i \in DOMAIN days PROVE days'[i].rec = days[i].rec
    <3>1. days[i] \in DayRow
      BY CalendarFacts
    <3>2. [days[i] EXCEPT !.status = "CANCELLED"].rec = days[i].rec
      BY <3>1 DEF DayRow
    <3> QED
      BY <2>1, <3>2
  <2>3. DOMAIN days' = DOMAIN days
    BY <2>1
  <2> QED
    BY <2>2, <2>3, SameOccurrences
<1>5. CASE SaveEvent(s)
  BY <1>2, <1>5 DEF SaveEvent
<1>6. CASE \E r \in Rules : CreateEvent(s, r)
  BY <1>2, <1>6 DEF CreateEvent
<1> QED
  BY <1>1, <1>3, <1>4, <1>5, <1>6 DEF Recurring, PatchEvent, Generate, Deactivate,
     SaveCancelFuture, Reads

\* A definition out of use comes back with a PATCH that says so.
LEMMA UsedAgainOnDemand ==
    ASSUME CalendarInv, NEW s \in Editors, Recurring(s), ~disturbed,
           event # {}, ~InUse, InUse'
    PROVE  saving[s].pc = "update" /\ saving[s].says = "active" /\ saving'[s] = NotSaving
<1>1. CASE event' = event
  BY <1>1 DEF InUse
<1>2. CASE SaveEvent(s)
  <2>1. PICK q : q = saving[s]
    OBVIOUS
  <2>2. q \in DayEdits /\ EditFresh(q)
    BY <2>1, CalendarFacts
  <2>3. q.pc = "update" /\ event' = {q.rule} /\ saving' = [saving EXCEPT ![s] = NotSaving]
    BY <1>2, <2>1 DEF SaveEvent, GoesTo
  <2>4. q.rule.active
    BY <2>3 DEF InUse
  <2>5. q.says = "active"
    BY <2>2, <2>3, <2>4 DEF EditFresh
  <2>6. saving \in [Editors -> DayEdits]
    BY DEF CalendarInv
  <2> QED
    BY <2>1, <2>3, <2>5, <2>6
<1>3. CASE Deactivate(s) \/ SaveCancelFuture(s)
  <2>1. ASSUME NEW e \in event PROVE ~[e EXCEPT !.active = FALSE].active
    <3>1. e \in RuleBody
      BY CalendarFacts
    <3> QED
      BY <3>1, RuleInUse
  <2>2. CASE Deactivate(s)
    BY <2>1, <2>2 DEF Deactivate, InUse
  <2>3. CASE SaveCancelFuture(s)
    BY <2>1, <2>3 DEF SaveCancelFuture, InUse
  <2> QED
    BY <1>3, <2>2, <2>3
<1> QED
  BY <1>1, <1>2, <1>3 DEF Recurring, CreateEvent, PatchEvent, Generate, SaveGenerated,
     CancelFuture, Reads

LEMMA OthersLeaveEvent ==
    ASSUME NEW s \in Editors, Entries(s) \/ Importing(s)
    PROVE  event' = event
BY DEF Entries, PostEntry, PatchEntry, MoveStatus, BeginBulk, BulkDate, SaveEntries, GiveUp,
   Importing, ImportHolidays, LookHoliday, InsertHoliday, RenameHoliday, Reads

LEMMA ImportAddsNothing ==
    ASSUME CalendarInv, NEW s \in Editors, Importing(s)
    PROVE  Occurrences' = Occurrences
<1>1. CASE days' = days
  BY <1>1 DEF Occurrences
<1>2. days \in Seq(DayRow)
  BY CalendarFacts
<1>3. CASE InsertHoliday(s)
  <2>1. PICK r : r = HolidayRow(Head(saving[s].todo))
    OBVIOUS
  <2>2. days' = Append(days, r) /\ r.rec = FALSE
    BY <1>3, <2>1 DEF InsertHoliday, HolidayRow
  <2>3. /\ DOMAIN days = 1..Len(days) /\ Len(days) \in Nat
        /\ DOMAIN Append(days, r) = 1..(Len(days) + 1)
        /\ Append(days, r)[Len(days) + 1] = r
        /\ \A i \in 1..Len(days) : Append(days, r)[i] = days[i]
    BY <1>2
  <2>4. \A i \in DOMAIN days' \ DOMAIN days : i = Len(days) + 1
    BY <2>2, <2>3
  <2>5. DOMAIN days \subseteq DOMAIN days'
    BY <2>2, <2>3
  <2> QED
    BY <2>2, <2>3, <2>4, <2>5, SameOccurrences
<1>4. CASE RenameHoliday(s)
  <2>1. PICK i : i = saving[s].id
    OBVIOUS
  <2>2. PICK v : v = Head(saving[s].todo)[2]
    OBVIOUS
  <2>3. days' = [days EXCEPT ![i].name = v]
    BY <1>4, <2>1, <2>2 DEF RenameHoliday
  <2>4. i \in DOMAIN days /\ days[i] \in DayRow
    BY <1>2, <1>4, <2>1, CalendarFacts DEF RenameHoliday, EditOK
  <2>5. PICK r : r = [days[i] EXCEPT !.name = v]
    OBVIOUS
  <2>6. r.rec = days[i].rec
    BY <2>4, <2>5 DEF DayRow
  <2>7. days' = [days EXCEPT ![i] = r]
    BY <2>3, <2>5
  <2> QED
    BY <2>4, <2>6, <2>7, SameOccurrences
<1> QED
  BY <1>1, <1>3, <1>4 DEF Importing, ImportHolidays, LookHoliday, Reads

LEMMA NothingIsAdded == CalendarInv /\ [CalendarNext]_calendarVars => [NothingAdded]_calendarVars
<1> SUFFICES ASSUME CalendarInv, CalendarNext, ~disturbed PROVE NothingAdded
  BY DEF NothingAdded
<1>1. PICK s \in Editors : Entries(s) \/ Recurring(s) \/ Importing(s)
  BY DEF CalendarNext
<1>2. CASE Recurring(s)
  BY <1>2, RecurringAddsOfUsed, UsedAgainOnDemand DEF NothingAdded
<1>3. CASE Entries(s) \/ Importing(s)
  <2>1. Occurrences' = Occurrences
    BY <1>3, EntriesAddNothing, ImportAddsNothing
  <2>2. InUse' = InUse
    BY <1>3, OthersLeaveEvent DEF InUse
  <2> QED
    BY <2>1, <2>2 DEF NothingAdded
<1> QED
  BY <1>1, <1>2, <1>3

\* While nothing is written under a request, occurrences are only those of a definition
\* in use, and one put out of use is used again only when a PATCH says so, whatever else
\* is done to it and to the entries.
THEOREM InactiveStaysAsItIs == CalendarSpec => InactiveAddsNothing
<1>1. CalendarSpec => []CalendarInv
  BY CalendarInvInit, CalendarInvStays, PTL DEF CalendarSpec
<1> QED
  BY <1>1, NothingIsAdded, PTL DEF CalendarSpec, InactiveAddsNothing

-----------------------------------------------------------------------------
(* What the components promise that is alike *)

\* However requests overlap, and whatever changes under them, nothing is counted twice.
THEOREM NothingCountedTwice == AttendanceSpec /\ PredictionSpec => []CountedOnce
BY DaysCounted, AnswersAreNew, PTL DEF CountedOnce

\* However requests overlap, attendance, predictions, notifications and the occurrences
\* of the calendar are written in order.
THEOREM AllWrittenInOrder ==
    AttendanceSpec /\ PredictionSpec /\ NotificationSpec /\ CalendarSpec => WrittenInOrder
BY AttendanceInOrder, PredictionsInOrder, ReadsAreOfShown, InactiveStaysAsItIs
   DEF WrittenInOrder
=============================================================================
