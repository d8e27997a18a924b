---------------------------- MODULE Client_proofs ----------------------------
(***************************************************************************)
(* Theorems about the components of the client, for any values of their    *)
(* constants: the session (TokenRefresh), the encoding pages               *)
(* (EncodingSheet), a row of the attendance page (AttendanceRow), the page *)
(* that enrols students (EnrolmentWizard) and the page of a student        *)
(* (StudentPage).                                                          *)
(***************************************************************************)
EXTENDS TokenRefresh, EncodingSheet, AttendanceRow, EnrolmentWizard, StudentPage,
        FiniteSetTheorems, SequenceTheorems, WellFoundedInduction, NaturalsInduction, TLAPS

-----------------------------------------------------------------------------
(* The session *)

\* refreshPromise is pending exactly while a refresh is in flight, and then
\* isRefreshing is set: a 401 joins that refresh and starts no other.
PromiseOK == /\ refreshes \in {0, 1}
             /\ refreshPromise = "pending" <=> refreshes = 1
             /\ refreshPromise = "pending" => isRefreshing

IndInv == TypeOK /\ PromiseOK /\ WaitersShareOneRefresh

\* A request that settles disturbs no refresh.
LEMMA FailKeepsIndInv ==
    ASSUME NEW r \in Requests, IndInv, Fail(r)
    PROVE  IndInv'
<1>1. TypeOK'
  BY DEF Fail, IndInv, TypeOK, refresh
<1>2. PromiseOK'
  BY DEF Fail, IndInv, PromiseOK, refresh
<1>3. WaitersShareOneRefresh'
  BY DEF Fail, IndInv, TypeOK, WaitersShareOneRefresh, refresh
<1> QED
  BY <1>1, <1>2, <1>3 DEF IndInv

\* A request that is sent, or one that settles, or both in one step, while the
\* refresh stays as it is.
LEMMA SendKeepsIndInv ==
    ASSUME NEW r \in Requests, NEW next \in Requests, IndInv,
           pc' \in {[pc EXCEPT ![r] = "settled"], [pc EXCEPT ![r] = "sent"],
                    [pc EXCEPT ![r] = "bare"],
                    [pc EXCEPT ![r] = "settled", ![next] = "sent"],
                    [pc EXCEPT ![r] = "settled", ![next] = "bare"]},
           stored' \in BOOLEAN, loading' \in BOOLEAN,
           authenticated' \in BOOLEAN, leaving' \in BOOLEAN,
           UNCHANGED refresh
    PROVE  IndInv'
<1>1. TypeOK'
  BY DEF IndInv, TypeOK, refresh
<1>2. PromiseOK'
  BY DEF IndInv, PromiseOK, refresh
<1>3. WaitersShareOneRefresh'
  BY DEF IndInv, TypeOK, WaitersShareOneRefresh, refresh
<1> QED
  BY <1>1, <1>2, <1>3 DEF IndInv

\* When the application loads, no request waits.
LEMMA LoadedNew ==
    ASSUME NEW boot, NEW tokens \in BOOLEAN
    PROVE  Loaded(boot, tokens) \in [Requests -> {"new", "sent"}]
BY DEF Loaded

LEMMA InitOK == Init => IndInv
<1> SUFFICES ASSUME Init
             PROVE  IndInv
  OBVIOUS
<1>1. pc \in [Requests -> {"new", "sent"}]
  BY LoadedNew DEF Init
<1>2. TypeOK
  BY <1>1 DEF Init, TypeOK
<1>3. PromiseOK /\ WaitersShareOneRefresh
  BY <1>1 DEF Init, PromiseOK, WaitersShareOneRefresh
<1> QED
  BY <1>2, <1>3 DEF IndInv

LEMMA AnsweredOK ==
    ASSUME NEW r \in Requests, IndInv, Answered(r)
    PROVE  IndInv'
<1> USE DEF IndInv, TypeOK
<1>1. CASE r \in Pages /\ PageAnswered(r)
  <2>1. CASE pc' = [pc EXCEPT ![r] = "settled"]
    BY <1>1, <2>1, SendKeepsIndInv DEF PageAnswered, session
  <2>2. ASSUME NEW next \in Pages \cup Saves,
               pc' = [pc EXCEPT ![r] = "settled", ![next] = Sent(stored)]
        PROVE  IndInv'
    <3>1. next \in Requests /\ Sent(stored) \in {"sent", "bare"}
      BY DEF Requests, Sent
    <3> QED
      BY <1>1, <2>2, <3>1, SendKeepsIndInv DEF PageAnswered, session
  <2> QED
    BY <1>1, <2>1, <2>2 DEF PageAnswered
<1>2. CASE r \in Boots \cup Saves /\ ProfileAnswered(r)
  BY <1>2, SendKeepsIndInv DEF ProfileAnswered
<1>3. CASE r \in Logins /\ LoginAnswered(r)
  <2>1. PICK boot \in Boots :
            pc' = [pc EXCEPT ![r] = "settled", ![boot] = "sent"]
    BY <1>3 DEF LoginAnswered
  <2>2. boot \in Requests
    BY DEF Requests
  <2> QED
    BY <1>3, <2>1, <2>2, SendKeepsIndInv DEF LoginAnswered
<1>4. CASE r \in Logouts /\ LogoutAnswered(r)
  BY <1>4, FailKeepsIndInv DEF LogoutAnswered
<1> QED
  BY <1>1, <1>2, <1>3, <1>4 DEF Answered

LEMMA RefusedOK ==
    ASSUME NEW r \in Requests, IndInv, Refused(r)
    PROVE  IndInv'
<1>1. CASE RefusedForGood(r)
  BY <1>1, FailKeepsIndInv DEF RefusedForGood
<1>2. CASE JoinRefresh(r)
  BY <1>2 DEF JoinRefresh, IndInv, TypeOK, PromiseOK,
              WaitersShareOneRefresh, session, refresh
<1>3. CASE StartRefresh(r)
  BY <1>3 DEF StartRefresh, IndInv, TypeOK, PromiseOK,
              WaitersShareOneRefresh, session
<1>4. CASE NothingToRefresh(r)
  BY <1>4 DEF NothingToRefresh, LogOut, IndInv, TypeOK, PromiseOK,
              WaitersShareOneRefresh
<1> QED
  BY <1>1, <1>2, <1>3, <1>4 DEF Refused

\* The answer of the refresh wakes every request that waits for it.
LEMMA RefreshAnswerOK ==
    ASSUME IndInv, Refreshed \/ RefreshFailed
    PROVE  IndInv'
<1>1. refreshes = 1 /\ RefreshDone
  BY DEF Refreshed, RefreshFailed, IndInv, PromiseOK
<1>2. /\ pc' \in [Requests -> {"new", "bare", "sent", "waiting", "settled"}]
      /\ \A r \in Requests : pc'[r] # "waiting"
  BY DEF Refreshed, RefreshFailed, LogOut, Waiting, IndInv, TypeOK
<1>3. /\ stored' \in BOOLEAN /\ loading' \in BOOLEAN
      /\ authenticated' \in BOOLEAN /\ leaving' \in BOOLEAN
  <2>1. CASE Refreshed
    BY <2>1 DEF Refreshed, IndInv, TypeOK
  <2>2. CASE RefreshFailed
    BY <2>2, Zenon DEF RefreshFailed, LogOut, IndInv, TypeOK
  <2> QED
    BY <2>1, <2>2
<1>4. TypeOK'
  <2>1. /\ isRefreshing' = FALSE /\ refreshPromise' = "null"
        /\ refreshes' = 0 /\ retried' \subseteq Requests
    BY <1>1 DEF RefreshDone, IndInv, TypeOK
  <2> QED
    BY <1>2, <1>3, <2>1, Zenon DEF TypeOK
<1>5. PromiseOK' /\ WaitersShareOneRefresh'
  BY <1>1, <1>2 DEF RefreshDone, PromiseOK, WaitersShareOneRefresh
<1> QED
  BY <1>4, <1>5 DEF IndInv

LEMMA UserOK ==
    ASSUME IndInv, User
    PROVE  IndInv'
<1> USE DEF IndInv, TypeOK
<1>1. ASSUME NEW r \in Pages, OpenPage(r)
      PROVE  IndInv'
  <2>1. r \in Requests /\ Sent(stored) \in {"sent", "bare"}
    BY DEF Requests, Sent
  <2> QED
    BY <1>1, <2>1, SendKeepsIndInv DEF OpenPage, session
<1>2. ASSUME NEW r \in Logins, SubmitLogin(r)
      PROVE  IndInv'
  <2>1. r \in Requests
    BY DEF Requests
  <2> QED
    BY <1>2, <2>1, SendKeepsIndInv DEF SubmitLogin
<1>3. ASSUME NEW r \in Logouts, ClickLogout(r)
      PROVE  IndInv'
  <2>1. r \in Requests
    BY DEF Requests
  <2>2. CASE Fail(r)
    BY <2>1, <2>2, FailKeepsIndInv
  <2>3. CASE pc' = [pc EXCEPT ![r] = "sent"] /\ UNCHANGED <<session, refresh>>
    BY <2>1, <2>3, SendKeepsIndInv DEF session
  <2> QED
    BY <1>3, <2>2, <2>3 DEF ClickLogout
<1> QED
  BY <1>1, <1>2, <1>3 DEF User

LEMMA ReloadOK ==
    ASSUME IndInv, Reload
    PROVE  IndInv'
<1>1. pc' \in [Requests -> {"new", "sent"}]
  BY LoadedNew DEF Reload, IndInv, TypeOK
<1>2. TypeOK'
  BY <1>1 DEF Reload, IndInv, TypeOK
<1>3. PromiseOK' /\ WaitersShareOneRefresh'
  BY <1>1 DEF Reload, PromiseOK, WaitersShareOneRefresh
<1> QED
  BY <1>2, <1>3 DEF IndInv

LEMMA NextOK == IndInv /\ [Next]_vars => IndInv'
<1> SUFFICES ASSUME IndInv, [Next]_vars
             PROVE  IndInv'
  OBVIOUS
<1>1. ASSUME NEW r \in Requests, Settle(r)
      PROVE  IndInv'
  <2>1. CASE Failed(r)
    BY <2>1, FailKeepsIndInv DEF Failed
  <2> QED
    BY <1>1, <2>1, AnsweredOK, RefusedOK DEF Settle
<1>2. CASE UNCHANGED vars
  BY <1>2 DEF vars, session, refresh, IndInv, TypeOK, PromiseOK,
              WaitersShareOneRefresh
<1> QED
  BY <1>1, <1>2, RefreshAnswerOK, UserOK, ReloadOK DEF Next

LEMMA IndInvHolds == Spec => []IndInv
BY InitOK, NextOK, PTL DEF Spec

\* Every variable of the session keeps its type.
THEOREM TypeCorrect == Spec => []TypeOK
<1>1. IndInv => TypeOK
  BY DEF IndInv
<1> QED
  BY <1>1, IndInvHolds, PTL

\* However many requests are refused, in whatever order their answers come,
\* one refresh is in flight at most, and whoever waits, waits for it.
THEOREM OneRefreshForAll == Spec => []WaitersShareOneRefresh
<1>1. IndInv => WaitersShareOneRefresh
  BY DEF IndInv
<1> QED
  BY <1>1, IndInvHolds, PTL

-----------------------------------------------------------------------------
(* The encoding pages *)

\* Rows are of finitely many students, each with a record of its own or none.
RowsOK(r) == AreRows(r) /\ OwnRows(r) /\ IsFiniteSet(DOMAIN r)

\* A load is of a class, and has a number of its own.
ClassLoadsOK ==
    /\ asked \in 0..sheet.loads
    /\ \A l, m \in classLoads : l.n = m.n => l = m
    /\ \A l \in classLoads : /\ l \in [n : 1..asked, of : Filters, rows : {l.rows}]
                             /\ l.of.class \in Classes
                             /\ \A r \in l.rows : RowsOK(r)

\* What is saved is filed under what was chosen, and once it was served every item has
\* its record.
SavesOK ==
    \A q \in saving :
       /\ q \in [at : Filters, done : {"sent", "saved", "refused"}, items : SUBSET MarkedItem]
       /\ q.at.class \in Classes /\ IsFiniteSet(q.items)
       /\ \A it \in q.items : it.file = File(q.at) /\ IsOf(it.id, it.student)
       /\ q.done = "saved" => \A it \in q.items : Filed(it.student, it.file) # {}

PageOK ==
    /\ sheet \in Sheets /\ ready \in BOOLEAN /\ loadingClass \in BOOLEAN
    /\ filters \in Filters /\ shown \in Filters
    /\ message \in {"none", "incomplete", "failed"} /\ saves \in 0..sheet.saves

SheetInv == PageOK /\ RowsOK(rows) /\ ClassLoadsOK /\ SavesOK /\ records \in Seq(FiledMark)

\* Among finitely many ids there is a least and a greatest.
LEMMA ExtremeIds ==
    ASSUME NEW n \in Nat, NEW S \in SUBSET (1..n), S # {}
    PROVE  /\ \E i \in S : \A j \in S : i <= j
           /\ \E i \in S : \A j \in S : j <= i
<1>1. ASSUME NEW T \in SUBSET Nat, T # {} PROVE \E i \in T : \A j \in T : i <= j
  <2>1. PICK i \in T : \A j \in T : ~ (<<j, i>> \in OpToRel(<, Nat))
    BY <1>1, NatLessThanWellFounded, WFMin
  <2>2. ASSUME NEW j \in T PROVE i <= j
    <3>1. <<j, i>> \in Nat \X Nat /\ <<j, i>>[1] = j /\ <<j, i>>[2] = i
      BY <1>1
    <3>2. <<j, i>> \notin {ss \in Nat \X Nat : ss[1] < ss[2]}
      BY <2>1, Zenon DEF OpToRel
    <3>3. ~ (j < i)
      BY <3>1, <3>2, Zenon
    <3> QED
      BY <1>1, <3>3
  <2> QED
    BY <2>2
<1>2. \E i \in S : \A j \in S : i <= j
  BY <1>1
<1>3. PICK k \in {n - i : i \in S} : \A m \in {n - i : i \in S} : k <= m
  <2>1. {n - i : i \in S} \in SUBSET Nat /\ {n - i : i \in S} # {}
    <3>1. \A i \in S : n - i \in Nat
      OBVIOUS
    <3>2. PICK i : i \in S
      OBVIOUS
    <3>3. n - i \in {n - j : j \in S}
      BY <3>2
    <3> QED
      BY <3>1, <3>3
  <2> QED
    BY <1>1, <2>1
<1>4. PICK i \in S : k = n - i
  BY <1>3
<1>5. \A j \in S : n - i <= n - j
  BY <1>3, <1>4
<1>6. \A j \in S : j <= i
  BY <1>5
<1> QED
  BY <1>2, <1>6

LEMMA LatestIs ==
    ASSUME NEW n \in Nat, NEW S \in SUBSET (1..n), S # {}
    PROVE  LatestOf(S) \in S
<1> QED
  BY ExtremeIds DEF LatestOf

\* An injective numbering of a finite set names all of it.
LEMMA NumbersAll ==
    ASSUME NEW S, IsFiniteSet(S), NEW q \in Injection(1..Cardinality(S), S)
    PROVE  q \in Seq(S) /\ \A x \in S : \E k \in DOMAIN q : q[k] = x
<1>1. Cardinality(S) \in Nat
  BY FS_CardinalityType
<1>2. Cardinality(1..Cardinality(S)) = Cardinality(S)
  BY <1>1, FS_Interval
<1>3. q \in Surjection(1..Cardinality(S), S)
  BY <1>2, FS_Injection
<1> QED
  BY <1>1, <1>3 DEF Injection, Surjection

LEMMA FilesOf ==
    ASSUME NEW f \in Filters, f.class \in Classes
    PROVE  File(f) \in Files
<1> QED
  BY DEF Filters, File, Files

LEMMA TargetOwn ==
    ASSUME records \in Seq(FiledMark), NEW it \in MarkedItem, IsOf(it.id, it.student),
           Target(it) # 0
    PROVE  Target(it) \in DOMAIN records /\ records[Target(it)].student = it.student
<1>1. CASE it.id # 0
  BY <1>1 DEF Target, IsOf
<1>2. CASE it.id = 0
  <2>1. Filed(it.student, it.file) # {} /\ Target(it) = LatestOf(Filed(it.student, it.file))
    BY <1>2 DEF Target
  <2>2. Filed(it.student, it.file) \in SUBSET (1..Len(records)) /\ Len(records) \in Nat
    BY DEF Filed
  <2>3. Target(it) \in Filed(it.student, it.file)
    BY <2>1, <2>2, LatestIs
  <2> QED
    BY <2>3 DEF Filed
<1> QED
  BY <1>1, <1>2

\* The rows of an answer: finitely many students of the class, each with a record of its
\* own or none.
LEMMA AnsweredRows ==
    ASSUME records \in Seq(FiledMark), NEW f \in Filters, f.class \in Classes
    PROVE  RowsOK(ClassRows(f))
<1>1. DOMAIN ClassRows(f) = Roster[f.class] /\ Roster[f.class] \subseteq Pupils
  BY DEF ClassRows, Pupils
<1>2. IsFiniteSet(Roster[f.class])
  BY SheetAssumption DEF SheetConstants
<1>3. ASSUME NEW s \in Roster[f.class]
      PROVE  ClassRows(f)[s] \in SheetRow /\ IsOf(ClassRows(f)[s].id, s)
  <2> DEFINE mine == Filed(s, File(f)) \cap Listed(File(f))
             i == CHOOSE k \in mine : \A j \in mine : k <= j
  <2>1. ClassRows(f)[s] = IF mine = {} THEN [id |-> 0, mark |-> NoMark]
                          ELSE [id |-> i, mark |-> records[i].mark]
    BY DEF ClassRows
  <2>2. CASE mine = {}
    BY <2>1, <2>2 DEF SheetRow, IsOf
  <2>3. CASE mine # {}
    <3>1. mine \in SUBSET (1..Len(records)) /\ Len(records) \in Nat
      BY DEF Filed
    <3>2. i \in mine
      <4> HIDE DEF mine
      <4> QED
        BY <2>3, <3>1, ExtremeIds
    <3>3. i \in DOMAIN records /\ records[i].student = s
      BY <3>2 DEF Filed
    <3> HIDE DEF i, mine
    <3>4. i \in Nat /\ records[i].mark \in Marks
      <4>1. records[i] \in FiledMark /\ i \in Nat
        BY <3>3
      <4> QED
        BY <4>1 DEF FiledMark
    <3> QED
      BY <2>1, <2>3, <3>3, <3>4 DEF SheetRow, IsOf
  <2> QED
    BY <2>2, <2>3
<1> QED
  BY <1>1, <1>2, <1>3 DEF RowsOK, AreRows, OwnRows

\* A bulk save gives no record another student, and leaves one for each of its items.
LEMMA BulkFits ==
    ASSUME SheetInv, NEW q \in saving, NEW t \in Bulk(q.items)
    PROVE  /\ t \in Seq(FiledMark)
           /\ \A i \in DOMAIN records : i \in DOMAIN t /\ t[i].student = records[i].student
           /\ \A it \in q.items :
                \E i \in DOMAIN t : t[i].student = it.student /\ t[i].file = it.file
<1> DEFINE kept == [i \in DOMAIN records |->
                      IF \E it \in q.items : Target(it) = i
                      THEN Stored(CHOOSE it \in q.items : Target(it) = i) ELSE records[i]]
           pending == {x \in q.items : Target(x) = 0}
           added == {Stored(it) : it \in pending}
<1>1. PICK new \in Injection(1..Cardinality(added), added) : t = kept \o new
  BY DEF Bulk
<1>2. /\ records \in Seq(FiledMark) /\ q.items \subseteq MarkedItem /\ IsFiniteSet(q.items)
      /\ \A it \in q.items : IsOf(it.id, it.student) /\ it.file = File(q.at)
  BY DEF SheetInv, SavesOK
<1>3. ASSUME NEW it \in MarkedItem
      PROVE  /\ Stored(it) \in FiledMark
             /\ Stored(it).student = it.student /\ Stored(it).file = it.file
  BY DEF MarkedItem, FiledMark, Stored
<1>4. IsFiniteSet(added) /\ added \subseteq FiledMark
  <2>1. IsFiniteSet(pending)
    BY <1>2, FS_Subset
  <2>2. [it \in pending |-> Stored(it)] \in Surjection(pending, added)
    BY DEF Surjection
  <2>3. IsFiniteSet(added)
    BY <2>1, <2>2, FS_Surjection
  <2> QED
    BY <1>2, <1>3, <2>3
<1>5. new \in Seq(added) /\ \A x \in added : \E k \in DOMAIN new : new[k] = x
  <2> HIDE DEF added
  <2> QED
    BY <1>4, NumbersAll
<1>6. ASSUME NEW i \in DOMAIN records
      PROVE  /\ kept[i] \in FiledMark /\ kept[i].student = records[i].student
             /\ \A it \in q.items : Target(it) = i => kept[i].student = it.student
                                                     /\ kept[i].file = it.file
  <2>1. CASE \E it \in q.items : Target(it) = i
    <3>1. PICK w \in q.items : Target(w) = i /\ kept[i] = Stored(w)
      BY <2>1
    <3>2. i # 0 /\ i \in DOMAIN records
      BY <1>2
    <3>3. \A it \in q.items : Target(it) = i => records[i].student = it.student
      BY <1>2, <3>2, TargetOwn
    <3> QED
      BY <1>2, <1>3, <3>1, <3>3
  <2>2. CASE ~ \E it \in q.items : Target(it) = i
    <3>1. kept[i] = records[i]
      BY <2>2
    <3> QED
      BY <1>2, <2>2, <3>1
  <2> QED
    BY <2>1, <2>2
<1>7. kept \in Seq(FiledMark) /\ Len(kept) = Len(records) /\ DOMAIN kept = DOMAIN records
  <2>1. DOMAIN records = 1..Len(records) /\ Len(records) \in Nat
    BY <1>2
  <2>2. kept \in [1..Len(records) -> FiledMark]
    BY <1>6, <2>1
  <2> QED
    BY <2>1, <2>2
<1>8. new \in Seq(FiledMark)
  BY <1>4, <1>5
<1> HIDE DEF kept, added
<1>9. /\ t \in Seq(FiledMark) /\ Len(t) = Len(records) + Len(new)
      /\ \A i \in DOMAIN records : i \in DOMAIN t /\ t[i] = kept[i]
      /\ \A k \in DOMAIN new : Len(records) + k \in DOMAIN t /\ t[Len(records) + k] = new[k]
  <2>1. /\ Len(kept) \in Nat /\ Len(new) \in Nat
        /\ DOMAIN kept = 1..Len(kept) /\ DOMAIN new = 1..Len(new)
    BY <1>7, <1>8
  <2>2. t \in Seq(FiledMark) /\ Len(t) = Len(kept) + Len(new)
    <3>1. kept \o new \in Seq(FiledMark)
      BY <1>7, <1>8, ConcatProperties
    <3>2. Len(kept \o new) = Len(kept) + Len(new)
      BY <1>7, <1>8, ConcatProperties
    <3> QED
      BY <1>1, <3>1, <3>2
  <2>3. \A i \in DOMAIN kept : i \in DOMAIN t /\ t[i] = kept[i]
    BY <1>1, <1>7, <1>8, <2>1, <2>2
  <2>4. \A k \in DOMAIN new : Len(kept) + k \in DOMAIN t /\ t[Len(kept) + k] = new[k]
    BY <1>1, <1>7, <1>8, <2>1, <2>2
  <2> QED
    BY <1>7, <2>2, <2>3, <2>4
<1>10. ASSUME NEW it \in q.items
       PROVE  \E i \in DOMAIN t : t[i].student = it.student /\ t[i].file = it.file
  <2>1. CASE Target(it) = 0
    <3>1. Stored(it) \in added
      BY <2>1 DEF added
    <3>2. PICK k \in DOMAIN new : new[k] = Stored(it)
      BY <1>5, <3>1
    <3> QED
      BY <1>2, <1>3, <1>9, <3>2
  <2>2. CASE Target(it) # 0
    <3>1. Target(it) \in DOMAIN records
      BY <1>2, <2>2, TargetOwn
    <3> QED
      BY <1>6, <1>9, <3>1
  <2> QED
    BY <2>1, <2>2
<1> QED
  BY <1>6, <1>9, <1>10

\* Rows that are in order stay so, whatever is added: the student of a record never changes.
LEMMA StayInOrder ==
    ASSUME \A i \in DOMAIN records :
              i \in DOMAIN records' /\ records'[i].student = records[i].student
    PROVE  /\ \A r : RowsOK(r) => RowsOK(r)' /\ (rows' = r => RowsOK(rows)')
           /\ \A i, s : IsOf(i, s) => IsOf(i, s)'
<1>1. \A i, s : IsOf(i, s) => IsOf(i, s)'
  BY DEF IsOf
<1>2. ASSUME NEW r, RowsOK(r) PROVE RowsOK(r)'
  BY <1>1, <1>2 DEF RowsOK, OwnRows, AreRows
<1>3. ASSUME NEW r, RowsOK(r), rows' = r PROVE RowsOK(rows)'
  BY <1>2, <1>3 DEF RowsOK, OwnRows, AreRows, IsOf
<1> QED
  BY <1>1, <1>2, <1>3

\* Asking for a class gives the load the next number.
LEMMA LoadClassOK ==
    ASSUME SheetInv, NEW f \in Filters, LoadClass(f), sheet' = sheet, records' = records
    PROVE  /\ ClassLoadsOK' /\ loadingClass' \in BOOLEAN
           /\ message' \in {"none", "incomplete", "failed"}
<1>1. PageOK /\ ClassLoadsOK /\ sheet.loads \in Nat /\ asked \in Nat
  BY SheetAssumption DEF SheetInv, SheetConstants, PageOK, ClassLoadsOK
<1>2. \A r : RowsOK(r) => RowsOK(r)'
  BY StayInOrder
<1>3. CASE f.class = NoClass
  <2>1. classLoads' = classLoads /\ asked' = asked /\ loadingClass' = loadingClass
        /\ message' = "incomplete"
    BY <1>3 DEF LoadClass
  <2> QED
    BY <1>1, <1>2, <2>1 DEF PageOK, ClassLoadsOK
<1>4. CASE f.class # NoClass
  <2> DEFINE new == [n |-> asked + 1, of |-> f, rows |-> {}]
  <2>1. /\ asked < sheet.loads /\ asked' = asked + 1 /\ classLoads' = classLoads \cup {new}
        /\ loadingClass' = TRUE /\ message' = "none"
    BY <1>4 DEF LoadClass
  <2>2. f.class \in Classes
    BY <1>4 DEF Filters
  <2>3. \A l \in classLoads : l.n \in 1..asked
    BY <1>1 DEF ClassLoadsOK
  <2>4. asked' \in 0..sheet.loads'
    BY <1>1, <2>1
  <2>5. ASSUME NEW l \in classLoads', NEW m \in classLoads', l.n = m.n PROVE l = m
    <3>1. new.n = asked + 1 /\ \A k \in classLoads : k.n < asked + 1
      BY <1>1, <2>3
    <3>2. CASE l \in classLoads /\ m \in classLoads
      BY <1>1, <2>5, <3>2 DEF ClassLoadsOK
    <3>3. CASE l = new \/ m = new
      <4> HIDE DEF new
      <4>1. \A k \in classLoads : k.n # new.n
        BY <1>1, <2>3, <3>1
      <4> QED
        BY <2>1, <2>5, <3>3, <4>1
    <3> QED
      BY <2>1, <3>2, <3>3
  <2>6. ASSUME NEW l \in classLoads'
        PROVE  /\ l \in [n : 1..asked', of : Filters, rows : {l.rows}]
               /\ l.of.class \in Classes /\ \A r \in l.rows : RowsOK(r)'
    BY <1>1, <1>2, <2>1, <2>2, <2>6 DEF ClassLoadsOK
  <2> QED
    BY <2>1, <2>4, <2>5, <2>6 DEF ClassLoadsOK
<1> QED
  BY <1>3, <1>4

LEMMA SheetInitially ==
    ASSUME SheetInit
    PROVE  SheetInv
<1> USE DEF SheetInit
<1>1. /\ Head(Periods) \in Range(Periods) /\ LinkedClass \in Classes
      /\ sheet \in Sheets /\ sheet.loads \in Nat /\ sheet.saves \in Nat
  BY SheetAssumption DEF SheetConstants, Range, LinkedClass
<1>2. PageOK /\ ClassLoadsOK /\ SavesOK
  <2>1. filters \in Filters /\ shown \in Filters
    BY <1>1 DEF Filters
  <2> QED
    <3>1. PageOK
      <4>1. sheet \in Sheets /\ ready \in BOOLEAN /\ loadingClass \in BOOLEAN
        BY Zenon
      <4>2. message \in {"none", "incomplete", "failed"} /\ saves \in 0..sheet.saves
        BY <1>1
      <4> QED
        BY <2>1, <4>1, <4>2 DEF PageOK
    <3>2. ClassLoadsOK
      BY <1>1 DEF ClassLoadsOK
    <3>3. SavesOK
      BY DEF SavesOK
    <3> QED
      BY <3>1, <3>2, <3>3
<1>3. RowsOK(rows)
  <2>1. DOMAIN rows = {}
    OBVIOUS
  <2> QED
    BY <2>1, FS_EmptySet DEF RowsOK, AreRows, OwnRows
<1>4. records \in Seq(FiledMark)
  OBVIOUS
<1> QED
  BY <1>2, <1>3, <1>4 DEF SheetInv

\* What is loaded comes and goes.
LEMMA ServeLoadOK ==
    ASSUME SheetInv, NEW l \in classLoads, ServeLoad(l)
    PROVE  SheetInv'
<1> DEFINE done == [l EXCEPT !.rows = {ClassRows(l.of)}]
<1> USE DEF SheetInv
<1>1. /\ classLoads' = (classLoads \ {l}) \cup {done}
      /\ UNCHANGED <<sheet, ready, filters, rows, shown, loadingClass, message, asked, saving>>
      /\ UNCHANGED <<saves, records>>
  BY DEF ServeLoad, sheetPage
<1>2. \A r : RowsOK(r) => RowsOK(r)'
  BY <1>1, StayInOrder
<1>3. RowsOK(ClassRows(l.of))
  BY AnsweredRows DEF ClassLoadsOK
<1>4. done.n = l.n /\ done.of = l.of /\ done.rows = {ClassRows(l.of)}
  BY DEF ClassLoadsOK
<1>5. ClassLoadsOK'
  BY <1>1, <1>2, <1>3, <1>4 DEF ClassLoadsOK
<1>6. SavesOK' /\ PageOK'
  BY <1>1 DEF SavesOK, PageOK, IsOf, Filed, File
<1> QED
  BY <1>1, <1>2, <1>5, <1>6

LEMMA LoadEndsOK ==
    ASSUME SheetInv, NEW l \in classLoads, Arrive(l) \/ LoadFails(l)
    PROVE  SheetInv'
<1> USE DEF SheetInv
<1>1. /\ classLoads' = classLoads \ {l}
      /\ UNCHANGED <<sheet, ready, filters, asked, saving, saves, records>>
  BY DEF Arrive, LoadFails
<1>2. \A r : RowsOK(r) => RowsOK(r)'
  BY <1>1, StayInOrder
<1>3. ClassLoadsOK'
  BY <1>1, <1>2 DEF ClassLoadsOK
<1>4. SavesOK'
  BY <1>1 DEF SavesOK, IsOf, Filed, File
<1>5. /\ rows' \in l.rows \/ rows' = <<>> \/ rows' = rows
      /\ shown' \in {shown, l.of} /\ loadingClass' \in {FALSE, loadingClass}
      /\ message' \in {message, "failed"}
  BY DEF Arrive, LoadFails, EndLoading
<1>6. PageOK'
  BY <1>1, <1>5 DEF PageOK, ClassLoadsOK
<1>7. RowsOK(<<>>)
  <2>1. DOMAIN <<>> = {}
    OBVIOUS
  <2> QED
    BY <2>1, FS_EmptySet DEF RowsOK, AreRows, OwnRows
<1>8. RowsOK(rows)'
  <2>1. \E r \in l.rows \cup {<<>>, rows} : rows' = r
    BY <1>5
  <2>2. \A r \in l.rows \cup {<<>>, rows} : RowsOK(r)
    BY <1>7 DEF ClassLoadsOK
  <2> QED
    BY <1>2, <2>1, <2>2
<1> QED
  BY <1>1, <1>3, <1>4, <1>6, <1>8

\* The filters change, and a class is asked for or not.
LEMMA FiltersOK ==
    ASSUME SheetInv, UNCHANGED <<sheet, rows, shown, saving, saves, records>>,
           ready' \in BOOLEAN, filters' \in Filters,
           \/ \E f \in Filters : LoadClass(f)
           \/ UNCHANGED <<loadingClass, message, classLoads, asked>>
    PROVE  SheetInv'
<1> USE DEF SheetInv
<1>1. \A r : RowsOK(r) => RowsOK(r)' /\ (rows' = r => RowsOK(rows)')
  BY StayInOrder
<1>2. /\ ClassLoadsOK' /\ loadingClass' \in BOOLEAN
      /\ message' \in {"none", "incomplete", "failed"}
  <2>1. CASE \E f \in Filters : LoadClass(f)
    BY <2>1, LoadClassOK
  <2>2. CASE UNCHANGED <<loadingClass, message, classLoads, asked>>
    BY <1>1, <2>2 DEF ClassLoadsOK, PageOK
  <2> QED
    BY <2>1, <2>2
<1>3. PageOK'
  BY <1>2 DEF PageOK
<1>4. SavesOK'
  BY DEF SavesOK, IsOf, Filed, File
<1> QED
  BY <1>1, <1>2, <1>3, <1>4

LEMMA ChoosesOK ==
    ASSUME SheetInv,
           \/ LoadReferences \/ PressLoad
           \/ \E c \in Classes : ChooseClass(c)
           \/ \E p \in Range(Periods) : ChooseFiling(p)
    PROVE  SheetInv'
<1>1. filters \in Filters /\ LinkedClass \in Classes /\ ready \in BOOLEAN
  BY SheetAssumption DEF SheetInv, PageOK, SheetConstants, LinkedClass
<1>2. /\ \A c \in Classes \cup {NoClass} : [filters EXCEPT !.class = c] \in Filters
      /\ \A p \in Range(Periods) : [filters EXCEPT !.period = p] \in Filters
  BY <1>1 DEF Filters
<1>3. /\ UNCHANGED <<sheet, rows, shown, saving, saves, records>>
      /\ ready' \in BOOLEAN
  BY <1>1 DEF LoadReferences, PressLoad, ChooseClass, ChooseFiling
<1> DEFINE Asks == \E f \in Filters : LoadClass(f)
           AsksNot == UNCHANGED <<loadingClass, message, classLoads, asked>>
<1>4. CASE LoadReferences
  BY <1>1, <1>2, <1>3, <1>4, FiltersOK DEF LoadReferences
<1>5. CASE PressLoad
  BY <1>1, <1>2, <1>3, <1>5, FiltersOK DEF PressLoad
<1>6. ASSUME NEW c \in Classes, ChooseClass(c) PROVE SheetInv'
  BY <1>1, <1>2, <1>3, <1>6, FiltersOK DEF ChooseClass
<1>7. ASSUME NEW p \in Range(Periods), ChooseFiling(p) PROVE SheetInv'
  <2> DEFINE f == [filters EXCEPT !.period = p]
             linked == [f EXCEPT !.class = LinkedClass]
  <2>1. f \in Filters /\ linked \in Filters /\ filters' = f
    BY <1>1, <1>2, <1>7 DEF Filters, ChooseFiling
  <2>2. Asks \/ AsksNot
    BY <1>7, <2>1 DEF ChooseFiling
  <2> QED
    BY <1>3, <2>1, <2>2, FiltersOK
<1> QED
  BY <1>4, <1>5, <1>6, <1>7

\* Marks are typed into the rows.
LEMMA MarksOK ==
    ASSUME SheetInv,
           \/ \E s \in Pupils : \E m \in Marks : UpdateRow(s, m)
           \/ \E m \in Marks \cup {NoMark} : MarkAll(m)
    PROVE  SheetInv'
<1> USE DEF SheetInv
<1>1. /\ UNCHANGED <<sheet, ready, filters, shown, loadingClass, message>>
      /\ UNCHANGED <<classLoads, asked, saving, saves, records>>
  BY DEF UpdateRow, MarkAll
<1>2. DOMAIN rows' = DOMAIN rows
      /\ \A s \in DOMAIN rows : \/ rows'[s] = rows[s]
                                \/ \E m \in Marks \cup {NoMark} :
                                      rows'[s] = [rows[s] EXCEPT !.mark = m]
  BY DEF UpdateRow, MarkAll
<1>3. \A s \in DOMAIN rows : rows[s] \in SheetRow /\ IsOf(rows[s].id, s)
  BY DEF RowsOK, AreRows, OwnRows
<1>4. \A s \in DOMAIN rows : rows'[s] \in SheetRow /\ rows'[s].id = rows[s].id
  BY <1>2, <1>3 DEF SheetRow
<1>5. RowsOK(rows)'
  BY <1>1, <1>2, <1>3, <1>4 DEF RowsOK, AreRows, OwnRows, IsOf
<1>6. \A r : RowsOK(r) => RowsOK(r)'
  BY <1>1, StayInOrder
<1>7. ClassLoadsOK' /\ PageOK' /\ SavesOK'
  BY <1>1, <1>6 DEF ClassLoadsOK, PageOK, SavesOK, IsOf, Filed, File
<1> QED
  BY <1>1, <1>5, <1>7

\* The rows are sent.
LEMMA SaveRowsOK ==
    ASSUME SheetInv, SaveRows
    PROVE  SheetInv'
<1> USE DEF SheetInv
<1> DEFINE marked == {s \in DOMAIN rows : rows[s].mark # NoMark}
           item(s) == [id |-> rows[s].id, student |-> s, file |-> File(filters),
                       mark |-> rows[s].mark]
           items == {item(s) : s \in marked}
           request == [at |-> filters, done |-> "sent", items |-> items]
<1>1. /\ UNCHANGED <<sheet, ready, filters, rows, shown, loadingClass, classLoads, asked>>
      /\ records' = records /\ message' = "none"
      /\ saves < sheet.saves /\ saves' = saves + 1
      /\ filters.class # NoClass /\ saving' = {request}
  BY DEF SaveRows
<1>2. sheet.saves \in Nat
  BY SheetAssumption DEF PageOK, SheetConstants
<1>3. PageOK'
  BY <1>1, <1>2 DEF PageOK
<1>4. \A r : RowsOK(r) => RowsOK(r)' /\ (rows' = r => RowsOK(rows)')
  BY <1>1, StayInOrder
<1>5. filters \in Filters /\ filters.class \in Classes /\ File(filters) \in Files
  BY <1>1, FilesOf DEF PageOK, Filters
<1>6. ASSUME NEW s \in marked
      PROVE  item(s) \in MarkedItem /\ item(s).file = File(filters)
             /\ IsOf(item(s).id, item(s).student)
  BY <1>5 DEF RowsOK, AreRows, OwnRows, SheetRow, MarkedItem
<1>7. IsFiniteSet(items)
  <2>1. IsFiniteSet(marked)
    BY FS_Subset DEF RowsOK
  <2> HIDE DEF marked, item
  <2>2. [s \in marked |-> item(s)] \in Surjection(marked, items)
    BY DEF Surjection
  <2> QED
    BY <2>1, <2>2, FS_Surjection
<1>8. SavesOK'
  <2> HIDE DEF item, marked
  <2>1. /\ request.at = filters /\ request.done = "sent" /\ request.items = items
    OBVIOUS
  <2>2. \A it \in items : it \in MarkedItem /\ it.file = File(filters)
                          /\ IsOf(it.id, it.student)
    BY <1>6
  <2>3. request \in [at : Filters, done : {"sent", "saved", "refused"}, items : SUBSET MarkedItem]
    <3> HIDE DEF items
    <3> QED
      BY <1>5, <2>2
  <2> HIDE DEF items, request
  <2> QED
    BY <1>1, <1>5, <1>7, <2>1, <2>2, <2>3 DEF SavesOK, IsOf, File
<1>9. ClassLoadsOK'
  BY <1>1, <1>4 DEF ClassLoadsOK
<1> QED
  BY <1>1, <1>3, <1>4, <1>8, <1>9

\* The server writes them.
LEMMA ServeSaveOK ==
    ASSUME SheetInv, ServeSave
    PROVE  SheetInv'
<1> USE DEF SheetInv
<1>1. /\ UNCHANGED <<sheet, ready, filters, rows, shown, loadingClass, message>>
      /\ UNCHANGED <<classLoads, asked, saves>>
  BY DEF ServeSave, sheetPage
<1>2. PICK q \in saving : \E t \in Bulk(q.items) :
        \/ records' = t /\ saving' = {[q EXCEPT !.done = "saved"]}
        \/ records' = records /\ saving' = {[q EXCEPT !.done = "refused"]}
  BY DEF ServeSave
<1> PICK t \in Bulk(q.items) :
        \/ records' = t /\ saving' = {[q EXCEPT !.done = "saved"]}
        \/ records' = records /\ saving' = {[q EXCEPT !.done = "refused"]}
  BY <1>2
<1>3. /\ records' \in Seq(FiledMark)
      /\ \A i \in DOMAIN records :
            i \in DOMAIN records' /\ records'[i].student = records[i].student
  BY <1>2, BulkFits
<1>4. /\ \A r : RowsOK(r) => RowsOK(r)' /\ (rows' = r => RowsOK(rows)')
      /\ \A i, s : IsOf(i, s) => IsOf(i, s)'
  BY <1>3, StayInOrder
<1>5. ClassLoadsOK' /\ PageOK'
  BY <1>1, <1>4 DEF ClassLoadsOK, PageOK
<1>6. SavesOK'
  <2>1. PICK done \in {"saved", "refused"} :
           /\ saving' = {[q EXCEPT !.done = done]}
           /\ done = "saved" => records' = t
    BY <1>2
  <2>2. /\ q \in [at : Filters, done : {"sent", "saved", "refused"}, items : SUBSET MarkedItem]
        /\ q.at.class \in Classes /\ IsFiniteSet(q.items)
        /\ \A it \in q.items : it.file = File(q.at) /\ IsOf(it.id, it.student)
    BY DEF SavesOK
  <2>3. PICK p \in saving' : saving' = {p} /\ p = [q EXCEPT !.done = done]
    BY <2>1
  <2>4. /\ p.at = q.at /\ p.items = q.items /\ p.done = done
        /\ p \in [at : Filters, done : {"sent", "saved", "refused"}, items : SUBSET MarkedItem]
    BY <2>2, <2>3
  <2>5. ASSUME done = "saved", NEW it \in q.items
        PROVE  Filed(it.student, it.file)' # {}
    BY <2>1, <2>5, BulkFits DEF Filed
  <2>6. \A it \in p.items : it.file = File(p.at)' /\ IsOf(it.id, it.student)'
    BY <1>1, <1>4, <2>2, <2>4 DEF File
  <2>7. p.at.class \in Classes /\ IsFiniteSet(p.items)
        /\ (p.done = "saved" => \A it \in p.items : Filed(it.student, it.file)' # {})
    BY <2>2, <2>4, <2>5
  <2>8. /\ p \in [at : Filters, done : {"sent", "saved", "refused"}, items : SUBSET MarkedItem]
        /\ saving' = {p}
    BY <2>3, <2>4
  <2> QED
    BY <2>6, <2>7, <2>8 DEF SavesOK
<1> QED
  BY <1>1, <1>3, <1>4, <1>5, <1>6

\* The answer arrives: the ids of what was saved are put into the rows.
LEMMA ArriveSaveOK ==
    ASSUME SheetInv, ArriveSave
    PROVE  SheetInv'
<1> USE DEF SheetInv
<1>1. saving' = {} /\ UNCHANGED <<sheet, ready, filters, shown, saves, records>>
  BY DEF ArriveSave
<1>2. /\ \A r : RowsOK(r) => RowsOK(r)' /\ (rows' = r => RowsOK(rows)')
  BY <1>1, StayInOrder
<1>3. PICK q \in saving :
        \/ /\ q.done = "refused" /\ message' = "failed"
           /\ UNCHANGED <<rows, loadingClass, classLoads, asked>>
        \/ /\ q.done = "saved"
           /\ LET sentOf == {it.student : it \in q.items}
              IN  rows' = [s \in DOMAIN rows |->
                     IF s \notin sentOf THEN rows[s]
                     ELSE [id |-> SavedId(q, s),
                           mark |-> IF sheet.kind = "grades" THEN records[SavedId(q, s)].mark
                                    ELSE rows[s].mark]]
           /\ UNCHANGED <<loadingClass, message, classLoads, asked>>
        \/ q.done = "saved" /\ LoadClass(q.at) /\ UNCHANGED rows
  BY DEF ArriveSave
<1>4. SavesOK'
  BY <1>1 DEF SavesOK
<1>5. /\ ClassLoadsOK' /\ loadingClass' \in BOOLEAN
      /\ message' \in {"none", "incomplete", "failed"}
  <2>1. CASE LoadClass(q.at)
    BY <1>1, <2>1, LoadClassOK DEF SavesOK
  <2>2. CASE UNCHANGED <<loadingClass, classLoads, asked>> /\ message' \in {message, "failed"}
    BY <1>1, <1>2, <2>2 DEF ClassLoadsOK, PageOK
  <2> QED
    BY <1>3, <2>1, <2>2
<1>6. PageOK'
  BY <1>1, <1>5 DEF PageOK
<1>7. RowsOK(rows)'
  <2>1. CASE rows' = rows
    BY <1>2, <2>1
  <2>2. CASE rows' # rows
    <3> DEFINE sentOf == {it.student : it \in q.items}
               newRow(s) == [id |-> SavedId(q, s),
                               mark |-> IF sheet.kind = "grades"
                                        THEN records[SavedId(q, s)].mark ELSE rows[s].mark]
    <3>1. q.done = "saved" /\ rows' = [s \in DOMAIN rows |->
                                         IF s \notin sentOf THEN rows[s] ELSE newRow(s)]
      BY <1>3, <2>2
    <3>2. ASSUME NEW s \in DOMAIN rows
          PROVE  rows'[s] \in SheetRow /\ IsOf(rows'[s].id, s)
      <4>1. rows[s] \in SheetRow /\ IsOf(rows[s].id, s)
        BY DEF RowsOK, AreRows, OwnRows
      <4>2. CASE s \notin sentOf
        BY <3>1, <4>1, <4>2
      <4>3. CASE s \in sentOf
        <5>1. PICK it \in q.items : it.student = s
          BY <4>3
        <5>2. Filed(s, File(q.at)) # {}
          BY <3>1, <5>1 DEF SavesOK
        <5>3. Filed(s, File(q.at)) \in SUBSET (1..Len(records)) /\ Len(records) \in Nat
          BY DEF Filed
        <5>4. SavedId(q, s) \in Filed(s, File(q.at))
          BY <5>2, <5>3, LatestIs DEF SavedId
        <5>5. /\ SavedId(q, s) \in Nat /\ records[SavedId(q, s)] \in FiledMark
              /\ IsOf(SavedId(q, s), s)
          BY <5>4 DEF Filed, IsOf
        <5>6. newRow(s) \in SheetRow /\ newRow(s).id = SavedId(q, s)
          BY <4>1, <5>5 DEF SheetRow, FiledMark
        <5>7. rows'[s] = newRow(s)
          BY <3>1, <4>3
        <5> HIDE DEF newRow
        <5> QED
          BY <5>5, <5>6, <5>7
      <4> QED
        BY <4>2, <4>3
    <3>3. DOMAIN rows' = DOMAIN rows
      BY <3>1
    <3> QED
      BY <1>1, <3>2, <3>3 DEF RowsOK, AreRows, OwnRows, IsOf
  <2> QED
    BY <2>1, <2>2
<1> QED
  BY <1>1, <1>4, <1>5, <1>6, <1>7

\* Each step leaves the page, what is under way and the table in order.
LEMMA SheetStepOK ==
    ASSUME SheetInv, [SheetNext]_sheetVars
    PROVE  SheetInv'
<1>1. CASE LoadReferences
  BY <1>1, ChoosesOK
<1>2. ASSUME NEW c \in Classes, ChooseClass(c) PROVE SheetInv'
  BY <1>2, ChoosesOK
<1>3. ASSUME NEW p \in Range(Periods), ChooseFiling(p) PROVE SheetInv'
  BY <1>3, ChoosesOK
<1>4. CASE PressLoad
  BY <1>4, ChoosesOK
<1>5. ASSUME NEW l \in classLoads, ServeLoad(l) PROVE SheetInv'
  BY <1>5, ServeLoadOK
<1>6. ASSUME NEW l \in classLoads, Arrive(l) \/ LoadFails(l) PROVE SheetInv'
  BY <1>6, LoadEndsOK
<1>7. ASSUME NEW s \in Pupils, NEW m \in Marks, UpdateRow(s, m) PROVE SheetInv'
  BY <1>7, MarksOK
<1>8. ASSUME NEW m \in Marks \cup {NoMark}, MarkAll(m) PROVE SheetInv'
  BY <1>8, MarksOK
<1>9. CASE SaveRows
  BY <1>9, SaveRowsOK
<1>10. CASE ServeSave
  BY <1>10, ServeSaveOK
<1>11. CASE ArriveSave
  BY <1>11, ArriveSaveOK
<1>12. CASE UNCHANGED sheetVars
  <2>1. UNCHANGED <<sheet, ready, filters, rows, shown, loadingClass, message, classLoads>>
        /\ UNCHANGED <<asked, saving, saves, records>>
    BY <1>12 DEF sheetVars, sheetPage
  <2>2. \A r : RowsOK(r) => RowsOK(r)' /\ (rows' = r => RowsOK(rows)')
    BY <2>1, StayInOrder
  <2>3. PageOK' /\ ClassLoadsOK'
    BY <2>1, <2>2 DEF SheetInv, PageOK, ClassLoadsOK
  <2>4. SavesOK'
    BY <2>1 DEF SheetInv, SavesOK, IsOf, Filed, File
  <2> QED
    BY <2>1, <2>2, <2>3, <2>4 DEF SheetInv
<1> QED
  BY <1>1, <1>2, <1>3, <1>4, <1>5, <1>6, <1>7, <1>8, <1>9, <1>10, <1>11, <1>12
     DEF SheetNext, Clicks, Answers

\* The attendance page stops loading only by the answer of the last load asked for, and
\* shows that one.
LEMMA LatestStops ==
    ASSUME SheetInv, [SheetNext]_sheetVars
    PROVE  ShowsLatest
<1> SUFFICES ASSUME sheet.kind = "attendance", loadingClass, ~loadingClass',
                    NEW l \in classLoads, l.n = asked
             PROVE  shown' = l.of
  BY DEF ShowsLatest
<1>1. PICK m \in classLoads : Arrive(m) \/ LoadFails(m)
  BY DEF SheetNext, Clicks, Answers, sheetVars, sheetPage, LoadReferences, ChooseClass,
         ChooseFiling, PressLoad, LoadClass, ServeLoad, UpdateRow, MarkAll, SaveRows,
         ServeSave, ArriveSave
<1>2. Current(m) /\ shown' = m.of
  BY <1>1 DEF Arrive, LoadFails
<1>3. m = l
  BY <1>2 DEF Current, SheetInv, ClassLoadsOK
<1> QED
  BY <1>2, <1>3

LEMMA InOrderMeans ==
    ASSUME SheetInv
    PROVE  SheetTypes /\ OwnRecords
<1>1. SheetTypes
  BY DEF SheetInv, PageOK, RowsOK, ClassLoadsOK, SavesOK, SheetTypes
<1>2. OwnRecords
  BY DEF SheetInv, RowsOK, ClassLoadsOK, SavesOK, OwnRecords
<1> QED
  BY <1>1, <1>2

\* In any number of loads and saves of any class, answered in any order while other classes
\* and dates are chosen, the attendance page is left with the last load asked for, each row
\* of every page names a record of its own student, and no save writes another student's.
THEOREM LatestIsShown == SheetSpec => LatestShown
<1>1. SheetInit => SheetInv
  BY SheetInitially
<1>2. SheetInv /\ [SheetNext]_sheetVars => SheetInv' /\ ShowsLatest
  BY SheetStepOK, LatestStops
<1>3. SheetInv => SheetTypes /\ OwnRecords
  BY InOrderMeans
<1> QED
  BY <1>1, <1>2, <1>3, PTL DEF SheetSpec, LatestShown

-----------------------------------------------------------------------------
(* A load of the application in which nobody logs in or saves a profile    *)

\* While the profile request of the bootstrap is under way, the tokens are
\* there, no page is shown and nothing else has been sent.
BootAlone ==
    \A b \in Boots :
        /\ pc[b] # "bare"
        /\ pc[b] \in {"sent", "waiting"} =>
             /\ stored /\ ~authenticated
             /\ pc[b] = "sent" => refreshes = 0
             /\ \A r \in Requests : r # b => pc[r] = "new"

NoBoot == \A b \in Boots : pc[b] \in {"new", "settled"}

ReturningInv == IndInv /\ FailsClosed /\ RefreshesOn401 /\ BootAlone

LEMMA BootsAreRequests == Boots \subseteq Requests
BY DEF Requests

\* With a page shown or another request under way there is no bootstrap.
LEMMA NoBootBeside ==
    ASSUME ReturningInv,
           NEW r \in Requests,
           authenticated \/ (r \notin Boots /\ pc[r] # "new")
    PROVE  NoBoot
BY BootsAreRequests DEF ReturningInv, BootAlone, NoBoot, IndInv, TypeOK

LEMMA NoBootIsAlone == NoBoot' => BootAlone'
BY DEF NoBoot, BootAlone

LEMMA ReturningInit == Init => ReturningInv
<1> SUFFICES ASSUME Init
             PROVE  ReturningInv
  OBVIOUS
<1>1. FailsClosed /\ RefreshesOn401
  BY DEF Init, FailsClosed, RefreshesOn401
<1>2. BootAlone
  BY BootsAreRequests DEF Init, Loaded, BootAlone
<1> QED
  BY <1>1, <1>2, InitOK DEF ReturningInv

\* A request that fails leaves no bootstrap behind.
LEMMA ReturningFail ==
    ASSUME ReturningInv, NEW r \in Requests, Fail(r), InFlight(r) \/ authenticated
    PROVE  (FailsClosed /\ RefreshesOn401 /\ BootAlone)'
<1>1. FailsClosed' /\ RefreshesOn401'
  BY DEF Fail, ReturningInv, FailsClosed, RefreshesOn401, refresh
<1>2. NoBoot'
  <2>1. \A b \in Boots : b # r => pc[b] \in {"new", "settled"}
    BY BootsAreRequests
       DEF ReturningInv, BootAlone, IndInv, TypeOK, InFlight
  <2> QED
    BY <2>1, BootsAreRequests DEF Fail, NoBoot, ReturningInv, IndInv, TypeOK
<1> QED
  BY <1>1, <1>2, NoBootIsAlone

LEMMA ReturningAnswered ==
    ASSUME Returning, ReturningInv, NEW r \in Requests, Answered(r)
    PROVE  (FailsClosed /\ RefreshesOn401 /\ BootAlone)'
<1> USE DEF ReturningInv, IndInv, TypeOK
<1>1. CASE r \in Pages /\ PageAnswered(r)
  <2>1. NoBoot
    BY <1>1, NoBootBeside, SessionConstants DEF PageAnswered
  <2>2. \A b \in Boots : pc'[b] = pc[b]
    BY <1>1, SessionConstants DEF PageAnswered, Requests
  <2>3. NoBoot'
    BY <2>1, <2>2 DEF NoBoot
  <2> QED
    BY <1>1, <2>3, NoBootIsAlone
       DEF PageAnswered, FailsClosed, RefreshesOn401, session, refresh
<1>2. CASE r \in Boots /\ ProfileAnswered(r)
  <2>1. NoBoot'
    BY <1>2, BootsAreRequests DEF ProfileAnswered, BootAlone, NoBoot
  <2>2. stored
    BY <1>2 DEF ProfileAnswered, BootAlone
  <2> QED
    BY <1>2, <2>1, <2>2, NoBootIsAlone
       DEF ProfileAnswered, FailsClosed, RefreshesOn401, refresh
<1>3. CASE r \in Logouts /\ LogoutAnswered(r)
  BY <1>3, ReturningFail DEF LogoutAnswered, InFlight
<1>4. ~(r \in Saves /\ ProfileAnswered(r)) /\ ~(r \in Logins /\ LoginAnswered(r))
  BY DEF Returning, ProfileAnswered, LoginAnswered, InFlight
<1> QED
  BY <1>1, <1>2, <1>3, <1>4 DEF Answered

LEMMA ReturningRefused ==
    ASSUME ReturningInv, NEW r \in Requests, Refused(r)
    PROVE  (FailsClosed /\ RefreshesOn401 /\ BootAlone)'
<1> USE DEF ReturningInv, IndInv, TypeOK
<1>1. CASE RefusedForGood(r)
  BY <1>1, ReturningFail DEF RefusedForGood
<1>2. CASE JoinRefresh(r)
  <2>1. r \notin Boots
    BY <1>2 DEF JoinRefresh, InFlight, BootAlone, PromiseOK
  <2>2. NoBoot'
    BY <1>2, <2>1, NoBootBeside, BootsAreRequests
       DEF JoinRefresh, InFlight, NoBoot
  <2> QED
    BY <1>2, <2>2, NoBootIsAlone
       DEF JoinRefresh, FailsClosed, RefreshesOn401, session, refresh
<1>3. CASE StartRefresh(r)
  <2>1. FailsClosed' /\ RefreshesOn401'
    BY <1>3 DEF StartRefresh, FailsClosed, RefreshesOn401, session
  <2>2. CASE r \notin Boots
    <3>1. NoBoot'
      BY <1>3, <2>2, NoBootBeside, BootsAreRequests
         DEF StartRefresh, InFlight, NoBoot
    <3> QED
      BY <2>1, <3>1, NoBootIsAlone
  <2>3. CASE r \in Boots
    <3>1. pc[r] = "sent"
      BY <1>3, <2>3 DEF StartRefresh, InFlight, BootAlone
    <3>2. /\ stored' /\ ~authenticated'
          /\ pc' = [pc EXCEPT ![r] = "waiting"]
          /\ \A q \in Requests : q # r => pc[q] = "new"
      BY <1>3, <2>3, <3>1 DEF StartRefresh, BootAlone, session
    <3> QED
      BY <2>1, <2>3, <3>2, BootsAreRequests DEF BootAlone
  <2> QED
    BY <2>2, <2>3
<1>4. CASE NothingToRefresh(r)
  <2>1. r \notin Boots
    BY <1>4 DEF NothingToRefresh, InFlight, BootAlone
  <2>2. NoBoot'
    BY <1>4, <2>1, NoBootBeside, BootsAreRequests
       DEF NothingToRefresh, LogOut, InFlight, NoBoot
  <2> QED
    BY <1>4, <2>2, NoBootIsAlone
       DEF NothingToRefresh, LogOut, FailsClosed, RefreshesOn401
<1> QED
  BY <1>1, <1>2, <1>3, <1>4 DEF Refused

LEMMA ReturningRefreshAnswer ==
    ASSUME ReturningInv, Refreshed \/ RefreshFailed
    PROVE  (FailsClosed /\ RefreshesOn401 /\ BootAlone)'
<1> USE DEF ReturningInv, IndInv, TypeOK
<1>1. refreshes = 1
  BY DEF Refreshed, RefreshFailed, PromiseOK
<1>2. \A b \in Boots : pc[b] # "sent"
  BY <1>1 DEF BootAlone
<1>3. CASE Refreshed
  <2>1. FailsClosed' /\ RefreshesOn401'
    BY <1>3 DEF Refreshed, RefreshDone, FailsClosed, RefreshesOn401
  <2>2. stored' = TRUE /\ authenticated' = authenticated /\ refreshes' = 0
    BY <1>1, <1>3 DEF Refreshed, RefreshDone
  <2>3. \A b \in Boots : pc'[b] \in {"sent", "waiting"} =>
            /\ ~authenticated
            /\ \A r \in Requests : r # b => pc'[r] = "new"
    <3> SUFFICES ASSUME NEW b \in Boots, pc'[b] \in {"sent", "waiting"}
                 PROVE  /\ ~authenticated
                        /\ \A r \in Requests : r # b => pc'[r] = "new"
      OBVIOUS
    <3>1. pc[b] = "waiting"
      BY <1>2, <1>3, BootsAreRequests DEF Refreshed, Waiting
    <3>2. ~authenticated /\ \A r \in Requests : r # b => pc[r] = "new"
      BY <3>1 DEF BootAlone
    <3> QED
      BY <1>3, <3>2 DEF Refreshed, Waiting
  <2>4. \A b \in Boots : pc'[b] # "bare"
    BY <1>3, BootsAreRequests DEF Refreshed, Waiting, BootAlone
  <2> QED
    BY <2>1, <2>2, <2>3, <2>4 DEF BootAlone
<1>4. CASE RefreshFailed
  <2>1. FailsClosed' /\ RefreshesOn401'
    BY <1>4 DEF RefreshFailed, LogOut, FailsClosed, RefreshesOn401
  <2>2. NoBoot'
    BY <1>2, <1>4, BootsAreRequests
       DEF RefreshFailed, LogOut, Waiting, BootAlone, NoBoot
  <2> QED
    BY <2>1, <2>2, NoBootIsAlone
<1> QED
  BY <1>3, <1>4

LEMMA ReturningUser ==
    ASSUME Returning', ReturningInv, User
    PROVE  (FailsClosed /\ RefreshesOn401 /\ BootAlone)'
<1> USE DEF ReturningInv, IndInv, TypeOK
<1>1. ASSUME NEW r \in Pages \cup Logouts, authenticated,
             pc' \in {[pc EXCEPT ![r] = "sent"], [pc EXCEPT ![r] = "bare"]},
             UNCHANGED <<session, refresh>>
      PROVE  (FailsClosed /\ RefreshesOn401 /\ BootAlone)'
  <2>1. NoBoot
    BY <1>1, NoBootBeside DEF Requests
  <2>2. NoBoot'
    BY <1>1, <2>1, SessionConstants DEF NoBoot, Requests
  <2> QED
    BY <1>1, <2>2, NoBootIsAlone
       DEF FailsClosed, RefreshesOn401, session, refresh
<1>2. ASSUME NEW r \in Pages, OpenPage(r)
      PROVE  (FailsClosed /\ RefreshesOn401 /\ BootAlone)'
  BY <1>1, <1>2 DEF OpenPage, Page, Sent
<1>3. ASSUME NEW r \in Logouts, ClickLogout(r)
      PROVE  (FailsClosed /\ RefreshesOn401 /\ BootAlone)'
  <2>1. r \in Requests /\ authenticated
    BY <1>3 DEF ClickLogout, Page, Requests
  <2>2. CASE Fail(r)
    BY <2>1, <2>2, ReturningFail
  <2>3. CASE pc' = [pc EXCEPT ![r] = "sent"] /\ UNCHANGED <<session, refresh>>
    BY <1>1, <2>1, <2>3
  <2> QED
    BY <1>3, <2>2, <2>3 DEF ClickLogout
<1>4. ASSUME NEW r \in Logins, SubmitLogin(r)
      PROVE  FALSE
  BY <1>4 DEF Returning, SubmitLogin, Requests
<1> QED
  BY <1>2, <1>3, <1>4 DEF User

LEMMA ReturningReload ==
    ASSUME Reload
    PROVE  (FailsClosed /\ RefreshesOn401 /\ BootAlone)'
<1>1. FailsClosed' /\ RefreshesOn401'
  BY DEF Reload, FailsClosed, RefreshesOn401
<1>2. PICK boot \in Boots : pc' = Loaded(boot, stored)
  BY DEF Reload
<1>3. /\ stored' = stored /\ authenticated' = FALSE /\ refreshes' = 0
      /\ \A r \in Requests :
            pc'[r] = IF stored /\ r = boot THEN "sent" ELSE "new"
  BY <1>2 DEF Reload, Loaded
<1>4. BootAlone'
  <2> SUFFICES ASSUME NEW b \in Boots
               PROVE  /\ pc'[b] # "bare"
                      /\ pc'[b] \in {"sent", "waiting"} =>
                           /\ stored' /\ ~authenticated' /\ refreshes' = 0
                           /\ \A r \in Requests : r # b => pc'[r] = "new"
    BY DEF BootAlone
  <2>1. pc'[b] = IF stored /\ b = boot THEN "sent" ELSE "new"
    BY <1>3, BootsAreRequests
  <2>2. CASE stored /\ b = boot
    BY <1>3, <2>1, <2>2
  <2>3. CASE ~(stored /\ b = boot)
    BY <2>1, <2>3
  <2> QED
    BY <2>2, <2>3
<1> QED
  BY <1>1, <1>4

\* A request that was sent is not unsent, except by a new load.
LEMMA StaysSent ==
    ASSUME IndInv, [Next]_vars, ~Reload
    PROVE  Returning' => Returning
<1> USE DEF IndInv, TypeOK, Returning, Requests
<1>1. ASSUME NEW r \in Requests, Settle(r)
      PROVE  \A q \in Requests : pc[q] # "new" => pc'[q] # "new"
  <2>1. CASE Answered(r)
    BY <2>1 DEF Answered, PageAnswered, ProfileAnswered, LoginAnswered, LogoutAnswered,
                Fail, Sent
  <2>2. CASE Failed(r)
    BY <2>2 DEF Failed, Fail
  <2>3. CASE Refused(r)
    BY <2>3 DEF Refused, RefusedForGood, JoinRefresh, StartRefresh, NothingToRefresh,
                Fail, LogOut
  <2> QED
    BY <1>1, <2>1, <2>2, <2>3 DEF Settle
<1>2. ASSUME Refreshed \/ RefreshFailed
      PROVE  \A q \in Requests : pc[q] # "new" => pc'[q] # "new"
  BY <1>2 DEF Refreshed, RefreshFailed, LogOut
<1>3. ASSUME User
      PROVE  \A q \in Requests : pc[q] # "new" => pc'[q] # "new"
  BY <1>3 DEF User, OpenPage, SubmitLogin, ClickLogout, Fail, Sent
<1>4. CASE UNCHANGED vars
  BY <1>4 DEF vars
<1> QED
  BY <1>1, <1>2, <1>3, <1>4 DEF Next

SessionInv == IndInv /\ (Returning => ReturningInv)

LEMMA ReturningNext == SessionInv /\ [Next]_vars => SessionInv'
<1> SUFFICES ASSUME SessionInv, [Next]_vars
             PROVE  SessionInv'
  OBVIOUS
<1>1. IndInv'
  BY NextOK DEF SessionInv
<1> SUFFICES ASSUME Returning'
             PROVE  (FailsClosed /\ RefreshesOn401 /\ BootAlone)'
  BY <1>1 DEF SessionInv, ReturningInv
<1>2. CASE Reload
  BY <1>2, ReturningReload
<1>3. CASE ~Reload
  <2>1. Returning /\ ReturningInv
    BY <1>3, StaysSent DEF SessionInv
  <2>2. ASSUME NEW r \in Requests, Settle(r)
        PROVE  (FailsClosed /\ RefreshesOn401 /\ BootAlone)'
    BY <2>1, <2>2, ReturningAnswered, ReturningFail, ReturningRefused
       DEF Settle, Failed
  <2>3. CASE UNCHANGED vars
    BY <2>1, <2>3 DEF vars, session, refresh, ReturningInv, FailsClosed,
                      RefreshesOn401, BootAlone
  <2> QED
    BY <1>3, <2>1, <2>2, <2>3, ReturningRefreshAnswer, ReturningUser DEF Next
<1> QED
  BY <1>2, <1>3

LEMMA SessionInvHolds == Spec => []SessionInv
<1>1. Init => SessionInv
  BY InitOK, ReturningInit DEF SessionInv
<1> QED
  BY <1>1, ReturningNext, PTL DEF Spec

\* Until a login or a saved profile in this load of the application, a 401
\* always finds a refresh to start or to join while tokens are stored.
THEOREM RefreshesUntilLogin == Spec => []ReturningRefreshes
<1>1. SessionInv => ReturningRefreshes
  BY DEF SessionInv, ReturningInv, ReturningRefreshes
<1> QED
  BY <1>1, SessionInvHolds, PTL

\* And the application is never shown without the tokens.
THEOREM FailsClosedUntilLogin == Spec => []ReturningFailsClosed
<1>1. SessionInv => ReturningFailsClosed
  BY DEF SessionInv, ReturningInv, ReturningFailsClosed
<1> QED
  BY <1>1, SessionInvHolds, PTL


-----------------------------------------------------------------------------
(* A row of the attendance page *)

\* Counts as the server stores them: of a day that was classified they add up.
CountsOK(c) == c \in Counts /\ c.present <= c.school /\ (c.excused = Unknown \/ AddsUp(c))

\* The item under way is of the row on the page, with the status that was saved.
\* A record in an answer is the stored one, and the page has the stored one while
\* it got its answers.
RowInv ==
    /\ record \in {{}} \cup {{c} : c \in Counts} /\ \A c \in record : CountsOK(c)
    /\ row \in [id: BOOLEAN, status: Statuses \cup {None}, was: Counts]
    /\ CountsOK(row.was) /\ (~row.id => row.was = Uncounted)
    /\ fresh \in BOOLEAN /\ saved \in Statuses \cup {None}
    /\ answered = {} \/ answered = record
    /\ sent # {} => answered = {}
    /\ \A it \in sent : saved # None /\ it.id = row.id
                        /\ it.counts = ItemOf([row EXCEPT !.status = saved])
    /\ fresh /\ answered = {} => record = IF row.id THEN {row.was} ELSE {}

\* Whether counts add up does not depend on the tardiness.
LEMMA AddsUpAlike ==
    ASSUME NEW c \in Counts, NEW d \in Counts,
           d.school = c.school, d.present = c.present, d.absent = c.absent, d.excused = c.excused
    PROVE  AddsUp(c) <=> AddsUp(d)
<1>1. \A f \in {"present", "absent", "excused"} : c[f] = d[f]
  OBVIOUS
<1>2. {f \in {"present", "absent", "excused"} : c[f] > 0}
        = {f \in {"present", "absent", "excused"} : d[f] > 0}
  BY <1>1
<1> QED
  BY <1>2 DEF AddsUp

\* Counts of one class at most add up.
LEMMA OneClassAddsUp ==
    ASSUME NEW c \in Counts, NEW f \in {"present", "absent", "excused"},
           c[f] \in {0, 1},
           \A g \in {"present", "absent", "excused"} \ {f} : c[g] = 0
    PROVE  AddsUp(c)
<1> DEFINE classes == {g \in {"present", "absent", "excused"} : c[g] > 0}
<1>1. classes \subseteq {f}
  OBVIOUS
<1>2. IsFiniteSet({f}) /\ Cardinality({f}) = 1
  BY FS_Singleton
<1>3. Cardinality(classes) <= 1
  BY <1>1, <1>2, FS_Subset
<1>4. c.school = 1 /\ c.present + c.absent + Count(c.excused) <= c.school
  BY DEF Counts, Count, Unknown
<1> QED
  BY <1>3, <1>4 DEF AddsUp

\* What is sent for a row, by the status that was chosen.
LEMMA ItemIsOK ==
    ASSUME NEW r \in [id: BOOLEAN, status: Statuses, was: Counts],
           CountsOK(r.was), ~r.id => r.was = Uncounted
    PROVE  /\ CountsOK(ItemOf(r))
           /\ ItemOf(r).tardy >= r.was.tardy
           /\ r.status # "late" => AddsUp(ItemOf(r))
           /\ ~r.id => AddsUp(ItemOf(r))
           /\ r.status = "late" /\ r.id =>
                /\ ItemOf(r).school = r.was.school /\ ItemOf(r).present = r.was.present
                /\ ItemOf(r).absent = r.was.absent /\ ItemOf(r).excused = r.was.excused
           /\ r.was.excused # Unknown => ItemOf(r).excused # Unknown
<1> DEFINE c == ItemOf(r)
<1>1. r.was \in Counts /\ MaxTardy \in Nat
  BY RowAssumption DEF RowConstants
<1>2. c \in Counts /\ c.tardy >= r.was.tardy
  BY <1>1 DEF ItemOf, Counts, Larger, Unknown
<1>3. /\ c.school = r.was.school
      /\ c.present = IF r.status = "late" THEN r.was.present
                     ELSE IF r.status = "present" THEN 1 ELSE 0
      /\ c.absent = IF r.status = "late" THEN r.was.absent
                    ELSE IF r.status = "absent" THEN 1 ELSE 0
      /\ c.excused = IF r.status = "late" THEN IF r.id THEN r.was.excused ELSE 0
                     ELSE IF r.status = "excused" THEN 1 ELSE 0
  BY DEF ItemOf
<1> HIDE DEF c
<1>4. ASSUME r.status # "late" PROVE AddsUp(c)
  <2>1. CASE r.status = "present"
    BY <2>1, <1>2, <1>3, OneClassAddsUp
  <2>2. CASE r.status = "absent"
    BY <2>2, <1>2, <1>3, OneClassAddsUp
  <2>3. CASE r.status = "excused"
    BY <2>3, <1>2, <1>3, OneClassAddsUp
  <2> QED
    BY <2>1, <2>2, <2>3, <1>4 DEF Statuses
<1>5. ASSUME ~r.id, r.status = "late" PROVE AddsUp(c)
  BY <1>2, <1>3, <1>5, OneClassAddsUp DEF Uncounted
<1>6. ASSUME r.id, r.status = "late" PROVE c.excused = Unknown \/ AddsUp(c)
  BY <1>1, <1>2, <1>3, <1>6, AddsUpAlike DEF CountsOK
<1>7. c.present <= c.school
  BY <1>1, <1>3 DEF CountsOK, Counts
<1>8. CountsOK(c)
  BY <1>2, <1>4, <1>5, <1>6, <1>7 DEF CountsOK
<1>9. r.was.excused # Unknown => c.excused # Unknown
  BY <1>3 DEF Unknown
<1> QED
  BY <1>2, <1>3, <1>4, <1>5, <1>8, <1>9 DEF c

\* The counts a row starts with.
LEMMA UncountedOK == CountsOK(Uncounted) /\ Uncounted \in Counts
BY RowAssumption DEF RowConstants, CountsOK, Uncounted, Counts, Unknown

LEMMA RowOfOK ==
    ASSUME record \in {{}} \cup {{c} : c \in Counts}, \A c \in record : CountsOK(c)
    PROVE  /\ RowOf(record) \in [id: BOOLEAN, status: Statuses \cup {None}, was: Counts]
           /\ CountsOK(RowOf(record).was)
           /\ ~RowOf(record).id => RowOf(record).was = Uncounted
           /\ record = IF RowOf(record).id THEN {RowOf(record).was} ELSE {}
<1>1. CASE record = {}
  BY <1>1, UncountedOK DEF RowOf, None
<1>2. ASSUME NEW c \in Counts, record = {c}
      PROVE  /\ RowOf(record) = [id |-> TRUE, status |-> StatusOf(c), was |-> c]
             /\ StatusOf(c) \in Statuses \cup {None}
  <2>1. (CHOOSE x \in record : TRUE) = c
    BY <1>2
  <2> QED
    BY <1>2, <2>1 DEF RowOf, StatusOf, Statuses, None
<1>3. CASE record # {}
  <2>1. PICK c \in Counts : record = {c}
    BY <1>3
  <2> DEFINE r == RowOf(record)
  <2>2. r = [id |-> TRUE, status |-> StatusOf(c), was |-> c] /\ StatusOf(c) \in Statuses \cup {None}
    BY <1>2, <2>1
  <2>3. r.id = TRUE /\ r.was = c /\ CountsOK(c)
    BY <2>1, <2>2
  <2>4. r \in [id: BOOLEAN, status: Statuses \cup {None}, was: Counts]
    BY <2>2
  <2> HIDE DEF r
  <2>5. /\ r \in [id: BOOLEAN, status: Statuses \cup {None}, was: Counts]
        /\ CountsOK(r.was) /\ (~r.id => r.was = Uncounted)
        /\ record = IF r.id THEN {r.was} ELSE {}
    BY <2>1, <2>3, <2>4
  <2> QED
    BY <2>5 DEF r
<1> QED
  BY <1>1, <1>3

\* The server takes what is sent for a row that has what is stored.
LEMMA ItemAccepted ==
    ASSUME NEW r \in [id: BOOLEAN, status: Statuses, was: Counts],
           CountsOK(r.was), ~r.id => r.was = Uncounted,
           record = IF r.id THEN {r.was} ELSE {},
           NEW it, it.id = r.id, it.counts = ItemOf(r)
    PROVE  Accepts(it)
<1>1. CountsOK(it.counts)
  BY ItemIsOK
<1>2. CASE r.status = "late" /\ r.id
  <2>1. /\ r.was \in Counts /\ it.counts \in Counts
        /\ it.counts.school = r.was.school /\ it.counts.present = r.was.present
        /\ it.counts.absent = r.was.absent /\ it.counts.excused = r.was.excused
    BY <1>1, <1>2, ItemIsOK DEF CountsOK
  <2>2. [r.was EXCEPT !.tardy = 0] = [it.counts EXCEPT !.tardy = 0]
    BY <2>1 DEF Counts
  <2> QED
    BY <1>1, <1>2, <2>2 DEF Accepts, CountsOK
<1>3. CASE r.status # "late" \/ ~r.id
  BY <1>1, <1>3, ItemIsOK DEF Accepts, CountsOK
<1> QED
  BY <1>2, <1>3

LEMMA RowInitOK == RowInit => RowInv
<1> SUFFICES ASSUME RowInit PROVE RowInv
  OBVIOUS
<1>1. record \in {{}} \cup {{c} : c \in Counts} /\ \A c \in record : CountsOK(c)
  BY DEF RowInit, CountsOK
<1> QED
  BY <1>1, RowOfOK DEF RowInit, RowInv, None

LEMMA RowServeOK ==
    ASSUME RowInv, Serve
    PROVE  /\ RowInv'
           /\ ClassKept /\ TardyKept
<1>1. PICK it \in sent :
        /\ sent' = {}
        /\ IF Accepts(it)
           THEN record' = {it.counts} /\ answered' = {it.counts} /\ UNCHANGED saved
           ELSE saved' = None /\ UNCHANGED <<record, answered>>
        /\ UNCHANGED <<row, fresh>>
  BY DEF Serve
<1> DEFINE r == [row EXCEPT !.status = saved]
<1>2. /\ r \in [id: BOOLEAN, status: Statuses, was: Counts]
      /\ r.id = row.id /\ r.was = row.was /\ r.status = saved
      /\ it.id = r.id /\ it.counts = ItemOf(r)
  BY DEF RowInv
<1> HIDE DEF r
<1>3. CountsOK(it.counts) /\ it.counts.tardy >= r.was.tardy
  BY <1>2, ItemIsOK DEF RowInv
<1>4. RowInv'
  <2>1. CASE Accepts(it)
    BY <1>1, <1>3, <2>1 DEF RowInv, CountsOK, AddsUp
  <2>2. CASE ~Accepts(it)
    BY <1>1, <2>2 DEF RowInv, CountsOK, AddsUp
  <2> QED
    BY <2>1, <2>2
<1>5. ASSUME NEW c \in record, NEW d \in record', fresh, record' # record
      PROVE  c = r.was /\ d = it.counts /\ r.id
  BY <1>1, <1>2, <1>5 DEF RowInv
<1>6. ClassKept
  BY <1>1, <1>2, <1>5, ItemIsOK DEF ClassKept, RowInv
<1>7. TardyKept
  BY <1>1, <1>3, <1>5 DEF TardyKept, RowInv, Counts
<1> QED
  BY <1>4, <1>6, <1>7

LEMMA RowNextOK == RowInv /\ [RowNext]_rowVars => RowInv'
<1> SUFFICES ASSUME RowInv, [RowNext]_rowVars PROVE RowInv'
  OBVIOUS
<1> USE DEF RowInv
<1>1. ASSUME NEW s \in Statuses \cup {None}, ChooseStatus(s) PROVE RowInv'
  BY <1>1 DEF ChooseStatus, CountsOK, AddsUp
<1>2. ASSUME Save PROVE RowInv'
  BY <1>2 DEF Save, Item, CountsOK, AddsUp
<1>3. ASSUME Serve PROVE RowInv'
  BY <1>3, RowServeOK
<1>4. ASSUME Answer PROVE RowInv'
  BY <1>4 DEF Answer, CountsOK, AddsUp
<1>5. ASSUME Lose PROVE RowInv'
  BY <1>5 DEF Lose, CountsOK, AddsUp
<1>6. ASSUME Load PROVE RowInv'
  BY <1>6, RowOfOK DEF Load, CountsOK, AddsUp
<1>7. CASE UNCHANGED rowVars
  BY <1>7 DEF rowVars, CountsOK, AddsUp
<1> QED
  BY <1>1, <1>2, <1>3, <1>4, <1>5, <1>6, <1>7 DEF RowNext

LEMMA RowInvariance == RowSpec => []RowInv
<1>1. RowInit => RowInv
  BY RowInitOK
<1>2. RowInv /\ [RowNext]_rowVars => RowInv'
  BY RowNextOK
<1> QED
  BY <1>1, <1>2, PTL DEF RowSpec

\* Whatever record a student has, whatever statuses are chosen and saved after one
\* another, while the attendance page gets its answers the server accepts what the
\* page makes of the row.
THEOREM RowsAreAccepted == RowSpec => []AlwaysAccepted
<1>1. RowInv => AlwaysAccepted
  <2> SUFFICES ASSUME RowInv, fresh, answered = {} PROVE AlwaysAccepted
    BY DEF AlwaysAccepted
  <2>1. record = IF row.id THEN {row.was} ELSE {}
    BY DEF RowInv
  <2>2. ASSUME NEW it \in sent PROVE Accepts(it)
    <3> DEFINE r == [row EXCEPT !.status = saved]
    <3>1. /\ r \in [id: BOOLEAN, status: Statuses, was: Counts]
          /\ r.id = row.id /\ r.was = row.was
          /\ it.id = r.id /\ it.counts = ItemOf(r)
      BY <2>2 DEF RowInv
    <3> HIDE DEF r
    <3> QED
      BY <2>1, <3>1, ItemAccepted DEF RowInv
  <2>3. ASSUME row.status # None PROVE Accepts([id |-> row.id, counts |-> Item(row)])
    <3> DEFINE it == [id |-> row.id, counts |-> Item(row)]
    <3>1. it.id = row.id /\ it.counts = ItemOf(row)
      BY DEF Item
    <3>2. row \in [id: BOOLEAN, status: Statuses, was: Counts]
      BY <2>3 DEF RowInv
    <3> HIDE DEF it
    <3>3. Accepts(it)
      BY <2>1, <3>1, <3>2, ItemAccepted DEF RowInv
    <3> QED
      BY <3>3 DEF it
  <2> QED
    BY <2>2, <2>3 DEF AlwaysAccepted
<1> QED
  BY <1>1, RowInvariance, PTL

\* While the attendance page gets its answers, a status saved after another one keeps
\* what the record says besides: late the classification, a classification the
\* tardiness; and no status makes a classified day unclassified.
THEOREM StatusesKeepTheRest == RowSpec => ChoicesKept
<1>1. RowInv /\ [RowNext]_rowVars => [ClassKept /\ TardyKept]_record
  <2> SUFFICES ASSUME RowInv, RowNext, record' # record PROVE ClassKept /\ TardyKept
    BY DEF rowVars
  <2>1. Serve
    BY DEF RowNext, ChooseStatus, Save, Answer, Lose, Load
  <2> QED
    BY <2>1, RowServeOK
<1> QED
  BY <1>1, RowInvariance, PTL DEF RowSpec, ChoicesKept

-----------------------------------------------------------------------------
(* The page that enrols students *)

\* What is chosen fits together, wherever the user is,
ChoiceFits ==
    /\ choice.grade # Nothing => levelOf[choice.grade] = choice.level
    /\ choice.strand # Nothing => RequiresStrand
    /\ choice.section # Nothing =>
         /\ choice.grade # Nothing /\ gradeOf[choice.section] = choice.grade
         /\ Allows(choice.section, choice.strand)

\* and every step before this one is passed.
StepsPassed ==
    /\ step >= 1 => choice.level # Nothing
    /\ step >= 2 => choice.grade # Nothing
    /\ step >= 3 /\ RequiresStrand => choice.strand # Nothing
    /\ step >= 4 => choice.section # Nothing
    /\ step >= 5 => selected # {}

\* What was found has the history of the type it was looked for with.
FoundFits == found.type # Nothing => found.ids \subseteq Fits[found.type]

\* A submission is of the choices on the review; whoever was selected is enrolled,
\* or refused, or is still to be submitted.  Elsewhere nothing is under way or told.
SubmissionOK ==
    /\ step # 5 => job = Idle /\ completed = {} /\ report = NoReport
    /\ completed \subseteq selected /\ \A s \in completed : enrolled[s] = choice.section
    /\ \A failures \in report.result :
         /\ report.message = completed
         /\ completed \cup failures = selected /\ completed \cap failures = {}
    /\ job # Idle => job.to = choice
    /\ job.stage \in {"next", "create"} =>
         /\ report.result = {} /\ job.before = completed
         /\ job.todo \cup job.done \cup job.refused = selected \ completed
         /\ job.todo \cap (job.done \cup job.refused) = {} /\ job.done \cap job.refused = {}
         /\ \A s \in job.done : enrolled[s] = choice.section

WizardInv ==
    /\ WizardTypes /\ ChoiceFits /\ StepsPassed /\ FoundFits /\ SelectedFit
    /\ job.stage = "create" => job.of \in job.todo
    /\ WaitsForSubmission => SubmissionOK

\* Steps by which nothing that is chosen changes.
LEMMA ChoiceStays ==
    ASSUME WizardInv, UNCHANGED <<step, choice, selected>>
    PROVE  ChoiceFits' /\ StepsPassed' /\ SelectedFit'
BY DEF WizardInv, ChoiceFits, StepsPassed, SelectedFit, RequiresStrand, Allows

\* Nor is anything under way or told.
LEMMA SubmissionStays ==
    ASSUME WizardInv, WaitsForSubmission,
           UNCHANGED <<choice, selected, completed, report, enrolled, job>>,
           step' = 5 <=> step = 5
    PROVE  SubmissionOK'
BY DEF WizardInv, SubmissionOK

\* Before the review, what is chosen may change.
LEMMA NothingSubmitted ==
    ASSUME WizardInv, WaitsForSubmission, step # 5 \/ job = Idle, UNCHANGED <<enrolled, job>>,
           completed' = {}, report' = NoReport
    PROVE  SubmissionOK'
BY DEF WizardInv, SubmissionOK, NoReport, Idle

\* A search may begin, for another type or query.
LEMMA LookForOK ==
    ASSUME WizardInv, NEW t \in Types \cup {Nothing}, NEW q \in Queries, LookFor(t, q)
    PROVE  /\ query' \in Queries
           /\ looks' \subseteq [active: BOOLEAN, type: Types \cup {Nothing}, query: Queries]
           /\ found' \in [loading: BOOLEAN, ids: SUBSET Students, type: Types \cup {Nothing},
                          query: Queries]
           /\ FoundFits'
<1>1. /\ found \in [loading: BOOLEAN, ids: SUBSET Students, type: Types \cup {Nothing},
                    query: Queries]
      /\ looks \subseteq [active: BOOLEAN, type: Types \cup {Nothing}, query: Queries]
      /\ FoundFits
  BY DEF WizardInv, WizardTypes
<1>2. \A l \in looks : [l EXCEPT !.active = FALSE]
        \in [active: BOOLEAN, type: Types \cup {Nothing}, query: Queries]
  BY <1>1
<1>3. Look(t, q) \in [active: BOOLEAN, type: Types \cup {Nothing}, query: Queries]
  BY DEF Look
<1>4. CASE UNCHANGED <<found, looks>>
  BY <1>1, <1>4 DEF LookFor, FoundFits
<1>5. CASE /\ looks' = {[l EXCEPT !.active = FALSE] : l \in looks} \cup {Look(t, q)}
           /\ found' = [found EXCEPT !.loading = TRUE]
  BY <1>1, <1>2, <1>3, <1>5 DEF LookFor, FoundFits
<1> QED
  BY <1>4, <1>5 DEF LookFor

LEMMA ConstantFacts ==
    /\ Blank \in Queries
    /\ Nothing \notin Types /\ Nothing \notin Levels /\ Nothing \notin Grades
    /\ Nothing \notin Strands /\ Nothing \notin Sections
    /\ levelOf \in [Grades -> Levels] /\ gradeOf \in [Sections -> Grades]
    /\ strandOf \in [Sections -> Strands \cup {Nothing}]
    /\ \A c \in Sections : levelOf[gradeOf[c]] # Senior => strandOf[c] = Nothing
    /\ Fits \in [Types -> SUBSET Students] /\ Found \in [Queries -> SUBSET Students]
BY WizardAssumption DEF WizardConstants

LEMMA NobodyGiven == << >> \in StrandsGiven
<1>1. << >> \in [{} -> Strands \cup {Nothing}]
  OBVIOUS
<1> QED
  BY <1>1 DEF StrandsGiven

LEMMA GivenAnother ==
    ASSUME assigned \in StrandsGiven, NEW s \in Students, NEW x \in Strands \cup {Nothing}
    PROVE  [r \in DOMAIN assigned \cup {s} |-> IF r = s THEN x ELSE assigned[r]] \in StrandsGiven
<1>1. PICK S \in SUBSET Students : assigned \in [S -> Strands \cup {Nothing}]
  BY DEF StrandsGiven
<1>2. [r \in DOMAIN assigned \cup {s} |-> IF r = s THEN x ELSE assigned[r]]
        \in [S \cup {s} -> Strands \cup {Nothing}]
  BY <1>1
<1> QED
  BY <1>2 DEF StrandsGiven

-----------------------------------------------------------------------------
(* The page that enrols students: the choices *)

LEMMA ChooseTypeOK ==
    ASSUME WizardInv, NEW t \in Types, ChooseType(t)
    PROVE  WizardInv'
<1>1. /\ step = 0 /\ choice' = [choice EXCEPT !.type = t] /\ LookFor(t, query)
      /\ assigned' = << >> /\ selected' = {} /\ completed' = {} /\ report' = NoReport
      /\ UNCHANGED <<step, enrolled, job>>
  BY DEF ChooseType, Unsent
<1>2. WizardTypes'
  BY <1>1, LookForOK, NobodyGiven DEF WizardInv, WizardTypes, Choices, NoReport
<1>3. ChoiceFits' /\ StepsPassed' /\ SelectedFit'
  BY <1>1, ConstantFacts DEF WizardInv, WizardTypes, Choices, ChoiceFits, StepsPassed,
     SelectedFit, RequiresStrand, Allows
<1>4. WaitsForSubmission => SubmissionOK'
  BY <1>1, NothingSubmitted
<1>5. FoundFits'
  BY <1>1, LookForOK DEF WizardInv, WizardTypes
<1> QED
  BY <1>1, <1>2, <1>3, <1>4, <1>5 DEF WizardInv

\* The levels and grades take back what was chosen after them.
LEMMA StartOverOK ==
    ASSUME WizardInv, NEW c \in Choices, StartOver(c), c.type = choice.type,
           c.strand = Nothing, c.section = Nothing,
           c.grade # Nothing => levelOf[c.grade] = c.level,
           step = 0 \/ (step = 1 /\ c.level # Nothing)
    PROVE  WizardInv'
<1>1. /\ choice' = c /\ LookFor(c.type, Blank)
      /\ assigned' = << >> /\ selected' = {} /\ completed' = {}
      /\ report' = [report EXCEPT !.result = {}]
      /\ UNCHANGED <<step, enrolled, job>>
  BY DEF StartOver, Unsent
<1>2. c.type \in Types \cup {Nothing} /\ Blank \in Queries
  BY ConstantFacts DEF Choices
<1>3. WizardTypes'
  BY <1>1, <1>2, LookForOK, NobodyGiven DEF WizardInv, WizardTypes
<1>4. ChoiceFits' /\ StepsPassed' /\ SelectedFit'
  BY <1>1, <1>2, ConstantFacts DEF Choices, ChoiceFits, StepsPassed, SelectedFit
<1>5. ASSUME WaitsForSubmission PROVE SubmissionOK'
  <2>1. step # 5 /\ report = NoReport
    BY <1>5 DEF WizardInv, SubmissionOK
  <2>2. report' = NoReport
    BY <1>1, <2>1 DEF NoReport
  <2> QED
    BY <1>1, <1>5, <2>1, <2>2, NothingSubmitted
<1>6. FoundFits'
  BY <1>1, <1>2, LookForOK
<1> QED
  BY <1>1, <1>3, <1>4, <1>5, <1>6 DEF WizardInv

LEMMA ChooseLevelOK ==
    ASSUME WizardInv, NEW v \in Levels, ChooseLevel(v)
    PROVE  WizardInv'
<1> DEFINE c == [Empty EXCEPT !.type = choice.type, !.level = v]
<1>1. step = 0 /\ StartOver(c)
  BY DEF ChooseLevel
<1>2. /\ c \in Choices /\ c.type = choice.type
      /\ c.grade = Nothing /\ c.strand = Nothing /\ c.section = Nothing
  BY DEF Choices, Empty, WizardInv, WizardTypes
<1> HIDE DEF c
<1> QED
  BY <1>1, <1>2, StartOverOK

LEMMA ChooseGradeOK ==
    ASSUME WizardInv, NEW g \in Grades, ChooseGrade(g)
    PROVE  WizardInv'
<1> DEFINE c == [Empty EXCEPT !.type = choice.type, !.level = choice.level, !.grade = g]
<1>1. step = 1 /\ levelOf[g] = choice.level /\ StartOver(c)
  BY DEF ChooseGrade
<1>2. /\ c \in Choices /\ c.type = choice.type /\ c.level = choice.level
      /\ c.grade = g /\ c.strand = Nothing /\ c.section = Nothing
  BY DEF Choices, Empty, WizardInv, WizardTypes
<1>3. c.level # Nothing
  BY <1>1, <1>2 DEF WizardInv, StepsPassed
<1> HIDE DEF c
<1> QED
  BY <1>1, <1>2, <1>3, StartOverOK

\* While a strand or a section is chosen, the rest of the page stays.
LEMMA RestStays ==
    ASSUME WizardInv, step \in 0..4, choice' \in Choices, choice'.type = choice.type,
           assigned' \in StrandsGiven,
           UNCHANGED <<step, selected, completed, report, searchVars, enrolled, job>>
    PROVE  WizardTypes' /\ SelectedFit' /\ FoundFits' /\ (WaitsForSubmission => SubmissionOK')
<1>1. WizardTypes'
  BY DEF WizardInv, WizardTypes, searchVars
<1>2. SelectedFit' /\ FoundFits'
  BY DEF WizardInv, SelectedFit, FoundFits, searchVars
<1>3. WaitsForSubmission => SubmissionOK'
  BY NothingSubmitted DEF WizardInv, SubmissionOK
<1> QED
  BY <1>1, <1>2, <1>3

LEMMA ChooseStrandOK ==
    ASSUME WizardInv, NEW x \in Strands, ChooseStrand(x)
    PROVE  WizardInv'
<1>1. /\ step = 2 /\ RequiresStrand
      /\ choice' = [choice EXCEPT !.strand = x,
                                  !.section = IF Allows(choice.section, x) THEN choice.section
                                              ELSE Nothing]
      /\ assigned' = IF Allows(choice.section, x) THEN assigned ELSE << >>
      /\ UNCHANGED <<step, selected, completed, report, searchVars, enrolled, job>>
  BY DEF ChooseStrand, Unsent
<1>2. choice \in Choices /\ assigned \in StrandsGiven
  BY DEF WizardInv, WizardTypes
<1>3. /\ choice' \in Choices /\ choice'.type = choice.type /\ choice'.level = choice.level
      /\ choice'.grade = choice.grade /\ choice'.strand = x
      /\ choice'.section = IF Allows(choice.section, x) THEN choice.section ELSE Nothing
  BY <1>1, <1>2 DEF Choices
<1>4. assigned' \in StrandsGiven
  BY <1>1, <1>2, NobodyGiven
<1>5. ChoiceFits' /\ StepsPassed'
  BY <1>1, <1>3 DEF WizardInv, ChoiceFits, StepsPassed, RequiresStrand, Allows
<1> QED
  BY <1>1, <1>3, <1>4, <1>5, RestStays DEF WizardInv

LEMMA ChooseSectionOK ==
    ASSUME WizardInv, NEW c \in Sections, ChooseSection(c)
    PROVE  WizardInv'
<1>1. /\ step = 3 /\ gradeOf[c] = choice.grade /\ (RequiresStrand => Allows(c, choice.strand))
      /\ choice' = [choice EXCEPT !.section = c] /\ assigned' = << >>
      /\ UNCHANGED <<step, selected, completed, report, searchVars, enrolled, job>>
  BY DEF ChooseSection, Unsent
<1>2. choice \in Choices
  BY DEF WizardInv, WizardTypes
<1>3. /\ choice' \in Choices /\ choice'.type = choice.type /\ choice'.level = choice.level
      /\ choice'.grade = choice.grade /\ choice'.strand = choice.strand /\ choice'.section = c
  BY <1>1, <1>2 DEF Choices
<1>4. choice.grade \in Grades /\ choice.grade # Nothing
  BY <1>1, ConstantFacts
<1>5. Allows(c, choice.strand)
  BY <1>1, <1>4, ConstantFacts DEF RequiresStrand, Allows
<1>6. ChoiceFits' /\ StepsPassed'
  BY <1>1, <1>3, <1>4, <1>5 DEF WizardInv, ChoiceFits, StepsPassed, RequiresStrand, Allows
<1> QED
  BY <1>1, <1>3, <1>6, NobodyGiven, RestStays DEF WizardInv

LEMMA SearchOK ==
    ASSUME WizardInv, NEW q \in Queries, Search(q)
    PROVE  WizardInv'
<1>1. LookFor(choice.type, q) /\ UNCHANGED <<pageVars, enrolled, job>> /\ step = 4
  BY DEF Search, Unsent
<1>2. choice.type \in Types \cup {Nothing}
  BY DEF WizardInv, WizardTypes, Choices
<1>3. WizardTypes'
  BY <1>1, <1>2, LookForOK DEF WizardInv, WizardTypes, pageVars
<1>4. ChoiceFits' /\ StepsPassed' /\ SelectedFit'
  BY <1>1, ChoiceStays DEF pageVars
<1>5. WaitsForSubmission => SubmissionOK'
  BY <1>1, SubmissionStays DEF pageVars
<1>6. FoundFits'
  BY <1>1, <1>2, LookForOK
<1> QED
  BY <1>1, <1>3, <1>4, <1>5, <1>6 DEF WizardInv

LEMMA SelectOK ==
    ASSUME WizardInv, step = 4, NEW ids \in SUBSET (selected \cup Visible), Select(ids)
    PROVE  WizardInv'
<1>1. /\ selected' = ids /\ report' = [report EXCEPT !.result = {}]
      /\ UNCHANGED <<step, choice, assigned, completed, searchVars, enrolled, job>>
  BY DEF Select, Unsent
<1>2. WizardTypes'
  BY <1>1 DEF WizardInv, WizardTypes, Visible, searchVars
<1>3. ChoiceFits' /\ StepsPassed'
  BY <1>1 DEF WizardInv, ChoiceFits, StepsPassed, RequiresStrand, Allows
<1>4. SelectedFit'
  BY <1>1 DEF WizardInv, SelectedFit, FoundFits, Visible, Searching
<1>5. ASSUME WaitsForSubmission PROVE SubmissionOK'
  <2>1. report = NoReport /\ completed = {}
    BY <1>5 DEF WizardInv, SubmissionOK
  <2>2. report' = NoReport
    BY <1>1, <2>1 DEF NoReport
  <2> QED
    BY <1>1, <1>5, <2>1, <2>2, NothingSubmitted
<1>6. FoundFits'
  BY <1>1 DEF WizardInv, FoundFits, searchVars
<1> QED
  BY <1>1, <1>2, <1>3, <1>4, <1>5, <1>6 DEF WizardInv

LEMMA ToggleOK ==
    ASSUME WizardInv, NEW s \in Students, Toggle(s)
    PROVE  WizardInv'
BY SelectOK DEF Toggle

LEMMA ToggleAllOK ==
    ASSUME WizardInv, ToggleAll
    PROVE  WizardInv'
BY SelectOK DEF ToggleAll

LEMMA ClearSelectionOK ==
    ASSUME WizardInv, ClearSelection
    PROVE  WizardInv'
<1>1. /\ step = 4 /\ selected' = {} /\ completed' = {} /\ report' = NoReport
      /\ UNCHANGED <<step, choice, assigned, searchVars, enrolled, job>>
  BY DEF ClearSelection, Unsent
<1>2. WizardTypes'
  BY <1>1 DEF WizardInv, WizardTypes, NoReport, searchVars
<1>3. ChoiceFits' /\ StepsPassed' /\ SelectedFit'
  BY <1>1, ConstantFacts DEF WizardInv, WizardTypes, Choices, ChoiceFits, StepsPassed,
     SelectedFit, RequiresStrand, Allows
<1>4. WaitsForSubmission => SubmissionOK'
  BY <1>1, NothingSubmitted
<1>5. FoundFits'
  BY <1>1 DEF WizardInv, FoundFits, searchVars
<1> QED
  BY <1>1, <1>2, <1>3, <1>4, <1>5 DEF WizardInv

LEMMA AssignOK ==
    ASSUME WizardInv, NEW s \in Students, NEW x \in Strands \cup {Nothing}, Assign(s, x)
    PROVE  WizardInv'
<1>1. /\ assigned' = [r \in DOMAIN assigned \cup {s} |-> IF r = s THEN x ELSE assigned[r]]
      /\ UNCHANGED <<step, choice, selected, completed, report, searchVars, enrolled, job>>
  BY DEF Assign, Unsent
<1>2. assigned' \in StrandsGiven
  BY <1>1, GivenAnother DEF WizardInv, WizardTypes
<1>3. WizardTypes'
  BY <1>1, <1>2 DEF WizardInv, WizardTypes, searchVars
<1>4. FoundFits'
  BY <1>1 DEF WizardInv, FoundFits, searchVars
<1> QED
  BY <1>1, <1>3, <1>4, ChoiceStays, SubmissionStays DEF WizardInv

-----------------------------------------------------------------------------
(* The page that enrols students: the steps *)

LEMMA GoToOK ==
    ASSUME WizardInv, NEW n \in 0..5, GoTo(n), step # 5,
           n >= 1 => choice.level # Nothing,
           n >= 2 => choice.grade # Nothing,
           n >= 3 /\ RequiresStrand => choice.strand # Nothing,
           n >= 4 => choice.section # Nothing,
           n >= 5 => selected # {}
    PROVE  WizardInv'
<1>1. /\ step' = n
      /\ UNCHANGED <<choice, assigned, selected, completed, report, searchVars, enrolled, job>>
  BY DEF GoTo, Unsent
<1>2. WizardTypes'
  BY <1>1 DEF WizardInv, WizardTypes, searchVars
<1>3. ChoiceFits' /\ StepsPassed' /\ SelectedFit'
  BY <1>1 DEF WizardInv, ChoiceFits, StepsPassed, SelectedFit, RequiresStrand, Allows
<1>4. WaitsForSubmission => SubmissionOK'
  BY <1>1, NothingSubmitted DEF WizardInv, SubmissionOK
<1>5. FoundFits'
  BY <1>1 DEF WizardInv, FoundFits, searchVars
<1> QED
  BY <1>1, <1>2, <1>3, <1>4, <1>5 DEF WizardInv

LEMMA GoNextOK ==
    ASSUME WizardInv, GoNext
    PROVE  WizardInv'
<1> DEFINE n == IF step = 1 /\ ~RequiresStrand THEN 3 ELSE step + 1
<1>1. step < 5 /\ Valid /\ GoTo(n) /\ step \in 0..5
  BY DEF GoNext, WizardInv, WizardTypes
<1>2. /\ step \in {0, 1, 2, 3, 4}
      /\ step = 0 => choice.level # Nothing
      /\ step = 1 => choice.grade # Nothing
      /\ step = 2 => (RequiresStrand => choice.strand # Nothing)
      /\ step = 3 => choice.section # Nothing
      /\ step = 4 => selected # {}
  BY <1>1 DEF Valid
<1>3. StepsPassed
  BY DEF WizardInv
<1>4. /\ n \in 0..5
      /\ n >= 1 => choice.level # Nothing
      /\ n >= 2 => choice.grade # Nothing
      /\ n >= 3 /\ RequiresStrand => choice.strand # Nothing
      /\ n >= 4 => choice.section # Nothing
      /\ n >= 5 => selected # {}
  BY <1>2, <1>3 DEF StepsPassed
<1> HIDE DEF n
<1> QED
  BY <1>1, <1>4, GoToOK

LEMMA GoBackOK ==
    ASSUME WizardInv, GoBack
    PROVE  WizardInv'
<1>1. step \in 1..4 /\ GoTo(step - 1) /\ StepsPassed
  BY DEF GoBack, WizardInv
<1> QED
  BY <1>1, GoToOK DEF StepsPassed

LEMMA ResetOK ==
    ASSUME WizardInv, Reset, WaitsForSubmission => step # 5 \/ job = Idle
    PROVE  WizardInv'
<1>1. /\ step' = 0 /\ choice' = Empty /\ assigned' = << >> /\ selected' = {}
      /\ completed' = {} /\ report' = NoReport /\ LookFor(Nothing, Blank)
      /\ UNCHANGED <<enrolled, job>>
  BY DEF Reset, Unsent
<1>2. Empty \in Choices /\ Empty.grade = Nothing /\ Empty.strand = Nothing /\ Empty.section = Nothing
  BY DEF Empty, Choices
<1>3. WizardTypes'
  BY <1>1, <1>2, LookForOK, NobodyGiven, ConstantFacts DEF WizardInv, WizardTypes, NoReport
<1>4. ChoiceFits' /\ StepsPassed' /\ SelectedFit'
  BY <1>1, <1>2 DEF ChoiceFits, StepsPassed, SelectedFit, Empty
<1>5. WaitsForSubmission => SubmissionOK'
  BY <1>1, NothingSubmitted
<1>6. FoundFits'
  BY <1>1, LookForOK, ConstantFacts
<1> QED
  BY <1>1, <1>3, <1>4, <1>5, <1>6 DEF WizardInv

-----------------------------------------------------------------------------
(* The page that enrols students: the search *)

LEMMA ArriveLookOK ==
    ASSUME WizardInv, NEW l \in looks, ArriveLook(l)
    PROVE  WizardInv'
<1> DEFINE ids == {s \in Found[l.query] : Eligible(s, l.type)}
<1>1. /\ looks' = looks \ {l}
      /\ found' = IF l.active THEN Shown(l, ids) ELSE found
      /\ UNCHANGED <<enrolled, pageVars, query, job>>
  BY DEF ArriveLook
<1>2. l.query \in Queries /\ l.type \in Types \cup {Nothing}
  BY DEF WizardInv, WizardTypes
<1>3. ids \in SUBSET Students /\ (l.type # Nothing => ids \subseteq Fits[l.type])
  BY <1>2, ConstantFacts DEF Eligible
<1> HIDE DEF ids
<1>4. WizardTypes' /\ FoundFits'
  BY <1>1, <1>2, <1>3 DEF WizardInv, WizardTypes, FoundFits, Shown, pageVars
<1> QED
  BY <1>1, <1>4, ChoiceStays, SubmissionStays DEF WizardInv, pageVars

LEMMA FailLookOK ==
    ASSUME WizardInv, NEW l \in looks, FailLook(l)
    PROVE  WizardInv'
<1>1. /\ looks' = looks \ {l}
      /\ found' = IF l.active THEN Shown(l, {}) ELSE found
      /\ UNCHANGED <<enrolled, pageVars, query, job>>
  BY DEF FailLook
<1>2. l.query \in Queries /\ l.type \in Types \cup {Nothing}
  BY DEF WizardInv, WizardTypes
<1>3. WizardTypes' /\ FoundFits'
  BY <1>1, <1>2 DEF WizardInv, WizardTypes, FoundFits, Shown, pageVars
<1> QED
  BY <1>1, <1>3, ChoiceStays, SubmissionStays DEF WizardInv, pageVars

-----------------------------------------------------------------------------
(* The page that enrols students: the submission *)

\* A submission under way is one of Jobs.
LEMMA JobFields ==
    ASSUME WizardInv, job.stage # "idle"
    PROVE  /\ job \in Jobs
           /\ job.todo \subseteq Students /\ job.done \subseteq Students
           /\ job.refused \subseteq Students /\ job.before \subseteq Students
           /\ job.to \in Choices /\ job.to.section \in Sections \cup {Nothing}
           /\ WaitsForSubmission => step = 5 /\ job.to = choice
<1>1. job \in Jobs /\ job # Idle
  BY DEF WizardInv, WizardTypes, Idle
<1>2. job.to.section \in Sections \cup {Nothing}
  BY <1>1 DEF Jobs, Choices
<1> QED
  BY <1>1, <1>2 DEF Jobs, WizardInv, SubmissionOK

\* What is told of as enrolled is not enrolled again by others.
LEMMA EnrolledStays ==
    ASSUME WizardInv, WaitsForSubmission,
           \A s \in Students : enrolled[s] # Nothing => enrolled'[s] = enrolled[s]
    PROVE  /\ \A s \in completed : enrolled'[s] = choice.section
           /\ job.stage \in {"next", "create"} =>
                \A s \in job.done : enrolled'[s] = choice.section
<1>1. step = 5 => choice.section # Nothing
  BY DEF WizardInv, StepsPassed
<1>2. step # 5 => completed = {} /\ job = Idle
  BY DEF WizardInv, SubmissionOK
<1>3. completed \subseteq Students
  BY DEF WizardInv, WizardTypes
<1>4. job.stage \in {"next", "create"} => step = 5 /\ job.done \subseteq Students
  BY <1>2, JobFields DEF Idle
<1> QED
  BY <1>1, <1>2, <1>3, <1>4 DEF WizardInv, SubmissionOK

LEMMA SubmitRestOK ==
    ASSUME WizardInv, SubmitRest
    PROVE  WizardInv'
<1> DEFINE todo == selected \ completed
           j == [stage |-> "next", todo |-> todo, to |-> choice, needs |-> RequiresStrand,
                 strand |-> [s \in todo |-> StrandOf(s)], before |-> completed,
                 of |-> Nothing, done |-> {}, refused |-> {}]
<1>1. /\ step = 5 /\ job = Idle /\ job' = j
      /\ report' = [report EXCEPT !.result = {}]
      /\ UNCHANGED <<enrolled, step, choice, assigned, selected, completed, searchVars>>
  BY DEF SubmitRest, Submit
<1>2. todo \subseteq Students
  BY DEF WizardInv, WizardTypes
<1>3. ASSUME NEW s \in todo PROVE StrandOf(s) \in Strands \cup {Nothing}
  <2>1. PICK S \in SUBSET Students : assigned \in [S -> Strands \cup {Nothing}]
    BY DEF WizardInv, WizardTypes, StrandsGiven
  <2>2. choice.strand \in Strands \cup {Nothing}
    BY DEF WizardInv, WizardTypes, Choices
  <2> QED
    BY <2>1, <2>2 DEF StrandOf
<1>4. [s \in todo |-> StrandOf(s)] \in StrandsGiven
  <2> HIDE DEF todo
  <2>1. [s \in todo |-> StrandOf(s)] \in [todo -> Strands \cup {Nothing}]
    BY <1>3
  <2> QED
    BY <1>2, <2>1 DEF StrandsGiven
<1>5. RequiresStrand \in BOOLEAN
  BY DEF RequiresStrand
<1>6. j \in Jobs
  BY <1>2, <1>4, <1>5 DEF WizardInv, WizardTypes, Jobs
<1>7. /\ j.stage = "next" /\ j.todo = selected \ completed /\ j.to = choice /\ j.before = completed
      /\ j.done = {} /\ j.refused = {}
  OBVIOUS
<1> HIDE DEF j, todo
<1>8. WizardTypes'
  BY <1>1, <1>6 DEF WizardInv, WizardTypes, searchVars
<1>9. ASSUME WaitsForSubmission PROVE SubmissionOK'
  <2>1. report'.result = {}
    BY <1>1 DEF WizardInv, WizardTypes
  <2> QED
    BY <1>1, <1>7, <1>9, <2>1 DEF WizardInv, SubmissionOK
<1>10. FoundFits'
  BY <1>1 DEF WizardInv, FoundFits, searchVars
<1> QED
  BY <1>1, <1>7, <1>8, <1>9, <1>10, ChoiceStays DEF WizardInv

\* While the page stays, a submission goes on, and students may become enrolled.
LEMMA SubmissionGoesOn ==
    ASSUME WizardInv, UNCHANGED <<pageVars, searchVars>>,
           enrolled' \in [Students -> Sections \cup {Nothing}], job' \in {Idle} \cup Jobs,
           job'.stage = "create" => job'.of \in job'.todo,
           WaitsForSubmission => SubmissionOK'
    PROVE  WizardInv'
<1>1. WizardTypes' /\ FoundFits'
  BY DEF WizardInv, WizardTypes, FoundFits, pageVars, searchVars
<1> QED
  BY <1>1, ChoiceStays DEF WizardInv, pageVars

\* One more student is done with, enrolled or refused.
LEMMA OneMore ==
    ASSUME WizardInv, UNCHANGED <<pageVars, searchVars>>, job.stage \in {"next", "create"},
           NEW s \in job.todo,
           \/ job' = AfterRefusal(s)
           \/ job' = AfterCreation(s) /\ enrolled'[s] = job.to.section,
           enrolled' \in [Students -> Sections \cup {Nothing}],
           \A r \in Students : enrolled[r] # Nothing => enrolled'[r] = enrolled[r]
    PROVE  WizardInv'
<1>1. /\ job \in Jobs /\ job.todo \subseteq Students
      /\ WaitsForSubmission => step = 5 /\ job.to = choice
  BY JobFields
<1>2. /\ job' \in Jobs /\ job'.stage = "next" /\ job'.todo = job.todo \ {s}
      /\ job'.to = job.to /\ job'.before = job.before
      /\ \/ /\ job'.done = job.done \cup {s} /\ job'.refused = job.refused
            /\ enrolled'[s] = job.to.section
         \/ job'.done = job.done /\ job'.refused = job.refused \cup {s}
  <2>1. CASE job' = AfterCreation(s) /\ enrolled'[s] = job.to.section
    BY <1>1, <2>1 DEF AfterCreation, Jobs
  <2>2. CASE job' = AfterRefusal(s)
    BY <1>1, <2>2 DEF AfterRefusal, Jobs
  <2> QED
    BY <2>1, <2>2
<1>3. ASSUME WaitsForSubmission PROVE SubmissionOK'
  <2>1. /\ \A r \in completed : enrolled'[r] = choice.section
        /\ \A r \in job.done : enrolled'[r] = choice.section
    BY <1>3, EnrolledStays
  <2>2. \A r \in job'.done : enrolled'[r] = choice.section
    BY <1>1, <1>2, <1>3, <2>1
  <2>3. /\ step = 5 /\ completed \subseteq selected
        /\ report.result = {} /\ job.before = completed
        /\ job.todo \cup job.done \cup job.refused = selected \ completed
        /\ job.todo \cap (job.done \cup job.refused) = {} /\ job.done \cap job.refused = {}
    BY <1>1, <1>3 DEF WizardInv, SubmissionOK
  <2> QED
    BY <1>1, <1>2, <1>3, <2>1, <2>2, <2>3 DEF SubmissionOK, pageVars
<1> QED
  BY <1>2, <1>3, SubmissionGoesOn

LEMMA AskOK ==
    ASSUME WizardInv, NEW s \in Students, Ask(s)
    PROVE  WizardInv'
<1>1. job.stage = "next" /\ s \in job.todo
  BY DEF Ask
<1>2. job \in Jobs /\ enrolled \in [Students -> Sections \cup {Nothing}]
  BY <1>1, JobFields DEF WizardInv, WizardTypes
<1>3. CASE Refuse(s)
  BY <1>1, <1>2, <1>3, OneMore DEF Refuse, Working
<1>4. CASE /\ job' = [job EXCEPT !.stage = "create", !.of = s]
           /\ UNCHANGED enrolled /\ Working
  <2>1. /\ job' \in Jobs /\ job'.stage = "create" /\ job'.of = s /\ job'.todo = job.todo
        /\ job'.to = job.to /\ job'.before = job.before
        /\ job'.done = job.done /\ job'.refused = job.refused
    BY <1>2, <1>4 DEF Jobs
  <2>2. WaitsForSubmission => SubmissionOK'
    BY <1>1, <1>2, <1>4, <2>1 DEF WizardInv, SubmissionOK, Working, pageVars, Idle
  <2> QED
    BY <1>1, <1>2, <1>4, <2>1, <2>2, SubmissionGoesOn DEF Working
<1> QED
  BY <1>3, <1>4 DEF Ask

LEMMA CreateOK ==
    ASSUME WizardInv, Create
    PROVE  WizardInv'
<1>1. /\ job.stage = "create" /\ enrolled[job.of] = Nothing
      /\ enrolled' = [enrolled EXCEPT ![job.of] = job.to.section]
      /\ job' \in {AfterCreation(job.of), AfterRefusal(job.of)} /\ Working
  BY DEF Create
<1>2. /\ job.of \in job.todo /\ job.todo \subseteq Students
      /\ job.to.section \in Sections \cup {Nothing}
      /\ enrolled \in [Students -> Sections \cup {Nothing}]
  BY <1>1, JobFields DEF WizardInv, WizardTypes
<1>3. /\ enrolled' \in [Students -> Sections \cup {Nothing}]
      /\ enrolled'[job.of] = job.to.section
      /\ \A r \in Students : enrolled[r] # Nothing => enrolled'[r] = enrolled[r]
  BY <1>1, <1>2
<1> QED
  BY <1>1, <1>2, <1>3, OneMore DEF Working

LEMMA RefuseCreationOK ==
    ASSUME WizardInv, RefuseCreation
    PROVE  WizardInv'
<1>1. job.stage = "create" /\ Refuse(job.of)
  BY DEF RefuseCreation
<1>2. job \in Jobs /\ job.of \in job.todo /\ enrolled \in [Students -> Sections \cup {Nothing}]
  BY <1>1, JobFields DEF WizardInv, WizardTypes
<1> QED
  BY <1>1, <1>2, OneMore DEF Refuse, Working

LEMMA ReportOK ==
    ASSUME WizardInv, Report
    PROVE  WizardInv'
<1>1. /\ job.stage = "next" /\ job.todo = {}
      /\ completed' = completed \cup job.done
      /\ report' = [message |-> job.before \cup job.done, result |-> {job.refused}]
      /\ job' = [job EXCEPT !.stage = "refresh"]
      /\ UNCHANGED <<enrolled, step, choice, assigned, selected, searchVars>>
  BY DEF Report
<1>2. /\ job \in Jobs /\ job.done \subseteq Students /\ job.refused \subseteq Students
      /\ job.before \subseteq Students
      /\ WaitsForSubmission => step = 5 /\ job.to = choice
  BY <1>1, JobFields
<1>3. job' \in Jobs /\ job'.stage = "refresh" /\ job'.to = job.to
  BY <1>1, <1>2 DEF Jobs
<1>4. WizardTypes'
  BY <1>1, <1>2, <1>3 DEF WizardInv, WizardTypes, searchVars
<1>5. ChoiceFits' /\ StepsPassed' /\ SelectedFit'
  BY <1>1, ChoiceStays
<1>6. FoundFits'
  BY <1>1 DEF WizardInv, FoundFits, searchVars
<1>7. ASSUME WaitsForSubmission PROVE SubmissionOK'
  <2>1. /\ completed \subseteq selected /\ \A s \in completed : enrolled[s] = choice.section
        /\ job.before = completed /\ job.done \cup job.refused = selected \ completed
        /\ job.done \cap job.refused = {}
        /\ \A s \in job.done : enrolled[s] = choice.section
    BY <1>1, <1>7 DEF WizardInv, SubmissionOK
  <2>2. report'.message = completed' /\ report'.result = {job.refused}
    BY <1>1, <2>1
  <2>3. /\ completed' \subseteq selected /\ completed' \cup job.refused = selected
        /\ completed' \cap job.refused = {}
        /\ \A s \in completed' : enrolled[s] = choice.section
    BY <1>1, <2>1
  <2> QED
    BY <1>1, <1>2, <1>3, <1>7, <2>2, <2>3 DEF SubmissionOK
<1> QED
  BY <1>3, <1>4, <1>5, <1>6, <1>7 DEF WizardInv

LEMMA ListRefreshedOK ==
    ASSUME WizardInv, ListRefreshed
    PROVE  WizardInv'
<1>1. job.stage = "refresh" /\ job' = Idle /\ UNCHANGED enrolled /\ Working
  BY DEF ListRefreshed
<1>2. WaitsForSubmission => step = 5
  BY <1>1, JobFields
<1>3. WaitsForSubmission => SubmissionOK'
  BY <1>1, <1>2 DEF WizardInv, SubmissionOK, Working, pageVars, Idle
<1> QED
  BY <1>1, <1>3, SubmissionGoesOn DEF WizardInv, WizardTypes, Working, Idle

LEMMA OtherEnrolsOK ==
    ASSUME WizardInv, NEW s \in Students, NEW c \in Sections, OtherEnrols(s, c)
    PROVE  WizardInv'
<1>1. /\ enrolled[s] = Nothing /\ enrolled' = [enrolled EXCEPT ![s] = c]
      /\ UNCHANGED <<pageVars, searchVars, job>>
      /\ enrolled \in [Students -> Sections \cup {Nothing}]
  BY DEF OtherEnrols, WizardInv, WizardTypes
<1>2. /\ enrolled' \in [Students -> Sections \cup {Nothing}]
      /\ \A r \in Students : enrolled[r] # Nothing => enrolled'[r] = enrolled[r]
  BY <1>1
<1>3. ASSUME WaitsForSubmission PROVE SubmissionOK'
  <2>1. /\ \A r \in completed : enrolled'[r] = choice.section
        /\ job.stage \in {"next", "create"} => \A r \in job.done : enrolled'[r] = choice.section
    BY <1>2, <1>3, EnrolledStays
  <2> QED
    BY <1>1, <1>3, <2>1 DEF WizardInv, SubmissionOK, pageVars
<1> QED
  BY <1>1, <1>2, <1>3, SubmissionGoesOn DEF WizardInv, WizardTypes

-----------------------------------------------------------------------------
(* The page that enrols students: the invariant *)

LEMMA WizardInitOK == WizardInit => WizardInv
<1> SUFFICES ASSUME WizardInit PROVE WizardInv
  OBVIOUS
<1>1. Empty \in Choices /\ Look(Nothing, Blank) \in
        [active: BOOLEAN, type: Types \cup {Nothing}, query: Queries]
  BY ConstantFacts DEF Empty, Choices, Look
<1>2. WizardTypes
  BY <1>1, NobodyGiven, ConstantFacts DEF WizardInit, WizardTypes, NoReport
<1>3. ChoiceFits /\ StepsPassed /\ SelectedFit /\ FoundFits
  BY DEF WizardInit, Empty, ChoiceFits, StepsPassed, SelectedFit, FoundFits
<1>4. SubmissionOK
  BY DEF WizardInit, SubmissionOK, NoReport, Idle
<1> QED
  BY <1>2, <1>3, <1>4 DEF WizardInv, WizardInit, Idle

LEMMA ChooseOK ==
    ASSUME WizardInv, Choose
    PROVE  WizardInv'
<1>1. CASE \E t \in Types : ChooseType(t)
  BY <1>1, ChooseTypeOK
<1>2. CASE \E v \in Levels : ChooseLevel(v)
  BY <1>2, ChooseLevelOK
<1>3. CASE \E g \in Grades : ChooseGrade(g)
  BY <1>3, ChooseGradeOK
<1>4. CASE \E x \in Strands : ChooseStrand(x)
  BY <1>4, ChooseStrandOK
<1>5. CASE \E c \in Sections : ChooseSection(c)
  BY <1>5, ChooseSectionOK
<1>6. CASE \E q \in Queries : Search(q)
  BY <1>6, SearchOK
<1>7. CASE \E s \in Students : Toggle(s) \/ \E x \in Strands \cup {Nothing} : Assign(s, x)
  BY <1>7, ToggleOK, AssignOK
<1>8. CASE ToggleAll \/ ClearSelection
  BY <1>8, ToggleAllOK, ClearSelectionOK
<1>9. CASE GoNext \/ GoBack
  BY <1>9, GoNextOK, GoBackOK
<1>10. CASE Restart \/ StartNew
  <2>1. Reset /\ (WaitsForSubmission => step # 5 \/ job = Idle)
    BY <1>10 DEF Restart, StartNew, WizardInv, WizardTypes
  <2> QED
    BY <2>1, ResetOK
<1> QED
  BY <1>1, <1>2, <1>3, <1>4, <1>5, <1>6, <1>7, <1>8, <1>9, <1>10 DEF Choose

LEMMA WizardStep == WizardInv /\ [WizardNext]_wizardVars => WizardInv'
<1> SUFFICES ASSUME WizardInv, [WizardNext]_wizardVars PROVE WizardInv'
  OBVIOUS
<1>1. CASE Choose
  BY <1>1, ChooseOK
<1>2. CASE SubmitRest
  BY <1>2, SubmitRestOK
<1>3. CASE Finds
  BY <1>3, ArriveLookOK, FailLookOK DEF Finds
<1>4. CASE Submits
  BY <1>4, AskOK, CreateOK, RefuseCreationOK, ReportOK, ListRefreshedOK DEF Submits
<1>5. CASE \E s \in Students, c \in Sections : OtherEnrols(s, c)
  BY <1>5, OtherEnrolsOK
<1>6. CASE UNCHANGED wizardVars
  <2>1. UNCHANGED <<enrolled, pageVars, searchVars, job>>
    BY <1>6 DEF wizardVars
  <2>2. WaitsForSubmission => SubmissionOK'
    BY <2>1, SubmissionStays DEF pageVars
  <2> QED
    BY <2>1, <2>2, SubmissionGoesOn DEF WizardInv, WizardTypes
<1> QED
  BY <1>1, <1>2, <1>3, <1>4, <1>5, <1>6 DEF WizardNext

LEMMA WizardInvariance == WizardSpec => []WizardInv
<1> QED
  BY WizardInitOK, WizardStep, PTL DEF WizardSpec

LEMMA InvReview == WizardInv => EnrolledAsReviewed
<1> SUFFICES ASSUME WizardInv PROVE EnrolledAsReviewed
  OBVIOUS
<1>1. ReviewPasses
  BY ConstantFacts DEF WizardInv, WizardTypes, Choices, ChoiceFits, StepsPassed, ReviewPasses, Reviewed
<1>2. WaitsForSubmission => OutcomeTold
  BY DEF WizardInv, SubmissionOK, OutcomeTold
<1> QED
  BY <1>1, <1>2 DEF WizardInv, EnrolledAsReviewed

\* Whatever the user chooses, takes back, searches for and selects, in whichever
\* order the searches are answered and whoever else is enrolled meanwhile: the
\* review passes the check of handleEnroll, whoever is selected has the history the
\* type asks for, and a user who waits for each submission is told of every
\* selected student, as enrolled in the section on the review or as refused.
THEOREM ReviewsAreKept == WizardSpec => []EnrolledAsReviewed
<1> QED
  BY WizardInvariance, InvReview, PTL

-----------------------------------------------------------------------------
(* The page of a student *)

LoadRecords == [kind: Kinds, turn: Nat, of: Learners, got: Got]
GenerationRecords == [of: Learners, n: Nat, got: Got]

\* What was read of the lists is of the student it was asked for.
OfStudent(r) == \A read \in r.got.rows : \A f \in read : f.of = r.of

\* A load whose effect was not run again is of the student in the address.
LoadsOK == \A l \in loads : l.turn <= turn[l.kind] /\ (Active(l) => l.of = id) /\ OfStudent(l)

\* The lists are read after the prediction was made.
GenerationOK ==
    \A g \in generation :
        /\ OfStudent(g) /\ (g.n = 0 => g.got = Unread)
        /\ g.n > 0 => g.n <= made[g.of] /\ \A n \in g.got.preds : n >= g.n

\* If the user waits, nothing else is under way during a generation, and the page
\* stays where it is; whatever was read since has the prediction that was generated.
WaitsOK ==
    /\ generation # {} => loads = {} /\ note.n = 0
    /\ \A g \in generation : g.of = id
    /\ note.n > 0 => note.of \in Learners /\ note.n <= made[note.of]
    /\ \A l \in loads : note.of = l.of => \A n \in l.got.preds : n >= note.n
    /\ ListsOfStudent /\ GeneratedShown

\* If nobody else generates predictions, what was read of the lists is so still.
OnOnePage(s) == Cardinality(AllFactors(s)) <= PageSize
UpToDate(r) ==
    /\ r.got.preds \subseteq {made[r.of]}
    /\ \A read \in r.got.rows : OnOnePage(r.of) => read = AllFactors(r.of)
AloneOK == (\A l \in loads : UpToDate(l)) /\ (\A g \in generation : UpToDate(g)) /\ FactorsShown

StudentInv ==
    /\ StudentTypes /\ LoadsOK /\ GenerationOK /\ ProfileOfStudent
    /\ visit.waits => WaitsOK
    /\ visit.waits /\ ~visit.others => AloneOK

-----------------------------------------------------------------------------
(* The page of a student: the lists *)

LEMMA FactorsFinite ==
    ASSUME NEW s \in Learners, NEW m \in Nat
    PROVE  IsFiniteSet([of: {s}, n: 1..m, feature: Features])
<1> DEFINE S == (1..m) \X Features
           T == [of: {s}, n: 1..m, feature: Features]
           f == [p \in S |-> [of |-> s, n |-> p[1], feature |-> p[2]]]
<1>1. IsFiniteSet(1..m)
  BY FS_Interval
<1>2. IsFiniteSet(Features)
  BY StudentAssumption DEF StudentConstants
<1>3. IsFiniteSet(S)
  BY <1>1, <1>2, FS_Product
<1>4. f \in [S -> T]
  OBVIOUS
<1>5. ASSUME NEW t \in T PROVE \E p \in S : f[p] = t
  <2>1. /\ t.of = s /\ t.n \in 1..m /\ t.feature \in Features
        /\ t = [of |-> s, n |-> t.n, feature |-> t.feature]
    OBVIOUS
  <2>2. <<t.n, t.feature>> \in S
    BY <2>1
  <2>3. f[<<t.n, t.feature>>] = t
    BY <2>1, <2>2
  <2> QED
    BY <2>2, <2>3
<1>6. f \in Surjection(S, T)
  BY <1>4, <1>5 DEF Surjection
<1> QED
  BY <1>3, <1>6, FS_Surjection

LEMMA AllFactorsFinite ==
    ASSUME NEW s \in Learners, made[s] \in Nat
    PROVE  IsFiniteSet(AllFactors(s)) /\ AllFactors(s) \subseteq Factor
BY FactorsFinite DEF AllFactors, Factor

\* A page that has room for all the factors has them all.
LEMMA AllOnThePage ==
    ASSUME NEW s \in Learners, made[s] \in Nat, NEW read \in FactorPages(s)
    PROVE  /\ read \in SUBSET Factor /\ \A f \in read : f.of = s
           /\ OnOnePage(s) => read = AllFactors(s)
<1>1. IsFiniteSet(AllFactors(s)) /\ AllFactors(s) \subseteq Factor
  BY AllFactorsFinite
<1>2. /\ read \in SUBSET AllFactors(s)
      /\ Cardinality(read) = IF Cardinality(AllFactors(s)) < PageSize
                             THEN Cardinality(AllFactors(s)) ELSE PageSize
  BY DEF FactorPages
<1>3. Cardinality(AllFactors(s)) \in Nat /\ PageSize \in Nat
  BY <1>1, FS_CardinalityType, StudentAssumption DEF StudentConstants
<1>4. OnOnePage(s) => read = AllFactors(s)
  <2>1. SUFFICES ASSUME OnOnePage(s) PROVE read = AllFactors(s)
    OBVIOUS
  <2>2. Cardinality(AllFactors(s)) = Cardinality(read)
    BY <1>2, <1>3, <2>1 DEF OnOnePage
  <2> QED
    BY <1>1, <1>2, <2>2, FS_Subset
<1>5. \A f \in read : f.of = s
  BY <1>2 DEF AllFactors
<1> QED
  BY <1>1, <1>2, <1>4, <1>5

\* What a request of the lists adds to what was read.
LEMMA ReadLoad ==
    ASSUME made \in [Learners -> Nat], NEW l \in LoadRecords, NEW r \in Reads(l), OfStudent(l)
    PROVE  /\ r \in LoadRecords /\ r.kind = l.kind /\ r.turn = l.turn /\ r.of = l.of /\ OfStudent(r)
           /\ r.got.preds \subseteq l.got.preds \cup {made[l.of]}
           /\ UpToDate(l) => UpToDate(r)
<1>1. l.of \in Learners /\ made[l.of] \in Nat /\ l.got \in Got
  BY DEF LoadRecords
<1>2. CASE r = [l EXCEPT !.got.preds = {made[l.of]}]
  <2>1. /\ r \in LoadRecords /\ r.kind = l.kind /\ r.turn = l.turn /\ r.of = l.of
        /\ r.got.preds = {made[l.of]} /\ r.got.rows = l.got.rows
    BY <1>1, <1>2 DEF LoadRecords, Got
  <2> QED
    BY <2>1 DEF OfStudent, UpToDate
<1>3. CASE \E read \in FactorPages(l.of) : r = [l EXCEPT !.got.rows = {read}]
  <2>1. PICK read \in FactorPages(l.of) : r = [l EXCEPT !.got.rows = {read}]
    BY <1>3
  <2>2. /\ read \in SUBSET Factor /\ \A f \in read : f.of = l.of
        /\ OnOnePage(l.of) => read = AllFactors(l.of)
    BY <1>1, AllOnThePage
  <2>3. /\ r \in LoadRecords /\ r.kind = l.kind /\ r.turn = l.turn /\ r.of = l.of
        /\ r.got.preds = l.got.preds /\ r.got.rows = {read}
    BY <1>1, <2>1, <2>2 DEF LoadRecords, Got
  <2> QED
    BY <2>2, <2>3 DEF OfStudent, UpToDate
<1> QED
  BY <1>2, <1>3 DEF Reads, ReadPredictions, ReadFactors

LEMMA ReadGenerating ==
    ASSUME made \in [Learners -> Nat], NEW g \in GenerationRecords, NEW r \in Reads(g), OfStudent(g)
    PROVE  /\ r \in GenerationRecords /\ r.n = g.n /\ r.of = g.of /\ OfStudent(r)
           /\ r.got.preds \subseteq g.got.preds \cup {made[g.of]}
           /\ UpToDate(g) => UpToDate(r)
<1>1. g.of \in Learners /\ made[g.of] \in Nat /\ g.got \in Got
  BY DEF GenerationRecords
<1>2. CASE r = [g EXCEPT !.got.preds = {made[g.of]}]
  <2>1. /\ r \in GenerationRecords /\ r.n = g.n /\ r.of = g.of
        /\ r.got.preds = {made[g.of]} /\ r.got.rows = g.got.rows
    BY <1>1, <1>2 DEF GenerationRecords, Got
  <2> QED
    BY <2>1 DEF OfStudent, UpToDate
<1>3. CASE \E read \in FactorPages(g.of) : r = [g EXCEPT !.got.rows = {read}]
  <2>1. PICK read \in FactorPages(g.of) : r = [g EXCEPT !.got.rows = {read}]
    BY <1>3
  <2>2. /\ read \in SUBSET Factor /\ \A f \in read : f.of = g.of
        /\ OnOnePage(g.of) => read = AllFactors(g.of)
    BY <1>1, AllOnThePage
  <2>3. /\ r \in GenerationRecords /\ r.n = g.n /\ r.of = g.of
        /\ r.got.preds = g.got.preds /\ r.got.rows = {read}
    BY <1>1, <2>1, <2>2 DEF GenerationRecords, Got
  <2> QED
    BY <2>2, <2>3 DEF OfStudent, UpToDate
<1> QED
  BY <1>2, <1>3 DEF Reads, ReadPredictions, ReadFactors

\* What has all factors of a student on one page has those of the newest prediction.
LEMMA NewestWhole ==
    ASSUME NEW s \in Learners, NEW n \in Nat, n > 0, n = made[s]
    PROVE  {f.feature : f \in {x \in AllFactors(s) : x.of = s /\ x.n = n}} = Features
<1>1. ASSUME NEW e \in Features
      PROVE  e \in {f.feature : f \in {x \in AllFactors(s) : x.of = s /\ x.n = n}}
  <2>1. [of |-> s, n |-> n, feature |-> e] \in {x \in AllFactors(s) : x.of = s /\ x.n = n}
    BY DEF AllFactors
  <2> QED
    BY <2>1
<1>2. \A f \in AllFactors(s) : f.feature \in Features
  BY DEF AllFactors
<1> QED
  BY <1>1, <1>2

\* With more predictions, all fit on one page only if they did before.
LEMMA MoreFactors ==
    ASSUME made \in [Learners -> Nat], made' \in [Learners -> Nat], NEW s \in Learners,
           made[s] <= made'[s], OnOnePage(s)'
    PROVE  OnOnePage(s)
<1> DEFINE now == AllFactors(s)
           later == [of: {s}, n: 1..made'[s], feature: Features]
<1>1. now \subseteq later
  BY DEF AllFactors
<1>2. IsFiniteSet(later)
  <2>1. PICK m \in [Learners -> Nat] : m = made'
    OBVIOUS
  <2>2. IsFiniteSet([of: {s}, n: 1..m[s], feature: Features])
    BY FactorsFinite
  <2> QED
    BY <2>1, <2>2
<1> HIDE DEF now, later
<1>3. Cardinality(now) <= Cardinality(later) /\ Cardinality(now) \in Nat
      /\ Cardinality(later) \in Nat
  BY <1>1, <1>2, FS_Subset, FS_CardinalityType
<1>4. Cardinality(later) <= PageSize /\ PageSize \in Nat
  BY StudentAssumption DEF StudentConstants, OnOnePage, AllFactors, later
<1> QED
  BY <1>3, <1>4 DEF OnOnePage, now

-----------------------------------------------------------------------------
(* The page of a student: the effects *)

LEMMA TypeFacts ==
    ASSUME StudentInv
    PROVE  /\ visit.waits \in BOOLEAN /\ visit.others \in BOOLEAN
           /\ made \in [Learners -> Nat] /\ id \in Learners
           /\ turn \in [Kinds -> Nat] /\ busy \in [Kinds -> BOOLEAN]
           /\ failed \in [Kinds -> BOOLEAN]
           /\ loads \subseteq LoadRecords /\ generation \subseteq GenerationRecords
           /\ \A g, h \in generation : g = h
BY StudentAssumption DEF StudentInv, StudentTypes, StudentConstants, LoadRecords, GenerationRecords

\* The effects are run again, for the student in the address.
LEMMA RunOK ==
    ASSUME StudentInv, NEW ks \in SUBSET Kinds, NEW s \in Learners, Run(ks, s), id' = s, Free,
           "records" \in ks, "profile" \in ks \/ s = id,
           UNCHANGED <<server, profile, list, factors, generation, note>>
    PROVE  StudentInv'
<1>1. /\ turn' = [k \in Kinds |-> IF k \in ks THEN turn[k] + 1 ELSE turn[k]]
      /\ busy' = [k \in Kinds |-> k \in ks \/ busy[k]]
      /\ failed' = [k \in Kinds |-> k \notin ks /\ failed[k]]
      /\ loads' = loads \cup {Started(k, turn[k] + 1, s) : k \in ks}
  BY DEF Run
<1>2. UNCHANGED <<visit, made, profile, list, factors, generation, note>>
  BY DEF server
<1>3. \A k \in ks : /\ Started(k, turn[k] + 1, s) \in LoadRecords
                    /\ Started(k, turn[k] + 1, s).kind = k
                    /\ Started(k, turn[k] + 1, s).turn = turn[k] + 1
                    /\ Started(k, turn[k] + 1, s).of = s
                    /\ Started(k, turn[k] + 1, s).got = Unread
  BY TypeFacts DEF Started, LoadRecords, Got, Unread
<1>4. \A l \in loads' : l \in loads \/ \E k \in ks : l = Started(k, turn[k] + 1, s)
  BY <1>1
<1>5. /\ turn' \in [Kinds -> Nat] /\ busy' \in [Kinds -> BOOLEAN]
      /\ failed' \in [Kinds -> BOOLEAN] /\ loads' \subseteq LoadRecords
      /\ \A k \in Kinds : turn'[k] = IF k \in ks THEN turn[k] + 1 ELSE turn[k]
  BY <1>1, <1>3, <1>4, TypeFacts
<1>6. StudentTypes'
  BY <1>2, <1>5 DEF StudentInv, StudentTypes, LoadRecords
<1>7. LoadsOK'
  <2> SUFFICES ASSUME NEW l \in loads'
               PROVE  l.turn <= turn'[l.kind] /\ (l.turn = turn'[l.kind] => l.of = s) /\ OfStudent(l)
    BY DEF LoadsOK, Active, OfStudent
  <2>1. CASE l \in loads
    <3>1. l.kind \in Kinds /\ l.turn \in Nat /\ l.turn <= turn[l.kind] /\ OfStudent(l)
          /\ (l.turn = turn[l.kind] => l.of = id)
      BY <2>1, TypeFacts DEF StudentInv, LoadsOK, Active, LoadRecords
    <3>2. turn[l.kind] \in Nat
      BY <3>1, TypeFacts
    <3>3. Kinds = {"profile", "records"}
      BY DEF Kinds
    <3> QED
      BY <1>5, <3>1, <3>2, <3>3
  <2>2. CASE \E k \in ks : l = Started(k, turn[k] + 1, s)
    BY <1>3, <1>5, <2>2, TypeFacts DEF OfStudent, Unread
  <2> QED
    BY <1>4, <2>1, <2>2
<1>8. GenerationOK'
  BY <1>2 DEF StudentInv, GenerationOK, OfStudent
<1>9. ProfileOfStudent'
  BY <1>1, <1>2 DEF StudentInv, ProfileOfStudent, Kinds
<1>10. busy'["records"]
  BY <1>1 DEF Kinds
<1>11. ASSUME visit.waits PROVE WaitsOK'
  <2>1. generation = {} /\ WaitsOK
    BY <1>11 DEF Free, StudentInv
  <2>2. \A l \in loads' : note.of = l.of => \A n \in l.got.preds : n >= note.n
    BY <1>3, <1>4, <2>1 DEF WaitsOK, Unread
  <2> QED
    BY <1>2, <1>10, <2>1, <2>2 DEF WaitsOK, ListsOfStudent, GeneratedShown
<1>12. ASSUME visit.waits, ~visit.others PROVE AloneOK'
  <2>1. \A l \in loads' : UpToDate(l)
    BY <1>3, <1>4, <1>12 DEF StudentInv, AloneOK, UpToDate, Unread
  <2> QED
    BY <1>2, <1>12, <2>1 DEF StudentInv, AloneOK, UpToDate, OnOnePage, AllFactors, FactorsShown
<1> QED
  BY <1>2, <1>6, <1>7, <1>8, <1>9, <1>11, <1>12 DEF StudentInv

LEMMA NavigateOK ==
    ASSUME StudentInv, NEW s \in Learners, Navigate(s)
    PROVE  StudentInv'
BY RunOK DEF Navigate, Kinds

LEMMA ChoosePeriodOK ==
    ASSUME StudentInv, ChoosePeriod
    PROVE  StudentInv'
<1>1. {"records"} \in SUBSET Kinds /\ id \in Learners
  BY TypeFacts DEF Kinds
<1> QED
  BY <1>1, RunOK DEF ChoosePeriod

\* A load is gone on with, or gone.
LEMMA ReadOK ==
    ASSUME StudentInv, NEW l \in loads, Read(l)
    PROVE  StudentInv'
<1>1. PICK r \in Reads(l) : loads' = (loads \ {l}) \cup {r}
  BY DEF Read
<1>2. UNCHANGED <<visit, made, id, turn, profile, busy, failed, list, factors, note, generation>>
  BY DEF Read, server, studentPage
<1>3. /\ r \in LoadRecords /\ r.kind = l.kind /\ r.turn = l.turn /\ r.of = l.of /\ OfStudent(r)
      /\ r.got.preds \subseteq l.got.preds \cup {made[l.of]}
      /\ UpToDate(l) => UpToDate(r)
      /\ l \in LoadRecords /\ loads \subseteq LoadRecords
  BY ReadLoad, TypeFacts DEF StudentInv, LoadsOK
<1>4. StudentTypes'
  BY <1>1, <1>2, <1>3 DEF StudentInv, StudentTypes, LoadRecords
<1>5. LoadsOK'
  BY <1>1, <1>2, <1>3 DEF StudentInv, LoadsOK, Active, OfStudent
<1>6. GenerationOK' /\ ProfileOfStudent'
  BY <1>2 DEF StudentInv, GenerationOK, OfStudent, ProfileOfStudent
<1>7. ASSUME visit.waits PROVE WaitsOK'
  <2>1. WaitsOK /\ generation = {} /\ note.n \in Nat /\ l.of \in Learners
    BY <1>3, <1>7 DEF StudentInv, WaitsOK, StudentTypes, LoadRecords
  <2>2. note.of = r.of => \A n \in r.got.preds : n >= note.n
    BY <1>3, <2>1, TypeFacts DEF WaitsOK
  <2>3. \A m \in loads' : note.of = m.of => \A n \in m.got.preds : n >= note.n
    BY <1>1, <2>1, <2>2 DEF WaitsOK
  <2> QED
    BY <1>2, <2>1, <2>3 DEF WaitsOK, ListsOfStudent, GeneratedShown
<1>8. ASSUME visit.waits, ~visit.others PROVE AloneOK'
  <2>1. \A m \in loads' : UpToDate(m)
    BY <1>1, <1>3, <1>8 DEF StudentInv, AloneOK
  <2> QED
    BY <1>2, <1>8, <2>1 DEF StudentInv, AloneOK, UpToDate, OnOnePage, AllFactors, FactorsShown
<1> QED
  BY <1>2, <1>4, <1>5, <1>6, <1>7, <1>8 DEF StudentInv

\* How a load ends: what it leaves of what has to be kept, whatever it shows.
LEMMA EndOK ==
    ASSUME StudentInv, NEW l \in loads, End(l),
           UNCHANGED <<visit, made, id, turn, generation, note>>,
           profile' \in Ids, failed' \in [Kinds -> BOOLEAN], factors' \subseteq Factor,
           list' \in [of: Ids, latest: Nat],
           ProfileOfStudent',
           visit.waits => ListsOfStudent' /\ GeneratedShown',
           visit.waits /\ ~visit.others => FactorsShown'
    PROVE  StudentInv'
<1>1. /\ busy' = IF Active(l) THEN [busy EXCEPT ![l.kind] = FALSE] ELSE busy
      /\ loads' = loads \ {l}
  BY DEF End
<1>2. StudentTypes'
  BY <1>1 DEF StudentInv, StudentTypes
<1>3. LoadsOK' /\ GenerationOK'
  BY <1>1 DEF StudentInv, LoadsOK, Active, OfStudent, GenerationOK
<1>4. visit.waits => WaitsOK'
  BY <1>1 DEF StudentInv, WaitsOK
<1>5. visit.waits /\ ~visit.others => AloneOK'
  BY <1>1 DEF StudentInv, AloneOK, UpToDate, OnOnePage, AllFactors
<1> QED
  BY <1>2, <1>3, <1>4, <1>5 DEF StudentInv

LEMMA ArriveProfileOK ==
    ASSUME StudentInv, NEW l \in loads, ArriveProfile(l)
    PROVE  StudentInv'
<1>1. /\ l.kind = "profile" /\ End(l)
      /\ profile' = IF Active(l) THEN l.of ELSE profile
      /\ UNCHANGED <<visit, made, id, turn, failed, list, factors, generation, note>>
  BY DEF ArriveProfile, server
<1>2. l.of \in Learners /\ (Active(l) => l.of = id)
  BY TypeFacts DEF StudentInv, LoadsOK, LoadRecords
<1>3. profile' \in Ids /\ ProfileOfStudent'
  BY <1>1, <1>2 DEF StudentInv, StudentTypes, ProfileOfStudent, End, Ids
<1>4. busy'["records"] = busy["records"]
  BY <1>1, TypeFacts DEF End, Kinds
<1>5. visit.waits => ListsOfStudent' /\ GeneratedShown'
  BY <1>1, <1>4 DEF StudentInv, WaitsOK, ListsOfStudent, GeneratedShown
<1>6. visit.waits /\ ~visit.others => FactorsShown'
  BY <1>1 DEF StudentInv, AloneOK, FactorsShown, AllFactors
<1> QED
  BY <1>1, <1>3, <1>5, <1>6, EndOK DEF StudentInv, StudentTypes

LEMMA ArriveRecordsOK ==
    ASSUME StudentInv, NEW l \in loads, ArriveRecords(l)
    PROVE  StudentInv'
<1>1. /\ l.kind = "records" /\ Complete(l) /\ End(l)
      /\ list' = IF Active(l) THEN [of |-> l.of, latest |-> Newest(l)] ELSE list
      /\ factors' = IF Active(l) THEN Rows(l) ELSE factors
      /\ UNCHANGED <<visit, made, id, turn, profile, failed, generation, note>>
  BY DEF ArriveRecords, server
<1>2. l \in LoadRecords /\ l.of \in Learners /\ (Active(l) => l.of = id) /\ OfStudent(l)
  BY TypeFacts DEF StudentInv, LoadsOK, LoadRecords
<1>3. Newest(l) \in l.got.preds /\ Rows(l) \in l.got.rows
  BY <1>1 DEF Complete, Newest, Rows
<1>4. Newest(l) \in Nat /\ Rows(l) \subseteq Factor /\ \A f \in Rows(l) : f.of = l.of
  BY <1>2, <1>3 DEF LoadRecords, Got, OfStudent
<1>5. /\ list' \in [of: Ids, latest: Nat] /\ factors' \subseteq Factor
      /\ Active(l) => list'.of = id /\ list'.latest = Newest(l) /\ \A f \in factors' : f.of = id
  BY <1>1, <1>2, <1>4 DEF StudentInv, StudentTypes, Ids
<1>6. /\ busy'["profile"] = busy["profile"]
      /\ ~Active(l) => busy'["records"] = busy["records"] /\ list' = list /\ factors' = factors
  BY <1>1, TypeFacts DEF End, Kinds
<1>7. ProfileOfStudent'
  BY <1>1, <1>6 DEF StudentInv, ProfileOfStudent
<1>8. ASSUME visit.waits PROVE ListsOfStudent' /\ GeneratedShown'
  <2>1. CASE Active(l)
    <3>1. note.of = id => Newest(l) >= note.n
      BY <1>2, <1>3, <1>8, <2>1 DEF StudentInv, WaitsOK
    <3> QED
      BY <1>1, <1>5, <2>1, <3>1 DEF ListsOfStudent, GeneratedShown
  <2>2. CASE ~Active(l)
    BY <1>1, <1>6, <1>8, <2>2 DEF StudentInv, WaitsOK, ListsOfStudent, GeneratedShown
  <2> QED
    BY <2>1, <2>2
<1>9. ASSUME visit.waits, ~visit.others PROVE FactorsShown'
  <2>1. CASE Active(l)
    <3>1. Newest(l) = made[id] /\ (OnOnePage(id) => Rows(l) = AllFactors(id))
      BY <1>2, <1>3, <1>9, <2>1 DEF StudentInv, AloneOK, UpToDate
    <3>2. /\ list'.of = id /\ list'.latest = made[id] /\ factors' = Rows(l)
          /\ OnOnePage(id)' <=> OnOnePage(id)
      BY <1>1, <1>5, <2>1, <3>1 DEF OnOnePage, AllFactors
    <3>3. made[id] > 0 =>
            {f.feature : f \in {x \in AllFactors(id) : x.of = id /\ x.n = made[id]}} = Features
      BY NewestWhole, TypeFacts
    <3> QED
      BY <1>1, <3>1, <3>2, <3>3 DEF FactorsShown, OnOnePage
  <2>2. CASE ~Active(l)
    BY <1>1, <1>6, <1>9, <2>2 DEF StudentInv, AloneOK, FactorsShown, AllFactors
  <2> QED
    BY <2>1, <2>2
<1> QED
  BY <1>1, <1>5, <1>7, <1>8, <1>9, EndOK DEF StudentInv, StudentTypes

LEMMA FailLoadOK ==
    ASSUME StudentInv, NEW l \in loads, FailLoad(l)
    PROVE  StudentInv'
<1>1. /\ End(l) /\ failed' = IF Active(l) THEN [failed EXCEPT ![l.kind] = TRUE] ELSE failed
      /\ UNCHANGED <<visit, made, id, turn, profile, list, factors, generation, note>>
  BY DEF FailLoad, server
<1>2. l.kind \in Kinds
  BY TypeFacts DEF LoadRecords
<1>3. /\ failed' \in [Kinds -> BOOLEAN]
      /\ \A k \in Kinds : ~busy'[k] /\ ~failed'[k] => ~busy[k] /\ ~failed[k]
  BY <1>1, <1>2, TypeFacts DEF End
<1>4. ProfileOfStudent'
  BY <1>1, <1>3 DEF StudentInv, ProfileOfStudent, Kinds
<1>5. visit.waits => ListsOfStudent' /\ GeneratedShown'
  BY <1>1, <1>3 DEF StudentInv, WaitsOK, ListsOfStudent, GeneratedShown, Kinds
<1>6. visit.waits /\ ~visit.others => FactorsShown'
  BY <1>1 DEF StudentInv, AloneOK, FactorsShown, AllFactors
<1> QED
  BY <1>1, <1>3, <1>4, <1>5, <1>6, EndOK DEF StudentInv, StudentTypes

-----------------------------------------------------------------------------
(* The page of a student: generating a prediction *)

LEMMA OtherGeneratesOK ==
    ASSUME StudentInv, NEW s \in Learners, OtherGenerates(s)
    PROVE  StudentInv'
<1>1. /\ visit.others /\ made' = [made EXCEPT ![s] = @ + 1]
      /\ UNCHANGED <<visit, id, turn, profile, busy, failed, list, factors, note, loads, generation>>
  BY DEF OtherGenerates, Generated, studentPage
<1>2. made' \in [Learners -> Nat] /\ \A r \in Learners : made[r] \in Nat /\ made'[r] >= made[r]
  BY <1>1, TypeFacts
<1>3. StudentTypes' /\ LoadsOK' /\ ProfileOfStudent'
  BY <1>1, <1>2 DEF StudentInv, StudentTypes, LoadsOK, Active, OfStudent, ProfileOfStudent
<1>4. GenerationOK'
  <2> SUFFICES ASSUME NEW g \in generation, g.n > 0 PROVE g.n <= made'[g.of]
    BY <1>1 DEF StudentInv, GenerationOK, OfStudent
  <2>1. g.n <= made[g.of] /\ g.of \in Learners /\ g.n \in Nat
    BY TypeFacts DEF StudentInv, GenerationOK, GenerationRecords
  <2> QED
    BY <1>2, <2>1
<1>5. ASSUME visit.waits PROVE WaitsOK'
  <2>1. WaitsOK /\ note.n \in Nat
    BY <1>5 DEF StudentInv, StudentTypes
  <2>2. note.n > 0 => note.of \in Learners /\ note.n <= made'[note.of]
    BY <1>2, <2>1 DEF WaitsOK
  <2> QED
    BY <1>1, <2>1, <2>2 DEF WaitsOK, ListsOfStudent, GeneratedShown
<1> QED
  BY <1>1, <1>3, <1>4, <1>5 DEF StudentInv

LEMMA PressOK ==
    ASSUME StudentInv, Press
    PROVE  StudentInv'
<1> DEFINE g == [of |-> id, n |-> 0, got |-> Unread]
<1>1. /\ ~busy["profile"] /\ ~failed["profile"] /\ (visit.waits => loads = {})
      /\ generation' = {g} /\ note' = [of |-> NoStudent, n |-> 0]
      /\ failed' = [failed EXCEPT !["records"] = FALSE]
      /\ UNCHANGED <<visit, made, id, turn, profile, busy, loads, list, factors>>
  BY DEF Press, server
<1>2. g \in GenerationRecords /\ g.of = id /\ g.n = 0 /\ g.got = Unread
  BY TypeFacts DEF GenerationRecords, Got, Unread
<1> HIDE DEF g
<1>3. failed' \in [Kinds -> BOOLEAN] /\ failed'["profile"] = failed["profile"]
  BY <1>1, TypeFacts DEF Kinds
<1>4. StudentTypes'
  BY <1>1, <1>2, <1>3 DEF StudentInv, StudentTypes, Ids, GenerationRecords
<1>5. LoadsOK' /\ GenerationOK' /\ ProfileOfStudent'
  BY <1>1, <1>2, <1>3 DEF StudentInv, LoadsOK, Active, OfStudent, GenerationOK, Unread,
     ProfileOfStudent
<1>6. visit.waits => WaitsOK'
  BY <1>1, <1>2 DEF WaitsOK, ListsOfStudent, GeneratedShown
<1>7. ASSUME visit.waits, ~visit.others PROVE AloneOK'
  BY <1>1, <1>2, <1>7 DEF StudentInv, AloneOK, UpToDate, Unread, FactorsShown, AllFactors
<1> QED
  BY <1>1, <1>4, <1>5, <1>6, <1>7 DEF StudentInv

LEMMA ServeGenerationOK ==
    ASSUME StudentInv, NEW g \in generation, ServeGeneration(g)
    PROVE  StudentInv'
<1> PICK h : h = [g EXCEPT !.n = made[g.of] + 1]
  OBVIOUS
<1>1. /\ g.n = 0 /\ made' = [made EXCEPT ![g.of] = @ + 1] /\ generation' = {h}
      /\ UNCHANGED <<visit, id, turn, profile, busy, failed, list, factors, note, loads>>
  BY DEF ServeGeneration, Generated, studentPage
<1>2. g \in GenerationRecords /\ g.of \in Learners /\ generation # {} /\ g.got = Unread
  BY <1>1, TypeFacts DEF StudentInv, GenerationOK, GenerationRecords
<1>3. /\ made' \in [Learners -> Nat] /\ made'[g.of] = made[g.of] + 1
      /\ \A r \in Learners : made[r] \in Nat /\ made[r] <= made'[r]
  BY <1>1, <1>2, TypeFacts
<1>4. h \in GenerationRecords /\ h.of = g.of /\ h.n = made'[g.of] /\ h.got = Unread
  BY <1>2, <1>3 DEF GenerationRecords
<1>5. StudentTypes'
  BY <1>1, <1>3, <1>4 DEF StudentInv, StudentTypes, GenerationRecords
<1>6. LoadsOK' /\ GenerationOK' /\ ProfileOfStudent'
  BY <1>1, <1>2, <1>3, <1>4 DEF StudentInv, LoadsOK, Active, OfStudent, GenerationOK, Unread,
     ProfileOfStudent
<1>7. ASSUME visit.waits PROVE WaitsOK' /\ loads = {}
  <2>1. WaitsOK /\ loads = {} /\ note.n = 0 /\ g.of = id
    BY <1>2, <1>7 DEF StudentInv, WaitsOK
  <2> QED
    BY <1>1, <1>4, <2>1 DEF WaitsOK, ListsOfStudent, GeneratedShown
<1>8. ASSUME visit.waits, ~visit.others PROVE AloneOK'
  <2>1. loads' = {} /\ FactorsShown /\ list.of \in Ids
    BY <1>1, <1>7, <1>8 DEF StudentInv, AloneOK, StudentTypes
  <2>2. UpToDate(h)'
    BY <1>4 DEF UpToDate, Unread
  <2>3. PICK s : s = list.of
    OBVIOUS
  <2>4. s \in Learners /\ OnOnePage(s)' => OnOnePage(s)
    BY <1>3, TypeFacts, MoreFactors
  <2>5. list' = list /\ factors' = factors /\ (s # NoStudent => s \in Learners)
    BY <1>1, <2>1, <2>3 DEF Ids
  <2>6. FactorsShown'
    <3> SUFFICES ASSUME s # NoStudent, list.latest > 0, OnOnePage(s)'
                 PROVE  {f.feature : f \in {x \in factors : x.of = s /\ x.n = list.latest}} = Features
      BY <2>3, <2>5 DEF FactorsShown, OnOnePage, AllFactors
    <3> QED
      BY <2>1, <2>3, <2>4, <2>5 DEF FactorsShown, OnOnePage
  <2> QED
    BY <1>1, <2>1, <2>2, <2>6 DEF AloneOK
<1> QED
  BY <1>1, <1>5, <1>6, <1>7, <1>8 DEF StudentInv

LEMMA ReadGenerationOK ==
    ASSUME StudentInv, NEW g \in generation, ReadGeneration(g)
    PROVE  StudentInv'
<1>1. PICK r \in Reads(g) : generation' = {r}
  BY DEF ReadGeneration
<1>2. /\ g.n > 0
      /\ UNCHANGED <<visit, made, id, turn, profile, busy, failed, list, factors, note, loads>>
  BY DEF ReadGeneration, server, studentPage
<1>3. /\ r \in GenerationRecords /\ r.n = g.n /\ r.of = g.of /\ OfStudent(r)
      /\ r.got.preds \subseteq g.got.preds \cup {made[g.of]}
      /\ UpToDate(g) => UpToDate(r)
      /\ g \in GenerationRecords /\ g.of \in Learners /\ g.n \in Nat
  BY ReadGenerating, TypeFacts DEF StudentInv, GenerationOK, GenerationRecords
<1>4. StudentTypes'
  BY <1>1, <1>2, <1>3 DEF StudentInv, StudentTypes, GenerationRecords
<1>5. LoadsOK' /\ ProfileOfStudent'
  BY <1>2 DEF StudentInv, LoadsOK, Active, OfStudent, ProfileOfStudent
<1>6. GenerationOK'
  <2>1. g.n <= made[g.of] /\ \A n \in g.got.preds : n >= g.n
    BY <1>2 DEF StudentInv, GenerationOK
  <2>2. \A n \in r.got.preds : n >= r.n
    BY <1>3, <2>1, TypeFacts
  <2> QED
    BY <1>1, <1>2, <1>3, <2>1, <2>2 DEF GenerationOK, OfStudent
<1>7. ASSUME visit.waits PROVE WaitsOK'
  <2>1. WaitsOK /\ generation # {} /\ g.of = id
    BY <1>7 DEF StudentInv, WaitsOK
  <2> QED
    BY <1>1, <1>2, <1>3, <2>1 DEF WaitsOK, ListsOfStudent, GeneratedShown
<1>8. ASSUME visit.waits, ~visit.others PROVE AloneOK'
  <2>1. UpToDate(r) /\ \A l \in loads : UpToDate(l)
    BY <1>3, <1>8 DEF StudentInv, AloneOK
  <2> QED
    BY <1>1, <1>2, <1>8, <2>1 DEF StudentInv, AloneOK, UpToDate, OnOnePage, AllFactors, FactorsShown
<1> QED
  BY <1>2, <1>4, <1>5, <1>6, <1>7, <1>8 DEF StudentInv

LEMMA ArriveGenerationOK ==
    ASSUME StudentInv, NEW g \in generation, ArriveGeneration(g)
    PROVE  StudentInv'
<1>1. /\ g.n > 0 /\ Complete(g) /\ generation' = {}
      /\ list' = [of |-> g.of, latest |-> Newest(g)] /\ factors' = Rows(g)
      /\ note' = [of |-> g.of, n |-> g.n]
      /\ UNCHANGED <<visit, made, id, turn, profile, busy, failed, loads>>
  BY DEF ArriveGeneration, EndGeneration, server
<1>2. /\ g \in GenerationRecords /\ g.of \in Learners /\ g.n \in Nat /\ OfStudent(g)
      /\ g.n <= made[g.of] /\ \A n \in g.got.preds : n >= g.n
  BY <1>1, TypeFacts DEF StudentInv, GenerationOK, GenerationRecords
<1>3. Newest(g) \in g.got.preds /\ Rows(g) \in g.got.rows
  BY <1>1 DEF Complete, Newest, Rows
<1>4. /\ Newest(g) \in Nat /\ Newest(g) >= g.n
      /\ Rows(g) \subseteq Factor /\ \A f \in Rows(g) : f.of = g.of
  BY <1>2, <1>3 DEF GenerationRecords, Got, OfStudent
<1>5. StudentTypes'
  BY <1>1, <1>2, <1>4 DEF StudentInv, StudentTypes, Ids
<1>6. LoadsOK' /\ GenerationOK' /\ ProfileOfStudent'
  BY <1>1 DEF StudentInv, LoadsOK, Active, OfStudent, GenerationOK, ProfileOfStudent
<1>7. ASSUME visit.waits PROVE WaitsOK'
  <2>1. loads = {} /\ g.of = id
    BY <1>7 DEF StudentInv, WaitsOK
  <2> QED
    BY <1>1, <1>2, <1>4, <2>1 DEF WaitsOK, ListsOfStudent, GeneratedShown
<1>8. ASSUME visit.waits, ~visit.others PROVE AloneOK'
  <2>1. loads = {} /\ UpToDate(g)
    BY <1>8 DEF StudentInv, WaitsOK, AloneOK
  <2>2. Newest(g) = made[g.of] /\ (OnOnePage(g.of) => Rows(g) = AllFactors(g.of))
    BY <1>3, <2>1 DEF UpToDate
  <2>3. /\ list'.of = g.of /\ list'.latest = made[g.of] /\ factors' = Rows(g)
        /\ OnOnePage(g.of)' <=> OnOnePage(g.of)
    BY <1>1, <2>2 DEF OnOnePage, AllFactors
  <2>4. made[g.of] > 0 =>
          {f.feature : f \in {x \in AllFactors(g.of) : x.of = g.of /\ x.n = made[g.of]}} = Features
    BY <1>2, NewestWhole, TypeFacts
  <2>5. FactorsShown'
    BY <1>1, <2>2, <2>3, <2>4 DEF FactorsShown, OnOnePage, AllFactors
  <2> QED
    BY <1>1, <2>1, <2>5 DEF AloneOK
<1> QED
  BY <1>1, <1>5, <1>6, <1>7, <1>8 DEF StudentInv

LEMMA FailGenerationOK ==
    ASSUME StudentInv, NEW g \in generation, FailGeneration(g)
    PROVE  StudentInv'
<1>1. /\ generation' = {} /\ failed' = [failed EXCEPT !["records"] = TRUE]
      /\ UNCHANGED <<visit, made, id, turn, profile, busy, loads, list, factors, note>>
  BY DEF FailGeneration, EndGeneration, server
<1>2. /\ failed' \in [Kinds -> BOOLEAN] /\ failed'["records"]
      /\ failed'["profile"] = failed["profile"]
  BY <1>1, TypeFacts DEF Kinds
<1>3. StudentTypes'
  BY <1>1, <1>2 DEF StudentInv, StudentTypes
<1>4. LoadsOK' /\ GenerationOK' /\ ProfileOfStudent'
  BY <1>1, <1>2 DEF StudentInv, LoadsOK, Active, OfStudent, GenerationOK, ProfileOfStudent
<1>5. visit.waits => WaitsOK'
  BY <1>1, <1>2 DEF StudentInv, WaitsOK, ListsOfStudent, GeneratedShown
<1>6. visit.waits /\ ~visit.others => AloneOK'
  BY <1>1 DEF StudentInv, AloneOK, UpToDate, OnOnePage, AllFactors, FactorsShown
<1> QED
  BY <1>1, <1>3, <1>4, <1>5, <1>6 DEF StudentInv

-----------------------------------------------------------------------------
(* The page of a student: the invariant *)

LEMMA StudentInitOK == StudentInit => StudentInv
<1> SUFFICES ASSUME StudentInit PROVE StudentInv
  OBVIOUS
<1>1. \A k \in Kinds : /\ Started(k, 1, id) \in LoadRecords /\ Started(k, 1, id).kind = k
                       /\ Started(k, 1, id).turn = 1 /\ Started(k, 1, id).of = id
                       /\ Started(k, 1, id).got = Unread
  BY DEF StudentInit, Started, LoadRecords, Got, Unread
<1>2. \A l \in loads : /\ l \in LoadRecords /\ l.kind \in Kinds /\ l.turn = 1 /\ l.of = id
                       /\ l.got = Unread
  BY <1>1 DEF StudentInit
<1>3. StudentTypes
  BY <1>2 DEF StudentInit, StudentTypes, Ids, LoadRecords
<1>4. LoadsOK /\ GenerationOK
  BY <1>2 DEF StudentInit, LoadsOK, OfStudent, Unread, GenerationOK
<1>5. ProfileOfStudent
  BY DEF StudentInit, ProfileOfStudent, Kinds
<1>6. WaitsOK
  <2>1. generation = {} /\ note.n = 0 /\ busy["records"]
    BY DEF StudentInit, Kinds
  <2> QED
    BY <1>2, <2>1 DEF WaitsOK, ListsOfStudent, GeneratedShown, Unread
<1>7. AloneOK
  BY <1>2 DEF StudentInit, AloneOK, UpToDate, Unread, FactorsShown
<1> QED
  BY <1>3, <1>4, <1>5, <1>6, <1>7 DEF StudentInv

LEMMA StudentStep == StudentInv /\ [StudentNext]_studentVars => StudentInv'
<1> SUFFICES ASSUME StudentInv, [StudentNext]_studentVars PROVE StudentInv'
  OBVIOUS
<1>1. CASE \E s \in Learners : Navigate(s) \/ OtherGenerates(s)
  BY <1>1, NavigateOK, OtherGeneratesOK
<1>2. CASE ChoosePeriod \/ Press
  BY <1>2, ChoosePeriodOK, PressOK
<1>3. CASE \E l \in loads : Read(l) \/ Finish(l)
  BY <1>3, ReadOK, ArriveProfileOK, ArriveRecordsOK, FailLoadOK DEF Finish
<1>4. CASE \E g \in generation : Advance(g) \/ Conclude(g)
  BY <1>4, ServeGenerationOK, ReadGenerationOK, ArriveGenerationOK, FailGenerationOK
     DEF Advance, Conclude
<1>5. CASE UNCHANGED studentVars
  <2>1. UNCHANGED <<visit, made, id, turn, profile, busy, failed, list, factors, note, loads,
                    generation>>
    BY <1>5 DEF studentVars, server, studentPage
  <2>2. StudentTypes' /\ LoadsOK' /\ GenerationOK' /\ ProfileOfStudent'
    BY <2>1 DEF StudentInv, StudentTypes, LoadsOK, Active, OfStudent, GenerationOK, ProfileOfStudent
  <2>3. visit.waits => WaitsOK'
    BY <2>1 DEF StudentInv, WaitsOK, ListsOfStudent, GeneratedShown
  <2>4. visit.waits /\ ~visit.others => AloneOK'
    BY <2>1 DEF StudentInv, AloneOK, UpToDate, OnOnePage, AllFactors, FactorsShown
  <2> QED
    BY <2>1, <2>2, <2>3, <2>4 DEF StudentInv
<1> QED
  BY <1>1, <1>2, <1>3, <1>4, <1>5 DEF StudentNext

LEMMA StudentInvariance == StudentSpec => []StudentInv
<1> QED
  BY StudentInitOK, StudentStep, PTL DEF StudentSpec

\* In whichever order the loads of any number of students are answered, the profile
\* on the page is that of the student in the address; and if the user waits for a
\* generation, so are the lists, the prediction that was generated is shown, or a
\* later one, and, if nobody else generates any, with all its factors.
THEOREM PagesAreOfStudent == StudentSpec => []PageOfStudent
<1>1. StudentInv => PageOfStudent
  BY DEF StudentInv, WaitsOK, AloneOK, PageOfStudent
<1> QED
  BY <1>1, StudentInvariance, PTL
=============================================================================
