----------------------- MODULE CalendarApproval_proofs -----------------------
(***************************************************************************)
(* Theorems about CalendarApproval for any number of users, contents and   *)
(* overlapping requests.  The invariant is strengthened by what a handler  *)
(* between its read and its save may be about to write (SaveOK).           *)
(***************************************************************************)
EXTENDS CalendarApproval, TLAPS

\* The columns fs of new can be written over the present row, whatever other
\* requests have done to the row since new was computed.
SaveOK(new, fs) ==
    /\ "creator" \in fs => new.creator = row.creator
    /\ "approvedBy" \in fs => (new.approvedBy # NoUser => new.approvedBy # row.creator)
    /\ "content" \in fs => new.content \in Contents
    /\ "status" \in fs =>
         /\ new.status \in Statuses
         /\ new.status = "CANCELLED" => "cancellationReason" \in fs /\ new.cancellationReason
         /\ new.status = "REJECTED" => "rejectionReason" \in fs /\ new.rejectionReason
         /\ new.status = "PUBLISHED" => endorsed.content # NoContent
    /\ "status" \notin fs => fs \cap {"cancellationReason", "rejectionReason"} = {}

\* A request in flight works on a row that exists; a request about
\* to save holds something that can be saved.
PendingOK(s) ==
    /\ req[s].pc # "idle" => Exists
    /\ req[s].pc = "save" => SaveOK(req[s].new, req[s].fields)

RowOK ==
    /\ FourEyes
    /\ ReasonRecorded
    /\ PublishedWasApproved
    /\ row.status \in OnShow => endorsed.content # NoContent
    /\ Exists => row.content \in Contents /\ row.creator \in Users
    /\ ~Exists => row.approvedBy = NoUser

IndInv == TypeOK /\ RowOK /\ \A s \in Slots : PendingOK(s)

-----------------------------------------------------------------------------
(* The three kinds of step: a read that prepares a save, a change of local  *)
(* state only, and a statement that changes the row.                        *)

\* A handler that has read the row and prepared an acceptable save.
LEMMA PrepareOK ==
    ASSUME IndInv, Exists,
           NEW s \in Slots, NEW u \in Users \cup {NoUser}, NEW new \in Row,
           NEW fs \in SUBSET Fields, NEW entry \in Entry, NEW recheck \in BOOLEAN,
           SaveOK(new, fs), Prepare(s, u, new, fs, entry, recheck)
    PROVE  IndInv'
<1> DEFINE r == [Idle EXCEPT !.pc = "save", !.user = u, !.new = new, !.fields = fs,
                             !.entry = entry, !.recheck = recheck]
<1>1. r \in Request
  BY DEF Request, Idle, NoEdit, AllEdits
<1>2. req' = [req EXCEPT ![s] = r] /\ row' = row /\ endorsed' = endorsed
  BY DEF Prepare
<1>3. TypeOK'
  BY <1>1, <1>2 DEF IndInv, TypeOK
<1>4. RowOK'
  BY <1>2 DEF IndInv, RowOK, FourEyes, ReasonRecorded, PublishedWasApproved, Exists
<1>5. ASSUME NEW t \in Slots PROVE PendingOK(t)'
  <2>1. CASE t = s
    <3>1. req'[t] = r
      BY <1>2, <2>1 DEF IndInv, TypeOK
    <3>2. r.new = new /\ r.fields = fs
      BY DEF Idle
    <3> QED
      BY <1>2, <3>1, <3>2 DEF PendingOK, SaveOK, Exists
  <2>2. CASE t # s
    <3>1. req'[t] = req[t]
      BY <1>2, <2>2 DEF IndInv, TypeOK
    <3> QED
      BY <1>2, <3>1 DEF IndInv, PendingOK, SaveOK, Exists
  <2> QED
    BY <2>1, <2>2
<1> QED
  BY <1>3, <1>4, <1>5 DEF IndInv

\* A step of one slot that touches neither the row nor the history, and does
\* not leave the slot about to save.
LEMMA LocalOK ==
    ASSUME IndInv, NEW s \in Slots, NEW r \in Request,
           r.pc # "save", r.pc # "idle" => Exists,
           req' = [req EXCEPT ![s] = r], UNCHANGED <<row, endorsed>>
    PROVE  IndInv'
<1>1. TypeOK'
  BY DEF IndInv, TypeOK
<1>2. RowOK'
  BY DEF IndInv, RowOK, FourEyes, ReasonRecorded, PublishedWasApproved, Exists
<1>3. ASSUME NEW t \in Slots PROVE PendingOK(t)'
  <2>1. CASE t = s
    BY <2>1 DEF IndInv, TypeOK, PendingOK, Exists
  <2>2. CASE t # s
    <3>1. req'[t] = req[t]
      BY <2>2 DEF IndInv, TypeOK
    <3> QED
      BY <3>1 DEF IndInv, PendingOK, SaveOK, Exists
  <2> QED
    BY <2>1, <2>2
<1> QED
  BY <1>1, <1>2, <1>3 DEF IndInv

\* A statement that stores r: r keeps the creator of a row that exists, and
\* satisfies by itself what the row must satisfy.
Storable(r) ==
    /\ r.status \in Statuses
    /\ r.content \in Contents
    /\ r.creator \in Users /\ (Exists => r.creator = row.creator)
    /\ r.approvedBy # NoUser => r.approvedBy # r.creator
    /\ ReasonsGiven(r)
    /\ r.status = "PUBLISHED" => endorsed.content # NoContent

\* A statement that changes the row to an acceptable one, with every request
\* in flight still able to save what it holds.
LEMMA StoreOK ==
    ASSUME IndInv, NEW r \in Row, NEW u \in Users \cup {NoUser},
           Storable(r), Store(r, u)
    PROVE  /\ row' \in Row
           /\ endorsed' \in [content: Contents \cup {NoContent}, by: Users \cup {NoUser}]
           /\ RowOK' /\ Exists'
           /\ Exists => \A new, fs : SaveOK(new, fs) => SaveOK(new, fs)'
<1>1. row' = r
  BY DEF Store
<1>2. endorsed' \in [content: Contents \cup {NoContent}, by: Users \cup {NoUser}]
  BY DEF Store, Storable, IndInv, TypeOK
<1>3. Exists'
  BY <1>1 DEF Exists, Storable, Statuses
<1>4. endorsed.content # NoContent => endorsed'.content # NoContent
  BY CalendarConstants DEF Store, Storable, IndInv, TypeOK
<1>5. r.status \in OnShow => endorsed'.content # NoContent
  BY CalendarConstants, <1>4
  DEF Store, Storable, OnShow, IndInv, TypeOK, RowOK
<1>6. RowOK'
  BY <1>1, <1>3, <1>5
  DEF RowOK, FourEyes, ReasonRecorded, PublishedWasApproved, Storable, OnShow, ReasonsGiven
<1>7. ASSUME Exists, NEW new, NEW fs, SaveOK(new, fs) PROVE SaveOK(new, fs)'
  BY <1>1, <1>4, <1>7 DEF SaveOK, Storable
<1> QED
  BY <1>1, <1>2, <1>3, <1>6, <1>7

-----------------------------------------------------------------------------
(* Creation *)

\* What the handlers that insert build is a row.
LEMMA NewRowOK ==
    ASSUME NEW u \in Users, NEW c \in Contents, NEW st \in Statuses,
           NEW b \in BOOLEAN
    PROVE  /\ NewRow(u, c, st, b) \in Row
           /\ NewRow(u, c, st, b).status = st
           /\ NewRow(u, c, st, b).content = c
           /\ NewRow(u, c, st, b).creator = u
           /\ NewRow(u, c, st, b).approvedBy = NoUser
           /\ NewRow(u, c, st, b).cancellationReason = b
           /\ NewRow(u, c, st, b).rejectionReason = b
BY DEF NewRow, NoRow, Row

\* While there is no row, no request is in flight.
LEMMA InsertOK ==
    ASSUME IndInv, ~Exists, NEW u \in Users, NEW c \in Contents,
           NEW st \in Statuses, st # "PUBLISHED", NEW b \in BOOLEAN,
           ReasonsGiven(NewRow(u, c, st, b)), Store(NewRow(u, c, st, b), u),
           \/ UNCHANGED req
           \/ \E s \in Slots, q \in Request :
                /\ q.pc \in {"idle", "audit"} /\ req' = [req EXCEPT ![s] = q]
    PROVE  IndInv'
<1> DEFINE r == NewRow(u, c, st, b)
<1>1. r \in Row /\ Storable(r)
  <2>1. /\ r \in Row /\ r.status = st /\ r.content = c /\ r.creator = u
        /\ r.approvedBy = NoUser
    BY NewRowOK
  <2> QED
    BY <2>1 DEF Storable
<1>2. /\ row' \in Row
      /\ endorsed' \in [content: Contents \cup {NoContent}, by: Users \cup {NoUser}]
      /\ RowOK' /\ Exists'
  BY <1>1, StoreOK
<1>3. ASSUME NEW s \in Slots PROVE req[s].pc = "idle"
  BY DEF IndInv, PendingOK
<1>4. /\ req' \in [Slots -> Request]
      /\ \A s \in Slots : req'[s].pc \in {"idle", "audit"}
  BY <1>3 DEF IndInv, TypeOK
<1> QED
  BY <1>2, <1>4 DEF IndInv, TypeOK, PendingOK

\* validate() on create yields a status of the workflow, never PUBLISHED.
LEMMA CreatedStatusOK ==
    ASSUME NEW st \in Statuses \cup {"absent"}
    PROVE  CreatedStatus(st) \in Statuses /\ CreatedStatus(st) # "PUBLISHED"
BY DEF CreatedStatus, Statuses

\* A slot whose request has ended.
LEMMA IdleTypeOK == Idle \in Request /\ Idle.pc = "idle"
BY DEF Idle, Request, NoEdit, AllEdits, NoRow, Row, NoEntry, Entry, Fields

\* Every INSERT (create, bulk-edit, occurrences, holidays) keeps the invariant.
LEMMA CreationOK ==
    ASSUME IndInv, NEW s \in Slots, NEW u \in Users,
           Create(s, u) \/ BulkInsert(s, u) \/ SystemInsert(s, u)
    PROVE  IndInv'
<1>1. CASE Create(s, u)
  <2>1. PICK c \in Contents, st \in Statuses \cup {"absent"}, b \in BOOLEAN :
          LET n == IF u \in Admins THEN CreatedStatus(st) ELSE "PENDING_APPROVAL"
          IN  /\ ReasonsGiven(NewRow(u, c, CreatedStatus(st), b))
              /\ Store(NewRow(u, c, n, b), u)
              /\ req' = [req EXCEPT ![s] = [Idle EXCEPT !.pc = "audit",
                                              !.entry = Log("CREATE", "NONE")]]
    BY <1>1 DEF Create
  <2> DEFINE n == IF u \in Admins THEN CreatedStatus(st) ELSE "PENDING_APPROVAL"
  <2>2. n \in Statuses /\ n # "PUBLISHED"
    BY CreatedStatusOK DEF Statuses
  <2>3. ReasonsGiven(NewRow(u, c, n, b))
    <3>1. CASE u \in Admins
      BY <2>1, <3>1
    <3>2. CASE u \notin Admins
      <4>1. NewRow(u, c, n, b).status = "PENDING_APPROVAL"
        BY <2>2, <3>2, NewRowOK
      <4> QED
        BY <4>1 DEF ReasonsGiven
    <3> QED
      BY <3>1, <3>2
  <2> DEFINE q == [Idle EXCEPT !.pc = "audit", !.entry = Log("CREATE", "NONE")]
  <2>4. q \in Request /\ q.pc = "audit"
    BY IdleTypeOK DEF Request, Log, Entry
  <2>5. Store(NewRow(u, c, n, b), u) /\ req' = [req EXCEPT ![s] = q] /\ ~Exists
    BY <1>1, <2>1 DEF Create
  <2> HIDE DEF n, q
  <2> QED
    BY <2>2, <2>3, <2>4, <2>5, InsertOK
<1>2. CASE BulkInsert(s, u)
  <2>1. PICK c \in Contents, st \in Statuses \cup {"absent"}, b \in BOOLEAN :
          /\ ReasonsGiven(NewRow(u, c, CreatedStatus(BulkStatus(u, st)), b))
          /\ Store(NewRow(u, c, CreatedStatus(BulkStatus(u, st)), b), u)
    BY <1>2 DEF BulkInsert
  <2>2. BulkStatus(u, st) \in Statuses
    BY DEF BulkStatus, Statuses
  <2>3. /\ CreatedStatus(BulkStatus(u, st)) \in Statuses
        /\ CreatedStatus(BulkStatus(u, st)) # "PUBLISHED"
    BY <2>2, CreatedStatusOK
  <2> QED
    BY <1>2, <2>1, <2>3, InsertOK DEF BulkInsert
<1>3. CASE SystemInsert(s, u)
  <2>1. PICK c \in Contents : Store(NewRow(u, c, "DRAFT", FALSE), u)
    BY <1>3 DEF SystemInsert
  <2>2. "DRAFT" \in Statuses
    BY DEF Statuses
  <2>3. NewRow(u, c, "DRAFT", FALSE).status = "DRAFT"
    BY <2>2, NewRowOK
  <2>4. ReasonsGiven(NewRow(u, c, "DRAFT", FALSE))
    BY <2>3 DEF ReasonsGiven
  <2> QED
    BY <1>3, <2>1, <2>2, <2>4, InsertOK DEF SystemInsert
<1> QED
  BY <1>1, <1>2, <1>3

-----------------------------------------------------------------------------
(* The workflow actions and the writers outside the view set *)

\* What a handler prepares from the row it has just read is acceptable when it
\* keeps the creator and justifies the status it writes.
LEMMA ActionOK ==
    ASSUME IndInv, NEW s \in Slots, NEW u \in Users,
           \/ SubmitForApproval(s, u) \/ Approve(s, u) \/ Reject(s, u)
           \/ Publish(s, u) \/ Cancel(s, u) \/ ImportHoliday(s, u)
    PROVE  IndInv'
<1> USE DEF IndInv, TypeOK
<1>1. CASE SubmitForApproval(s, u)
  <2> DEFINE n == [row EXCEPT !.status = "PENDING_APPROVAL"]
             e == Log("SUBMITTED_FOR_APPROVAL", row.status)
  <2>1. /\ n \in Row /\ SaveOK(n, {"status"}) /\ e \in Entry /\ Exists
        /\ {"status"} \in SUBSET Fields
    BY <1>1 DEF SubmitForApproval, Row, Statuses, SaveOK, Log, Entry, Exists, Fields
  <2>2. Prepare(s, u, n, {"status"}, e, FALSE)
    BY <1>1 DEF SubmitForApproval
  <2> QED
    BY <2>1, <2>2, PrepareOK
<1>2. CASE Approve(s, u)
  <2> DEFINE n == [row EXCEPT !.status = "APPROVED", !.approvedBy = u]
             e == Log("APPROVED", row.status)
             fs == {"status", "approvedBy"}
  <2>1. n \in Row /\ SaveOK(n, fs) /\ e \in Entry /\ Exists /\ fs \in SUBSET Fields
    BY <1>2 DEF Approve, Row, Statuses, SaveOK, Log, Entry, Exists, Fields
  <2>2. Prepare(s, u, n, fs, e, FALSE)
    BY <1>2 DEF Approve
  <2> QED
    BY <2>1, <2>2, PrepareOK
<1>3. CASE Reject(s, u)
  <2> DEFINE n == [row EXCEPT !.status = "REJECTED", !.rejectionReason = TRUE]
             e == Log("REJECTED", row.status)
             fs == {"status", "rejectionReason"}
  <2>1. n \in Row /\ SaveOK(n, fs) /\ e \in Entry /\ Exists /\ fs \in SUBSET Fields
    BY <1>3 DEF Reject, Row, Statuses, SaveOK, Log, Entry, Exists, Fields
  <2>2. Prepare(s, u, n, fs, e, FALSE)
    BY <1>3 DEF Reject
  <2> QED
    BY <2>1, <2>2, PrepareOK
<1>4. CASE Publish(s, u)
  <2> DEFINE n == [row EXCEPT !.status = "PUBLISHED", !.published = TRUE,
                              !.authorizedBy = u]
             e == Log("PUBLISHED", row.status)
             fs == {"status", "published", "authorizedBy"}
  <2>1. /\ n \in Row /\ e \in Entry /\ Exists /\ fs \in SUBSET Fields
        /\ n.status = "PUBLISHED"
    BY <1>4 DEF Publish, Row, Statuses, Log, Entry, Exists, Fields
  <2>2. endorsed.content # NoContent
    BY <1>4 DEF Publish, RowOK, OnShow
  <2>3. SaveOK(n, fs)
    BY <2>1, <2>2 DEF SaveOK, Statuses
  <2>4. Prepare(s, u, n, fs, e, FALSE)
    BY <1>4 DEF Publish
  <2> QED
    BY <2>1, <2>3, <2>4, PrepareOK
<1>5. CASE Cancel(s, u)
  <2> DEFINE n == [row EXCEPT !.status = "CANCELLED", !.cancellationReason = TRUE]
             e == Log("CANCELLED", row.status)
             fs == {"status", "cancellationReason"}
  <2>1. n \in Row /\ SaveOK(n, fs) /\ e \in Entry /\ Exists /\ fs \in SUBSET Fields
    BY <1>5 DEF Cancel, Row, Statuses, SaveOK, Log, Entry, Exists, Fields
  <2>2. Prepare(s, u, n, fs, e, FALSE)
    BY <1>5 DEF Cancel
  <2> QED
    BY <2>1, <2>2, PrepareOK
<1>6. CASE ImportHoliday(s, u)
  <2>1. PICK c \in Contents :
          Prepare(s, u, [row EXCEPT !.content = c], {"content"}, NoEntry, FALSE)
    BY <1>6 DEF ImportHoliday
  <2> DEFINE n == [row EXCEPT !.content = c]
  <2>2. /\ n \in Row /\ SaveOK(n, {"content"}) /\ NoEntry \in Entry /\ Exists
        /\ {"content"} \in SUBSET Fields
    BY <1>6 DEF ImportHoliday, Row, SaveOK, NoEntry, Entry, Exists, Fields
  <2> QED
    BY <2>1, <2>2, PrepareOK
<1> QED
  BY <1>1, <1>2, <1>3, <1>4, <1>5, <1>6

\* The UPDATE of cancel-future keeps the invariant: it writes the reason with
\* the status.
LEMMA CancelFutureOK ==
    ASSUME IndInv, NEW s \in Slots, NEW u \in Users, CancelFuture(s, u)
    PROVE  IndInv'
<1> DEFINE r == [row EXCEPT !.status = "CANCELLED", !.cancellationReason = TRUE]
<1>1. Exists
  BY DEF CancelFuture, Exists
<1>2. r \in Row
  BY DEF IndInv, TypeOK, Row, Statuses
<1>3. Storable(r)
  BY <1>1 DEF IndInv, TypeOK, Row, Storable, ReasonsGiven, RowOK, FourEyes, Statuses
<1>4. Store(r, u) /\ req' = req
  BY DEF CancelFuture
<1> HIDE DEF r
<1>5. /\ row' \in Row
      /\ endorsed' \in [content: Contents \cup {NoContent}, by: Users \cup {NoUser}]
      /\ RowOK' /\ Exists'
      /\ \A new, fs : SaveOK(new, fs) => SaveOK(new, fs)'
  BY <1>1, <1>2, <1>3, <1>4, StoreOK
<1>6. ASSUME NEW t \in Slots PROVE PendingOK(t)'
  BY <1>4, <1>5 DEF IndInv, PendingOK
<1> QED
  BY <1>4, <1>5, <1>6 DEF IndInv, TypeOK

-----------------------------------------------------------------------------
(* PUT/PATCH and the rest of every handler *)

\* In the serializer's table only APPROVED leads to PUBLISHED.
LEMMA OnlyFromApproved ==
    ASSUME NEW st \in Statuses, "PUBLISHED" \in Transitions[st]
    PROVE  st = "APPROVED"
BY DEF Transitions, Statuses

\* What validate() accepts can be saved whole over any later state of the row.
LEMMA PatchedOK ==
    ASSUME IndInv, Exists, NEW e \in AllEdits, PatchAllowed(row, e)
    PROVE  Patched(row, e) \in Row /\ SaveOK(Patched(row, e), Fields)
<1> DEFINE st == PatchedStatus(row, e)
           r == Patched(row, e)
<1>1. row \in Row /\ row.status \in Statuses /\ row.content \in Contents
  BY DEF IndInv, TypeOK, Exists, RowOK, Row
<1>2. st \in Statuses
  BY <1>1 DEF PatchedStatus, AllEdits, Statuses
<1>3. /\ r \in Row
      /\ r.status = st /\ r.creator = row.creator /\ r.approvedBy = row.approvedBy
      /\ r.content \in Contents
  <2>1. (IF Changed(row, e) THEN e.content ELSE row.content) \in Contents
    BY <1>1 DEF Changed
  <2>2. \A old \in BOOLEAN :
          (IF e.reasons = "keep" THEN old ELSE e.reasons = "give") \in BOOLEAN
    OBVIOUS
  <2>3. (row.published \/ st = "PUBLISHED") \in BOOLEAN
    OBVIOUS
  <2> HIDE DEF st
  <2> QED
    BY <1>1, <1>2, <2>1, <2>2, <2>3 DEF Patched, Row, st
<1>4. ReasonsGiven(r)
  BY DEF PatchAllowed
<1>5. st = "PUBLISHED" => endorsed.content # NoContent
  <2> SUFFICES ASSUME st = "PUBLISHED" PROVE row.status \in OnShow
    BY DEF IndInv, RowOK
  <2>1. st = row.status \/ st \in Transitions[row.status]
    BY DEF PatchAllowed
  <2> QED
    BY <1>1, <2>1, OnlyFromApproved DEF OnShow
<1> HIDE DEF st, r
<1>6. SaveOK(r, Fields)
  BY <1>2, <1>3, <1>4, <1>5 DEF SaveOK, Fields, ReasonsGiven, IndInv, RowOK, FourEyes
<1> QED
  BY <1>3, <1>6 DEF r

\* The reads of PUT/PATCH and bulk-edit's replacement keep the invariant.
LEMMA PatchOK ==
    ASSUME IndInv, NEW s \in Slots, NEW u \in Users,
           Patch(s, u) \/ BulkReplace(s, u)
    PROVE  IndInv'
<1>1. CASE Patch(s, u)
  <2>1. PICK e \in Edits :
          req' = [req EXCEPT ![s] = [Idle EXCEPT !.pc = "patch", !.user = u, !.edit = e,
                     !.recheck = RawChange(row, e) /\ row.status \in OnShow]]
    BY <1>1 DEF Patch
  <2> DEFINE b == RawChange(row, e) /\ row.status \in OnShow
             r == [Idle EXCEPT !.pc = "patch", !.user = u, !.edit = e, !.recheck = b]
  <2>2. e \in AllEdits
    BY CalendarConstants
  <2>3. b \in BOOLEAN
    BY DEF RawChange
  <2> HIDE DEF b
  <2>4. r \in Request /\ r.pc = "patch"
    BY <2>2, <2>3, IdleTypeOK DEF Request
  <2>5. Exists /\ UNCHANGED <<row, endorsed>>
    BY <1>1 DEF Patch
  <2>6. req' = [req EXCEPT ![s] = r]
    BY <2>1 DEF b
  <2> HIDE DEF r
  <2> QED
    BY <2>4, <2>5, <2>6, LocalOK
<1>2. CASE BulkReplace(s, u)
  <2>1. PICK e0 \in Edits :
          LET e == [e0 EXCEPT !.status = BulkStatus(u, e0.status)]
          IN  /\ PatchAllowed(row, e)
              /\ Prepare(s, u, Patched(row, e), Fields, NoEntry, FALSE)
    BY <1>2 DEF BulkReplace
  <2> DEFINE e == [e0 EXCEPT !.status = BulkStatus(u, e0.status)]
  <2>2. e \in AllEdits
    <3>1. e0 \in AllEdits
      BY CalendarConstants
    <3>2. BulkStatus(u, e0.status) \in Statuses
      BY <3>1 DEF BulkStatus, AllEdits, Statuses
    <3> QED
      BY <3>1, <3>2 DEF AllEdits
  <2>3. Exists /\ NoEntry \in Entry
    BY <1>2 DEF BulkReplace, NoEntry, Entry
  <2> HIDE DEF e
  <2>4. Patched(row, e) \in Row /\ SaveOK(Patched(row, e), Fields)
    BY <2>1, <2>2, <2>3, PatchedOK DEF e
  <2>5. Prepare(s, u, Patched(row, e), Fields, NoEntry, FALSE)
    BY <2>1 DEF e
  <2> QED
    BY <2>3, <2>4, <2>5, PrepareOK
<1> QED
  BY <1>1, <1>2

\* A save keeps the invariant, whatever happened since its handler's read.
LEMMA SaveStepOK ==
    ASSUME IndInv, NEW s \in Slots, Save(s)
    PROVE  IndInv'
<1> DEFINE new == req[s].new
           fs == req[s].fields
           r == Merge(row, new, fs)
           q == IF req[s].entry = NoEntry THEN Idle
                ELSE [Idle EXCEPT !.pc = "audit", !.entry = req[s].entry,
                                  !.recheck = req[s].recheck]
<1>1. req[s] \in Request /\ req[s].pc = "save"
  BY DEF Save, IndInv, TypeOK
<1>2. Exists /\ SaveOK(new, fs)
  BY <1>1 DEF IndInv, PendingOK
<1>3. new \in Row /\ row \in Row /\ req[s].user \in Users \cup {NoUser}
  BY <1>1 DEF IndInv, TypeOK, Request
<1>4. Store(r, req[s].user) /\ req' = [req EXCEPT ![s] = q]
  BY DEF Save
<1>5. q \in Request /\ q.pc \in {"idle", "audit"}
  BY <1>1, IdleTypeOK DEF Request
<1> HIDE DEF q, new, fs
<1>6. r \in Row
  BY <1>3 DEF Merge, Row
<1>7. Storable(r)
  <2>1. r.creator = row.creator /\ row.creator \in Users
    BY <1>2 DEF Merge, SaveOK, IndInv, RowOK
  <2>2. r.status \in Statuses /\ r.content \in Contents
    BY <1>2, <1>3 DEF Merge, SaveOK, IndInv, RowOK, Exists, Row
  <2>3. r.approvedBy # NoUser => r.approvedBy # r.creator
    BY <1>2, <2>1 DEF Merge, SaveOK, IndInv, RowOK, FourEyes
  <2>4. ReasonsGiven(r)
    BY <1>2 DEF Merge, SaveOK, IndInv, RowOK, ReasonRecorded, ReasonsGiven
  <2>5. r.status = "PUBLISHED" => endorsed.content # NoContent
    BY <1>2 DEF Merge, SaveOK, IndInv, RowOK, PublishedWasApproved
  <2> QED
    BY <2>1, <2>2, <2>3, <2>4, <2>5 DEF Storable
<1> HIDE DEF r
<1>8. /\ row' \in Row
      /\ endorsed' \in [content: Contents \cup {NoContent}, by: Users \cup {NoUser}]
      /\ RowOK' /\ Exists'
      /\ \A n, f : SaveOK(n, f) => SaveOK(n, f)'
  BY <1>2, <1>3, <1>4, <1>6, <1>7, StoreOK
<1>9. ASSUME NEW t \in Slots PROVE PendingOK(t)'
  <2>1. CASE t = s
    BY <1>4, <1>5, <1>8, <2>1 DEF IndInv, TypeOK, PendingOK
  <2>2. CASE t # s
    <3>1. req'[t] = req[t]
      BY <1>4, <2>2 DEF IndInv, TypeOK
    <3> QED
      BY <1>8, <3>1 DEF IndInv, PendingOK
  <2> QED
    BY <2>1, <2>2
<1>10. req' \in [Slots -> Request]
  BY <1>4, <1>5 DEF IndInv, TypeOK
<1> QED
  BY <1>8, <1>9, <1>10 DEF IndInv, TypeOK

\* Every later step of a request, a crash included, keeps the invariant.
LEMMA ContinueOK ==
    ASSUME IndInv, NEW s \in Slots, Continue(s)
    PROVE  IndInv'
<1> USE DEF IndInv, TypeOK
<1>1. CASE PatchValidate(s)
  <2> DEFINE r == Patched(row, req[s].edit)
  <2>1. req[s] \in Request /\ req[s].pc = "patch" /\ PatchAllowed(row, req[s].edit)
    BY <1>1 DEF PatchValidate
  <2>2. Exists
    BY <2>1 DEF PendingOK
  <2>3. /\ req[s].edit \in AllEdits /\ req[s].user \in Users \cup {NoUser}
        /\ req[s].recheck \in BOOLEAN
    BY <2>1 DEF Request
  <2>4. r \in Row /\ SaveOK(r, Fields)
    BY <2>1, <2>2, <2>3, PatchedOK
  <2>5. Log("UPDATE", r.status) \in Entry /\ Fields \in SUBSET Fields
    BY <2>4 DEF Log, Entry, Row
  <2>6. Prepare(s, req[s].user, r, Fields, Log("UPDATE", r.status), req[s].recheck)
    BY <1>1 DEF PatchValidate
  <2> HIDE DEF r
  <2> QED
    BY <2>2, <2>3, <2>4, <2>5, <2>6, PrepareOK
<1>2. CASE PatchRefused(s) \/ Crash(s)
  BY <1>2, IdleTypeOK, LocalOK DEF PatchRefused, Crash
<1>3. CASE Recheck(s)
  <2> DEFINE n == [row EXCEPT !.status = "PENDING_APPROVAL", !.approvedBy = NoUser,
                              !.authorizedBy = NoUser, !.published = FALSE]
             fs == {"status", "approvedBy", "authorizedBy", "published"}
             e == Log("REAPPROVAL_REQUIRED", "NONE")
  <2>1. Exists
    BY <1>3 DEF Recheck, PendingOK
  <2>2. CASE row.status \in OnShow
    <3>1. n \in Row /\ SaveOK(n, fs) /\ e \in Entry /\ fs \in SUBSET Fields
      BY <2>2 DEF Row, Statuses, SaveOK, Log, Entry, Fields
    <3>2. Prepare(s, NoUser, n, fs, e, FALSE)
      BY <1>3, <2>2 DEF Recheck
    <3> QED
      BY <2>1, <3>1, <3>2, PrepareOK
  <2>3. CASE row.status \notin OnShow
    BY <1>3, <2>3, IdleTypeOK, LocalOK DEF Recheck
  <2> QED
    BY <2>2, <2>3
<1>4. CASE Save(s)
  BY <1>4, SaveStepOK
<1>5. CASE Audit(s)
  <2>1. Exists
    BY <1>5 DEF Audit, PendingOK
  <2> DEFINE q == [Idle EXCEPT !.pc = "recheck"]
  <2>2. q \in Request /\ q.pc = "recheck"
    BY IdleTypeOK DEF Request
  <2>3. \/ req' = [req EXCEPT ![s] = q]
        \/ req' = [req EXCEPT ![s] = Idle]
    BY <1>5 DEF Audit
  <2>4. UNCHANGED <<row, endorsed>>
    BY <1>5 DEF Audit
  <2> HIDE DEF q
  <2> QED
    BY <2>1, <2>2, <2>3, <2>4, IdleTypeOK, LocalOK
<1> QED
  BY <1>1, <1>2, <1>3, <1>4, <1>5 DEF Continue

-----------------------------------------------------------------------------
(* The theorems *)

\* The invariant holds before the entry exists.
THEOREM InitOK == Init => IndInv
BY CalendarConstants, IdleTypeOK
DEF Init, IndInv, TypeOK, RowOK, FourEyes, ReasonRecorded, ReasonsGiven, PublishedWasApproved,
    OnShow, Exists, PendingOK, NoRow, Row

\* Every step keeps the invariant.
THEOREM NextOK == IndInv /\ [Next]_vars => IndInv'
<1> SUFFICES ASSUME IndInv, [Next]_vars PROVE IndInv'
  OBVIOUS
<1>1. ASSUME NEW s \in Slots, NEW u \in Users, Begin(s, u) PROVE IndInv'
  BY <1>1, CreationOK, ActionOK, PatchOK, CancelFutureOK DEF Begin
<1>2. ASSUME NEW s \in Slots, Continue(s) PROVE IndInv'
  BY <1>2, ContinueOK
<1>3. CASE UNCHANGED vars
  BY <1>3 DEF vars, IndInv, TypeOK, RowOK, FourEyes, ReasonRecorded,
      PublishedWasApproved, Exists, PendingOK, SaveOK
<1> QED
  BY <1>1, <1>2, <1>3 DEF Next

\* The inductive invariant, for every number of users and overlapping requests.
THEOREM Invariance == Spec => []IndInv
BY InitOK, NextOK, PTL DEF Spec

\* Type correctness.
THEOREM TypeCorrect == Spec => []TypeOK
<1>1. IndInv => TypeOK
  BY DEF IndInv
<1> QED
  BY <1>1, Invariance, PTL

\* However approve, PATCH, bulk-edit and reapproval interleave, approved_by is
\* never the creator.
THEOREM ApproverIsNotCreator == Spec => []FourEyes
<1>1. IndInv => FourEyes
  BY DEF IndInv, RowOK
<1> QED
  BY <1>1, Invariance, PTL

\* However they interleave, a cancelled or rejected entry has its reason.
THEOREM ReasonsAreKept == Spec => []ReasonRecorded
<1>1. IndInv => ReasonRecorded
  BY DEF IndInv, RowOK
<1> QED
  BY <1>1, Invariance, PTL

\* However they interleave, nothing is published that was never approved.
THEOREM NothingPublishedUnapproved == Spec => []PublishedWasApproved
<1>1. IndInv => PublishedWasApproved
  BY DEF IndInv, RowOK
<1> QED
  BY <1>1, Invariance, PTL

-----------------------------------------------------------------------------
(* Requests about the entry that do not overlap: the promises to readers     *)

OneAtATime == \A s, t \in Slots : s = t

\* The workflow lets the row become r: its creator stays, it is edited in
\* place while it is not on show, or it moves.
Lawful(r) ==
    /\ r.creator = row.creator
    /\ r.content \in Contents
    /\ \/ /\ r.status = row.status /\ r.approvedBy = row.approvedBy
          /\ row.status \in OnShow => r.content = row.content
       \/ /\ <<row.status, r.status>> \in Workflow!Moves
          /\ row.status \in OnShow /\ r.status # "PENDING_APPROVAL" => r.content = row.content
          /\ r.approvedBy \in (Users \cup {NoUser}) \ {row.creator}

\* The audit entries whose previous_status says what the save replaces.
Honest(entry) ==
    \/ entry = NoEntry
    \/ entry.action \in {"UPDATE", "REAPPROVAL_REQUIRED"}
    \/ entry.prev = row.status

\* The row has not changed since the request about to save read it.
SerialOK(s) ==
    req[s].pc = "save" =>
        Lawful(Merge(row, req[s].new, req[s].fields)) /\ Honest(req[s].entry)

SerialInv == EndorsedOnShow /\ \A s \in Slots : SerialOK(s)

\* A handler that has prepared a lawful save.
LEMMA PrepareLawful ==
    ASSUME IndInv, SerialInv, OneAtATime,
           NEW s \in Slots, NEW u, NEW new, NEW fs, NEW entry, NEW recheck,
           Lawful(Merge(row, new, fs)), Honest(entry),
           Prepare(s, u, new, fs, entry, recheck)
    PROVE  SerialInv'
<1> DEFINE q == [Idle EXCEPT !.pc = "save", !.user = u, !.new = new, !.fields = fs,
                             !.entry = entry, !.recheck = recheck]
<1>1. req' = [req EXCEPT ![s] = q] /\ row' = row /\ endorsed' = endorsed
  BY DEF Prepare
<1>2. q.new = new /\ q.fields = fs /\ q.entry = entry
  BY DEF Idle
<1> HIDE DEF q
<1>3. req'[s] = q
  BY <1>1 DEF IndInv, TypeOK
<1>4. EndorsedOnShow'
  BY <1>1 DEF SerialInv, EndorsedOnShow
<1>5. SerialOK(s)'
  BY <1>1, <1>2, <1>3 DEF SerialOK, Lawful, Honest, Merge
<1> QED
  BY <1>4, <1>5 DEF SerialInv, OneAtATime

\* A step after which nobody is about to save, and which stores a lawful row or none.
LEMMA SettledLawful ==
    ASSUME SerialInv, NEW u,
           \A s \in Slots : req'[s].pc # "save",
           \/ UNCHANGED <<row, endorsed>>
           \/ \E r : Store(r, u) /\ Lawful(r)
    PROVE  SerialInv'
<1>1. ASSUME NEW r, Store(r, u), Lawful(r) PROVE EndorsedOnShow'
  <2>1. row' = r /\ (r.status = "APPROVED" /\ row.status # "APPROVED" => endorsed'.content = r.content)
    BY <1>1 DEF Store
  <2>2. ~(r.status = "APPROVED" /\ row.status # "APPROVED") => endorsed' = endorsed
    BY <1>1 DEF Store
  <2>3. <<row.status, r.status>> \in Workflow!Moves /\ r.status = "PUBLISHED" => row.status = "APPROVED"
    BY DEF Workflow!Moves
  <2> QED
    BY <1>1, <2>1, <2>2, <2>3 DEF Lawful, SerialInv, EndorsedOnShow, OnShow
<1>2. CASE UNCHANGED <<row, endorsed>>
  BY <1>2 DEF SerialInv, EndorsedOnShow, SerialOK
<1> QED
  BY <1>1, <1>2 DEF SerialInv, SerialOK

\* What each workflow handler prepares, a move out of the status it has read.
LEMMA ActionLawful ==
    ASSUME IndInv, SerialInv, OneAtATime, NEW s \in Slots, NEW u \in Users,
           \/ SubmitForApproval(s, u) \/ Approve(s, u) \/ Reject(s, u)
           \/ Publish(s, u) \/ Cancel(s, u)
    PROVE  SerialInv'
<1> USE DEF Honest, Log
<1>1. Exists => /\ row \in Row /\ row.status \in Statuses /\ row.content \in Contents
                /\ row.approvedBy \in (Users \cup {NoUser}) \ {row.creator}
  BY CalendarConstants DEF IndInv, TypeOK, RowOK, FourEyes, Exists, Row
<1>2. CASE SubmitForApproval(s, u)
  <2> DEFINE n == [row EXCEPT !.status = "PENDING_APPROVAL"]
  <2>1. Lawful(Merge(row, n, {"status"}))
    BY <1>1, <1>2 DEF SubmitForApproval, Row, Exists, OnShow, Workflow!Moves, Lawful, Merge
  <2> QED
    BY <1>2, <2>1, PrepareLawful DEF SubmitForApproval
<1>3. CASE Approve(s, u)
  <2> DEFINE n == [row EXCEPT !.status = "APPROVED", !.approvedBy = u]
  <2>1. Lawful(Merge(row, n, {"status", "approvedBy"}))
    BY <1>1, <1>3 DEF Approve, Row, Exists, OnShow, Workflow!Moves, Lawful, Merge
  <2> QED
    BY <1>3, <2>1, PrepareLawful DEF Approve
<1>4. CASE Reject(s, u)
  <2> DEFINE n == [row EXCEPT !.status = "REJECTED", !.rejectionReason = TRUE]
  <2>1. Lawful(Merge(row, n, {"status", "rejectionReason"}))
    BY <1>1, <1>4 DEF Reject, Row, Exists, OnShow, Workflow!Moves, Lawful, Merge
  <2> QED
    BY <1>4, <2>1, PrepareLawful DEF Reject
<1>5. CASE Publish(s, u)
  <2> DEFINE n == [row EXCEPT !.status = "PUBLISHED", !.published = TRUE,
                              !.authorizedBy = u]
  <2>1. Lawful(Merge(row, n, {"status", "published", "authorizedBy"}))
    BY <1>1, <1>5 DEF Publish, Row, Exists, OnShow, Workflow!Moves, Lawful, Merge
  <2>2. /\ Prepare(s, u, n, {"status", "published", "authorizedBy"},
                   Log("PUBLISHED", row.status), FALSE)
        /\ Honest(Log("PUBLISHED", row.status))
    BY <1>5 DEF Publish
  <2> HIDE DEF n
  <2> QED
    BY <2>1, <2>2, PrepareLawful
<1>6. CASE Cancel(s, u)
  <2> DEFINE n == [row EXCEPT !.status = "CANCELLED", !.cancellationReason = TRUE]
  <2>1. Lawful(Merge(row, n, {"status", "cancellationReason"}))
    <3>1. row.status = "CANCELLED" \/ <<row.status, "CANCELLED">> \in Workflow!Moves
      BY <1>1, <1>6 DEF Cancel, Statuses, Workflow!Moves
    <3> QED
      BY <1>1, <1>6, <3>1 DEF Cancel, Row, Exists, OnShow, Lawful, Merge
  <2> QED
    BY <1>6, <2>1, PrepareLawful DEF Cancel
<1> QED
  BY <1>2, <1>3, <1>4, <1>5, <1>6

\* In the serializer's table every transition is a move of the workflow.
LEMMA TransitionsAreMoves ==
    ASSUME NEW from \in Statuses, NEW to \in Transitions[from]
    PROVE  <<from, to>> \in Workflow!Moves
BY DEF Transitions, Statuses, Workflow!Moves

\* So is what validate() accepts, or it edits the entry in place.
LEMMA PatchedLawful ==
    ASSUME IndInv, Exists, NEW e \in AllEdits, PatchAllowed(row, e)
    PROVE  Lawful(Merge(row, Patched(row, e), Fields))
<1> DEFINE st == PatchedStatus(row, e)
           r == Merge(row, Patched(row, e), Fields)
<1>1. /\ row \in Row /\ row.status \in Statuses /\ row.content \in Contents
      /\ row.approvedBy \in (Users \cup {NoUser}) \ {row.creator}
  BY CalendarConstants DEF IndInv, TypeOK, RowOK, FourEyes, Exists, Row
<1>2. /\ r.status = st /\ r.creator = row.creator /\ r.approvedBy = row.approvedBy
      /\ r.content = IF Changed(row, e) THEN e.content ELSE row.content
  BY <1>1 DEF Merge, Patched, Fields, Row
<1>3. st = row.status \/ <<row.status, st>> \in Workflow!Moves
  BY <1>1, TransitionsAreMoves DEF PatchAllowed
<1>4. row.status \in OnShow /\ Changed(row, e) => st = "PENDING_APPROVAL"
  BY DEF PatchedStatus
<1> HIDE DEF st, r
<1>5. r.content \in Contents
  BY <1>1, <1>2 DEF Changed
<1>6. st = row.status /\ row.status \in OnShow => r.content = row.content
  BY <1>2, <1>4 DEF OnShow
<1>7. Lawful(r)
  BY <1>1, <1>2, <1>3, <1>4, <1>5, <1>6 DEF Lawful
<1> QED
  BY <1>7 DEF r

\* An entry that enters the calendar.
LEMMA InsertLawful ==
    ASSUME IndInv, ~Exists, NEW u \in Users, NEW c \in Contents, NEW st \in Statuses,
           st # "PUBLISHED", NEW b \in BOOLEAN, Store(NewRow(u, c, st, b), u),
           \A s \in Slots : req'[s].pc # "save"
    PROVE  SerialInv' /\ Workflow!Enter
<1>1. /\ row'.status = st /\ row'.content = c /\ row'.creator = u /\ row'.approvedBy = NoUser
      /\ endorsed'.content = IF st = "APPROVED" THEN c ELSE endorsed.content
  BY NewRowOK DEF Store, Exists
<1>2. SerialInv'
  BY <1>1 DEF SerialInv, SerialOK, EndorsedOnShow, OnShow
<1>3. row.status = "NONE" /\ row.approvedBy = NoUser
  BY DEF Exists, IndInv, RowOK
<1>4. Workflow!Enter
  BY <1>1, <1>3 DEF Workflow!Enter, Statuses
<1> QED
  BY <1>2, <1>4

\* A lawful row is stored: an edit, a move, or nothing that readers see.
LEMMA StoreMoves ==
    ASSUME IndInv, Exists, NEW r, NEW u, Store(r, u), Lawful(r)
    PROVE  [Workflow!Next]_(Workflow!vars)
<1>1. /\ row' = r /\ row.status \in Statuses
      /\ endorsed'.content = IF r.status = "APPROVED" /\ row.status # "APPROVED"
                             THEN r.content ELSE endorsed.content
  BY DEF Store, IndInv, TypeOK, Exists, Row
<1>2. CASE r.status = row.status /\ row.status \in OnShow
  <2>1. r.content = row.content /\ r.approvedBy = row.approvedBy
    BY <1>2 DEF Lawful, Workflow!Moves, OnShow
  <2> QED
    BY <1>1, <1>2, <2>1 DEF Lawful, Workflow!vars
<1>3. CASE r.status = row.status /\ row.status \notin OnShow
  <2>1. r.approvedBy = row.approvedBy
    BY <1>3 DEF Lawful, Workflow!Moves
  <2> QED
    BY <1>1, <1>3, <2>1 DEF Lawful, Workflow!Next, Workflow!Edit, Workflow!OnShow, OnShow,
                             Statuses
<1>4. CASE r.status # row.status
  BY <1>1, <1>4 DEF Lawful, Workflow!Next, Workflow!Move, Workflow!OnShow, OnShow, Workflow!Moves
<1> QED
  BY <1>2, <1>3, <1>4

\* While there is no entry, what enters is a draft, a proposal or an approved entry.
LEMMA CreationLawful ==
    ASSUME IndInv, NEW s \in Slots, NEW u \in Users,
           Create(s, u) \/ BulkInsert(s, u) \/ SystemInsert(s, u)
    PROVE  SerialInv' /\ Workflow!Enter
<1>1. ~Exists /\ \A t \in Slots : req[t].pc = "idle"
  BY DEF Create, BulkInsert, SystemInsert, IndInv, PendingOK
<1>2. \A t \in Slots : req'[t].pc # "save"
  <2>1. CASE Create(s, u)
    <3> DEFINE q == [Idle EXCEPT !.pc = "audit", !.entry = Log("CREATE", "NONE")]
    <3>1. req' = [req EXCEPT ![s] = q]
      BY <2>1 DEF Create
    <3>2. q.pc = "audit"
      BY DEF Idle
    <3> HIDE DEF q
    <3> QED
      BY <1>1, <3>1, <3>2 DEF IndInv, TypeOK
  <2>2. CASE BulkInsert(s, u) \/ SystemInsert(s, u)
    BY <1>1, <2>2 DEF BulkInsert, SystemInsert
  <2> QED
    BY <2>1, <2>2
<1>3. PICK c \in Contents, st \in Statuses, b \in BOOLEAN :
        st # "PUBLISHED" /\ Store(NewRow(u, c, st, b), u)
  <2>1. CASE Create(s, u)
    <3>1. PICK c \in Contents, st \in Statuses \cup {"absent"}, b \in BOOLEAN :
            Store(NewRow(u, c, IF u \in Admins THEN CreatedStatus(st)
                               ELSE "PENDING_APPROVAL", b), u)
      BY <2>1 DEF Create
    <3> DEFINE n == IF u \in Admins THEN CreatedStatus(st) ELSE "PENDING_APPROVAL"
    <3>2. n \in Statuses /\ n # "PUBLISHED"
      BY CreatedStatusOK DEF Statuses
    <3> QED
      BY <3>1, <3>2
  <2>2. CASE BulkInsert(s, u)
    <3>1. PICK c \in Contents, st \in Statuses \cup {"absent"}, b \in BOOLEAN :
            Store(NewRow(u, c, CreatedStatus(BulkStatus(u, st)), b), u)
      BY <2>2 DEF BulkInsert
    <3>2. BulkStatus(u, st) \in Statuses
      BY DEF BulkStatus, Statuses
    <3> QED
      BY <3>1, <3>2, CreatedStatusOK
  <2>3. CASE SystemInsert(s, u)
    BY <2>3 DEF SystemInsert, Statuses
  <2> QED
    BY <2>1, <2>2, <2>3
<1> QED
  BY <1>1, <1>2, <1>3, InsertLawful

\* What is read or written in PATCH and the later steps of a request is lawful too.
LEMMA ContinueLawful ==
    ASSUME IndInv, SerialInv, OneAtATime, NEW s \in Slots, Continue(s)
    PROVE  SerialInv' /\ [Workflow!Next]_(Workflow!vars)
<1>1. CASE PatchValidate(s)
  <2> DEFINE r == Patched(row, req[s].edit)
             entry == Log("UPDATE", r.status)
  <2>1. /\ Exists /\ req[s].edit \in AllEdits /\ PatchAllowed(row, req[s].edit)
        /\ Prepare(s, req[s].user, r, Fields, entry, req[s].recheck)
    BY <1>1 DEF PatchValidate, IndInv, PendingOK, TypeOK, Request
  <2>2. Lawful(Merge(row, r, Fields)) /\ Honest(entry)
    BY <2>1, PatchedLawful DEF Honest, Log
  <2> HIDE DEF r, entry
  <2>3. SerialInv'
    BY <2>1, <2>2, PrepareLawful
  <2> QED
    BY <2>1, <2>3 DEF Prepare, Workflow!vars
<1>2. CASE PatchRefused(s) \/ Crash(s) \/ Audit(s)
  <2>1. req'[s].pc # "save"
    <3>1. Idle.pc = "idle" /\ [Idle EXCEPT !.pc = "recheck"].pc = "recheck"
      BY DEF Idle
    <3> QED
      BY <1>2, <3>1 DEF PatchRefused, Crash, Audit, IndInv, TypeOK
  <2>2. UNCHANGED <<row, endorsed>>
    BY <1>2 DEF PatchRefused, Crash, Audit
  <2>3. SerialInv'
    BY <2>1, <2>2, SettledLawful DEF OneAtATime
  <2> QED
    BY <2>2, <2>3 DEF Workflow!vars
<1>3. CASE Recheck(s)
  <2> DEFINE n == [row EXCEPT !.status = "PENDING_APPROVAL", !.approvedBy = NoUser,
                              !.authorizedBy = NoUser, !.published = FALSE]
             fs == {"status", "approvedBy", "authorizedBy", "published"}
             entry == Log("REAPPROVAL_REQUIRED", "NONE")
  <2>1. CASE row.status \in OnShow
    <3>1. Prepare(s, NoUser, n, fs, entry, FALSE) /\ Honest(entry)
      BY <1>3, <2>1 DEF Recheck, Honest, Log
    <3>2. Lawful(Merge(row, n, fs))
      <4>1. row \in Row /\ row.content \in Contents /\ row.creator \in Users
        BY <2>1 DEF IndInv, TypeOK, RowOK, Exists, OnShow
      <4> QED
        BY <2>1, <4>1, CalendarConstants DEF Lawful, Merge, Row, OnShow, Workflow!Moves
    <3> HIDE DEF n, fs, entry
    <3>3. SerialInv'
      BY <3>1, <3>2, PrepareLawful
    <3> QED
      BY <3>1, <3>3 DEF Prepare, Workflow!vars
  <2>2. CASE row.status \notin OnShow
    <3>1. req'[s].pc # "save" /\ UNCHANGED <<row, endorsed>>
      BY <1>3, <2>2, IdleTypeOK DEF Recheck, IndInv, TypeOK
    <3>2. SerialInv'
      BY <3>1, SettledLawful DEF OneAtATime
    <3> QED
      BY <3>1, <3>2 DEF Workflow!vars
  <2> QED
    BY <2>1, <2>2
<1>4. CASE Save(s)
  <2> DEFINE r == Merge(row, req[s].new, req[s].fields)
  <2>1. Store(r, req[s].user) /\ Lawful(r) /\ Exists
    BY <1>4 DEF Save, SerialInv, SerialOK, IndInv, PendingOK
  <2> HIDE DEF r
  <2>2. req'[s].pc # "save"
    <3> DEFINE q == [Idle EXCEPT !.pc = "audit", !.entry = req[s].entry,
                                 !.recheck = req[s].recheck]
    <3>1. q.pc = "audit" /\ Idle.pc = "idle"
      BY DEF Idle
    <3>2. req' = [req EXCEPT ![s] = Idle] \/ req' = [req EXCEPT ![s] = q]
      BY <1>4 DEF Save
    <3> HIDE DEF q
    <3> QED
      BY <3>1, <3>2 DEF IndInv, TypeOK
  <2>3. SerialInv'
    BY <2>1, <2>2, SettledLawful DEF OneAtATime
  <2> QED
    BY <2>1, <2>3, StoreMoves
<1> QED
  BY <1>1, <1>2, <1>3, <1>4 DEF Continue

\* And so is what PATCH and bulk-edit read, and the UPDATE of cancel-future.
LEMMA EditLawful ==
    ASSUME IndInv, SerialInv, OneAtATime, NEW s \in Slots, NEW u \in Users,
           Patch(s, u) \/ BulkReplace(s, u) \/ CancelFuture(s, u)
    PROVE  SerialInv' /\ [Workflow!Next]_(Workflow!vars)
<1>1. CASE Patch(s, u)
  <2>1. PICK e \in Edits, b \in BOOLEAN :
          req' = [req EXCEPT ![s] = [Idle EXCEPT !.pc = "patch", !.user = u, !.edit = e,
                                                 !.recheck = b]]
    BY <1>1 DEF Patch, RawChange
  <2> DEFINE q == [Idle EXCEPT !.pc = "patch", !.user = u, !.edit = e, !.recheck = b]
  <2>2. q.pc = "patch"
    BY DEF Idle
  <2>3. req'[s] = q
    BY <2>1 DEF IndInv, TypeOK
  <2> HIDE DEF q
  <2>4. req'[s].pc # "save" /\ UNCHANGED <<row, endorsed>>
    BY <1>1, <2>2, <2>3 DEF Patch
  <2>5. SerialInv'
    BY <2>4, SettledLawful DEF OneAtATime
  <2> QED
    BY <2>4, <2>5 DEF Workflow!vars
<1>2. CASE BulkReplace(s, u)
  <2>1. PICK e0 \in Edits :
          LET e == [e0 EXCEPT !.status = BulkStatus(u, e0.status)]
          IN  /\ PatchAllowed(row, e)
              /\ Prepare(s, u, Patched(row, e), Fields, NoEntry, FALSE)
    BY <1>2 DEF BulkReplace
  <2> DEFINE e == [e0 EXCEPT !.status = BulkStatus(u, e0.status)]
  <2>2. e \in AllEdits /\ Exists
    <3>1. e0 \in AllEdits
      BY CalendarConstants
    <3>2. BulkStatus(u, e0.status) \in Statuses
      BY <3>1 DEF BulkStatus, AllEdits, Statuses
    <3> QED
      BY <1>2, <3>1, <3>2 DEF AllEdits, BulkReplace
  <2>3. PatchAllowed(row, e) /\ Prepare(s, u, Patched(row, e), Fields, NoEntry, FALSE)
    BY <2>1
  <2> HIDE DEF e
  <2>4. Lawful(Merge(row, Patched(row, e), Fields)) /\ Honest(NoEntry)
    BY <2>2, <2>3, PatchedLawful DEF Honest, NoEntry
  <2>5. SerialInv'
    BY <2>3, <2>4, PrepareLawful
  <2> QED
    BY <2>3, <2>5 DEF Prepare, Workflow!vars
<1>3. CASE CancelFuture(s, u)
  <2> DEFINE r == [row EXCEPT !.status = "CANCELLED", !.cancellationReason = TRUE]
  <2>1. Store(r, u) /\ Exists /\ req'[s].pc # "save"
    BY <1>3 DEF CancelFuture, Exists, IsIdle
  <2>2. Lawful(r)
    <3>1. /\ row \in Row /\ row.content \in Contents
          /\ row.approvedBy \in (Users \cup {NoUser}) \ {row.creator}
      BY <2>1, CalendarConstants DEF IndInv, TypeOK, RowOK, FourEyes, Row
    <3> QED
      BY <1>3, <3>1 DEF CancelFuture, Lawful, Row, Workflow!Moves
  <2> HIDE DEF r
  <2>3. SerialInv'
    BY <2>1, <2>2, SettledLawful DEF OneAtATime
  <2> QED
    BY <2>1, <2>2, <2>3, StoreMoves
<1> QED
  BY <1>1, <1>2, <1>3

\* Every step keeps the promises, except an import that finds a holiday.
LEMMA StepLawful ==
    ASSUME IndInv, SerialInv, OneAtATime, Kind # "holiday", [Next]_vars
    PROVE  SerialInv' /\ [Workflow!Next]_(Workflow!vars)
<1>1. ASSUME NEW s \in Slots, NEW u \in Users, Begin(s, u)
      PROVE  SerialInv' /\ [Workflow!Next]_(Workflow!vars)
  <2>1. CASE Create(s, u) \/ BulkInsert(s, u) \/ SystemInsert(s, u)
    BY <2>1, CreationLawful DEF Workflow!Next
  <2>2. CASE \/ SubmitForApproval(s, u) \/ Approve(s, u) \/ Reject(s, u)
             \/ Publish(s, u) \/ Cancel(s, u)
    <3>1. UNCHANGED <<row, endorsed>>
      BY <2>2 DEF SubmitForApproval, Approve, Reject, Publish, Cancel, Prepare
    <3> QED
      BY <2>2, <3>1, ActionLawful DEF Workflow!vars
  <2>3. CASE Patch(s, u) \/ BulkReplace(s, u) \/ CancelFuture(s, u)
    BY <2>3, EditLawful
  <2> QED
    BY <1>1, <2>1, <2>2, <2>3 DEF Begin, ImportHoliday
<1>2. ASSUME NEW s \in Slots, Continue(s)
      PROVE  SerialInv' /\ [Workflow!Next]_(Workflow!vars)
  BY <1>2, ContinueLawful
<1>3. CASE UNCHANGED vars
  BY <1>3 DEF vars, Workflow!vars, SerialInv, EndorsedOnShow, SerialOK, Lawful, Honest, Merge
<1> QED
  BY <1>1, <1>2, <1>3 DEF Next

\* Of requests that do not overlap, nobody is shown what was not approved.
THEOREM NothingUnapprovedOnShow ==
    ASSUME OneAtATime, Kind # "holiday"
    PROVE  Spec => []EndorsedOnShow
<1>1. Init => SerialInv
  BY IdleTypeOK DEF Init, SerialInv, SerialOK, EndorsedOnShow, OnShow, NoRow
<1>2. IndInv /\ SerialInv /\ [Next]_vars => SerialInv'
  BY StepLawful
<1>3. SerialInv => EndorsedOnShow
  BY DEF SerialInv
<1> QED
  BY <1>1, <1>2, <1>3, Invariance, PTL DEF Spec

\* Requests that do not overlap follow the workflow: refinement of CalendarWorkflow.
THEOREM ImplementsWorkflow ==
    ASSUME OneAtATime, Kind # "holiday"
    PROVE  Spec => FollowsWorkflow
<1>1. Init => SerialInv /\ Workflow!Init
  BY IdleTypeOK DEF Init, SerialInv, SerialOK, EndorsedOnShow, OnShow, NoRow, Workflow!Init
<1>2. IndInv /\ SerialInv /\ [Next]_vars => SerialInv' /\ [Workflow!Next]_(Workflow!vars)
  BY StepLawful
<1> QED
  BY <1>1, <1>2, Invariance, PTL DEF Spec, FollowsWorkflow, Workflow!Spec

\* A request that goes from its save to its audit row has saved.
LEMMA SaverSaves ==
    ASSUME IndInv, OneAtATime, [Next]_vars, NEW s \in Slots,
           req[s].pc = "save", req'[s].pc = "audit"
    PROVE  Save(s)
<1>1. req \in [Slots -> Request] /\ Idle.pc = "idle"
  BY IdleTypeOK DEF IndInv, TypeOK
<1>2. ~\E u \in Users : Begin(s, u)
  BY DEF Begin, Create, BulkInsert, SystemInsert, SubmitForApproval, Approve, Reject, Publish,
         Cancel, Patch, BulkReplace, ImportHoliday, CancelFuture, IsIdle
<1>3. ~(PatchValidate(s) \/ PatchRefused(s) \/ Recheck(s) \/ Audit(s) \/ Crash(s))
  BY <1>1 DEF PatchValidate, PatchRefused, Recheck, Audit, Crash
<1> QED
  BY <1>2, <1>3 DEF OneAtATime, Next, Continue, vars

\* Their audit rows name the status that the save replaced.
THEOREM AuditIsHonest ==
    ASSUME OneAtATime, Kind # "holiday"
    PROVE  Spec => AuditNamesReplacedStatus
<1> DEFINE Step == \A s \in Slots :
             (req[s].pc = "save" /\ req'[s].pc = "audit"
                /\ req[s].entry.action \notin {"UPDATE", "REAPPROVAL_REQUIRED"})
             => req[s].entry.prev = row.status
<1>1. Init => SerialInv
  BY IdleTypeOK DEF Init, SerialInv, SerialOK, EndorsedOnShow, OnShow, NoRow
<1>2. IndInv /\ SerialInv /\ [Next]_vars => SerialInv' /\ [Step]_vars
  <2> SUFFICES ASSUME IndInv, SerialInv, [Next]_vars PROVE SerialInv' /\ [Step]_vars
    OBVIOUS
  <2>1. SerialInv'
    BY StepLawful
  <2>2. ASSUME NEW s \in Slots, req[s].pc = "save", req'[s].pc = "audit",
               req[s].entry.action \notin {"UPDATE", "REAPPROVAL_REQUIRED"}
        PROVE  req[s].entry.prev = row.status
    <3>1. Save(s)
      BY <2>2, SaverSaves
    <3>2. req[s].entry # NoEntry
      BY <2>2, <3>1, IdleTypeOK DEF Save, IndInv, TypeOK
    <3> QED
      BY <2>2, <3>2 DEF SerialInv, SerialOK, Honest
  <2> QED
    BY <2>1, <2>2
<1> QED
  BY <1>1, <1>2, Invariance, PTL DEF Spec, AuditNamesReplacedStatus

==============================================================================
