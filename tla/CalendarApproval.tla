-------------------------- MODULE CalendarApproval --------------------------
(***************************************************************************)
(* One school calendar entry (attendance.SchoolCalendarDay) and the HTTP   *)
(* handlers that move it through its approval workflow.                    *)
(*                                                                         *)
(* The backend runs in autocommit: a handler reads the row, checks it, and *)
(* writes it back in a later statement, with nothing held in between.  A   *)
(* slot is one worker serving one request; every database statement is a   *)
(* step, so requests in different slots interleave between statements.     *)
(***************************************************************************)
EXTENDS FiniteSets

CONSTANTS
    Admins,     \* SUPER_ADMIN and SCHOOL_ADMIN accounts
    Staff,      \* TEACHER and GUIDANCE accounts
    NoUser,     \* SQL NULL in a user column
    Contents,   \* values of the fields whose change is "material"
    NoContent,  \* no content has been approved yet
    Slots,      \* requests that may be in flight together
    Edits,      \* request bodies offered to PATCH/PUT and to bulk-edit
    Kind        \* where the row comes from: "event", "holiday", "occurrence"

Users == Admins \cup Staff
OnShow == {"APPROVED", "PUBLISHED"}
Statuses == {"DRAFT", "PENDING_APPROVAL", "APPROVED", "PUBLISHED",
             "REJECTED", "CANCELLED", "ARCHIVED"}

\* A body: "same"/"reformat" leave the parsed material fields as they are, but
\* "reformat" spells one differently ('08:00' for '08:00:00').
AllEdits == [content: Contents \cup {"same", "reformat"},
             status: Statuses \cup {"absent"},
             reasons: {"keep", "give", "blank"}]

ASSUME CalendarConstants ==
    /\ NoUser \notin Users
    /\ Contents # {} /\ NoContent \notin Contents
    /\ {"same", "reformat"} \cap Contents = {}
    /\ Admins \cap Staff = {}
    /\ Edits \subseteq AllEdits
    /\ Kind \in {"event", "holiday", "occurrence"}

VARIABLES
    row,        \* the SchoolCalendarDay row; status "NONE" before the INSERT
    req,        \* req[s]: the local variables of the handler in slot s
    endorsed    \* history: what the write that last made it APPROVED endorsed

vars == <<row, req, endorsed>>

Fields == {"status", "creator", "approvedBy", "authorizedBy", "published",
           "rejectionReason", "cancellationReason", "content"}
Row == [status: Statuses \cup {"NONE"}, creator: Users \cup {NoUser},
        approvedBy: Users \cup {NoUser}, authorizedBy: Users \cup {NoUser},
        published: BOOLEAN, rejectionReason: BOOLEAN,
        cancellationReason: BOOLEAN, content: Contents \cup {NoContent}]
\* The AuditLog row a handler is about to write: action and previous_status.
Entry == [action: {"NONE", "CREATE", "UPDATE", "SUBMITTED_FOR_APPROVAL",
                   "APPROVED", "REJECTED", "PUBLISHED", "CANCELLED",
                   "REAPPROVAL_REQUIRED"},
          prev: Statuses \cup {"NONE"}]

NoRow == [status |-> "NONE", creator |-> NoUser, approvedBy |-> NoUser,
          authorizedBy |-> NoUser, published |-> FALSE,
          rejectionReason |-> FALSE, cancellationReason |-> FALSE,
          content |-> NoContent]
NoEntry == [action |-> "NONE", prev |-> "NONE"]
NoEdit == [content |-> "same", status |-> "absent", reasons |-> "keep"]

\* The local state of a slot.  new and fields are what save() will send: the
\* columns in fields take their value from new.  recheck says that update()
\* still has to look for a row it must send back to approval.
Request == [pc: {"idle", "patch", "save", "audit", "recheck"},
            user: Users \cup {NoUser}, edit: AllEdits, new: Row,
            fields: SUBSET Fields, entry: Entry, recheck: BOOLEAN]
Idle == [pc |-> "idle", user |-> NoUser, edit |-> NoEdit, new |-> NoRow,
         fields |-> {}, entry |-> NoEntry, recheck |-> FALSE]

TypeOK ==
    /\ row \in Row
    /\ req \in [Slots -> Request]
    /\ endorsed \in [content: Contents \cup {NoContent}, by: Users \cup {NoUser}]

Init ==
    /\ row = NoRow
    /\ req = [s \in Slots |-> Idle]
    /\ endorsed = [content |-> NoContent, by |-> NoUser]

-----------------------------------------------------------------------------
(* Statements *)

\* UPDATE ... SET the columns in fs: save(update_fields=fs), or save() when fs
\* is every column.
Merge(old, new, fs) ==
    LET col(f) == IF f \in fs THEN new[f] ELSE old[f]
    IN  [status |-> col("status"), creator |-> col("creator"),
         approvedBy |-> col("approvedBy"), authorizedBy |-> col("authorizedBy"),
         published |-> col("published"),
         rejectionReason |-> col("rejectionReason"),
         cancellationReason |-> col("cancellationReason"),
         content |-> col("content")]

\* The row becomes r, by a request of user u.
Store(r, u) ==
    /\ row' = r
    /\ endorsed' = IF r.status = "APPROVED" /\ row.status # "APPROVED"
                   THEN [content |-> r.content, by |-> u] ELSE endorsed

Log(action, prev) == [action |-> action, prev |-> prev]

\* The handler in slot s has read the row, checked it, and is about to save.
Prepare(s, u, new, fs, entry, recheck) ==
    /\ req' = [req EXCEPT ![s] = [Idle EXCEPT !.pc = "save", !.user = u,
                                    !.new = new, !.fields = fs,
                                    !.entry = entry, !.recheck = recheck]]
    /\ UNCHANGED <<row, endorsed>>

IsIdle(s) == req[s].pc = "idle"
Exists == row.status # "NONE"

-----------------------------------------------------------------------------
(* Creation: one INSERT *)

\* clean(): a cancelled or rejected entry carries its reason.
ReasonsGiven(r) ==
    /\ r.status = "CANCELLED" => r.cancellationReason
    /\ r.status = "REJECTED" => r.rejectionReason

\* Mutant: the create default is forgotten.
CreatedStatusNoDefault(st) == IF st = "PUBLISHED" THEN "APPROVED" ELSE st

\* validate() on create: PUBLISHED needs approved_by, which is read-only.
CreatedStatus(st) ==
    IF st = "absent" THEN "DRAFT" ELSE IF st = "PUBLISHED" THEN "APPROVED" ELSE st

NewRow(u, c, st, reasons) ==
    [NoRow EXCEPT !.status = st, !.creator = u, !.content = c,
                  !.rejectionReason = reasons, !.cancellationReason = reasons]

\* POST /school-calendar-days/: only an administrator chooses the status.
Create(s, u) ==
    /\ IsIdle(s) /\ ~Exists
    /\ \E c \in Contents, st \in Statuses \cup {"absent"}, reasons \in BOOLEAN :
         LET r == NewRow(u, c, IF u \in Admins THEN CreatedStatus(st)
                               ELSE "PENDING_APPROVAL", reasons)
         IN  /\ ReasonsGiven(NewRow(u, c, CreatedStatus(st), reasons))
             /\ Store(r, u)
             /\ req' = [req EXCEPT ![s] = [Idle EXCEPT !.pc = "audit",
                                         !.entry = Log("CREATE", "NONE")]]

\* bulk_edit's default status, by the caller's role.
BulkStatus(u, st) ==
    IF st # "absent" THEN st
    ELSE IF u \in Admins THEN "DRAFT" ELSE "PENDING_APPROVAL"

\* POST bulk-edit/ on a date without an entry: the status is the payload's,
\* whoever sends it, and nothing is logged.
BulkInsert(s, u) ==
    /\ IsIdle(s) /\ ~Exists
    /\ \E c \in Contents, st \in Statuses \cup {"absent"}, reasons \in BOOLEAN :
         LET r == NewRow(u, c, CreatedStatus(BulkStatus(u, st)), reasons)
         IN  ReasonsGiven(r) /\ Store(r, u)
    /\ UNCHANGED req

\* generate_occurrences and import_holidays insert drafts.
SystemInsert(s, u) ==
    /\ Kind # "event" /\ IsIdle(s) /\ ~Exists /\ u \in Admins
    /\ \E c \in Contents : Store(NewRow(u, c, "DRAFT", FALSE), u)
    /\ UNCHANGED req

-----------------------------------------------------------------------------
(* The workflow actions: get_object, the checks, then save(update_fields) *)

SubmitForApproval(s, u) ==
    /\ IsIdle(s) /\ row.status \in {"DRAFT", "REJECTED"}
    /\ row.creator = u \/ u \in Admins
    /\ Prepare(s, u, [row EXCEPT !.status = "PENDING_APPROVAL"], {"status"},
               Log("SUBMITTED_FOR_APPROVAL", row.status), FALSE)

\* Mutant: approve without the comparison with the creator.
ApproveOwn(s, u) ==
    /\ IsIdle(s) /\ u \in Admins /\ row.status = "PENDING_APPROVAL"
    /\ Prepare(s, u, [row EXCEPT !.status = "APPROVED", !.approvedBy = u],
               {"status", "approvedBy"}, Log("APPROVED", row.status), FALSE)

Approve(s, u) ==
    /\ IsIdle(s) /\ u \in Admins
    /\ row.creator # u
    /\ row.status = "PENDING_APPROVAL"
    /\ Prepare(s, u, [row EXCEPT !.status = "APPROVED", !.approvedBy = u],
               {"status", "approvedBy"}, Log("APPROVED", row.status), FALSE)

\* Mutant: rejection_reason missing from update_fields.
RejectLosesReason(s, u) ==
    /\ IsIdle(s) /\ u \in Admins /\ row.creator # u /\ row.status = "PENDING_APPROVAL"
    /\ Prepare(s, u, [row EXCEPT !.status = "REJECTED", !.rejectionReason = TRUE],
               {"status"}, Log("REJECTED", row.status), FALSE)

Reject(s, u) ==
    /\ IsIdle(s) /\ u \in Admins
    /\ row.creator # u
    /\ row.status = "PENDING_APPROVAL"
    /\ Prepare(s, u, [row EXCEPT !.status = "REJECTED", !.rejectionReason = TRUE],
               {"status", "rejectionReason"},
               Log("REJECTED", row.status), FALSE)

\* Mutant: publish refuses cancelled entries only.
PublishUnlessCancelled(s, u) ==
    /\ IsIdle(s) /\ u \in Admins /\ Exists /\ row.status # "CANCELLED"
    /\ Prepare(s, u, [row EXCEPT !.status = "PUBLISHED", !.published = TRUE,
                                 !.authorizedBy = u],
               {"status", "published", "authorizedBy"}, Log("PUBLISHED", row.status), FALSE)

Publish(s, u) ==
    /\ IsIdle(s) /\ u \in Admins
    /\ row.status = "APPROVED"
    /\ Prepare(s, u, [row EXCEPT !.status = "PUBLISHED", !.published = TRUE,
                                 !.authorizedBy = u],
               {"status", "published", "authorizedBy"},
               Log("PUBLISHED", row.status), FALSE)

\* Mutant: previous_status is taken after the assignment of the new status.
CancelLogsLate(s, u) ==
    /\ IsIdle(s) /\ u \in Admins /\ Exists
    /\ Prepare(s, u, [row EXCEPT !.status = "CANCELLED", !.cancellationReason = TRUE],
               {"status", "cancellationReason"}, Log("CANCELLED", "CANCELLED"), FALSE)

Cancel(s, u) ==
    /\ IsIdle(s) /\ u \in Admins /\ Exists
    /\ Prepare(s, u, [row EXCEPT !.status = "CANCELLED", !.cancellationReason = TRUE],
               {"status", "cancellationReason"},
               Log("CANCELLED", row.status), FALSE)

-----------------------------------------------------------------------------
(* PUT/PATCH: two reads, a save of every column, an audit row, and then    *)
(* perhaps a third read and a second save                                  *)

\* Mutant: a draft may be approved without being submitted.
TransitionsSkipApproval == [st \in Statuses |->
    CASE st \in {"DRAFT", "PENDING_APPROVAL"} -> {"PENDING_APPROVAL", "APPROVED", "REJECTED"}
      [] st = "APPROVED"  -> {"PUBLISHED", "CANCELLED", "PENDING_APPROVAL"}
      [] st = "PUBLISHED" -> {"CANCELLED", "ARCHIVED", "PENDING_APPROVAL"}
      [] st = "REJECTED"  -> {"DRAFT"}
      [] st = "CANCELLED" -> {"ARCHIVED"}
      [] st = "ARCHIVED"  -> {}]

Transitions == [st \in Statuses |->
    CASE st = "DRAFT"            -> {"PENDING_APPROVAL"}
      [] st = "PENDING_APPROVAL" -> {"APPROVED", "REJECTED"}
      [] st = "APPROVED"         -> {"PUBLISHED", "CANCELLED", "PENDING_APPROVAL"}
      [] st = "PUBLISHED"        -> {"CANCELLED", "ARCHIVED", "PENDING_APPROVAL"}
      [] st = "REJECTED"         -> {"DRAFT"}
      [] st = "CANCELLED"        -> {"ARCHIVED"}
      [] st = "ARCHIVED"         -> {}]

\* _material_change_detected: the raw body against the row.
RawChange(r, e) == e.content = "reformat"
                   \/ (e.content \in Contents /\ e.content # r.content)
\* validate(): the parsed body against the row.
Changed(r, e) == e.content \in Contents /\ e.content # r.content

\* Mutant: an edit of an entry on show keeps the status the body asks for.
PatchedStatusNoReapproval(r, e) == IF e.status = "absent" THEN r.status ELSE e.status

\* The status validate() settles on for a stored row r and a body e.
PatchedStatus(r, e) ==
    IF r.status \in OnShow /\ Changed(r, e) THEN "PENDING_APPROVAL"
    ELSE IF e.status = "absent" THEN r.status ELSE e.status

Patched(r, e) ==
    LET st == PatchedStatus(r, e)
        given(old) == IF e.reasons = "keep" THEN old ELSE e.reasons = "give"
    IN  [r EXCEPT !.status = st,
                  !.content = IF Changed(r, e) THEN e.content ELSE r.content,
                  !.published = r.published \/ st = "PUBLISHED",
                  !.rejectionReason = given(r.rejectionReason),
                  !.cancellationReason = given(r.cancellationReason)]

PatchAllowed(r, e) ==
    /\ \/ PatchedStatus(r, e) = r.status
       \/ PatchedStatus(r, e) \in Transitions[r.status]
    /\ ReasonsGiven(Patched(r, e))

\* update(): the first get_object; only its status and its material fields
\* are used later, in the test for reapproval.
Patch(s, u) ==
    /\ IsIdle(s) /\ Exists
    /\ \E e \in Edits :
         req' = [req EXCEPT ![s] = [Idle EXCEPT !.pc = "patch", !.user = u,
                     !.edit = e,
                     !.recheck = RawChange(row, e) /\ row.status \in OnShow]]
    /\ UNCHANGED <<row, endorsed>>

\* super().update(): the second get_object, and validate().
PatchValidate(s) ==
    /\ req[s].pc = "patch"
    /\ PatchAllowed(row, req[s].edit)
    /\ LET r == Patched(row, req[s].edit)
       IN  Prepare(s, req[s].user, r, Fields,
                   Log("UPDATE", r.status), req[s].recheck)

\* validate() refuses the body: 400.  (A conflict with another entry ends the
\* request the same way; the other entries are abstracted, so it is a Crash.)
PatchRefused(s) ==
    /\ req[s].pc = "patch"
    /\ ~PatchAllowed(row, req[s].edit)
    /\ req' = [req EXCEPT ![s] = Idle]
    /\ UNCHANGED <<row, endorsed>>

\* refresh_from_db, and the second save when the row is still on show.
Recheck(s) ==
    /\ req[s].pc = "recheck"
    /\ \/ /\ row.status \in OnShow
          /\ Prepare(s, NoUser,
                 [row EXCEPT !.status = "PENDING_APPROVAL", !.approvedBy = NoUser,
                             !.authorizedBy = NoUser, !.published = FALSE],
                 {"status", "approvedBy", "authorizedBy", "published"},
                 Log("REAPPROVAL_REQUIRED", "NONE"), FALSE)
       \/ /\ row.status \notin OnShow
          /\ req' = [req EXCEPT ![s] = Idle]
          /\ UNCHANGED <<row, endorsed>>

\* POST bulk-edit/ with existing_behavior=replace, on the entry of the date.
BulkReplace(s, u) ==
    /\ IsIdle(s) /\ Exists
    /\ row.status \notin {"CANCELLED", "ARCHIVED", "REJECTED"}
    /\ \E e0 \in Edits :
         LET e == [e0 EXCEPT !.status = BulkStatus(u, e0.status)]
         IN  /\ PatchAllowed(row, e)
             /\ Prepare(s, u, Patched(row, e), Fields, NoEntry, FALSE)

-----------------------------------------------------------------------------
(* Writers outside the view set *)

\* import_holidays finds the HOLIDAY row with another title or category.
ImportHoliday(s, u) ==
    /\ Kind = "holiday" /\ IsIdle(s) /\ u \in Admins /\ Exists
    /\ \E c \in Contents \ {row.content} :
         Prepare(s, u, [row EXCEPT !.content = c], {"content"}, NoEntry, FALSE)

\* cancel_future: one UPDATE with the statuses in its WHERE clause.
CancelFuture(s, u) ==
    /\ Kind = "occurrence" /\ IsIdle(s) /\ u \in Admins
    /\ row.status \in {"DRAFT", "PENDING_APPROVAL", "APPROVED", "PUBLISHED"}
    /\ Store([row EXCEPT !.status = "CANCELLED", !.cancellationReason = TRUE], u)
    /\ UNCHANGED req

-----------------------------------------------------------------------------
(* The rest of every handler *)

Save(s) ==
    /\ req[s].pc = "save"
    /\ Store(Merge(row, req[s].new, req[s].fields), req[s].user)
    /\ req' = [req EXCEPT ![s] =
                  IF @.entry = NoEntry THEN Idle
                  ELSE [Idle EXCEPT !.pc = "audit", !.entry = req[s].entry,
                                    !.recheck = req[s].recheck]]

\* _audit, a statement of its own after the save.  No handler reads the log,
\* so it is not kept: what it gains here is req[s].entry.
Audit(s) ==
    /\ req[s].pc = "audit"
    /\ req' = [req EXCEPT ![s] = IF @.recheck THEN [Idle EXCEPT !.pc = "recheck"]
                                 ELSE Idle]
    /\ UNCHANGED <<row, endorsed>>

\* The worker dies between two statements; nothing is rolled back.
Crash(s) ==
    /\ ~IsIdle(s)
    /\ req' = [req EXCEPT ![s] = Idle]
    /\ UNCHANGED <<row, endorsed>>

Begin(s, u) ==
    \/ Create(s, u) \/ BulkInsert(s, u) \/ SystemInsert(s, u)
    \/ SubmitForApproval(s, u) \/ Approve(s, u) \/ Reject(s, u)
    \/ Publish(s, u) \/ Cancel(s, u)
    \/ Patch(s, u) \/ BulkReplace(s, u)
    \/ ImportHoliday(s, u) \/ CancelFuture(s, u)

Continue(s) ==
    PatchValidate(s) \/ PatchRefused(s) \/ Recheck(s) \/ Save(s) \/ Audit(s) \/ Crash(s)

Next ==
    \/ \E s \in Slots, u \in Users : Begin(s, u)
    \/ \E s \in Slots : Continue(s)

Spec == Init /\ [][Next]_vars

-----------------------------------------------------------------------------
(* Properties *)

\* Whatever overlaps, the user recorded as having approved the entry is never
\* its creator: the approve handler compares them on a row that another
\* request may rewrite, whole and stale, before and after its own save.
FourEyes == row.approvedBy # NoUser => row.approvedBy # row.creator

\* Whatever overlaps, a cancelled or rejected entry carries its reason, and so
\* clean(), which every later save of the entry runs, does not refuse it.
ReasonRecorded == ReasonsGiven(row)

\* Whatever overlaps, an entry is published only if it was approved at some
\* time before: by an approval, or by entering the calendar as APPROVED.
PublishedWasApproved == row.status = "PUBLISHED" => endorsed.content # NoContent

\* The material content on show is the content that was approved: an edit of
\* an approved or published entry sends it back to approval (update, validate).
EndorsedOnShow == row.status \in OnShow => row.content = endorsed.content

\* The audit row of a workflow action names as previous status the status its
\* save replaced.
AuditNamesReplacedStatus ==
    [][\A s \in Slots :
         (req[s].pc = "save" /\ req'[s].pc = "audit"
            /\ req[s].entry.action \notin {"UPDATE", "REAPPROVAL_REQUIRED"})
         => req[s].entry.prev = row.status]_vars

\* "Only approved entries can be published."
OnlyApprovedPublished ==
    [][(row'.status = "PUBLISHED" /\ row.status # "PUBLISHED")
         => row.status = "APPROVED"]_vars

\* "A creator cannot approve or reject their own entry."
CreatorNeverApproves ==
    [][(row.status = "PENDING_APPROVAL" /\ row'.status = "APPROVED")
         => endorsed'.by # row.creator]_vars

\* The promise to readers, with the row's columns in place of its variables.
Workflow == INSTANCE CalendarWorkflow WITH
    status <- row.status, content <- row.content, endorsed <- endorsed.content,
    creator <- row.creator, approver <- row.approvedBy

\* Every request of CalendarApproval is a legal move of the workflow.
FollowsWorkflow == Workflow!Spec
=============================================================================
