-------------------------- MODULE CalendarWorkflow --------------------------
(***************************************************************************)
(* What the approval workflow promises to whoever reads the calendar, with *)
(* every request taking effect at once: which status follows which, that   *)
(* what is on show is what was endorsed, and that a changed entry goes     *)
(* back to approval.  CalendarApproval implements it as long as requests   *)
(* about one entry do not overlap.                                         *)
(***************************************************************************)
CONSTANTS Users, NoUser, Contents, NoContent

VARIABLES status, content, endorsed, creator, approver

vars == <<status, content, endorsed, creator, approver>>

OnShow == {"APPROVED", "PUBLISHED"}

\* The serializer's table, and what submit-for-approval and cancel add to it.
Moves ==
    {<<"DRAFT", "PENDING_APPROVAL">>, <<"REJECTED", "PENDING_APPROVAL">>,
     <<"REJECTED", "DRAFT">>, <<"PENDING_APPROVAL", "APPROVED">>,
     <<"PENDING_APPROVAL", "REJECTED">>, <<"APPROVED", "PUBLISHED">>,
     <<"APPROVED", "PENDING_APPROVAL">>, <<"PUBLISHED", "PENDING_APPROVAL">>,
     <<"PUBLISHED", "ARCHIVED">>, <<"CANCELLED", "ARCHIVED">>}
    \cup {<<from, "CANCELLED">> : from \in
            {"DRAFT", "PENDING_APPROVAL", "APPROVED", "PUBLISHED", "REJECTED", "ARCHIVED"}}

Init ==
    /\ status = "NONE" /\ content = NoContent /\ endorsed = NoContent
    /\ creator = NoUser /\ approver = NoUser

\* Nothing enters the calendar published; what enters approved is endorsed.
Enter ==
    /\ status = "NONE"
    /\ status' \in {"DRAFT", "PENDING_APPROVAL", "APPROVED",
                    "REJECTED", "CANCELLED", "ARCHIVED"}
    /\ content' \in Contents
    /\ creator' \in Users
    /\ endorsed' = IF status' = "APPROVED" THEN content' ELSE endorsed
    /\ UNCHANGED approver

\* An entry that is not on show can be edited in place.
Edit ==
    /\ status \notin OnShow \cup {"NONE"}
    /\ content' \in Contents
    /\ UNCHANGED <<status, endorsed, creator, approver>>

\* A change of status.  An entry on show keeps its content, unless it goes
\* back to approval; the creator is never recorded as the approver.
Move ==
    /\ <<status, status'>> \in Moves
    /\ content' \in Contents
    /\ (status \in OnShow /\ status' # "PENDING_APPROVAL") => content' = content
    /\ endorsed' = IF status' = "APPROVED" THEN content' ELSE endorsed
    /\ approver' \in (Users \cup {NoUser}) \ {creator}
    /\ UNCHANGED creator

Next == Enter \/ Edit \/ Move

Spec == Init /\ [][Next]_vars
=============================================================================
