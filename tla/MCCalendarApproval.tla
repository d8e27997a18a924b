------------------------- MODULE MCCalendarApproval -------------------------
(* Instances of CalendarApproval for TLC. *)
EXTENDS CalendarApproval, TLC

CONSTANTS a1, a2, t1, v1, v2, s1, s2

MCAdmins == {a1, a2}
MCStaff == {t1}
MCContents == {v1, v2}
OneSlot == {s1}
TwoSlots == {s1, s2}

\* Every body there is.
EveryEdit == AllEdits
\* One body for each way update() can end, for the runs with overlapping
\* requests: a change, a status, a blanking of the reasons.
SomeEdits ==
    {[content |-> c, status |-> "absent", reasons |-> "keep"] : c \in MCContents}
    \cup {[content |-> "same", status |-> "APPROVED", reasons |-> "give"],
          [content |-> "same", status |-> "absent", reasons |-> "blank"]}

Symmetry == Permutations(MCAdmins) \cup Permutations(MCContents) \cup Permutations(TwoSlots)
=============================================================================
