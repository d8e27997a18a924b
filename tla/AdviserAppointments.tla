------------------------- MODULE AdviserAppointments -------------------------
(***************************************************************************)
(* Who advises which section, as a reader of the active assignments sees   *)
(* it: a section has one adviser or none; an appointment names an adviser  *)
(* for one section, and frees at most one other, the one it moves from.    *)
(***************************************************************************)
CONSTANTS Teachers, NoTeacher, Sections

VARIABLE current

Init == current = [sec \in Sections |-> NoTeacher]

\* An adviser is appointed to a section, in place of any other.
Appoint(sec, t) == current' = [current EXCEPT ![sec] = t]

\* A section is left without an adviser.
Dismiss(sec) == current' = [current EXCEPT ![sec] = NoTeacher]

\* An assignment moves to another section.
Transfer(from, to, t) ==
    /\ current[from] # NoTeacher
    /\ current' = [current EXCEPT ![from] = NoTeacher, ![to] = t]

Next ==
    \/ \E sec \in Sections, t \in Teachers : Appoint(sec, t)
    \/ \E sec \in Sections : Dismiss(sec)
    \/ \E to \in Sections, from \in Sections, t \in Teachers : Transfer(from, to, t)

Spec == Init /\ [][Next]_current
=============================================================================
