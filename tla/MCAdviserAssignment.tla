------------------------ MODULE MCAdviserAssignment ------------------------
(* Instances of AdviserAssignment for TLC. *)
EXTENDS AdviserAssignment, TLC

CONSTANTS t1, t2, c1, c2, s1, s2

MCTeachers == {t1, t2}
MCSections == {c1, c2}
MCIds == 1..3
OneSlot == {s1}
TwoSlots == {s1, s2}
\* One section with an adviser from before assignments, one without.
MCLegacy == [sec \in MCSections |-> IF sec = c1 THEN t1 ELSE NoTeacher]

Symmetry == Permutations(TwoSlots)
=============================================================================
