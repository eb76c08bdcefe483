---------------------------- MODULE MCAssignment ----------------------------
(* Small instances of Assignment for TLC. *)
EXTENDS Assignment, TLC

\* Calls, participants and arms are interchangeable.
Symmetry == Permutations(Calls) \cup Permutations(Participants) \cup Permutations(Arms)
=============================================================================
