-------------------------- MODULE MCBanditOutcome ---------------------------
(* Small instances of BanditOutcome for TLC. *)
EXTENDS BanditOutcome, TLC

\* Requests and arms are interchangeable; participants are ordered by draws.
Symmetry == Permutations(Requests) \cup Permutations(Arms) \cup Permutations(Participants)
=============================================================================
