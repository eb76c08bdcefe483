--------------------------- MODULE MCPrivilegedUsers ---------------------------
(* Small instances of PrivilegedUsers for TLC. *)
EXTENDS PrivilegedUsers, TLC

\* Requests, emails and providers are interchangeable (no airplane mode).
Symmetry == Permutations(Requests) \cup Permutations(Emails) \cup Permutations(Issuers)
=============================================================================
