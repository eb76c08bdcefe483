--------------------------- MODULE MCAdministration ---------------------------
(* Small instances for TLC of two components behind the administrators' API   *)
(* that share nothing: a behaviour is one of one of them, picked in the        *)
(* initial state, with the other at rest.                                    *)
EXTENDS PrivilegedUsers, InspectionCache, TLC

VARIABLE component

\* Requests, emails, providers and types are interchangeable (no airplane mode).
Symmetry ==
  Permutations(Requests) \cup Permutations(Emails) \cup Permutations(Issuers)
    \cup Permutations(Inspectors) \cup Permutations(Types)

AdminInit == component \in {"users", "inspection"} /\ Init /\ InspectionInit

AdminNext ==
  /\ UNCHANGED component
  /\ \/ component = "users" /\ Next /\ UNCHANGED inspectionVars
     \/ component = "inspection" /\ InspectionNext /\ UNCHANGED vars

AdminSpec == AdminInit /\ [][AdminNext]_<<component, vars, inspectionVars>>
=============================================================================
