------------------------------ MODULE MCWaiters ------------------------------
(* Small instances for TLC of two components in which requests wait for one   *)
(* another: on the row locks of an experiment's assignments, and on the lock   *)
(* around the OpenID configuration.  A behaviour is one of one of them.        *)
EXTENDS Assignment, OpenIdCache

VARIABLE component

WaitersInit == component \in {"assignment", "openid"} /\ Init /\ OpenIdInit

WaitersNext ==
  /\ UNCHANGED component
  /\ \/ component = "assignment" /\ Next /\ UNCHANGED openIdVars
     \/ component = "openid" /\ OpenIdNext /\ UNCHANGED vars

WaitersSpec ==
  /\ WaitersInit /\ [][WaitersNext]_<<component, vars, openIdVars>>
  /\ AssignmentFairness /\ OpenIdFairness
=============================================================================
