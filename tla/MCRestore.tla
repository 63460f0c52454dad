------------------------------- MODULE MCRestore -------------------------------
(* The backup that TLC restores.                                           *)
EXTENDS Restore

CONSTANTS h, c1, k1, k2, m1

\* Objects of every kind, all of one DID, and of some kinds two that are
\* restored at the same time.
Wallet ==
  [credentials |-> {[recovery_id |-> "sdjwt", data |-> c1]},
   dids |-> {h},
   did_pairs |-> [holder : {h}, recipient : {h}, alias : Aliases],
   keys |-> {[id |-> k1, did |-> h], [id |-> k2, did |-> Unlinked]}, link_secret |-> TRUE,
   mediators |-> [holder : {h}, mediator : {h}, routing : {h}], messages |-> <<m1>>]
==============================================================================
