-------------------------------- MODULE Inbox --------------------------------
(***************************************************************************)
(* What message pickup promises, whatever the order of its requests: a     *)
(* message leaves the mediator's queue only when it is stored, and is      *)
(* announced only when it is both stored and gone from the queue.          *)
(* Delivery is at least once, in no promised order; messages are numbered  *)
(* as they reach the mediator.                                             *)
(***************************************************************************)
EXTENDS Naturals

VARIABLES
  arrived,    \* how many messages have reached the mediator
  pending,    \* those the mediator still keeps for the agent
  stored,     \* those the agent's Pluto has at least one row of
  announced   \* those the MESSAGE event has carried

vars == <<arrived, pending, stored, announced>>

Init == arrived = 0 /\ pending = {} /\ stored = {} /\ announced = {}

Arrive ==
  /\ arrived' = arrived + 1
  /\ pending' = pending \cup {arrived'}
  /\ UNCHANGED <<stored, announced>>

Save(m) ==
  /\ stored' = stored \cup {m}
  /\ UNCHANGED <<arrived, pending, announced>>

Forget(ms) ==
  /\ pending' = pending \ ms
  /\ UNCHANGED <<arrived, stored, announced>>

Announce(ms) ==
  /\ announced' = announced \cup ms
  /\ UNCHANGED <<arrived, pending, stored>>

Next ==
  \/ Arrive
  \/ \E m \in pending : Save(m)
  \/ \E ms \in SUBSET (pending \cap stored) : Forget(ms)
  \/ \E ms \in SUBSET (stored \ pending) : Announce(ms)

Spec == Init /\ [][Next]_vars
==============================================================================
