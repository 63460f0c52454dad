------------------------------ MODULE Startable ------------------------------
(***************************************************************************)
(* Startable.Controller of the domain package: the lifecycle every         *)
(* startable entity (the Agent, Pluto) inherits.  start() and stop() are   *)
(* asynchronous: they run the entity's own _start() or _stop() between the *)
(* two assignments of the state, and an exception of that routine leaves   *)
(* the state where the first assignment put it.                            *)
(*                                                                         *)
(* This module is the abstract specification AgentLifecycle implements.    *)
(***************************************************************************)

VARIABLES
  state,    \* Controller.state
  routine   \* what start() or stop() awaits: nothing, its routine, or the
            \* routine has thrown and nothing will resume the call

vars == <<state, routine>>

States   == {"stopped", "starting", "running", "stopping"}
Routines == {"none", "inside", "threw"}

TypeOK == state \in States /\ routine \in Routines

Init == state = "stopped" /\ routine = "none"

\* start() and stop() up to the await; in any other state they return at once.
Start == /\ state = "stopped"
         /\ state' = "starting" /\ routine' = "inside"

Stop == /\ state = "running"
        /\ state' = "stopping" /\ routine' = "inside"

\* The routine resolves: the call resumes after its await.
Started == /\ state = "starting" /\ routine = "inside"
           /\ state' = "running" /\ routine' = "none"

Stopped == /\ state = "stopping" /\ routine = "inside"
           /\ state' = "stopped" /\ routine' = "none"

\* The routine throws: the assignment after the await never happens.
Threw == routine = "inside" /\ routine' = "threw" /\ UNCHANGED state

\* The process ends; a new one begins with a new controller.
Crash == state' = "stopped" /\ routine' = "none"

Next == Start \/ Stop \/ Started \/ Stopped \/ Threw \/ Crash

Spec == Init /\ [][Next]_vars
==============================================================================
