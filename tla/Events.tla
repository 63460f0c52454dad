-------------------------------- MODULE Events --------------------------------
(***************************************************************************)
(* EventsManager: the listeners of each event, and an emission of it.  The *)
(* callbacks run one after the other, without a pause, and each may do     *)
(* anything: nothing, throw, add a listener or remove one.                 *)
(*                                                                         *)
(* A Set of JavaScript is a list in the order of insertion.  Removing an   *)
(* entry leaves a gap, which is passed over, so that no other entry moves  *)
(* while the list is visited; what is added goes to the end.               *)
(***************************************************************************)
EXTENDS Naturals, Sequences, SequencesExt

CONSTANTS
  Listeners,    \* callbacks that an application may register
  EventNames,   \* ListenerKey
  Gap,          \* the place of a removed entry
  MaxEntries    \* bound: entries of a list, gaps included

ASSUME EventsAssumption == Gap \notin Listeners

VARIABLES
  events,     \* the listeners of each event
  emission    \* <<>>, or the one emission that is running

eventVars == <<events, emission>>

\* JavaScript runs nothing else while callbacks are called.
Quiet == emission = <<>>

AddListener(entries, listener) ==
  IF Contains(entries, listener) THEN entries ELSE Append(entries, listener)

\* Mutant of RemoveListener: the entries behind move up, as in an array.
RemoveListenerSplicing(entries, listener) ==
  SelectSeq(entries, LAMBDA l : l # listener)

RemoveListener(entries, listener) ==
  [i \in DOMAIN entries |-> IF entries[i] = listener THEN Gap ELSE entries[i]]

EventsInit(listeners) ==
  /\ events = [e \in EventNames |-> listeners]
  /\ emission = <<>>

\* removed is a history: who was removed while the emission ran.
Emit(event) ==
  /\ emission' = <<[event |-> event, at |-> 1, heard |-> [l \in Listeners |-> 0], removed |-> {}]>>
  /\ UNCHANGED events

Running == emission[1]
Entries == events[Running.event]
IsFinished == ~Quiet /\ Running.at > Len(Entries)

Called == [Running EXCEPT !.at = @ + 1, !.heard[Entries[Running.at]] = @ + 1]

\* The callback at this place runs, and leaves the list as entries.
Callback(entries, removed) ==
  /\ ~IsFinished
  /\ Entries[Running.at] \in Listeners
  /\ Len(entries) <= MaxEntries
  /\ events' = [events EXCEPT ![Running.event] = entries]
  /\ emission' = <<[Called EXCEPT !.removed = @ \cup removed]>>

CallbackReturns == Callback(Entries, {})
CallbackAdds(l) == Callback(AddListener(Entries, l), {})
CallbackRemoves(l) ==
  Contains(Entries, l) /\ Callback(RemoveListener(Entries, l), {l})

CallbackReplaces(l, m) ==
  Contains(Entries, l) /\ Callback(AddListener(RemoveListener(Entries, l), m), {l})

SkipGap ==
  /\ ~IsFinished
  /\ Entries[Running.at] = Gap
  /\ emission' = <<[Running EXCEPT !.at = @ + 1]>>
  /\ UNCHANGED events

CallbackStep ==
  /\ ~Quiet
  /\ \/ CallbackReturns
     \/ \E l \in Listeners : CallbackAdds(l) \/ CallbackRemoves(l)
     \/ \E l, m \in Listeners : CallbackReplaces(l, m)
     \/ SkipGap

EmissionReturns == IsFinished /\ emission' = <<>> /\ UNCHANGED events

\* A callback throws, and emit() with it: nobody behind it hears the event.
EmissionThrows ==
  /\ ~Quiet /\ ~IsFinished
  /\ Entries[Running.at] \in Listeners
  /\ emission' = <<>> /\ UNCHANGED events
===============================================================================
