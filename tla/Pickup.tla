-------------------------------- MODULE Pickup --------------------------------
(***************************************************************************)
(* Message pickup: a polling loop sends PickupRequest, the mediator        *)
(* answers with a delivery, and the PickupDelivery handler unpacks the     *)
(* attachments, stores them, acknowledges them with PickupReceived and     *)
(* emits the MESSAGE event.  In live mode the mediator pushes deliveries   *)
(* over a socket and their handlers overlap; with polling they overlap     *)
(* when an application stops and restarts fetching around a poll in        *)
(* flight.                                                                 *)
(*                                                                         *)
(* A message is the number of its arrival at the mediator, which is        *)
(* external: it keeps a message until PickupReceived names it.             *)
(***************************************************************************)
EXTENDS Naturals, FiniteSets

CONSTANTS
  Loops,          \* polling loops (CancellableTask) that can exist at one time
  Pushes,         \* handlers of pushed deliveries that can overlap
  Limit,          \* the limit of a PickupRequest: 10 in the code
  MaxMessages,    \* bound: messages that arrive
  MaxFaults,      \* bound: failures and crashes
  Undecryptable   \* the messages that unpackMessage rejects, always

Messages == 1..MaxMessages
Handlers == Loops \cup Pushes

ASSUME ConstantsAssumption ==
  /\ Limit \in Nat \ {0} /\ MaxMessages \in Nat /\ MaxFaults \in Nat
  /\ Undecryptable \subseteq Messages
  /\ Loops \cap Pushes = {}

VARIABLES
  arrived,    \* how many messages have reached the mediator
  queue,      \* those it keeps for the agent
  step,       \* the await each loop or pushed handler is at
  batch,      \* the attachments of the delivery being handled
  todo,       \* those storeMessages has still to insert
  rows,       \* the rows Pluto has of each message
  announced,  \* how often the MESSAGE event carried each message
  faults      \* failures and crashes so far

mediatorVars == <<arrived, queue>>
vars == <<arrived, queue, step, batch, todo, rows, announced, faults>>

Steps == {"none", "off", "timer", "requested", "unpacking", "storing", "acking", "acked"}
HandlerSteps == {"unpacking", "storing", "acking", "acked"}

TypeOK ==
  /\ arrived \in 0..MaxMessages
  /\ queue \in SUBSET (1..arrived)
  /\ step \in [Handlers -> Steps]
  /\ batch \in [Handlers -> SUBSET (1..arrived)]
  /\ todo \in [Handlers -> SUBSET (1..arrived)]
  /\ rows \in [Messages -> Nat]
  /\ announced \in [Messages -> Nat]
  /\ faults \in 0..MaxFaults

\* A push handler is "none" for good when the mediator has no socket endpoint.
Init ==
  /\ arrived = 0 /\ queue = {}
  /\ step \in [Handlers -> {"off", "none"}]
  /\ \A h \in Loops : step[h] = "off"
  /\ batch = [h \in Handlers |-> {}] /\ todo = [h \in Handlers |-> {}]
  /\ rows = [m \in Messages |-> 0] /\ announced = [m \in Messages |-> 0]
  /\ faults = 0

\* One step of loop or handler h: control moves on.
At(h, from, to) == step[h] = from /\ step' = [step EXCEPT ![h] = to]

\* Where h goes when its delivery is dealt with, for good or ill: a loop sets
\* its next timer, since DIDCommConnection.receive swallows what handlers throw.
Rest(h) == IF h \in Loops THEN "timer" ELSE "off"

\* The handler of h's delivery returns or throws: its locals are gone.
Leave(h) ==
  /\ step' = [step EXCEPT ![h] = Rest(h)]
  /\ batch' = [batch EXCEPT ![h] = {}]
  /\ todo' = [todo EXCEPT ![h] = {}]

Fault == faults < MaxFaults /\ faults' = faults + 1

-----------------------------------------------------------------------------
(* The mediator                                                            *)

\* A message from a peer reaches the mediator.
Arrive ==
  /\ arrived < MaxMessages
  /\ arrived' = arrived + 1
  /\ queue' = queue \cup {arrived'}
  /\ UNCHANGED <<step, batch, todo, rows, announced, faults>>

\* The first Limit messages of the queue.
Oldest(ms) == {m \in ms : Cardinality({k \in ms : k < m}) < Limit}

\* The mediator answers a PickupRequest with a delivery.
Deliver(h) ==
  /\ queue # {}
  /\ At(h, "requested", "unpacking")
  /\ batch' = [batch EXCEPT ![h] = Oldest(queue)]
  /\ UNCHANGED <<mediatorVars, todo, rows, announced, faults>>

\* It has nothing for the agent: PickupStatus, whose handler does nothing.
NothingQueued(h) ==
  /\ queue = {}
  /\ At(h, "requested", Rest(h))
  /\ UNCHANGED <<mediatorVars, batch, todo, rows, announced, faults>>

\* Live mode: a queued message is pushed over the socket.
Push(h) ==
  /\ h \in Pushes
  /\ At(h, "off", "unpacking")
  /\ \E m \in queue : batch' = [batch EXCEPT ![h] = {m}]
  /\ UNCHANGED <<mediatorVars, todo, rows, announced, faults>>

\* The mediator receives PickupReceived and forgets the messages it names.
Forget(h) ==
  /\ At(h, "acking", "acked")
  /\ queue' = queue \ batch[h]
  /\ UNCHANGED <<arrived, batch, todo, rows, announced, faults>>

-----------------------------------------------------------------------------
(* The polling loop                                                        *)

\* startFetchingMessages: the loop's first poll.
StartLoop(h) ==
  /\ h \in Loops
  /\ At(h, "off", "requested")
  /\ UNCHANGED <<mediatorVars, batch, todo, rows, announced, faults>>

\* stopFetchingMessages.  A loop cancelled with a poll in flight stops here,
\* once that poll has settled.
StopLoop(h) ==
  /\ At(h, "timer", "off")
  /\ UNCHANGED <<mediatorVars, batch, todo, rows, announced, faults>>

Poll(h) ==
  /\ At(h, "timer", "requested")
  /\ UNCHANGED <<mediatorVars, batch, todo, rows, announced, faults>>

\* The PickupRequest fails: the loop is rejected and polls no more.
PollFails(h) ==
  /\ Fault
  /\ At(h, "requested", "off")
  /\ UNCHANGED <<mediatorVars, batch, todo, rows, announced>>

-----------------------------------------------------------------------------
(* PickupDelivery                                                          *)

\* Mutant of Unpack: what cannot be unpacked is dropped, and acknowledged.
UnpackSettled(h) ==
  /\ At(h, "unpacking", "storing")
  /\ todo' = [todo EXCEPT ![h] = batch[h] \ Undecryptable]
  /\ UNCHANGED <<mediatorVars, batch, rows, announced, faults>>

\* Promise.all: every attachment is unpacked...
Unpack(h) ==
  /\ At(h, "unpacking", "storing")
  /\ batch[h] \cap Undecryptable = {}
  /\ todo' = [todo EXCEPT ![h] = batch[h]]
  /\ UNCHANGED <<mediatorVars, batch, rows, announced, faults>>

\* ... or one of them is rejected and with it the whole delivery.
UnpackRejects(h) ==
  /\ step[h] = "unpacking"
  /\ batch[h] \cap Undecryptable # {}
  /\ Leave(h)
  /\ UNCHANGED <<mediatorVars, rows, announced, faults>>

\* storeMessages inserts the attachments in turn, each a row with a uuid of its
\* own: a message delivered twice is stored twice.
StoreMessage(h) ==
  /\ step[h] = "storing"
  /\ \E m \in todo[h] :
       /\ \A k \in todo[h] : m <= k
       /\ todo' = [todo EXCEPT ![h] = @ \ {m}]
       /\ rows' = [rows EXCEPT ![m] = @ + 1]
  /\ UNCHANGED <<mediatorVars, step, batch, announced, faults>>

\* Mutant of StoreReceipt: it is stored as sent, and not sent.
StoreReceiptUnsent(h) ==
  /\ todo[h] = {}
  /\ At(h, "storing", "acked")
  /\ UNCHANGED <<mediatorVars, batch, todo, rows, announced, faults>>

\* connection.send stores PickupReceived as a sent message, then sends it.
StoreReceipt(h) ==
  /\ todo[h] = {}
  /\ At(h, "storing", "acking")
  /\ UNCHANGED <<mediatorVars, batch, todo, rows, announced, faults>>

\* Mutant of Announce: the event is never emitted.
AnnounceNothing(h) ==
  /\ step[h] = "acked"
  /\ Leave(h)
  /\ UNCHANGED <<mediatorVars, rows, announced, faults>>

\* The answer to PickupReceived is in: the MESSAGE event carries the delivery.
Announce(h) ==
  /\ step[h] = "acked"
  /\ announced' = [m \in Messages |-> announced[m] + IF m \in batch[h] THEN 1 ELSE 0]
  /\ Leave(h)
  /\ UNCHANGED <<mediatorVars, rows, faults>>

\* Mutant of HandlerThrows: the receipt of a failed delivery is sent all the same.
HandlerThrowsOn(h) ==
  /\ Fault
  /\ step[h] \in HandlerSteps
  /\ step' = [step EXCEPT ![h] = "acking"]
  /\ todo' = [todo EXCEPT ![h] = {}]
  /\ UNCHANGED <<mediatorVars, batch, rows, announced>>

\* Pluto fails an insert, or PickupReceived or the answer to it is lost:
\* receive() swallows the error, and the rest of the handler does not run.
HandlerThrows(h) ==
  /\ Fault
  /\ step[h] \in HandlerSteps
  /\ Leave(h)
  /\ UNCHANGED <<mediatorVars, rows, announced>>

\* The process ends; Pluto's rows and the mediator's queue stay.
Crash ==
  /\ Fault
  /\ step' = [h \in Handlers |-> IF step[h] = "none" THEN "none" ELSE "off"]
  /\ batch' = [h \in Handlers |-> {}]
  /\ todo' = [h \in Handlers |-> {}]
  /\ UNCHANGED <<mediatorVars, rows, announced>>

HandlerStep(h) ==
  \/ Deliver(h) \/ NothingQueued(h) \/ PollFails(h)
  \/ Unpack(h) \/ UnpackRejects(h) \/ StoreMessage(h) \/ StoreReceipt(h)
  \/ Forget(h) \/ Announce(h) \/ HandlerThrows(h)

Next ==
  \/ Arrive \/ Crash
  \/ \E h \in Handlers :
       StartLoop(h) \/ StopLoop(h) \/ Poll(h) \/ Push(h) \/ HandlerStep(h)

Spec == Init /\ [][Next]_vars

\* Requests settle, continuations run and timers fire.  No application need
\* start or stop a loop, no peer need send, nothing need fail.
Fairness == \A h \in Handlers : WF_vars(HandlerStep(h)) /\ WF_vars(Poll(h))

FairSpec == Spec /\ Fairness

\* The mediator has no socket, or WebSocket is not there: nothing is pushed.
Polling == \A h \in Pushes : step[h] = "none"

-----------------------------------------------------------------------------
(* However many handlers overlap                                           *)

\* Nothing is lost: a message that has left the mediator's queue is in Pluto,
\* whatever failed, crashed or overlapped on the way.
AckedIsStored == \A m \in 1..arrived : m \in queue \/ rows[m] > 0

\* What an application has been told of, it finds in Pluto, and the mediator
\* will not deliver it again.  (Inbox has it: it is proved, and checked by InboxSpec.)
AnnouncedIsSettled == \A m \in Messages : announced[m] > 0 => rows[m] > 0 /\ m \notin queue

\* One message that cannot be unpacked ends pickup for good: by polling alone, no
\* message that arrived after it is ever stored.
NothingPassesUndecryptable ==
  Polling => \A u \in Undecryptable, m \in Messages : rows[m] > 0 => m < u

\* Pickup implements Inbox.
AbstractInbox == INSTANCE Inbox WITH
  pending   <- queue,
  stored    <- {m \in Messages : rows[m] > 0},
  announced <- {m \in Messages : announced[m] > 0}

InboxSpec == AbstractInbox!Spec

-----------------------------------------------------------------------------
(* With one loop and no pushes: an agent that is left to fetch             *)

\* Each message is announced at most once and in the order of arrival,
\* whatever fails: when one is, nothing from it on has been.
AnnouncedInOrder ==
  [][Polling => \A m, k \in Messages :
       announced'[m] # announced[m] /\ m <= k => announced[k] = 0]_vars

\* A message is stored once, and once more at most for each failure or crash.
RowsBounded == Polling => \A m \in Messages : rows[m] <= 1 + faults

NoLoop == \A h \in Loops : step[h] = "off"

\* So far ahead of every message that cannot be unpacked that no delivery has
\* both.
Unobstructed(m) == \A u \in Undecryptable : m + Limit <= u

\* A message the mediator has queued is eventually stored, failures and
\* crashes notwithstanding, and announced if there are none, unless fetching
\* ends (a failed request ends it).
QueuedIsFetched ==
  \A m \in Messages :
    (Polling /\ Unobstructed(m) /\ m \in queue)
      ~> (NoLoop \/ (rows[m] > 0 /\ (announced[m] > 0 \/ faults > 0)))
==============================================================================
