----------------------------- MODULE PickupProofs -----------------------------
(***************************************************************************)
(* Theorems about Pickup, for any number of loops, pushed deliveries and   *)
(* messages, any limit and any number of failures and crashes.             *)
(***************************************************************************)
EXTENDS Pickup, FiniteSetTheorems, TLAPS

(***************************************************************************)
(* The inductive invariants.                                               *)
(***************************************************************************)

\* What each await of PickupDelivery knows: the attachments already inserted
\* are stored, a sent receipt names stored messages only, and an answered one
\* names messages that the mediator has forgotten.
HandlerInv ==
  \A h \in Handlers :
    /\ step[h] \in {"storing", "acking", "acked"} =>
         \A m \in batch[h] \ todo[h] : rows[m] > 0
    /\ step[h] \in {"acking", "acked"} => todo[h] = {}
    /\ step[h] = "acked" => batch[h] \cap queue = {}

SafeInv ==
  /\ AckedIsStored
  /\ HandlerInv
  /\ \A m \in Messages : announced[m] > 0 => rows[m] > 0 /\ m \in (1..arrived) \ queue

\* An agent with one polling loop.
OneLoop == \A g, h \in Loops : g = h

\* ms comes first in the queue.
PrefixOfQueue(ms) == ms \subseteq queue /\ \A m \in ms, k \in queue \ ms : m < k

\* The queue is what arrived after all that is forgotten; a delivery in hand
\* is the front of it until it is acknowledged, and from then on nothing from
\* it on has been announced.
OrderInv ==
  /\ \A m \in (1..arrived) \ queue, k \in queue : m < k
  /\ \A h \in Handlers :
       /\ step[h] \in {"unpacking", "storing", "acking"} => PrefixOfQueue(batch[h])
       /\ step[h] = "acked" =>
            \A m \in batch[h], k \in Messages : m <= k => announced[k] = 0

\* Some handler has inserted m and not yet had it forgotten.
JustStored(m) ==
  \E h \in Handlers : step[h] \in {"storing", "acking"} /\ m \in batch[h] \ todo[h]

\* A message still to be delivered has one row at most per fault, the row of
\* the delivery in hand apart.
CountInv ==
  /\ \A m \in Messages : rows[m] <= 1 + faults
  /\ \A m \in Messages :
       (m \in queue \/ arrived < m) /\ ~JustStored(m) => rows[m] <= faults
  /\ \A h \in Handlers : step[h] = "storing" => todo[h] \subseteq batch[h]

\* Polling: a delivery has every message queued before one of its own, so one
\* that could be unpacked lies before each message that cannot be, and these
\* stay in the queue once they have arrived.
BlockedInv ==
  \A u \in Undecryptable :
    /\ u <= arrived => u \in queue
    /\ \A m \in Messages : rows[m] > 0 => m < u
    /\ \A h \in Handlers :
         /\ step[h] = "unpacking" => \A m \in batch[h] : u <= m => u \in batch[h]
         /\ step[h] \in {"storing", "acking"} => \A m \in batch[h] \cup todo[h] : m < u

-----------------------------------------------------------------------------
\* Pickup: every step keeps the variables in their types.
THEOREM TypeCorrect == Spec => []TypeOK
<1> USE ConstantsAssumption DEF TypeOK, Messages
<1>1. Init => TypeOK
  BY DEF Init, Steps
<1>2. TypeOK /\ [Next]_vars => TypeOK'
  <2> SUFFICES ASSUME TypeOK, [Next]_vars PROVE TypeOK'
    OBVIOUS
  <2>1. CASE Arrive
    BY <2>1 DEF Arrive
  <2>2. CASE Crash
    BY <2>2 DEF Crash, Fault, Steps, mediatorVars
  <2>3. ASSUME NEW h \in Handlers,
               StartLoop(h) \/ StopLoop(h) \/ Poll(h) \/ NothingQueued(h) \/ PollFails(h)
        PROVE  TypeOK'
    <3>1. step' \in [Handlers -> Steps]
      <4>1. \E to \in Steps : step' = [step EXCEPT ![h] = to]
        BY <2>3 DEF StartLoop, StopLoop, Poll, NothingQueued, PollFails, At, Rest, Steps
      <4> QED BY <4>1
    <3>2. UNCHANGED <<arrived, queue, batch, todo, rows, announced>>
      BY <2>3 DEF StartLoop, StopLoop, Poll, NothingQueued, PollFails, mediatorVars
    <3>3. faults' \in 0..MaxFaults
      <4>1. faults' = faults \/ Fault
        BY <2>3 DEF StartLoop, StopLoop, Poll, NothingQueued, PollFails
      <4> QED BY <4>1 DEF Fault
    <3> QED BY <3>1, <3>2, <3>3
  <2>4. ASSUME NEW h \in Handlers, Deliver(h) \/ Push(h) PROVE TypeOK'
    <3>1. Oldest(queue) \subseteq queue
      BY DEF Oldest
    <3>2. PICK ms \in SUBSET queue : batch' = [batch EXCEPT ![h] = ms]
      BY <2>4, <3>1 DEF Deliver, Push
    <3>3. batch' \in [Handlers -> SUBSET (1..arrived)]
      BY <3>2
    <3> QED BY <2>4, <3>3 DEF Deliver, Push, At, Steps, mediatorVars
  <2>5. ASSUME NEW h \in Handlers, Unpack(h) \/ UnpackRejects(h) \/ StoreReceipt(h) \/ Forget(h)
        PROVE  TypeOK'
    BY <2>5 DEF Unpack, UnpackRejects, StoreReceipt, Forget, Leave, At, Rest, Steps, mediatorVars
  <2>6. ASSUME NEW h \in Handlers, StoreMessage(h) PROVE TypeOK'
    <3>1. PICK m \in todo[h] : /\ todo' = [todo EXCEPT ![h] = @ \ {m}]
                               /\ rows' = [rows EXCEPT ![m] = @ + 1]
      BY <2>6 DEF StoreMessage
    <3>2. todo' \in [Handlers -> SUBSET (1..arrived)] /\ rows' \in [Messages -> Nat]
      <4>1. todo' \in [Handlers -> SUBSET (1..arrived)]
        BY <3>1
      <4>2. rows' \in [Messages -> Nat]
        BY <3>1
      <4> QED BY <4>1, <4>2
    <3> QED BY <2>6, <3>2 DEF StoreMessage, mediatorVars
  <2>7. ASSUME NEW h \in Handlers, Announce(h) PROVE TypeOK'
    <3>1. announced' \in [Messages -> Nat]
      BY <2>7 DEF Announce
    <3> QED BY <2>7, <3>1 DEF Announce, Leave, Rest, Steps, mediatorVars
  <2>8. ASSUME NEW h \in Handlers, HandlerThrows(h) PROVE TypeOK'
    BY <2>8 DEF HandlerThrows, Fault, Leave, Rest, Steps, mediatorVars
  <2>9. CASE UNCHANGED vars
    BY <2>9 DEF vars
  <2> QED BY <2>1, <2>2, <2>3, <2>4, <2>5, <2>6, <2>7, <2>8, <2>9 DEF Next, HandlerStep
<1> QED BY <1>1, <1>2, PTL DEF Spec

-----------------------------------------------------------------------------
\* PickupDelivery: every step of every loop and pushed handler keeps SafeInv.
LEMMA SafeStep == TypeOK /\ SafeInv /\ [Next]_vars => SafeInv'
<1> SUFFICES ASSUME TypeOK, SafeInv, [Next]_vars PROVE SafeInv'
  OBVIOUS
<1> USE ConstantsAssumption DEF TypeOK, SafeInv, HandlerInv, AckedIsStored, Messages
<1>1. CASE Arrive
  BY <1>1 DEF Arrive
<1>2. CASE Crash
  BY <1>2 DEF Crash, mediatorVars
<1>3. ASSUME NEW h \in Handlers,
             StartLoop(h) \/ StopLoop(h) \/ Poll(h) \/ NothingQueued(h) \/ PollFails(h)
      PROVE  SafeInv'
  BY <1>3 DEF StartLoop, StopLoop, Poll, NothingQueued, PollFails, At, Rest, mediatorVars
<1>4. ASSUME NEW h \in Handlers, Deliver(h) \/ Push(h) PROVE SafeInv'
  BY <1>4 DEF Deliver, Push, At, mediatorVars
<1>5. ASSUME NEW h \in Handlers, Unpack(h) \/ StoreReceipt(h) PROVE SafeInv'
  BY <1>5 DEF Unpack, StoreReceipt, At, mediatorVars
<1>6. ASSUME NEW h \in Handlers, StoreMessage(h) PROVE SafeInv'
  <2>1. \A m \in Messages : rows'[m] >= rows[m]
    BY <1>6 DEF StoreMessage
  <2>2. PICK m \in todo[h] : /\ todo' = [todo EXCEPT ![h] = @ \ {m}]
                             /\ rows' = [rows EXCEPT ![m] = @ + 1]
    BY <1>6 DEF StoreMessage
  <2>3. rows'[m] > 0
    BY <2>2
  <2>4. HandlerInv'
    BY <1>6, <2>1, <2>2, <2>3 DEF StoreMessage, mediatorVars
  <2> QED BY <1>6, <2>1, <2>4 DEF StoreMessage, mediatorVars
<1>7. ASSUME NEW h \in Handlers, Forget(h) PROVE SafeInv'
  BY <1>7 DEF Forget, At
<1>8. ASSUME NEW h \in Handlers, Announce(h) PROVE SafeInv'
  <2>1. \A m \in Messages : announced'[m] > 0 => announced[m] > 0 \/ m \in batch[h]
    BY <1>8 DEF Announce
  <2>2. \A m \in batch[h] : rows[m] > 0 /\ m \in (1..arrived) \ queue
    BY <1>8 DEF Announce
  <2> QED BY <1>8, <2>1, <2>2 DEF Announce, Leave, Rest, mediatorVars
<1>9. ASSUME NEW h \in Handlers, UnpackRejects(h) \/ HandlerThrows(h) PROVE SafeInv'
  BY <1>9 DEF UnpackRejects, HandlerThrows, Leave, Rest, mediatorVars
<1>10. CASE UNCHANGED vars
  BY <1>10 DEF vars
<1> QED BY <1>1, <1>2, <1>3, <1>4, <1>5, <1>6, <1>7, <1>8, <1>9, <1>10 DEF Next, HandlerStep

THEOREM SafeCorrect == Spec => []SafeInv
<1>1. Init => SafeInv
  BY ConstantsAssumption DEF Init, SafeInv, HandlerInv, AckedIsStored, Messages
<1> QED BY <1>1, SafeStep, TypeCorrect, PTL DEF Spec

\* Nothing is lost: what the mediator has forgotten is stored.
THEOREM AckedCorrect == Spec => []AckedIsStored
<1>1. SafeInv => AckedIsStored
  BY DEF SafeInv
<1> QED BY <1>1, SafeCorrect, PTL

\* What the MESSAGE event has carried is stored and will not be delivered again.
THEOREM AnnouncedCorrect == Spec => []AnnouncedIsSettled
<1>1. SafeInv => AnnouncedIsSettled
  BY DEF SafeInv, AnnouncedIsSettled
<1> QED BY <1>1, SafeCorrect, PTL

\* Pickup implements Inbox: at-least-once delivery, nothing lost.
THEOREM ImplementsInbox == Spec => InboxSpec
<1> USE DEF AbstractInbox!vars, Messages
<1>1. Init => AbstractInbox!Init
  BY DEF Init, AbstractInbox!Init
<1>2. TypeOK /\ SafeInv /\ [Next]_vars => [AbstractInbox!Next]_(AbstractInbox!vars)
  <2> SUFFICES ASSUME TypeOK, SafeInv, [Next]_vars
               PROVE  AbstractInbox!Next \/ UNCHANGED AbstractInbox!vars
    OBVIOUS
  <2> USE ConstantsAssumption DEF TypeOK
  <2>1. CASE Arrive
    BY <2>1 DEF Arrive, AbstractInbox!Next, AbstractInbox!Arrive
  <2>2. CASE Crash \/ UNCHANGED vars
    BY <2>2 DEF Crash, mediatorVars, vars
  <2>3. ASSUME NEW h \in Handlers,
               \/ StartLoop(h) \/ StopLoop(h) \/ Poll(h) \/ NothingQueued(h) \/ PollFails(h)
               \/ Deliver(h) \/ Push(h) \/ Unpack(h) \/ UnpackRejects(h) \/ StoreReceipt(h)
               \/ HandlerThrows(h)
        PROVE  UNCHANGED <<arrived, queue, rows, announced>>
    BY <2>3 DEF StartLoop, StopLoop, Poll, NothingQueued, PollFails, Deliver, Push, Unpack,
                UnpackRejects, StoreReceipt, HandlerThrows, mediatorVars
  <2>4. ASSUME NEW h \in Handlers, StoreMessage(h)
        PROVE  AbstractInbox!Next \/ UNCHANGED AbstractInbox!vars
    <3>1. PICK m \in todo[h] : rows' = [rows EXCEPT ![m] = @ + 1]
      BY <2>4 DEF StoreMessage
    <3>2. m \in Messages /\ m \in 1..arrived
      OBVIOUS
    <3>3. {k \in Messages : rows'[k] > 0} = {k \in Messages : rows[k] > 0} \cup {m}
      BY <3>1, <3>2
    <3>4. m \in queue \/ m \in {k \in Messages : rows[k] > 0}
      BY <3>2 DEF SafeInv, AckedIsStored
    <3>5. UNCHANGED <<arrived, queue, announced>>
      BY <2>4 DEF StoreMessage, mediatorVars
    <3> QED BY <3>3, <3>4, <3>5 DEF AbstractInbox!Next, AbstractInbox!Save
  <2>5. ASSUME NEW h \in Handlers, Forget(h)
        PROVE  AbstractInbox!Next
    <3> DEFINE stored == {k \in Messages : rows[k] > 0}
    <3>1. batch[h] \subseteq stored
      BY <2>5 DEF Forget, At, SafeInv, HandlerInv
    <3>2. PICK ms \in SUBSET (queue \cap stored) : ms = batch[h] \cap queue
      BY <3>1
    <3>3. queue' = queue \ ms /\ UNCHANGED <<arrived, rows, announced>>
      BY <2>5, <3>2 DEF Forget
    <3>4. AbstractInbox!Forget(ms)
      BY <3>3 DEF AbstractInbox!Forget
    <3> QED BY <3>4 DEF AbstractInbox!Next
  <2>6. ASSUME NEW h \in Handlers, Announce(h)
        PROVE  AbstractInbox!Next
    <3> DEFINE stored == {k \in Messages : rows[k] > 0}
    <3>1. batch[h] \subseteq stored \ queue
      BY <2>6 DEF Announce, SafeInv, HandlerInv
    <3>2. PICK ms \in SUBSET (stored \ queue) : ms = batch[h]
      BY <3>1
    <3>3. {k \in Messages : announced'[k] > 0} = {k \in Messages : announced[k] > 0} \cup ms
      BY <2>6, <3>2 DEF Announce
    <3>4. AbstractInbox!Announce(ms)
      BY <2>6, <3>3 DEF Announce, AbstractInbox!Announce, mediatorVars
    <3> QED BY <3>4 DEF AbstractInbox!Next
  <2> QED BY <2>1, <2>2, <2>3, <2>4, <2>5, <2>6 DEF Next, HandlerStep
<1> QED BY <1>1, <1>2, TypeCorrect, SafeCorrect, PTL DEF Spec, InboxSpec, AbstractInbox!Spec

-----------------------------------------------------------------------------
\* The mediator: a delivery is the front of the queue.
LEMMA OldestIsPrefix == TypeOK => PrefixOfQueue(Oldest(queue))
<1> SUFFICES ASSUME TypeOK, NEW m \in Oldest(queue), NEW k \in queue \ Oldest(queue)
             PROVE  m < k
  BY DEF PrefixOfQueue, Oldest
<1> DEFINE Before(j) == {i \in queue : i < j}
<1>1. arrived \in Nat /\ queue \subseteq 1..arrived /\ Limit \in Nat
  BY ConstantsAssumption DEF TypeOK
<1>2. m \in Nat /\ k \in Nat /\ m \in queue /\ Cardinality(Before(m)) < Limit
  BY <1>1 DEF Oldest
<1>3. SUFFICES ASSUME k <= m PROVE FALSE
  BY <1>2
<1>4. IsFiniteSet(Before(m)) /\ Before(k) \subseteq Before(m)
  <2>1. IsFiniteSet(1..arrived)
    BY <1>1, FS_Interval
  <2>2. Before(m) \subseteq 1..arrived
    BY <1>1
  <2>3. \A i \in queue : i < k => i < m
    BY <1>1, <1>2, <1>3
  <2> QED BY <2>1, <2>2, <2>3, FS_Subset
<1>5. /\ IsFiniteSet(Before(k))
      /\ Cardinality(Before(k)) \in Nat /\ Cardinality(Before(m)) \in Nat
      /\ Cardinality(Before(k)) <= Cardinality(Before(m))
  BY <1>4, FS_Subset, FS_CardinalityType
<1>6. Cardinality(Before(k)) < Limit
  BY <1>1, <1>2, <1>5
<1>7. k \in Oldest(queue)
  BY <1>6 DEF Oldest
<1> QED BY <1>7

\* Whether the mediator pushes is settled at the start.
LEMMA PollingStep == TypeOK /\ [Next]_vars => (Polling <=> Polling')
<1> SUFFICES ASSUME TypeOK, [Next]_vars PROVE Polling <=> Polling'
  OBVIOUS
<1>1. \A h \in Handlers : step'[h] = "none" <=> step[h] = "none"
  <2> USE DEF TypeOK
  <2>1. CASE Arrive \/ Crash \/ UNCHANGED vars
    BY <2>1 DEF Arrive, Crash, vars
  <2>2. ASSUME NEW h \in Handlers, UNCHANGED step
        PROVE  \A g \in Handlers : step'[g] = "none" <=> step[g] = "none"
    BY <2>2
  <2>3. ASSUME NEW h \in Handlers, NEW to \in Steps \ {"none"},
               step[h] # "none", step' = [step EXCEPT ![h] = to]
        PROVE  \A g \in Handlers : step'[g] = "none" <=> step[g] = "none"
    BY <2>3
  <2>4. ASSUME NEW h \in Handlers,
               \/ StartLoop(h) \/ StopLoop(h) \/ Poll(h) \/ Push(h) \/ Deliver(h)
               \/ NothingQueued(h) \/ PollFails(h) \/ Unpack(h) \/ StoreReceipt(h)
               \/ Forget(h)
        PROVE  step[h] # "none" /\ \E to \in Steps \ {"none"} : step' = [step EXCEPT ![h] = to]
    BY <2>4 DEF StartLoop, StopLoop, Poll, Push, Deliver, NothingQueued, PollFails, Unpack,
                StoreReceipt, Forget, At, Rest, Steps
  <2>5. ASSUME NEW h \in Handlers, UnpackRejects(h) \/ Announce(h) \/ HandlerThrows(h)
        PROVE  step[h] # "none" /\ \E to \in Steps \ {"none"} : step' = [step EXCEPT ![h] = to]
    BY <2>5 DEF UnpackRejects, Announce, HandlerThrows, HandlerSteps, Leave, Rest, Steps
  <2>6. ASSUME NEW h \in Handlers, StoreMessage(h) PROVE UNCHANGED step
    BY <2>6 DEF StoreMessage
  <2> QED BY <2>1, <2>2, <2>3, <2>4, <2>5, <2>6 DEF Next, HandlerStep
<1> QED BY <1>1 DEF Polling, Handlers

\* With one loop and no pushes, one handler at most is ever at work.
LEMMA OneAtWork ==
  ASSUME OneLoop, Polling, TypeOK, [Next]_vars, NEW h \in Handlers, step[h] # "none"
  PROVE  \A g \in Handlers \ {h} : step[g] = "none" /\ step'[g] = "none"
BY PollingStep DEF OneLoop, Polling, Handlers

\* One loop: every step keeps the deliveries in order.
LEMMA OrderStep ==
  OneLoop => (TypeOK /\ SafeInv /\ Polling /\ OrderInv /\ [Next]_vars => OrderInv')
<1> SUFFICES ASSUME OneLoop, TypeOK, SafeInv, Polling, OrderInv, [Next]_vars PROVE OrderInv'
  OBVIOUS
<1> USE ConstantsAssumption DEF TypeOK, OrderInv, PrefixOfQueue, Messages
<1>0. \A h \in Handlers : step[h] # "none" =>
        \A g \in Handlers \ {h} : step[g] = "none" /\ step'[g] = "none"
  BY OneAtWork
<1>1. CASE Arrive
  <2>1. announced' = announced /\ step' = step /\ batch' = batch
    BY <1>1 DEF Arrive
  <2>2. queue' = queue \cup {arrived + 1} /\ arrived' = arrived + 1
    BY <1>1 DEF Arrive
  <2>3. \A m \in (1..arrived') \ queue', k \in queue' : m < k
    BY <2>2
  <2>4. \A h \in Handlers : step[h] \in {"unpacking", "storing", "acking"}
          => PrefixOfQueue(batch[h])'
    BY <2>1, <2>2
  <2> QED BY <2>1, <2>3, <2>4
<1>2. CASE Crash
  BY <1>2 DEF Crash, mediatorVars
<1>3. ASSUME NEW h \in Handlers,
             StartLoop(h) \/ StopLoop(h) \/ Poll(h) \/ NothingQueued(h) \/ PollFails(h)
      PROVE  OrderInv'
  BY <1>3 DEF StartLoop, StopLoop, Poll, NothingQueued, PollFails, At, Rest, mediatorVars
<1>4. ASSUME NEW h \in Handlers, Deliver(h) PROVE OrderInv'
  <2>1. PrefixOfQueue(Oldest(queue)) /\ Oldest(queue) \subseteq queue
    BY OldestIsPrefix DEF Oldest
  <2>2. UNCHANGED <<arrived, queue, announced>>
    BY <1>4 DEF Deliver, mediatorVars
  <2>3. step[h] = "requested" /\ step'[h] = "unpacking" /\ batch'[h] = Oldest(queue)
    BY <1>4, <2>1 DEF Deliver, At
  <2> QED BY <1>0, <2>1, <2>2, <2>3
<1>5. ASSUME NEW h \in Handlers, Push(h) PROVE OrderInv'
  BY <1>5 DEF Push, At, Polling
<1>6. ASSUME NEW h \in Handlers, Unpack(h) \/ StoreReceipt(h) PROVE OrderInv'
  BY <1>6 DEF Unpack, StoreReceipt, At, mediatorVars
<1>7. ASSUME NEW h \in Handlers, StoreMessage(h) PROVE OrderInv'
  BY <1>7 DEF StoreMessage, mediatorVars
<1>8. ASSUME NEW h \in Handlers, Forget(h) PROVE OrderInv'
  <2>1. step[h] = "acking" /\ step'[h] = "acked" /\ PrefixOfQueue(batch[h])
    BY <1>8 DEF Forget, At
  <2>2. queue' = queue \ batch[h] /\ UNCHANGED <<arrived, batch, announced>>
    BY <1>8 DEF Forget
  <2>3. \A m \in (1..arrived') \ queue', k \in queue' : m < k
    BY <2>1, <2>2
  <2>4. ASSUME NEW m \in batch[h], NEW k \in Messages, m <= k PROVE announced[k] = 0
    <3>1. announced[k] > 0 => k \in (1..arrived) \ queue
      BY DEF SafeInv
    <3>2. k \in (1..arrived) \ queue => k < m
      BY <2>1
    <3> QED BY <2>4, <3>1, <3>2
  <2> QED BY <1>0, <2>1, <2>2, <2>3, <2>4
<1>9. ASSUME NEW h \in Handlers, Announce(h) \/ UnpackRejects(h) \/ HandlerThrows(h)
      PROVE  OrderInv'
  <2>1. step[h] # "none" /\ step'[h] \in {"timer", "off"}
    BY <1>9 DEF Announce, UnpackRejects, HandlerThrows, HandlerSteps, Leave, Rest
  <2>2. UNCHANGED <<arrived, queue>>
    BY <1>9 DEF Announce, UnpackRejects, HandlerThrows, mediatorVars
  <2> QED BY <1>0, <2>1, <2>2
<1>10. CASE UNCHANGED vars
  BY <1>10 DEF vars
<1> QED BY <1>1, <1>2, <1>3, <1>4, <1>5, <1>6, <1>7, <1>8, <1>9, <1>10 DEF Next, HandlerStep

THEOREM OrderCorrect == OneLoop => (Spec => [](Polling => OrderInv))
<1> SUFFICES ASSUME OneLoop PROVE Spec => [](Polling => OrderInv)
  OBVIOUS
<1>1. Init => OrderInv
  BY ConstantsAssumption DEF Init, OrderInv
<1>2. TypeOK /\ SafeInv /\ (Polling => OrderInv) /\ [Next]_vars => (Polling => OrderInv)'
  BY OrderStep, PollingStep
<1> QED BY <1>1, <1>2, TypeCorrect, SafeCorrect, PTL DEF Spec

\* One loop: a message is announced once, and in the order of arrival.
THEOREM AnnouncedOrderCorrect == OneLoop => (Spec => AnnouncedInOrder)
<1> SUFFICES ASSUME OneLoop PROVE Spec => AnnouncedInOrder
  OBVIOUS
<1>1. TypeOK /\ (Polling => OrderInv) /\ [Next]_vars
        => [Polling => \A m, k \in Messages :
              announced'[m] # announced[m] /\ m <= k => announced[k] = 0]_vars
  <2> SUFFICES ASSUME TypeOK, OrderInv, [Next]_vars, NEW m \in Messages, NEW k \in Messages,
                      announced'[m] # announced[m], m <= k
               PROVE  announced[k] = 0
    OBVIOUS
  <2>1. \A h \in Handlers : Announce(h) => step[h] = "acked" /\ m \in batch[h]
    BY DEF Announce, TypeOK
  <2>2. \E h \in Handlers : Announce(h)
    BY DEF Next, HandlerStep, Arrive, Crash, StartLoop, StopLoop, Poll, Push, Deliver,
           NothingQueued, PollFails, Unpack, UnpackRejects, StoreMessage, StoreReceipt,
           Forget, HandlerThrows, mediatorVars, vars
  <2> QED BY <2>1, <2>2 DEF OrderInv
<1> QED BY <1>1, OrderCorrect, TypeCorrect, PTL DEF Spec, AnnouncedInOrder

\* One loop: every step keeps the count of each message's rows in bounds.
LEMMA CountStep ==
  OneLoop => (TypeOK /\ Polling /\ OrderInv /\ CountInv /\ [Next]_vars => CountInv')
<1> SUFFICES ASSUME OneLoop, TypeOK, Polling, OrderInv, CountInv, [Next]_vars PROVE CountInv'
  OBVIOUS
<1> USE ConstantsAssumption DEF TypeOK, CountInv, JustStored, Messages
<1>0. \A h \in Handlers : step[h] # "none" =>
        \A g \in Handlers \ {h} : step[g] = "none" /\ step'[g] = "none"
  BY OneAtWork
<1>1. CASE Arrive
  BY <1>1 DEF Arrive
<1>2. CASE Crash
  BY <1>2 DEF Crash, Fault, mediatorVars
<1>3. ASSUME NEW h \in Handlers,
             \/ StartLoop(h) \/ StopLoop(h) \/ Poll(h) \/ NothingQueued(h)
             \/ UnpackRejects(h) \/ Announce(h) \/ Deliver(h)
      PROVE  CountInv'
  <2>1. step[h] \notin {"none", "storing", "acking"} /\ step'[h] \notin {"storing", "acking"}
    BY <1>3 DEF StartLoop, StopLoop, Poll, NothingQueued, UnpackRejects, Announce, Deliver,
                Leave, At, Rest
  <2>2. UNCHANGED <<arrived, queue, rows, faults>>
    BY <1>3 DEF StartLoop, StopLoop, Poll, NothingQueued, UnpackRejects, Announce, Deliver,
                mediatorVars
  <2> QED BY <1>0, <2>1, <2>2
<1>4. ASSUME NEW h \in Handlers, PollFails(h) \/ HandlerThrows(h) PROVE CountInv'
  <2>1. faults' = faults + 1 /\ UNCHANGED <<arrived, queue, rows>>
    BY <1>4 DEF PollFails, HandlerThrows, Fault, mediatorVars
  <2>2. step[h] # "none" /\ step'[h] # "storing"
    BY <1>4 DEF PollFails, HandlerThrows, HandlerSteps, Leave, At, Rest
  <2>3. \A g \in Handlers : step'[g] # "storing"
    BY <1>0, <2>2
  <2>4. \A m \in Messages : rows'[m] <= faults'
    BY <2>1
  <2> QED BY <2>1, <2>3, <2>4
<1>5. ASSUME NEW h \in Handlers, Push(h) PROVE CountInv'
  BY <1>5 DEF Push, At, Polling
<1>6. ASSUME NEW h \in Handlers, Unpack(h) PROVE CountInv'
  <2>1. step[h] = "unpacking" /\ todo'[h] = batch'[h]
    BY <1>6 DEF Unpack, At
  <2>2. UNCHANGED <<arrived, queue, rows, faults>>
    BY <1>6 DEF Unpack, mediatorVars
  <2>3. \A m \in Messages : ~JustStored(m)
    BY <1>0, <2>1
  <2> QED BY <1>0, <2>1, <2>2, <2>3
<1>7. ASSUME NEW h \in Handlers, StoreReceipt(h) PROVE CountInv'
  <2>1. step[h] = "storing" /\ step'[h] = "acking"
    BY <1>7 DEF StoreReceipt, At
  <2>2. UNCHANGED <<arrived, queue, batch, todo, rows, faults>>
    BY <1>7 DEF StoreReceipt, mediatorVars
  <2>3. \A m \in Messages : JustStored(m) => JustStored(m)'
    BY <1>0, <2>1, <2>2
  <2> QED BY <1>0, <2>1, <2>2, <2>3
<1>8. ASSUME NEW h \in Handlers, StoreMessage(h) PROVE CountInv'
  <2>1. PICK m \in todo[h] : /\ todo' = [todo EXCEPT ![h] = @ \ {m}]
                             /\ rows' = [rows EXCEPT ![m] = @ + 1]
    BY <1>8 DEF StoreMessage
  <2>2. step[h] = "storing" /\ UNCHANGED <<arrived, queue, step, batch, faults>>
    BY <1>8 DEF StoreMessage, mediatorVars
  <2>3. m \in batch[h] /\ m \in queue /\ m \in Messages
    BY <2>2 DEF OrderInv, PrefixOfQueue
  <2>4. ~JustStored(m) /\ JustStored(m)'
    BY <1>0, <2>1, <2>2, <2>3
  <2>5. rows'[m] <= 1 + faults'
    BY <2>1, <2>2, <2>3, <2>4
  <2>6. \A k \in Messages : k # m => rows'[k] = rows[k]
    BY <2>1
  <2>7. \A k \in Messages : JustStored(k) => JustStored(k)'
    BY <1>0, <2>1, <2>2
  <2>8. \A k \in Messages : rows'[k] <= 1 + faults'
    BY <2>2, <2>5, <2>6
  <2>9. \A k \in Messages :
          (k \in queue \/ arrived < k) /\ ~JustStored(k)' => rows'[k] <= faults
    BY <2>4, <2>6, <2>7
  <2>10. \A g \in Handlers : step[g] = "storing" => todo'[g] \subseteq batch[g]
    BY <2>1, <2>2
  <2> QED BY <2>2, <2>8, <2>9, <2>10
<1>9. ASSUME NEW h \in Handlers, Forget(h) PROVE CountInv'
  <2>1. step[h] = "acking" /\ step'[h] = "acked"
    BY <1>9 DEF Forget, At
  <2>2. queue' = queue \ batch[h] /\ UNCHANGED <<arrived, batch, todo, rows, faults>>
    BY <1>9 DEF Forget
  <2>3. \A m \in Messages : JustStored(m) => m \in batch[h]
    BY <1>0, <2>1
  <2>4. batch[h] \subseteq 1..arrived
    OBVIOUS
  <2>5. \A g \in Handlers : step'[g] # "storing"
    BY <1>0, <2>1
  <2>6. \A m \in Messages : m \in queue' \/ arrived' < m => ~JustStored(m)
    BY <2>2, <2>3, <2>4
  <2> QED BY <2>2, <2>5, <2>6
<1>10. CASE UNCHANGED vars
  BY <1>10 DEF vars
<1> QED BY <1>1, <1>2, <1>3, <1>4, <1>5, <1>6, <1>7, <1>8, <1>9, <1>10 DEF Next, HandlerStep

\* One loop: a message has one row, and one more at most for each fault.
THEOREM RowsCorrect == OneLoop => (Spec => []RowsBounded)
<1> SUFFICES ASSUME OneLoop PROVE Spec => []RowsBounded
  OBVIOUS
<1>1. Init => CountInv
  BY ConstantsAssumption DEF Init, CountInv
<1>2. TypeOK /\ (Polling => OrderInv /\ CountInv) /\ [Next]_vars => (Polling => CountInv)'
  BY CountStep, PollingStep
<1>3. (Polling => CountInv) => RowsBounded
  BY DEF CountInv, RowsBounded
<1> QED BY <1>1, <1>2, <1>3, TypeCorrect, OrderCorrect, PTL DEF Spec

-----------------------------------------------------------------------------
\* Any number of loops: every step keeps what cannot be unpacked in the way of
\* what arrived after it.
LEMMA BlockedStep == TypeOK /\ Polling /\ BlockedInv /\ [Next]_vars => BlockedInv'
<1> SUFFICES ASSUME TypeOK, Polling, BlockedInv, [Next]_vars, NEW u \in Undecryptable
             PROVE  BlockedInv!(u)'
  BY DEF BlockedInv
<1> USE ConstantsAssumption DEF TypeOK, BlockedInv, Messages
<1>1. CASE Arrive
  BY <1>1 DEF Arrive
<1>2. CASE Crash
  BY <1>2 DEF Crash, mediatorVars
<1>3. ASSUME NEW h \in Handlers,
             StartLoop(h) \/ StopLoop(h) \/ Poll(h) \/ NothingQueued(h) \/ PollFails(h)
      PROVE  BlockedInv!(u)'
  BY <1>3 DEF StartLoop, StopLoop, Poll, NothingQueued, PollFails, At, Rest, mediatorVars
<1>4. ASSUME NEW h \in Handlers, Deliver(h) PROVE BlockedInv!(u)'
  <2>1. Oldest(queue) \subseteq queue /\ \A m \in Oldest(queue), k \in queue \ Oldest(queue) : m < k
    BY OldestIsPrefix DEF PrefixOfQueue
  <2>2. \A m \in Oldest(queue) : u <= m => u \in Oldest(queue)
    <3>1. SUFFICES ASSUME NEW m \in Oldest(queue), u <= m PROVE u \in Oldest(queue)
      OBVIOUS
    <3>2. arrived \in Nat /\ u \in Nat /\ queue \subseteq 1..arrived
      OBVIOUS
    <3>3. m \in 1..arrived
      BY <2>1, <3>2
    <3>4. u <= arrived /\ ~(m < u)
      BY <3>1, <3>2, <3>3
    <3>5. u \in queue
      BY <3>4
    <3> QED BY <2>1, <3>4, <3>5
  <2>3. batch'[h] = Oldest(queue) /\ \A g \in Handlers \ {h} : batch'[g] = batch[g]
    BY <1>4, <2>1 DEF Deliver
  <2> QED BY <1>4, <2>2, <2>3 DEF Deliver, At, mediatorVars
<1>5. ASSUME NEW h \in Handlers, Push(h) PROVE BlockedInv!(u)'
  BY <1>5 DEF Push, At, Polling
<1>6. ASSUME NEW h \in Handlers, Unpack(h) PROVE BlockedInv!(u)'
  <2>1. \A m \in batch[h] : m < u
    BY <1>6 DEF Unpack, At
  <2> QED BY <1>6, <2>1 DEF Unpack, At, mediatorVars
<1>7. ASSUME NEW h \in Handlers, StoreReceipt(h) PROVE BlockedInv!(u)'
  BY <1>7 DEF StoreReceipt, At, mediatorVars
<1>8. ASSUME NEW h \in Handlers, StoreMessage(h) PROVE BlockedInv!(u)'
  <2>1. PICK m \in todo[h] : /\ todo' = [todo EXCEPT ![h] = @ \ {m}]
                             /\ rows' = [rows EXCEPT ![m] = @ + 1]
    BY <1>8 DEF StoreMessage
  <2>2. step[h] = "storing" /\ UNCHANGED <<arrived, queue, step, batch>>
    BY <1>8 DEF StoreMessage, mediatorVars
  <2>3. m < u
    BY <2>2
  <2>4. \A k \in Messages : rows'[k] > 0 => k < u
    BY <2>1, <2>3
  <2>5. \A g \in Handlers : todo'[g] \subseteq todo[g]
    BY <2>1
  <2> QED BY <2>2, <2>4, <2>5
<1>9. ASSUME NEW h \in Handlers, Forget(h) PROVE BlockedInv!(u)'
  <2>1. u \notin batch[h]
    BY <1>9 DEF Forget, At
  <2> QED BY <1>9, <2>1 DEF Forget, At
<1>10. ASSUME NEW h \in Handlers, Announce(h) \/ UnpackRejects(h) \/ HandlerThrows(h)
       PROVE  BlockedInv!(u)'
  BY <1>10 DEF Announce, UnpackRejects, HandlerThrows, Leave, Rest, mediatorVars
<1>11. CASE UNCHANGED vars
  BY <1>11 DEF vars
<1> QED BY <1>1, <1>2, <1>3, <1>4, <1>5, <1>6, <1>7, <1>8, <1>9, <1>10, <1>11 DEF Next, HandlerStep

\* By polling alone, with any number of loops: no message that arrived after one
\* that cannot be unpacked is ever stored.
THEOREM BlockedCorrect == Spec => []NothingPassesUndecryptable
<1>1. Init => BlockedInv
  BY ConstantsAssumption DEF Init, BlockedInv, Messages
<1>2. TypeOK /\ (Polling => BlockedInv) /\ [Next]_vars => (Polling => BlockedInv)'
  BY BlockedStep, PollingStep
<1>3. (Polling => BlockedInv) => NothingPassesUndecryptable
  BY DEF BlockedInv, NothingPassesUndecryptable
<1> QED BY <1>1, <1>2, <1>3, TypeCorrect, PTL DEF Spec
==============================================================================
