----------------------------- MODULE ExchangeProofs -----------------------------
(***************************************************************************)
(* Theorems about Exchange, for any listeners, any number of calls and     *)
(* flows, and whatever the other parties answer.                           *)
(***************************************************************************)
EXTENDS Exchange, FiniteSetTheorems, WellFoundedInduction, TLAPS

-----------------------------------------------------------------------------
(* The lists of listeners                                                  *)

\* A list has a listener once, and any number of gaps.
IsList(s) ==
  /\ s \in Seq(Listeners \cup {Gap})
  /\ \A i, j \in 1..Len(s) : s[i] = s[j] /\ s[i] # Gap => i = j

\* What a list has become while some listeners were removed and others were added.
Follows(new, old, removed) ==
  /\ IsList(new)
  /\ Len(new) >= Len(old)
  /\ \A i \in 1..Len(old) : new[i] = old[i] \/ (new[i] = Gap /\ old[i] \in removed)

\* addListener: a Set has no duplicates, and moves nothing.
LEMMA AddFollows ==
  ASSUME NEW s, IsList(s), NEW l \in Listeners
  PROVE  Follows(AddListener(s, l), s, {})
<1> USE EventsAssumption
<1>1. s \in Seq(Listeners \cup {Gap}) /\ Len(s) \in Nat
  BY DEF IsList
<1>2. CASE Contains(s, l)
  BY <1>1, <1>2 DEF AddListener, Follows
<1>3. CASE ~Contains(s, l)
  <2> DEFINE t == Append(s, l)
  <2>1. t \in Seq(Listeners \cup {Gap}) /\ Len(t) = Len(s) + 1 /\ t[Len(s) + 1] = l
        /\ \A i \in 1..Len(s) : t[i] = s[i]
    BY <1>1
  <2>2. \A i \in 1..Len(s) : s[i] # l
    BY <1>3 DEF Contains
  <2>3. AddListener(s, l) = t
    BY <1>3 DEF AddListener
  <2> HIDE DEF t
  <2>4. ASSUME NEW i \in 1..Len(t), NEW j \in 1..Len(t), t[i] = t[j], t[i] # Gap
        PROVE  i = j
    <3>1. i \in 1..Len(s) \/ i = Len(s) + 1
      BY <1>1, <2>1
    <3>2. j \in 1..Len(s) \/ j = Len(s) + 1
      BY <1>1, <2>1
    <3> QED
      BY <2>1, <2>2, <2>4, <3>1, <3>2 DEF IsList
  <2> QED
    BY <1>1, <2>1, <2>3, <2>4 DEF IsList, Follows
<1> QED
  BY <1>2, <1>3

\* removeListener: what is removed leaves a gap.
LEMMA RemoveFollows ==
  ASSUME NEW s, IsList(s), NEW l
  PROVE  Follows(RemoveListener(s, l), s, {l})
<1>1. s \in Seq(Listeners \cup {Gap}) /\ Len(s) \in Nat /\ DOMAIN s = 1..Len(s)
  BY DEF IsList
<1> DEFINE t == [i \in 1..Len(s) |-> IF s[i] = l THEN Gap ELSE s[i]]
<1>2. RemoveListener(s, l) = t
  BY <1>1 DEF RemoveListener
<1>3. t \in Seq(Listeners \cup {Gap}) /\ Len(t) = Len(s)
  BY <1>1
<1>4. \A i \in 1..Len(s) : t[i] = s[i] \/ (t[i] = Gap /\ s[i] \in {l})
  OBVIOUS
<1> HIDE DEF t
<1> QED
  BY <1>1, <1>2, <1>3, <1>4 DEF IsList, Follows

\* One callback may do both.
LEMMA FollowsBoth ==
  ASSUME NEW s, NEW t, NEW u, NEW r, IsList(s), Follows(t, s, r), Follows(u, t, {})
  PROVE  Follows(u, s, r)
<1>1. Len(s) \in Nat /\ Len(t) \in Nat /\ Len(u) \in Nat
  BY DEF IsList, Follows
<1> QED
  BY <1>1 DEF Follows

-----------------------------------------------------------------------------
(* An emission                                                             *)

Emission ==
  [event : EventNames, at : Nat \ {0}, heard : [Listeners -> Nat], removed : SUBSET Listeners]

\* A listener that has not been removed has heard the event, once, if its place
\* has been visited.
HasHeard(l) == \E i \in 1..Len(Entries) : i < Running.at /\ Entries[i] = l

EventsInv ==
  /\ events = [e \in EventNames |-> events[e]]
  /\ \A e \in EventNames : IsList(events[e])
  /\ ~Quiet =>
       /\ emission = <<Running>> /\ Running \in Emission
       /\ Running.at <= Len(Entries) + 1
       /\ \A l \in Listeners \ Running.removed :
            Running.heard[l] = IF HasHeard(l) THEN 1 ELSE 0

\* A callback that leaves such a list has been called once.
LEMMA CallbackKeeps ==
  ASSUME EventsInv, ~Quiet, NEW entries, NEW removed \in SUBSET Listeners,
         Follows(entries, Entries, removed), Callback(entries, removed)
  PROVE  EventsInv'
<1> USE EventsAssumption
<1> DEFINE n == Running.at
           x == Entries[n]
           e == Running.event
<1>1. /\ Running \in Emission /\ emission = <<Running>> /\ IsList(Entries)
      /\ n \in Nat \ {0} /\ e \in EventNames /\ Len(Entries) \in Nat
      /\ n <= Len(Entries) /\ x \in Listeners
  BY DEF EventsInv, Emission, Entries, IsFinished, Callback, IsList
<1>2. /\ events' = [events EXCEPT ![e] = entries]
      /\ emission' = <<[Called EXCEPT !.removed = @ \cup removed]>>
  BY DEF Callback
<1>3. Running' = [event |-> e, at |-> n + 1,
                  heard |-> [Running.heard EXCEPT ![x] = @ + 1],
                  removed |-> Running.removed \cup removed]
  BY <1>1, <1>2 DEF Running, Called, Emission
<1>4. Running' \in Emission /\ emission' = <<Running'>> /\ ~Quiet'
  <2>1. emission' = <<Running'>> /\ emission' # <<>>
    BY <1>2 DEF Running
  <2>2. [Running.heard EXCEPT ![x] = @ + 1] \in [Listeners -> Nat]
    BY <1>1 DEF Emission
  <2>3. n + 1 \in Nat \ {0} /\ Running.removed \cup removed \in SUBSET Listeners
    BY <1>1 DEF Emission
  <2>4. Running' \in Emission
    <3> HIDE DEF n, x, e
    <3> QED
      BY <1>1, <1>3, <2>2, <2>3 DEF Emission
  <2> QED
    BY <2>1, <2>4 DEF Quiet
<1>5. Entries' = entries /\ events' = [d \in EventNames |-> events'[d]]
      /\ \A d \in EventNames : IsList(events'[d])
  BY <1>1, <1>2, <1>3 DEF EventsInv, Entries, Follows
<1>6. Len(entries) \in Nat /\ Running'.at <= Len(entries) + 1
  BY <1>1, <1>3 DEF Follows, IsList
<1>7. ASSUME NEW l \in Listeners \ Running'.removed
      PROVE  Running'.heard[l] = IF HasHeard(l)' THEN 1 ELSE 0
  <2>1. l # Gap /\ l \notin removed /\ l \in Listeners \ Running.removed
    BY <1>3
  <2>2. HasHeard(l)' <=> \E i \in 1..Len(entries) : i < n + 1 /\ entries[i] = l
    BY <1>3, <1>5 DEF HasHeard
  <2>3. \A i \in 1..Len(Entries) : entries[i] = l <=> Entries[i] = l
    BY <2>1 DEF Follows
  <2>4. Len(entries) >= Len(Entries)
    BY DEF Follows
  <2>5. HasHeard(l)' <=> HasHeard(l) \/ l = x
    <3>1. ASSUME NEW i \in 1..Len(entries), i < n + 1
          PROVE  i \in 1..Len(Entries) /\ (i < n \/ i = n)
      BY <1>1, <1>6, <3>1
    <3>2. n \in 1..Len(entries) /\ n < n + 1 /\ n \in 1..Len(Entries)
      BY <1>1, <1>6, <2>4
    <3>3. HasHeard(l) => HasHeard(l)'
      BY <1>1, <1>6, <2>2, <2>3, <2>4 DEF HasHeard
    <3> HIDE DEF n
    <3> QED
      BY <2>2, <2>3, <3>1, <3>2, <3>3 DEF HasHeard, n
  <2>6. l = x => ~HasHeard(l)
    <3>1. ASSUME NEW i \in 1..Len(Entries), i < n, Entries[i] = x
          PROVE  FALSE
      BY <1>1, <2>1, <3>1 DEF IsList
    <3> QED
      BY <3>1 DEF HasHeard
  <2>7. Running.heard[l] = IF HasHeard(l) THEN 1 ELSE 0
    BY <2>1 DEF EventsInv
  <2>8. Running'.heard[l] = IF l = x THEN Running.heard[l] + 1 ELSE Running.heard[l]
    BY <1>1, <1>3 DEF Emission
  <2> QED
    BY <2>5, <2>6, <2>7, <2>8
<1> QED
  BY <1>4, <1>5, <1>6, <1>7 DEF EventsInv
\* A callback, or the passing over of a gap.
LEMMA CallbackStepKeeps ==
  ASSUME EventsInv, CallbackStep
  PROVE  EventsInv'
<1> USE EventsAssumption
<1>1. /\ ~Quiet /\ IsList(Entries) /\ Running \in Emission /\ emission = <<Running>>
      /\ Running.at <= Len(Entries) + 1 /\ Len(Entries) \in Nat
  BY DEF EventsInv, CallbackStep, Entries, Emission, IsList
<1>2. Follows(Entries, Entries, {})
  BY <1>1 DEF Follows
<1>3. CASE CallbackReturns
  BY <1>1, <1>2, <1>3, CallbackKeeps DEF CallbackReturns
<1>4. ASSUME NEW l \in Listeners, CallbackAdds(l)
      PROVE  EventsInv'
  BY <1>1, <1>4, AddFollows, CallbackKeeps DEF CallbackAdds
<1>5. ASSUME NEW l \in Listeners, CallbackRemoves(l)
      PROVE  EventsInv'
  BY <1>1, <1>5, RemoveFollows, CallbackKeeps DEF CallbackRemoves
<1>6. ASSUME NEW l \in Listeners, NEW m \in Listeners, CallbackReplaces(l, m)
      PROVE  EventsInv'
  <2> DEFINE removed == RemoveListener(Entries, l)
             replaced == AddListener(removed, m)
  <2>1. Follows(removed, Entries, {l})
    BY <1>1, RemoveFollows
  <2>2. Follows(replaced, removed, {})
    BY <2>1, AddFollows DEF Follows
  <2>3. Callback(replaced, {l})
    BY <1>6 DEF CallbackReplaces
  <2> HIDE DEF removed, replaced
  <2>4. Follows(replaced, Entries, {l})
    BY <1>1, <2>1, <2>2, FollowsBoth
  <2> QED
    BY <1>1, <2>3, <2>4, CallbackKeeps
<1>7. CASE SkipGap
  <2>1. /\ Running.at <= Len(Entries) /\ Entries[Running.at] = Gap /\ events' = events
        /\ emission' = <<[Running EXCEPT !.at = @ + 1]>>
    BY <1>1, <1>7 DEF SkipGap, IsFinished, Emission
  <2>2. Running' = [Running EXCEPT !.at = @ + 1]
    BY <2>1 DEF Running
  <2>3. /\ Running' \in Emission /\ Running'.at = Running.at + 1 /\ Running'.event = Running.event
        /\ Running'.heard = Running.heard /\ Running'.removed = Running.removed
    BY <1>1, <2>2 DEF Emission
  <2>4. emission' = <<Running'>> /\ ~Quiet'
    BY <2>1, <2>2 DEF Quiet
  <2>5. Entries' = Entries
    BY <2>1, <2>3 DEF Entries
  <2>6. ASSUME NEW l \in Listeners
        PROVE  HasHeard(l)' <=> HasHeard(l)
    <3>1. \A i \in 1..Len(Entries) :
            i < Running.at + 1 /\ Entries[i] = l <=> i < Running.at /\ Entries[i] = l
      BY <1>1, <2>1 DEF Emission
    <3> QED
      BY <2>3, <2>5, <3>1 DEF HasHeard
  <2>7. Running'.at <= Len(Entries') + 1
    BY <1>1, <2>1, <2>3, <2>5 DEF Emission
  <2>8. ASSUME NEW l \in Listeners \ Running'.removed
        PROVE  Running'.heard[l] = IF HasHeard(l)' THEN 1 ELSE 0
    <3>1. Running.heard[l] = IF HasHeard(l) THEN 1 ELSE 0
      BY <1>1, <2>3 DEF EventsInv
    <3> QED
      BY <2>3, <2>6, <3>1
  <2> QED
    BY <2>1, <2>3, <2>4, <2>7, <2>8 DEF EventsInv
<1> QED
  BY <1>3, <1>4, <1>5, <1>6, <1>7 DEF CallbackStep

\* An emission begins with nobody having heard it, and ends.
LEMMA EmitKeeps ==
  ASSUME EventsInv, Quiet, NEW event \in EventNames, Emit(event)
  PROVE  EventsInv'
<1> DEFINE begun == [event |-> event, at |-> 1, heard |-> [l \in Listeners |-> 0], removed |-> {}]
<1>1. emission' = <<begun>> /\ events' = events
  BY DEF Emit
<1>2. Running' = begun /\ begun \in Emission /\ ~Quiet'
  BY <1>1 DEF Running, Emission, Quiet
<1>3. Len(Entries') \in Nat
  BY <1>1, <1>2 DEF EventsInv, Entries, IsList
<1>4. \A l \in Listeners : ~HasHeard(l)' /\ begun.heard[l] = 0
  BY <1>2, <1>3 DEF HasHeard
<1>5. begun.at = 1
  OBVIOUS
<1> HIDE DEF begun
<1> QED
  BY <1>1, <1>2, <1>3, <1>4, <1>5 DEF EventsInv

\* An emission that is over leaves the listeners as they are.
LEMMA EmissionEnds ==
  ASSUME EventsInv, EmissionReturns \/ EmissionThrows
  PROVE  EventsInv'
BY DEF EventsInv, EmissionReturns, EmissionThrows, Quiet

\* EventsManager: every step keeps EventsInv.
LEMMA EventsStep == EventsInv /\ [Next]_vars => EventsInv'
<1> SUFFICES ASSUME EventsInv, [Next]_vars PROVE EventsInv'
  OBVIOUS
<1>1. CASE UNCHANGED eventVars
  BY <1>1 DEF EventsInv, eventVars, Quiet, Running, Entries, HasHeard
<1>2. ASSUME NEW c \in Calls, CallStep(c)
      PROVE  EventsInv'
  <2>1. CASE KeepAttached(c)
    BY <2>1, EventNamesAssumption, EmitKeeps DEF KeepAttached, At
  <2>2. CASE Grant(c)
    BY <2>2, EventNamesAssumption, EmitKeeps DEF Grant, At
  <2>3. CASE Announce(c)
    BY <2>3, EmissionEnds DEF Announce
  <2>4. CASE Parse(c) \/ Accept(c) \/ TellMediator(c) \/ StoreDID(c) \/ StoreKeys(c) \/ Onboard(c)
    BY <1>1, <2>4 DEF Parse, Accept, TellMediator, StoreDID, StoreKeys, Onboard
  <2>5. CASE HandleAttachment(c) \/ HandleConnection(c) \/ RecordHandshake(c)
             \/ SendHandshake(c) \/ StorePair(c)
    BY <1>1, <2>5 DEF HandleAttachment, HandleConnection, RecordHandshake, SendHandshake, StorePair
  <2> QED
    BY <1>2, <2>1, <2>2, <2>3, <2>4, <2>5 DEF CallStep
<1>3. CASE RunCallback
  BY <1>3, CallbackStepKeeps DEF RunCallback
<1>4. ASSUME NEW i \in Inviters, NEW request \in wire, Answer(i, request)
      PROVE  EventsInv'
  BY <1>1, <1>4 DEF Answer
<1>5. CASE Crash
  BY <1>1, <1>5 DEF Crash
<1>6. CASE UNCHANGED vars
  BY <1>1, <1>6 DEF vars
<1> QED
  BY <1>1, <1>2, <1>3, <1>4, <1>5, <1>6 DEF Next, InvitationsNext

\* At first every event has the listeners of the scenario, once each.
LEMMA EventsInitial == Init => EventsInv
<1> SUFFICES ASSUME NEW s \in Scenarios, EventsInit(s.listeners) PROVE EventsInv
  BY DEF Init
<1>1. s.listeners \in Seq(Listeners)
      /\ \A i, j \in 1..Len(s.listeners) : s.listeners[i] = s.listeners[j] => i = j
  <2>1. s.listeners \in Seq(Listeners)
    BY ScenariosAssumption
  <2>2. \A i, j \in DOMAIN s.listeners : s.listeners[i] = s.listeners[j] => i = j
    BY ScenariosAssumption
  <2> QED
    BY <2>1, <2>2
<1>2. s.listeners \in Seq(Listeners \cup {Gap})
  BY <1>1
<1>3. IsList(s.listeners)
  BY <1>1, <1>2 DEF IsList
<1> QED
  BY <1>3 DEF EventsInit, EventsInv, Quiet

\* Whatever the callbacks do to the listeners of an event while it is emitted, each
\* that is there in the end, and was not removed, has heard it once
\* (EventsManager.emit).
THEOREM ListenersCorrect == Spec => []ListenersHearOnce
<1>1. EventsInv => ListenersHearOnce
  <2> SUFFICES ASSUME EventsInv, IsFinished,
                      NEW l \in ToSet(Entries) \ ({Gap} \cup Running.removed)
               PROVE  Running.heard[l] = 1
    BY DEF ListenersHearOnce
  <2>1. /\ Running \in Emission /\ IsList(Entries)
        /\ Running.at > Len(Entries)
    BY DEF EventsInv, IsFinished, Entries, Emission
  <2>2. PICK i \in 1..Len(Entries) : Entries[i] = l
    BY <2>1 DEF ToSet, IsList
  <2>3. l \in Listeners \ Running.removed
    BY <2>1, <2>2 DEF IsList
  <2>4. HasHeard(l)
    BY <2>1, <2>2 DEF HasHeard, IsList, Emission
  <2> QED
    BY <2>3, <2>4 DEF EventsInv, IsFinished
<1> QED
  BY <1>1, EventsInitial, EventsStep, PTL DEF Spec
-----------------------------------------------------------------------------
(* The first connection of a uri                                           *)

\* A set of numbers has a least one.
LEMMA MinIsLeast ==
  ASSUME NEW S \in SUBSET Nat, S # {}
  PROVE  Min(S) \in S /\ \A n \in S : Min(S) <= n
<1>1. IsWellFoundedOn(OpToRel(<, Nat), Nat)
  BY NatLessThanWellFounded
<1>2. PICK m \in S : \A n \in S : ~(<<n, m>> \in OpToRel(<, Nat))
  BY <1>1, WFMin
<1>3. ASSUME NEW n \in S, n < m
      PROVE  FALSE
  <2> DEFINE pair == <<n, m>>
  <2>1. pair \in Nat \X Nat /\ pair[1] < pair[2]
    BY <1>3
  <2> HIDE DEF pair
  <2>2. pair \in OpToRel(<, Nat)
    BY <2>1 DEF OpToRel
  <2> QED
    BY <1>2, <2>2 DEF pair
<1>4. \A n \in S : m <= n
  BY <1>3
<1> QED
  BY <1>4 DEF Min

\* A sequence is one of its elements.
LEMMA OfItsElements ==
  ASSUME NEW S, NEW s \in Seq(S)
  PROVE  s \in Seq({s[i] : i \in 1..Len(s)})
<1>1. Len(s) \in Nat /\ s = [i \in 1..Len(s) |-> s[i]]
  OBVIOUS
<1> QED
  BY <1>1

Of(uri) == {i \in 1..Len(connections) : connections[i].uri = uri}
First(uri) == connections[Min(Of(uri))]

ConnectionsInv ==
  /\ connections \in Seq({connections[i] : i \in 1..Len(connections)})
  /\ \A i \in 1..Len(connections) :
       {"uri", "state", "tokenResponse"} \subseteq DOMAIN connections[i]

\* ConnectionsManager.find.
LEMMA FindIs ==
  ASSUME ConnectionsInv, NEW uri
  PROVE  /\ Find(uri) = IF Of(uri) = {} THEN Absent ELSE First(uri)
         /\ Of(uri) # {} => Min(Of(uri)) \in 1..Len(connections) /\ First(uri).uri = uri
<1>1. Len(connections) \in Nat /\ Of(uri) \in SUBSET Nat
  BY DEF ConnectionsInv, Of
<1>2. Of(uri) # {} => Min(Of(uri)) \in Of(uri)
  BY <1>1, MinIsLeast
<1>3. Of(uri) # {} => Min(Of(uri)) # 0 /\ First(uri).uri = uri
  BY <1>1, <1>2 DEF Of, First
<1>4. Find(uri) = IF Of(uri) = {} THEN Absent ELSE First(uri)
  BY <1>2, <1>3 DEF Find, SelectInSeq, Of, First
<1> QED
  BY <1>2, <1>3, <1>4 DEF Of

\* Who has found a connection finds the same one, with its token, when others
\* have been added since or have been granted.
LEMMA FirstStays ==
  ASSUME ConnectionsInv,
         \/ connections' = connections
         \/ \E c : Add(c) /\ {"uri", "state", "tokenResponse"} \subseteq DOMAIN c
         \/ \E uri, host, state : SetState(uri, host, state)
  PROVE  /\ ConnectionsInv'
         /\ \A uri : Of(uri) # {} =>
              Of(uri)' # {} /\ First(uri)'.tokenResponse = First(uri).tokenResponse
<1> DEFINE n == Len(connections)
           fields == {"uri", "state", "tokenResponse"}
<1>1. n \in Nat /\ \A uri : Of(uri) \in SUBSET Nat
  BY DEF ConnectionsInv, Of
<1>2. CASE connections' = connections
  BY <1>2 DEF ConnectionsInv, Of, First
<1>3. ASSUME NEW c, Add(c), fields \subseteq DOMAIN c
      PROVE  /\ ConnectionsInv'
             /\ \A uri : Of(uri) # {} =>
                  Of(uri)' # {} /\ First(uri)'.tokenResponse = First(uri).tokenResponse
  <2> DEFINE S == {connections[i] : i \in 1..n} \cup {c}
  <2>1. connections \in Seq(S) /\ c \in S /\ connections' = Append(connections, c)
    BY <1>3 DEF ConnectionsInv, Add
  <2>2. Len(connections') = n + 1 /\ connections'[n + 1] = c
        /\ \A i \in 1..n : connections'[i] = connections[i]
    <3> HIDE DEF S
    <3> QED
      BY <2>1
  <2>3. connections' \in Seq({connections'[i] : i \in 1..Len(connections')})
    <3>1. connections' \in Seq(S)
      <4> HIDE DEF S
      <4> QED
        BY <2>1
    <3> HIDE DEF S
    <3> QED
      BY <3>1, OfItsElements
  <2>4. ConnectionsInv'
    <3>1. \A i \in 1..(n + 1) : i \in 1..n \/ i = n + 1
      BY <1>1
    <3> QED
      BY <1>3, <2>2, <2>3, <3>1 DEF ConnectionsInv
  <2>5. ASSUME NEW uri, Of(uri) # {}
        PROVE  Of(uri)' # {} /\ First(uri)'.tokenResponse = First(uri).tokenResponse
    <3> DEFINE m == Min(Of(uri))
    <3>1. m \in Of(uri) /\ \A i \in Of(uri) : m <= i
      BY <1>1, <2>5, MinIsLeast
    <3>2. Of(uri) \subseteq Of(uri)' /\ Of(uri)' \subseteq Of(uri) \cup {n + 1}
      BY <1>1, <2>2 DEF Of
    <3>3. Of(uri)' \in SUBSET Nat /\ Of(uri)' # {}
      BY <1>1, <3>1, <3>2
    <3>4. Min(Of(uri)') \in Of(uri)' /\ \A i \in Of(uri)' : Min(Of(uri)') <= i
      BY <3>3, MinIsLeast
    <3>5. m \in 1..n
      BY <3>1 DEF Of
    <3>6. Min(Of(uri)') = m
      <4> HIDE DEF n, m
      <4>1. Min(Of(uri)') <= m /\ Min(Of(uri)') \in Nat /\ m \in Nat
        BY <3>1, <3>2, <3>3, <3>4, <1>1
      <4>2. Min(Of(uri)') \in Of(uri)
        BY <1>1, <3>2, <3>4, <3>5, <4>1
      <4>3. m <= Min(Of(uri)')
        BY <3>1, <4>2
      <4> QED
        BY <4>1, <4>3
    <3>7. First(uri)' = connections'[Min(Of(uri)')] /\ First(uri) = connections[m]
      BY DEF First
    <3>8. First(uri)' = First(uri)
      <4> HIDE DEF m, n
      <4> QED
        BY <2>2, <3>5, <3>6, <3>7
    <3> QED
      BY <3>3, <3>8
  <2> QED
    BY <2>4, <2>5
<1>4. ASSUME NEW other, NEW host, NEW state, SetState(other, host, state)
      PROVE  /\ ConnectionsInv'
             /\ \A uri : Of(uri) # {} =>
                  Of(uri)' # {} /\ First(uri)'.tokenResponse = First(uri).tokenResponse
  <2>1. /\ DOMAIN connections = 1..n
        /\ connections' = [i \in 1..n |->
             IF connections[i].uri = other /\ connections[i].host = host
             THEN [connections[i] EXCEPT !.state = state] ELSE connections[i]]
    BY <1>4 DEF SetState, ConnectionsInv
  <2>2. \A i \in 1..n :
          /\ fields \subseteq DOMAIN connections'[i] /\ connections'[i].uri = connections[i].uri
          /\ connections'[i].tokenResponse = connections[i].tokenResponse
    BY <2>1 DEF ConnectionsInv
  <2>3. Len(connections') = n /\ connections' = [i \in 1..n |-> connections'[i]]
    BY <1>1, <2>1
  <2>4. connections' \in Seq({connections'[i] : i \in 1..n})
    BY <1>1, <2>3
  <2>5. \A uri : Of(uri)' = Of(uri)
    BY <2>2, <2>3 DEF Of
  <2>6. ASSUME NEW uri, Of(uri) # {}
        PROVE  First(uri)'.tokenResponse = First(uri).tokenResponse
    <3>1. Min(Of(uri)) \in 1..n
      BY <2>6, FindIs
    <3> QED
      BY <2>2, <2>5, <3>1 DEF First
  <2> QED
    BY <2>2, <2>3, <2>4, <2>5, <2>6 DEF ConnectionsInv
<1> QED
  BY <1>2, <1>3, <1>4
-----------------------------------------------------------------------------
(* The flows                                                               *)

Fields == {"value", "clientId", "at", "offer", "issuerMeta", "request", "code", "connection", "body"}

\* A server's metadata, as a flow has got it.
IsServer(meta) ==
  \E s \in DOMAIN AuthServers :
    AuthServers[s] # Absent /\ IsAuthServerMetadata(AuthServers[s]) /\ meta = AuthServers[s]

\* Where a code may go.
MayGo(code, server) ==
  code.server # server => ~SupportsIss(code.server) /\ ~SupportsIss(server)

\* A proof is of the nonce and for the issuer of the connection it will go by.
ProofFits(body, connection) ==
  body.proof # Absent =>
    /\ body.proof.nonce = connection.tokenResponse.c_nonce
    /\ Issuers[body.proof.aud].credential_endpoint = connection.uri.url

\* What a flow has got at each stage is what it has asked for; and while it
\* prepares its request, the connection that it has found is still found first.
FlowInv(f) ==
  /\ Fields \subseteq DOMAIN flows[f]
  /\ flows[f].at \in {"authorizing", "redeeming"} => IsServer(flows[f].request.authServerMeta)
  /\ flows[f].at = "redeeming" => MayGo(flows[f].code, flows[f].request.authServerMeta.issuer)
  /\ flows[f].at = "preparing" =>
       /\ flows[f].issuerMeta = Issuers[flows[f].offer.credential_issuer]
       /\ flows[f].connection.uri = [url |-> flows[f].issuerMeta.credential_endpoint]
       /\ Of(flows[f].connection.uri) # {}
       /\ First(flows[f].connection.uri).tokenResponse = flows[f].connection.tokenResponse
  /\ flows[f].at = "asking" => ProofFits(flows[f].body, flows[f].connection)

\* The urls say which server they come from, if it supports that.
CallbacksInv ==
  \A callback \in callbacks : callback.code # Absent =>
    \E meta : /\ IsServer(meta) /\ callback.code.server = meta.issuer
              /\ callback.iss = IF meta.iss_supported THEN meta.issuer ELSE Absent

OidcInv ==
  /\ ConnectionsInv
  /\ flows = [f \in Flows |-> flows[f]]
  /\ \A f \in Flows : FlowInv(f)
  /\ CallbacksInv
  /\ RequestsBelongTogether

\* What a server says of itself in one place holds wherever it is named.
LEMMA ServersAgree ==
  ASSUME NEW meta, IsServer(meta)
  PROVE  /\ meta.issuer # Absent /\ meta.iss_supported \in BOOLEAN
         /\ SupportsIss(meta.issuer) <=> meta.iss_supported
BY ServersAssumption DEF IsServer, SupportsIss

\* ProcessCallbackUrl: a code that is not of the server a flow has asked is only
\* accepted when neither the one nor the other says who it is.
LEMMA CodeMayGo ==
  ASSUME CallbacksInv, NEW callback \in callbacks, NEW meta, IsServer(meta),
         ProcessCallbackUrl(meta, callback) # Thrown
  PROVE  MayGo(ProcessCallbackUrl(meta, callback), meta.issuer)
<1>1. /\ callback.code # Absent /\ ProcessCallbackUrl(meta, callback) = callback.code
      /\ callback.iss \in {Absent, meta.issuer} /\ (callback.iss = Absent => ~meta.iss_supported)
  BY DEF ProcessCallbackUrl
<1>2. PICK other : /\ IsServer(other) /\ callback.code.server = other.issuer
                   /\ callback.iss = IF other.iss_supported THEN other.issuer ELSE Absent
  BY <1>1 DEF CallbacksInv
<1>3. ASSUME other.issuer # meta.issuer
      PROVE  ~other.iss_supported /\ ~meta.iss_supported
  BY <1>1, <1>2, <1>3, ServersAgree
<1> QED
  BY <1>1, <1>2, <1>3, ServersAgree DEF MayGo

\* The other flows of a step.
LEMMA OthersStay ==
  ASSUME ConnectionsInv, NEW g, FlowInv(g), flows'[g] = flows[g],
         \A uri : Of(uri) # {} =>
           Of(uri)' # {} /\ First(uri)'.tokenResponse = First(uri).tokenResponse
  PROVE  FlowInv(g)'
BY DEF FlowInv

\* A flow that goes on, or throws, to where nothing is asked of it.
Rests == {"idle", "offered", "discovering", "connected", "stored", "threw", "lost"}

\* A flow that throws, or is done, asks for nothing more.
LEMMA GoesToRest ==
  ASSUME NEW f \in Flows, flows = [g \in Flows |-> flows[g]], FlowInv(f), NEW stage \in Rests,
         flows' = [flows EXCEPT ![f].at = stage]
  PROVE  FlowInv(f)' /\ flows' = [g \in Flows |-> flows'[g]]
         /\ \A g \in Flows \ {f} : flows'[g] = flows[g]
BY DEF FlowInv, Rests, Fields

\* A step of a flow: of one that keeps the rest, FlowInv is all there is to show.
LEMMA FlowStepKeeps ==
  ASSUME OidcInv, NEW f \in Flows, FlowInv(f)', flows' = [g \in Flows |-> flows'[g]],
         \A g \in Flows \ {f} : flows'[g] = flows[g],
         connections' = connections \/ \E c : Add(c) /\ {"uri", "state", "tokenResponse"} \subseteq DOMAIN c,
         CallbacksInv', RequestsBelongTogether'
  PROVE  OidcInv'
<1>1. ConnectionsInv' /\ \A uri : Of(uri) # {} =>
        Of(uri)' # {} /\ First(uri)'.tokenResponse = First(uri).tokenResponse
  BY FirstStays DEF OidcInv
<1>2. \A g \in Flows \ {f} : FlowInv(g)'
  BY <1>1, OthersStay DEF OidcInv
<1> QED
  BY <1>1, <1>2 DEF OidcInv

\* A flow whose new stage asks nothing of it, whatever else it has got.
LEMMA RestsKeep ==
  ASSUME NEW f \in Flows, Fields \subseteq DOMAIN flows'[f], flows'[f].at \in Rests
  PROVE  FlowInv(f)'
BY DEF FlowInv, Rests

\* OIDC: every step of a flow keeps OidcInv.
LEMMA FlowKeeps ==
  ASSUME OidcInv, NEW f \in Flows, FlowStep(f)
  PROVE  OidcInv'
<1> DEFINE flow == flows[f]
<1>0. /\ flows = [g \in Flows |-> flows[g]] /\ FlowInv(f) /\ Fields \subseteq DOMAIN flows[f]
      /\ ConnectionsInv /\ CallbacksInv /\ RequestsBelongTogether
  BY DEF OidcInv, FlowInv
<1>1. ASSUME UNCHANGED <<redeemed, requested>> PROVE RequestsBelongTogether'
  BY <1>0, <1>1 DEF RequestsBelongTogether
<1>2. ASSUME UNCHANGED callbacks PROVE CallbacksInv'
  BY <1>0, <1>2 DEF CallbacksInv
<1>3. ASSUME NEW stage \in Rests, FlowGoes(f, stage), connections' = connections,
             CallbacksInv', RequestsBelongTogether'
      PROVE  OidcInv'
  BY <1>0, <1>3, GoesToRest, FlowStepKeeps DEF FlowGoes
<1>4. CASE ParseOffer(f)
  <2>1. \E offer : \E stage \in {"threw", "offered"} :
          flows' = [flows EXCEPT ![f].at = stage, ![f].offer = offer]
    BY <1>4 DEF ParseOffer
  <2>2. /\ flows' = [g \in Flows |-> flows'[g]] /\ \A g \in Flows \ {f} : flows'[g] = flows[g]
        /\ Fields \subseteq DOMAIN flows'[f] /\ flows'[f].at \in Rests
    BY <1>0, <2>1 DEF Fields, Rests
  <2>3. connections' = connections /\ UNCHANGED <<callbacks, redeemed, requested>>
    BY <1>4 DEF ParseOffer, connectionVars
  <2> QED
    BY <1>1, <1>2, <2>2, <2>3, RestsKeep, FlowStepKeeps
<1>5. CASE FetchIssuerMetadata(f)
  <2>1. connections' = connections /\ UNCHANGED <<callbacks, redeemed, requested>>
    BY <1>5 DEF FetchIssuerMetadata, connectionVars
  <2>2. FlowGoes(f, "threw") \/ \E meta :
          flows' = [flows EXCEPT ![f].at = "discovering", ![f].issuerMeta = meta]
    BY <1>5 DEF FetchIssuerMetadata, Answers
  <2>3. ASSUME NEW meta, flows' = [flows EXCEPT ![f].at = "discovering", ![f].issuerMeta = meta]
        PROVE  /\ flows' = [g \in Flows |-> flows'[g]] /\ \A g \in Flows \ {f} : flows'[g] = flows[g]
               /\ Fields \subseteq DOMAIN flows'[f] /\ flows'[f].at \in Rests
    BY <1>0, <2>3 DEF Fields, Rests
  <2> QED
    BY <1>1, <1>2, <1>3, <2>1, <2>2, <2>3, RestsKeep, FlowStepKeeps DEF Rests
<1>6. CASE FetchAuthServerMeta(f)
  <2>1. connections' = connections /\ UNCHANGED <<callbacks, redeemed, requested>>
    BY <1>6 DEF FetchAuthServerMeta, connectionVars
  <2>2. \/ FlowGoes(f, "threw")
        \/ \E url : LET meta == AuthServerAt(url)
                        request == CreateAuthorizationRequest(flow, meta)
                    IN  /\ meta # Absent /\ IsAuthServerMetadata(meta)
                        /\ flows' = [flows EXCEPT
                             ![f].at = IF request = Thrown THEN "threw" ELSE "authorizing",
                             ![f].request = request]
    BY <1>6 DEF FetchAuthServerMeta, Answers
  <2>3. ASSUME NEW meta, NEW request, request = CreateAuthorizationRequest(flow, meta),
               IsServer(meta),
               flows' = [flows EXCEPT
                 ![f].at = IF request = Thrown THEN "threw" ELSE "authorizing",
                 ![f].request = request]
        PROVE  OidcInv'
    <3>1. /\ flows' = [g \in Flows |-> flows'[g]] /\ \A g \in Flows \ {f} : flows'[g] = flows[g]
          /\ Fields \subseteq DOMAIN flows'[f] /\ flows'[f].request = request
          /\ flows'[f].at = IF request = Thrown THEN "threw" ELSE "authorizing"
      BY <1>0, <2>3 DEF Fields
    <3>2. request # Thrown => request.authServerMeta = meta
      BY <2>3 DEF CreateAuthorizationRequest
    <3>3. ASSUME request = Thrown PROVE FlowInv(f)'
      BY <3>1, <3>3, RestsKeep DEF Rests
    <3>4. ASSUME request # Thrown PROVE FlowInv(f)'
      <4>1. IsServer(flows'[f].request.authServerMeta)
        BY <2>3, <3>1, <3>2, <3>4
      <4>2. IsServer(flows[f].request.authServerMeta)'
        BY <4>1 DEF IsServer
      <4>3. flows'[f].at = "authorizing"
        BY <3>1, <3>4
      <4> QED
        BY <3>1, <4>2, <4>3 DEF FlowInv
    <3> QED
      BY <1>1, <1>2, <2>1, <3>1, <3>3, <3>4, FlowStepKeeps
  <2>4. \A url : AuthServerAt(url) # Absent /\ IsAuthServerMetadata(AuthServerAt(url)) =>
          IsServer(AuthServerAt(url))
    BY DEF AuthServerAt, IsServer
  <2> QED
    BY <1>1, <1>2, <1>3, <2>1, <2>2, <2>3, <2>4 DEF Rests
<1>7. ASSUME NEW error \in BOOLEAN, Authorize(f, error)
      PROVE  OidcInv'
  <2> DEFINE meta == flow.request.authServerMeta
             code == [server |-> meta.issuer, flow |-> f]
             new == [code |-> IF error THEN Absent ELSE code, error |-> error, state |-> Absent,
                     iss |-> IF meta.iss_supported THEN meta.issuer ELSE Absent]
  <2>1. /\ flow.at = "authorizing" /\ callbacks' = callbacks \cup {new}
        /\ connections' = connections /\ UNCHANGED <<flows, redeemed, requested>>
    BY <1>7 DEF Authorize, connectionVars
  <2>2. IsServer(meta)
    BY <1>0, <2>1 DEF FlowInv
  <2>3. new.code # Absent => new.code.server = meta.issuer
    OBVIOUS
  <2>4. CallbacksInv'
    <3>1. new.iss = IF meta.iss_supported THEN meta.issuer ELSE Absent
      OBVIOUS
    <3> HIDE DEF new, meta
    <3> QED
      BY <1>0, <2>1, <2>2, <2>3, <3>1 DEF CallbacksInv
  <2> QED
    BY <1>0, <1>1, <2>1, <2>4, FlowStepKeeps, OthersStay, FirstStays
<1>8. ASSUME NEW callback \in callbacks, ResolveTokenRequest(f, callback)
      PROVE  OidcInv'
  <2> DEFINE meta == flow.request.authServerMeta
             code == ProcessCallbackUrl(meta, callback)
  <2>1. /\ flow.at = "authorizing" /\ connections' = connections
        /\ UNCHANGED <<callbacks, redeemed, requested>>
        /\ flows' = [flows EXCEPT ![f].at =
             IF code = Thrown \/ meta.token_endpoint = Absent THEN "threw" ELSE "redeeming",
             ![f].code = code]
    BY <1>8 DEF ResolveTokenRequest, connectionVars
  <2>2. IsServer(meta) /\ (code # Thrown => MayGo(code, meta.issuer))
    BY <1>0, <2>1, CodeMayGo DEF FlowInv
  <2>3. /\ flows' = [g \in Flows |-> flows'[g]] /\ \A g \in Flows \ {f} : flows'[g] = flows[g]
        /\ Fields \subseteq DOMAIN flows'[f] /\ flows'[f].request = flow.request
        /\ flows'[f].code = code
        /\ \/ flows'[f].at = "threw"
           \/ flows'[f].at = "redeeming" /\ code # Thrown
    <3> HIDE DEF code
    <3> QED
      BY <1>0, <2>1 DEF Fields
  <2>4. FlowInv(f)'
    <3> HIDE DEF code
    <3> QED
      BY <2>2, <2>3 DEF FlowInv
  <2> QED
    BY <1>1, <1>2, <2>1, <2>3, <2>4, FlowStepKeeps
<1>9. CASE ReceiveToken(f)
  <2> DEFINE server == flow.request.authServerMeta.issuer
             token == TokenFor(f)
             connection == OIDCConnection(flow.request, token)
  <2>1. /\ flow.at = "redeeming" /\ UNCHANGED <<callbacks, requested>>
        /\ redeemed' = redeemed \cup {[code |-> flow.code, server |-> server]}
    BY <1>9 DEF ReceiveToken
  <2>2. \/ Add(connection) /\ FlowGoes(f, "connected")
        \/ connections' = connections /\ FlowGoes(f, "threw")
    BY <1>9 DEF ReceiveToken, Answers
  <2>3. RequestsBelongTogether'
    <3>1. MayGo(flow.code, server)
      BY <1>0, <2>1 DEF FlowInv
    <3> QED
      BY <1>0, <2>1, <3>1 DEF RequestsBelongTogether, MayGo
  <2>4. {"uri", "state", "tokenResponse"} \subseteq DOMAIN connection
    BY DEF OIDCConnection, Connection
  <2>5. \A stage : FlowGoes(f, stage) /\ stage \in Rests =>
          FlowInv(f)' /\ flows' = [g \in Flows |-> flows'[g]]
          /\ \A g \in Flows \ {f} : flows'[g] = flows[g]
    BY <1>0, GoesToRest DEF FlowGoes
  <2>6. /\ FlowInv(f)' /\ flows' = [g \in Flows |-> flows'[g]]
        /\ \A g \in Flows \ {f} : flows'[g] = flows[g]
    BY <2>2, <2>5 DEF Rests
  <2> HIDE DEF connection
  <2>7. connections' = connections
        \/ \E c : Add(c) /\ {"uri", "state", "tokenResponse"} \subseteq DOMAIN c
    BY <2>2, <2>4
  <2> QED
    BY <1>2, <2>1, <2>3, <2>6, <2>7, FlowStepKeeps
<1>10. CASE FindConnection(f)
  <2> DEFINE meta == Issuers[flow.offer.credential_issuer]
             uri == [url |-> meta.credential_endpoint]
             found == Find(uri)
  <2>1. flow.at = "connected" /\ connections' = connections
        /\ UNCHANGED <<callbacks, redeemed, requested>>
    BY <1>10 DEF FindConnection, connectionVars
  <2>2. \/ FlowGoes(f, "threw")
        \/ flows' = [flows EXCEPT ![f].at = IF found = Absent THEN "threw" ELSE "preparing",
                                  ![f].connection = found, ![f].issuerMeta = meta]
    BY <1>10 DEF FindConnection, Answers
  <2>3. ASSUME flows' = [flows EXCEPT ![f].at = IF found = Absent THEN "threw" ELSE "preparing",
                                      ![f].connection = found, ![f].issuerMeta = meta]
        PROVE  OidcInv'
    <3>1. /\ flows' = [g \in Flows |-> flows'[g]] /\ \A g \in Flows \ {f} : flows'[g] = flows[g]
          /\ Fields \subseteq DOMAIN flows'[f] /\ flows'[f].connection = found
          /\ flows'[f].issuerMeta = meta /\ flows'[f].offer = flow.offer
          /\ flows'[f].at = IF found = Absent THEN "threw" ELSE "preparing"
      <4> HIDE DEF found, meta
      <4> QED
        BY <1>0, <2>3 DEF Fields
    <3>2. found # Absent => Of(uri) # {} /\ found = First(uri) /\ found.uri = uri
      BY <1>0, FindIs
    <3>3. \A u : Of(u)' = Of(u) /\ First(u)' = First(u)
      BY <2>1 DEF Of, First
    <3>4. ASSUME found = Absent PROVE FlowInv(f)'
      BY <3>1, <3>4, RestsKeep DEF Rests
    <3>5. ASSUME found # Absent PROVE FlowInv(f)'
      <4> DEFINE u == flows'[f].connection.uri
      <4>1. u = uri /\ flows'[f].at = "preparing"
        BY <3>1, <3>2, <3>5
      <4>2. Of(u) # {} /\ First(u).tokenResponse = flows'[f].connection.tokenResponse
        BY <3>1, <3>2, <3>5, <4>1
      <4> HIDE DEF u, found
      <4>3. Of(flows[f].connection.uri)' # {}
            /\ First(flows[f].connection.uri)'.tokenResponse = flows'[f].connection.tokenResponse
        BY <2>1, <4>2 DEF Of, First, u
      <4> QED
        BY <3>1, <4>1, <4>3 DEF FlowInv, u
    <3> QED
      BY <1>1, <1>2, <2>1, <3>1, <3>4, <3>5, FlowStepKeeps
  <2> QED
    BY <1>1, <1>2, <1>3, <2>1, <2>2, <2>3 DEF Rests
<1>11. CASE CreateCredentialRequest(f)
  <2> DEFINE uri == [url |-> flow.issuerMeta.credential_endpoint]
             found == Find(uri)
             body == CredentialBody(f, found.tokenResponse)
  <2>1. flow.at = "preparing" /\ connections' = connections
        /\ UNCHANGED <<callbacks, redeemed, requested>>
    BY <1>11 DEF CreateCredentialRequest, connectionVars
  <2>2. \/ FlowGoes(f, "threw")
        \/ flows' = [flows EXCEPT ![f].at = "asking", ![f].body = body]
    BY <1>11 DEF CreateCredentialRequest, FlowGoes
  <2>3. ASSUME flows' = [flows EXCEPT ![f].at = "asking", ![f].body = body]
        PROVE  OidcInv'
    <3>1. /\ flows' = [g \in Flows |-> flows'[g]] /\ \A g \in Flows \ {f} : flows'[g] = flows[g]
          /\ Fields \subseteq DOMAIN flows'[f] /\ flows'[f].connection = flow.connection
          /\ flows'[f].body = body /\ flows'[f].at = "asking"
      <4> HIDE DEF body
      <4> QED
        BY <1>0, <2>3 DEF Fields
    <3>2. /\ flow.issuerMeta = Issuers[flow.offer.credential_issuer]
          /\ flow.connection.uri = uri /\ Of(uri) # {}
          /\ First(uri).tokenResponse = flow.connection.tokenResponse
      BY <1>0, <2>1 DEF FlowInv
    <3>3. found.tokenResponse = flow.connection.tokenResponse
      BY <1>0, <3>2, FindIs
    <3>4. body.proof # Absent => /\ body.proof.nonce = found.tokenResponse.c_nonce
                                 /\ body.proof.aud = flow.offer.credential_issuer
      BY DEF CredentialBody
    <3>5. ProofFits(body, flow.connection)
      <4> HIDE DEF body, found
      <4> QED
        BY <3>2, <3>3, <3>4 DEF ProofFits
    <3>6. FlowInv(f)'
      <4> HIDE DEF body
      <4> QED
        BY <3>1, <3>5 DEF FlowInv, ProofFits
    <3> QED
      BY <1>1, <1>2, <2>1, <3>1, <3>6, FlowStepKeeps
  <2> QED
    BY <1>1, <1>2, <1>3, <2>1, <2>2, <2>3 DEF Rests
<1>12. CASE AskCredential(f)
  <2> DEFINE request == [body |-> flow.body, url |-> flow.connection.uri,
                         bearer |-> flow.connection.tokenResponse]
  <2>1. /\ flow.at = "asking" /\ connections' = connections /\ UNCHANGED <<callbacks, redeemed>>
        /\ requested' = requested \cup {request}
    BY <1>12 DEF AskCredential, connectionVars
  <2>2. FlowGoes(f, "stored") \/ FlowGoes(f, "threw")
    BY <1>12 DEF AskCredential, Answers
  <2>3. ProofFits(flow.body, flow.connection)
    BY <1>0, <2>1 DEF FlowInv
  <2>4. RequestsBelongTogether'
    BY <1>0, <2>1, <2>3 DEF RequestsBelongTogether, ProofFits
  <2> QED
    BY <1>2, <1>3, <2>1, <2>2, <2>4 DEF Rests
<1> QED
  BY <1>4, <1>5, <1>6, <1>7, <1>8, <1>9, <1>10, <1>11, <1>12 DEF FlowStep

\* Invitations share the connections with the flows, and no more.
LEMMA InvitationsKeep ==
  ASSUME OidcInv, InvitationsNext, UNCHANGED oidcVars
  PROVE  OidcInv'
<1>1. /\ flows' = flows /\ (CallbacksInv => CallbacksInv')
      /\ (RequestsBelongTogether => RequestsBelongTogether')
  BY DEF oidcVars, CallbacksInv, RequestsBelongTogether
<1>2. \/ connections' = connections
      \/ \E c : Add(c) /\ {"uri", "state", "tokenResponse"} \subseteq DOMAIN c
      \/ \E uri, host, state : SetState(uri, host, state)
  <2>1. ASSUME NEW c \in Calls, HandleConnection(c)
        PROVE  connections' = connections
               \/ \E n : Add(n) /\ {"uri", "state", "tokenResponse"} \subseteq DOMAIN n
    <3>1. connections' = connections
          \/ Add(Connection("DIDComm", Receiver(c), calls[c].did, Alias(c)))
      BY <2>1 DEF HandleConnection
    <3>2. \A uri, host, alias :
            {"uri", "state", "tokenResponse"} \subseteq DOMAIN Connection("DIDComm", uri, host, alias)
      BY DEF Connection
    <3> QED
      BY <3>1, <3>2
  <2>2. ASSUME NEW c \in Calls, Grant(c)
        PROVE  \E uri, host, state : SetState(uri, host, state)
    BY <2>2 DEF Grant
  <2>3. ASSUME NEW c \in Calls,
               \/ Parse(c) \/ Accept(c) \/ TellMediator(c) \/ StoreDID(c) \/ StoreKeys(c) \/ Onboard(c)
        PROVE  connections' = connections
    BY <2>3 DEF Parse, Accept, TellMediator, StoreDID, StoreKeys, Onboard, connectionVars
  <2>4. ASSUME NEW c \in Calls,
               \/ HandleAttachment(c) \/ KeepAttached(c) \/ RecordHandshake(c)
               \/ SendHandshake(c) \/ StorePair(c) \/ Announce(c)
        PROVE  connections' = connections
    BY <2>4 DEF HandleAttachment, KeepAttached, RecordHandshake, SendHandshake, StorePair,
                Announce, connectionVars
  <2>5. ASSUME RunCallback \/ \E i \in Inviters, request \in wire : Answer(i, request)
        PROVE  connections' = connections
    BY <2>5 DEF RunCallback, Answer, connectionVars
  <2> QED
    BY <2>1, <2>2, <2>3, <2>4, <2>5 DEF InvitationsNext, CallStep
<1>3. ConnectionsInv' /\ \A uri : Of(uri) # {} =>
        Of(uri)' # {} /\ First(uri)'.tokenResponse = First(uri).tokenResponse
  BY <1>2, FirstStays DEF OidcInv
<1> QED
  BY <1>1, <1>3, OthersStay DEF OidcInv

\* A process that has just started is connected to its mediator at most.
LEMMA ReconnectedKeeps ==
  ASSUME NEW mediator, connections' = Reconnected(mediator)
  PROVE  ConnectionsInv'
<1> DEFINE c == [Connection("mediator", mediator.did, mediator.host, Absent) EXCEPT !.state = "GRANTED"]
<1>1. {"uri", "state", "tokenResponse"} \subseteq DOMAIN c
  BY DEF Connection
<1>2. connections' = <<>> \/ connections' = <<c>>
  BY DEF Reconnected
<1> HIDE DEF c
<1>3. <<>> \in Seq({c}) /\ <<c>> \in Seq({c})
  OBVIOUS
<1>4. connections' \in Seq({connections'[i] : i \in 1..Len(connections')})
  <2>1. connections' \in Seq({c})
    <3>1. CASE connections' = <<>>
      BY <1>3, <3>1
    <3>2. CASE connections' = <<c>>
      BY <1>3, <3>2
    <3> QED
      BY <1>2, <3>1, <3>2
  <2> QED
    BY <2>1, OfItsElements
<1> QED
  BY <1>1, <1>2, <1>4 DEF ConnectionsInv

\* At first no flow has asked for anything.
LEMMA OidcInitial == Init => OidcInv
<1> SUFFICES ASSUME NEW s \in Scenarios, ConnectionsInit(s.mediator), OidcInit(s.flows)
             PROVE  OidcInv
  BY DEF Init
<1>1. flows = s.flows /\ callbacks = {} /\ redeemed = {} /\ requested = {}
  BY DEF OidcInit
<1>2. ConnectionsInv
  <2> DEFINE c == [Connection("mediator", s.mediator.did, s.mediator.host, Absent) EXCEPT !.state = "GRANTED"]
  <2>1. {"uri", "state", "tokenResponse"} \subseteq DOMAIN c
    BY DEF Connection
  <2>2. connections = <<>> \/ connections = <<c>>
    BY DEF ConnectionsInit, Reconnected
  <2> HIDE DEF c
  <2>3. <<>> \in Seq({c}) /\ <<c>> \in Seq({c})
    OBVIOUS
  <2>4. connections \in Seq({connections[i] : i \in 1..Len(connections)})
    <3>1. connections \in Seq({c})
      <4>1. CASE connections = <<>>
        BY <2>3, <4>1
      <4>2. CASE connections = <<c>>
        BY <2>3, <4>2
      <4> QED
        BY <2>2, <4>1, <4>2
    <3> QED
      BY <3>1, OfItsElements
  <2> QED
    BY <2>1, <2>2, <2>4 DEF ConnectionsInv
<1>3. s.flows = [f \in Flows |->
        [FlowInit(s.flows[f].value, s.flows[f].clientId) EXCEPT !.at = s.flows[f].at]]
  BY ScenariosAssumption
<1>4. \A f \in Flows : s.flows[f].at \in {"idle", "threw"}
  BY ScenariosAssumption
<1>5. flows = [f \in Flows |-> flows[f]]
  BY <1>1, <1>3
<1>6. ASSUME NEW f \in Flows
      PROVE  FlowInv(f)
  <2>1. Fields \subseteq DOMAIN flows[f]
    BY <1>1, <1>3 DEF Fields, FlowInit
  <2> QED
    BY <1>1, <1>4, <2>1 DEF FlowInv
<1> QED
  BY <1>1, <1>2, <1>5, <1>6 DEF OidcInv, CallbacksInv, RequestsBelongTogether

\* Every step of the agent keeps OidcInv.
LEMMA OidcStep == OidcInv /\ [Next]_vars => OidcInv'
<1> SUFFICES ASSUME OidcInv, [Next]_vars PROVE OidcInv'
  OBVIOUS
<1>1. CASE InvitationsNext /\ UNCHANGED oidcVars
  BY <1>1, InvitationsKeep
<1>2. CASE Crash /\ Forget
  <2>1. /\ ConnectionsInv' /\ UNCHANGED <<callbacks, redeemed, requested>>
        /\ flows' = [f \in Flows |->
             IF flows[f].at = "idle" THEN flows[f] ELSE [flows[f] EXCEPT !.at = "lost"]]
    BY <1>2, ReconnectedKeeps DEF Crash, Forget
  <2>2. ASSUME NEW f \in Flows
        PROVE  FlowInv(f)'
    <3>1. Fields \subseteq DOMAIN flows'[f] /\ flows'[f].at \in {"idle", "lost"}
      BY <2>1 DEF OidcInv, FlowInv, Fields
    <3> QED
      BY <3>1, RestsKeep DEF Rests
  <2> QED
    BY <2>1, <2>2 DEF OidcInv, CallbacksInv, RequestsBelongTogether
<1>3. CASE OidcNext
  BY <1>3, FlowKeeps DEF OidcNext
<1>4. CASE UNCHANGED vars
  <2>1. UNCHANGED <<connections, flows, callbacks, redeemed, requested>>
    BY <1>4 DEF vars, oidcVars, connectionVars
  <2> QED
    BY <2>1, OthersStay, FirstStays DEF OidcInv, CallbacksInv, RequestsBelongTogether
<1> QED
  BY <1>1, <1>2, <1>3, <1>4 DEF Next

\* Whatever callback of its flows the application takes for which, a code is sent to
\* the server that issued it or neither names itself; and whatever connections are
\* added meanwhile, a credential request has the token, nonce and issuer of one
\* connection (ProcessCallbackUrl, CreateCredentialRequest).
THEOREM RequestsCorrect == Spec => []RequestsBelongTogether
<1>1. OidcInv => RequestsBelongTogether
  BY DEF OidcInv
<1> QED
  BY <1>1, OidcInitial, OidcStep, PTL DEF Spec

-----------------------------------------------------------------------------
(* The invitations, of one scenario                                        *)

\* The row of a call's DID with its keys, and a row without.
Row(s, c) == [did |-> Creates(s, c), keys |-> NewKeys(c)]
Keyless(did) == [did |-> did, keys |-> <<>>]
Host(i) == connections[i].host
FirstConnection == connections[1]

\* The list of the mediator has the DID of a call, and Pluto its keys.
IsReachable(s, c) == c \in Creating(s) /\ Creates(s, c) \in told /\ Row(s, c) \in peerDIDs

\* The call has its connection, while the process that made it runs.
IsConnected(s, c) ==
  \E i \in 1..Len(connections) :
    connections[i].uri = Invited(s, c).from /\ Host(i) = Creates(s, c)
IsBound(s, c) == calls[c].at = "lost" \/ (calls[c].at # "idle" /\ IsConnected(s, c))

\* An inviter can read the handshake of the call, which has arrived.
CanBeRead(message) == KeyAgreement(message.to) \notin {Thrown, {}}
HasArrived(s, c) ==
  CanBeRead(HandshakeOf(s, c)) /\ \E request \in wire : Arriving(request) = Packed(HandshakeOf(s, c))

\* The pair that a call stores.
PairOf(s, c) ==
  [host |-> Creates(s, c), receiver |-> Invited(s, c).from,
   alias |-> IF s.calls[c].alias = Absent THEN "OOBConn" ELSE s.calls[c].alias]

\* How far a call is.
Early == {"idle", "parsed", "telling", "storing"}
Over == {"threw", "lost"}
Stored == {"onboarding", "handling", "keeping", "announcing", "recording", "sending", "pairing",
           "granting", "returned"}
Handshaking == {"recording", "sending", "pairing", "granting"}
Granted(s, c) == calls[c].at \in {"announcing", "returned"} /\ c \in Connecting(s)

\* What a call is depends on the scenario but for its place and its DID, which is
\* the one that it creates; and it is where its invitation leads to.
TypeInv(s, c) ==
  /\ calls[c] = [value |-> s.calls[c].value, alias |-> s.calls[c].alias,
                 at |-> calls[c].at, did |-> calls[c].did]
  /\ calls[c].at \in Early \cup Over \cup Stored \cup {"linking"}
  /\ calls[c].did = Absent \/ (c \in Creating(s) /\ calls[c].did = Creates(s, c))
  /\ calls[c].at \notin {"idle", "parsed"} \cup Over => calls[c].did # Absent
  /\ calls[c].at \in {"parsed", "handling"} => Invited(s, c) # Thrown /\ Invited(s, c).type = "oob"
  /\ calls[c].at = "onboarding" => Invited(s, c).type # "oob"
  /\ calls[c].at = "keeping" => Invited(s, c).attachments # <<>>
  /\ /\ calls[c].at \in {"announcing", "returned"}
     /\ Invited(s, c).type = "oob" /\ Invited(s, c).attachments = <<>>
     => c \in Connecting(s)
  /\ calls[c].at \in Handshaking => c \in Connecting(s)

\* The mediator is told before the DID is stored, the keys follow, and nothing
\* of them is lost.
StoreInv(s, c) ==
  /\ calls[c].at \in Early /\ c \in Creating(s) => ~HasRow(Creates(s, c))
  /\ calls[c].at \in Stored \cup {"storing", "linking"} => Creates(s, c) \in told
  /\ calls[c].at = "linking" => Keyless(Creates(s, c)) \in peerDIDs
  /\ calls[c].at \in Stored => Row(s, c) \in peerDIDs

\* A DID has one connection, there before the handshake, which has arrived before
\* the pair is stored, which is before the connection is granted.
ConnectionInv(s, c) ==
  /\ c \in Creating(s) =>
       \A i, j \in 1..Len(connections) : Host(i) = Creates(s, c) /\ Host(j) = Creates(s, c) => i = j
  /\ calls[c].at \in Early \cup {"linking", "handling"} /\ c \in Creating(s) =>
       \A i \in 1..Len(connections) : Host(i) # Creates(s, c)
  /\ calls[c].at \in Handshaking \/ Granted(s, c) => IsConnected(s, c)
  /\ calls[c].at \in {"pairing", "granting"} \/ Granted(s, c) => HasArrived(s, c)
  /\ calls[c].at = "granting" \/ Granted(s, c) =>
       PairOf(s, c) \in pairs /\ HasRow(Invited(s, c).from)
  /\ Granted(s, c) =>
       \A i \in 1..Len(connections) : Host(i) = Creates(s, c) => connections[i].state = "GRANTED"

CallInv(s, c) == TypeInv(s, c) /\ StoreInv(s, c) /\ ConnectionInv(s, c)

\* The mediator's connection stays first.
MediatorInv(s) ==
  /\ party = s.mediator
  /\ s.mediator = Absent => mediators = <<>>
  /\ s.mediator # Absent =>
       /\ mediators = <<s.mediator.did>>
       /\ Len(connections) >= 1 /\ FirstConnection = Reconnected(s.mediator)[1]
  /\ \A i \in 1..Len(connections) : "host" \in DOMAIN connections[i]

\* A DID has one row; and what the other parties know or have got is of calls that
\* are ready for an answer.
RowsInv == \A r, q \in peerDIDs : r.did = q.did => r = q
KnownInv(s) == \A did \in known : \E c \in Calls : did = Creates(s, c) /\ IsReachable(s, c)
WireInv(s) ==
  \A request \in wire : \E c \in Connecting(s) :
    /\ Arriving(request) = Packed(HandshakeOf(s, c)) /\ CanBeRead(HandshakeOf(s, c))
    /\ IsReachable(s, c) /\ IsBound(s, c)
QueueInv(s) ==
  \A packed \in queue : \E c \in Connecting(s) :
    /\ packed = Packed(ResponseTo(s, c)) /\ CanBeRead(ResponseTo(s, c))
    /\ IsReachable(s, c) /\ IsBound(s, c)
PairsInv(s) == \A pair \in pairs : \E c \in Connecting(s) : pair = PairOf(s, c)

InvitationsInv(s) ==
  /\ calls = [c \in Calls |-> calls[c]]
  /\ \A c \in Calls : CallInv(s, c)
  /\ MediatorInv(s) /\ RowsInv
  /\ KnownInv(s) /\ WireInv(s) /\ QueueInv(s) /\ PairsInv(s)

\* get_secret: a DID that is stored once has the secrets of its keys.
LEMMA SecretIs ==
  ASSUME NEW rows, NEW p \in rows, NEW id, id.did = p.did,
         \A q \in rows : q.did = p.did => q = p
  PROVE  GetSecret(rows, id) = SecretOf(p, id)
<1> DEFINE mine == {q \in rows : q.did = id.did}
<1>1. mine = {p}
  OBVIOUS
<1>2. GetSecret(rows, id) = IF mine = {} THEN Absent ELSE SecretOf(CHOOSE q \in mine : TRUE, id)
  BY DEF GetSecret
<1> HIDE DEF mine
<1>3. mine # {} /\ (CHOOSE q \in mine : TRUE) = p
  BY <1>1
<1> QED
  BY <1>2, <1>3

\* Who has a DID can read what is packed for it.
LEMMA ReadBy ==
  ASSUME NEW p, NEW mediator, IsParty(p, mediator), NEW rows, p \in rows,
         \A q \in rows : q.did = p.did => q = p,
         NEW message, message.to = p.did, CanBeRead(message)
  PROVE  CanUnpack(Packed(message), rows)
<1> DEFINE keys == KeyAgreement(p.did)
<1>1. Packed(message).for = keys /\ keys # Thrown /\ keys # {}
  BY DEF Packed, CanBeRead
<1>2. PICK k \in keys : SecretOf(p, k.id) = k.pair
  BY <1>1 DEF IsParty
<1>3. k.id.did = p.did
  BY <1>1 DEF IsParty
<1>4. GetSecret(rows, k.id) = k.pair
  BY <1>2, <1>3, SecretIs
<1>5. k.id \in FindSecrets(rows, {x.id : x \in keys})
  BY <1>3 DEF FindSecrets
<1> HIDE DEF keys
<1> QED
  BY <1>1, <1>4, <1>5 DEF CanUnpack

\* Nobody else can.
LEMMA NotReadBy ==
  ASSUME NEW p, NEW mediator, IsParty(p, mediator), NEW q,
         NEW message, message.to = p.did, CanBeRead(message), CanUnpack(Packed(message), {q})
  PROVE  q.did = p.did
<1>1. \A k \in Packed(message).for : k.id.did = p.did
  BY DEF IsParty, Packed, CanBeRead
<1>2. PICK k \in Packed(message).for : k.id \in FindSecrets({q}, {x.id : x \in Packed(message).for})
  BY DEF CanUnpack
<1> QED
  BY <1>1, <1>2 DEF FindSecrets

\* What is unpacked is what was packed.
LEMMA UnpackIs ==
  ASSUME NEW rows, NEW m, m = Message(m.piuri, m.from, m.to, m.attachments),
         ParseAttachments(m.attachments) = m.attachments, CanUnpack(Packed(m), rows)
  PROVE  UnpackMessage(Packed(m), rows) = m
<1>1. UnpackMessage(Packed(m), rows) = [m EXCEPT !.attachments = ParseAttachments(@)]
  BY DEF UnpackMessage, Packed
<1> QED
  BY <1>1 DEF Message

\* What is packed is the message, for the keys of its receiver.
LEMMA PackIs ==
  ASSUME NEW rows, NEW m, m = Message(m.piuri, m.from, m.to, m.attachments),
         ParseAttachments(m.attachments) = m.attachments, PackMessage(m, rows) # Thrown
  PROVE  PackMessage(m, rows) = Packed(m) /\ CanBeRead(m)
<1>1. [m EXCEPT !.attachments = ParseAttachments(@)] = m
  BY DEF Message
<1>2. KeyAgreement(m.to) # Thrown /\ KeyAgreement(m.to) # {}
  BY DEF PackMessage, Then
<1>3. PackMessage(m, rows)
        = [for |-> KeyAgreement(m.to), message |-> [m EXCEPT !.attachments = ParseAttachments(@)]]
  BY DEF PackMessage, Then
<1> QED
  BY <1>1, <1>2, <1>3 DEF Packed, CanBeRead

\* Nothing is dropped of a message that carries nothing.
LEMMA NoAttachments == ParseAttachments(<<>>) = <<>>
<1>1. DOMAIN <<>> = {}
  OBVIOUS
<1> QED
  BY <1>1 DEF ParseAttachments

\* Nor of one that carries one JSON value.
LEMMA OneAttachment ==
  ASSUME NEW content, content # Absent
  PROVE  ParseAttachments(<<Attachment("json", content)>>) = <<Attachment("json", content)>>
<1> DEFINE a == Attachment("json", content)
<1>1. IsRepresentable(a)
  BY DEF IsRepresentable, Attachment
<1> HIDE DEF a
<1>2. \A i \in DOMAIN <<a>> : <<a>>[i] = a
  OBVIOUS
<1> QED
  BY <1>1, <1>2 DEF ParseAttachments, a

\* SendMessage without a forward.
LEMMA SentIs ==
  ASSUME NEW rows, NEW m, m = Message(m.piuri, m.from, m.to, m.attachments),
         ParseAttachments(m.attachments) = m.attachments, SendMessage(m, rows) # Thrown,
         ~RequiresForwarding(MessagingUri(ResolveDID(m.to, Absent)))
  PROVE  SendMessage(m, rows).packed = Packed(m) /\ CanBeRead(m)
<1> DEFINE uri == MessagingUri(ResolveDID(m.to, Absent))
<1>1. PackMessage(m, rows) # Thrown /\ SendMessage(m, rows) = Route(m, PackMessage(m, rows), uri, rows)
  BY DEF SendMessage, Then
<1>2. Route(m, PackMessage(m, rows), uri, rows) = MakeRequest(uri, PackMessage(m, rows))
  BY DEF Route
<1>3. MakeRequest(uri, PackMessage(m, rows)).packed = PackMessage(m, rows)
  <2> HIDE DEF uri
  <2> QED
    BY <1>1, <1>2 DEF MakeRequest
<1> QED
  BY <1>1, <1>2, <1>3, PackIs

\* SendMessage to a party: what arrives is the packed message, whether it went to
\* the party itself or to the mediator, who takes the forward apart.
LEMMA ArrivesAs ==
  ASSUME NEW rows, NEW m, m = Message(m.piuri, m.from, m.to, <<>>), SendMessage(m, rows) # Thrown,
         party # Absent, IsParty(party, party.did), NEW p, IsParty(p, party.did),
         m.to = p.did, p.did # party.did,
         [next |-> m.to, packed |-> Packed(m)] # Absent
  PROVE  Arriving(SendMessage(m, rows)) = Packed(m) /\ CanBeRead(m)
<1> DEFINE uri == MessagingUri(ResolveDID(m.to, Absent))
           request == SendMessage(m, rows)
<1>1. m.attachments = <<>> /\ ParseAttachments(m.attachments) = m.attachments
      /\ m = Message(m.piuri, m.from, m.to, m.attachments)
  BY NoAttachments DEF Message
<1>2. PackMessage(m, rows) # Thrown /\ request = Route(m, PackMessage(m, rows), uri, rows)
  BY DEF SendMessage, Then
<1>3. PackMessage(m, rows) = Packed(m) /\ CanBeRead(m)
  BY <1>1, <1>2, PackIs
<1>4. CASE ~RequiresForwarding(uri)
  <2>1. request.packed = Packed(m)
    BY <1>1, <1>4, SentIs
  <2>2. ~CanUnpack(Packed(m), {party})
    BY <1>3, NotReadBy
  <2>3. Arriving(request) = Packed(m)
    <3> HIDE DEF request
    <3> QED
      BY <2>1, <2>2 DEF Arriving
  <2> QED
    BY <1>3, <2>3
<1>5. CASE RequiresForwarding(uri)
  <2> DEFINE content == [next |-> m.to, packed |-> Packed(m)]
             forward == ForwardMessage(m, Packed(m), party.did)
  <2>1. uri = party.did
    BY <1>3, <1>5 DEF IsParty, CanBeRead
  <2>2. forward = Message("forward", m.from, party.did, <<Attachment("json", content)>>)
    BY DEF ForwardMessage
  <2>3. forward = Message(forward.piuri, forward.from, forward.to, forward.attachments)
        /\ forward.to = party.did /\ forward.attachments = <<Attachment("json", content)>>
    <3> HIDE DEF content, forward
    <3> QED
      BY <2>2 DEF Message
  <2>4. ParseAttachments(forward.attachments) = forward.attachments
    BY <2>3, OneAttachment
  <2> HIDE DEF forward
  <2> DEFINE pack == PackMessage(forward, rows)
             doc == ResolveDID(uri, Absent)
  <2>5. request = Then(pack, LAMBDA f : Then(doc, LAMBDA d : MakeRequest(MessagingUri(d), f)))
    BY <1>2, <1>3, <1>5, <2>1 DEF Route, forward
  <2>6. request # Thrown /\ request = MakeRequest(MessagingUri(doc), pack)
    BY <2>5 DEF Then
  <2>7. request.packed = pack
    <3> HIDE DEF pack, doc, request
    <3> QED
      BY <2>6 DEF MakeRequest
  <2>8. pack = Packed(forward) /\ CanBeRead(forward)
    <3>1. pack # Thrown
      BY <2>5, <2>6 DEF Then
    <3> QED
      BY <2>3, <2>4, <3>1, PackIs
  <2>9. CanUnpack(Packed(forward), {party})
    BY <2>3, <2>8, ReadBy
  <2>10. UnpackMessage(Packed(forward), {party}) = forward
    BY <2>3, <2>4, <2>9, UnpackIs
  <2>11. forward.attachments[1].content.packed = Packed(m)
    BY <2>3 DEF Attachment
  <2>12. Arriving(request) = Packed(m)
    <3> HIDE DEF request, pack
    <3> QED
      BY <2>7, <2>8, <2>9, <2>10, <2>11 DEF Arriving
  <2> QED
    BY <1>3, <2>12
<1> QED
  BY <1>4, <1>5

\* What a step of one call leaves the others: their rows, connections and pairs.
Spares(s, c) ==
  /\ party' = party /\ mediators' = mediators
  /\ calls' = [x \in Calls |-> calls'[x]]
  /\ \A x \in Calls : /\ x # c => calls'[x] = calls[x]
                      /\ calls[x].at # "idle" => calls'[x].at # "idle"
                      /\ calls[x].at = "lost" => calls'[x].at = "lost"
  /\ told \subseteq told' /\ wire \subseteq wire' /\ pairs \subseteq pairs'
  /\ \A x \in Creating(s) :
       /\ Row(s, x) \in peerDIDs => Row(s, x) \in peerDIDs'
       /\ x # c /\ Keyless(Creates(s, x)) \in peerDIDs => Keyless(Creates(s, x)) \in peerDIDs'
       /\ x # c /\ HasRow(Creates(s, x))' => HasRow(Creates(s, x))
  /\ \A did : HasRow(did) => HasRow(did)'
  /\ \A i \in 1..Len(connections) :
       /\ i \in 1..Len(connections')
       /\ connections'[i].uri = connections[i].uri /\ connections'[i].host = connections[i].host
  /\ \A x \in Creating(s), i \in 1..Len(connections') :
       x # c /\ connections'[i].host = Creates(s, x) =>
         i \in 1..Len(connections) /\ connections'[i] = connections[i]

\* What no step takes back.
LEMMA StillSo ==
  ASSUME NEW s, NEW c, Spares(s, c), NEW x \in Calls
  PROVE  /\ IsReachable(s, x) => IsReachable(s, x)'
         /\ IsConnected(s, x) => IsConnected(s, x)'
         /\ IsBound(s, x) => IsBound(s, x)'
         /\ HasArrived(s, x) => HasArrived(s, x)'
<1>1. IsReachable(s, x) => IsReachable(s, x)'
  BY DEF IsReachable, Spares
<1>2. IsConnected(s, x) => IsConnected(s, x)'
  BY DEF IsConnected, Host, Spares
<1>3. IsBound(s, x) => IsBound(s, x)'
  BY <1>2 DEF IsBound, Spares
<1>4. \A request : Arriving(request)' = Arriving(request)
  BY DEF Arriving, Spares
<1>5. HasArrived(s, x) => HasArrived(s, x)'
  BY <1>4 DEF HasArrived, Spares
<1> QED
  BY <1>1, <1>2, <1>3, <1>5

\* The other calls are where they were.
LEMMA OthersKeep ==
  ASSUME NEW s, NEW c, Spares(s, c), NEW x \in Calls, x # c, CallInv(s, x)
  PROVE  CallInv(s, x)'
<1>1. calls'[x] = calls[x]
  BY DEF Spares
<1>2. TypeInv(s, x)'
  BY <1>1 DEF TypeInv, CallInv
<1>3. StoreInv(s, x)'
  <2>1. calls[x].at \in Early /\ x \in Creating(s) => ~HasRow(Creates(s, x))'
    BY DEF CallInv, StoreInv, Spares
  <2>2. calls[x].at \in Stored \cup {"storing", "linking"} => Creates(s, x) \in told'
    BY DEF CallInv, StoreInv, Spares
  <2>3. calls[x].at \in Stored \cup {"linking"} => x \in Creating(s)
    BY DEF CallInv, TypeInv, Stored, Over
  <2>4. calls[x].at = "linking" => Keyless(Creates(s, x)) \in peerDIDs'
    BY <2>3 DEF CallInv, StoreInv, Spares
  <2>5. calls[x].at \in Stored => Row(s, x) \in peerDIDs'
    BY <2>3 DEF CallInv, StoreInv, Spares
  <2> QED
    BY <1>1, <2>1, <2>2, <2>4, <2>5 DEF StoreInv
<1>4. ConnectionInv(s, x)'
  <2>1. Granted(s, x)' <=> Granted(s, x)
    BY <1>1 DEF Granted
  <2>2. \A i \in 1..Len(connections') : x \in Creating(s) /\ Host(i)' = Creates(s, x) =>
          i \in 1..Len(connections) /\ connections'[i] = connections[i]
    BY DEF Spares, Host
  <2>3. x \in Creating(s) =>
          \A i, j \in 1..Len(connections') :
            Host(i)' = Creates(s, x) /\ Host(j)' = Creates(s, x) => i = j
    BY <2>2 DEF CallInv, ConnectionInv, Host
  <2>4. calls[x].at \in Early \cup {"linking", "handling"} /\ x \in Creating(s) =>
          \A i \in 1..Len(connections') : Host(i)' # Creates(s, x)
    BY <2>2 DEF CallInv, ConnectionInv, Host
  <2>5. calls[x].at \in Handshaking \/ Granted(s, x) => IsConnected(s, x)'
    BY StillSo DEF CallInv, ConnectionInv
  <2>6. calls[x].at \in {"pairing", "granting"} \/ Granted(s, x) => HasArrived(s, x)'
    BY StillSo DEF CallInv, ConnectionInv
  <2>7. calls[x].at = "granting" \/ Granted(s, x) =>
          PairOf(s, x) \in pairs' /\ HasRow(Invited(s, x).from)'
    BY DEF CallInv, ConnectionInv, Spares
  <2>8. Granted(s, x) =>
          \A i \in 1..Len(connections') : Host(i)' = Creates(s, x) => connections'[i].state = "GRANTED"
    <3>1. Granted(s, x) => x \in Creating(s)
      BY DEF Granted, Connecting
    <3> QED
      BY <2>2, <3>1 DEF CallInv, ConnectionInv, Host
  <2> QED
    BY <1>1, <2>1, <2>3, <2>4, <2>5, <2>6, <2>7, <2>8 DEF ConnectionInv
<1> QED
  BY <1>2, <1>3, <1>4 DEF CallInv

\* A step keeps the invariant if it keeps that of its call, and what it adds fits.
LEMMA StepKeeps ==
  ASSUME NEW s, InvitationsInv(s), NEW c, Spares(s, c), c \in Calls => CallInv(s, c)',
         MediatorInv(s)', RowsInv',
         \A did \in known' \ known : \E x \in Calls : did = Creates(s, x) /\ IsReachable(s, x)',
         \A request \in wire' \ wire : \E x \in Connecting(s) :
           /\ Arriving(request)' = Packed(HandshakeOf(s, x)) /\ CanBeRead(HandshakeOf(s, x))
           /\ IsReachable(s, x)' /\ IsBound(s, x)',
         \A packed \in queue' \ queue : \E x \in Connecting(s) :
           /\ packed = Packed(ResponseTo(s, x)) /\ CanBeRead(ResponseTo(s, x))
           /\ IsReachable(s, x)' /\ IsBound(s, x)',
         \A pair \in pairs' \ pairs : \E x \in Connecting(s) : pair = PairOf(s, x)
  PROVE  InvitationsInv(s)'
<1>1. \A x \in Calls : CallInv(s, x)'
  BY OthersKeep DEF InvitationsInv
<1>2. \A x \in Connecting(s) : x \in Calls
  BY DEF Connecting, Creating
<1>3. KnownInv(s)'
  BY StillSo DEF InvitationsInv, KnownInv
<1>4. \A request : Arriving(request)' = Arriving(request)
  BY DEF Arriving, Spares
<1>5. WireInv(s)'
  BY <1>2, <1>4, StillSo DEF InvitationsInv, WireInv
<1>6. QueueInv(s)'
  BY <1>2, StillSo DEF InvitationsInv, QueueInv
<1>7. PairsInv(s)'
  BY DEF InvitationsInv, PairsInv
<1>8. calls' = [x \in Calls |-> calls'[x]]
  BY DEF Spares
<1> QED
  BY <1>1, <1>3, <1>5, <1>6, <1>7, <1>8 DEF InvitationsInv

\* A step that leaves Pluto's rows and the connections as they are.
LEMMA SparesRest ==
  ASSUME NEW s, NEW c,
         UNCHANGED <<party, peerDIDs, connections, mediators>>,
         calls' = [x \in Calls |-> calls'[x]],
         \A x \in Calls : /\ x # c => calls'[x] = calls[x]
                          /\ calls[x].at # "idle" => calls'[x].at # "idle"
                          /\ calls[x].at = "lost" => calls'[x].at = "lost",
         told \subseteq told' /\ wire \subseteq wire' /\ pairs \subseteq pairs'
  PROVE  Spares(s, c)
BY DEF Spares, HasRow

\* Where a call goes.
LEMMA GoesIs ==
  ASSUME NEW c \in Calls, NEW s, InvitationsInv(s), NEW at, Goes(c, at)
  PROVE  /\ calls' = [x \in Calls |-> calls'[x]]
         /\ \A x \in Calls \ {c} : calls'[x] = calls[x]
         /\ calls'[c] = [value |-> s.calls[c].value, alias |-> s.calls[c].alias,
                         at |-> at, did |-> calls[c].did]
<1>1. calls[c] = [value |-> s.calls[c].value, alias |-> s.calls[c].alias,
                  at |-> calls[c].at, did |-> calls[c].did]
  BY DEF InvitationsInv, CallInv, TypeInv
<1>2. calls = [x \in Calls |-> calls[x]]
  BY DEF InvitationsInv
<1>3. calls' = [calls EXCEPT ![c].at = at]
  BY DEF Goes
<1>4. calls'[c] = [calls[c] EXCEPT !.at = at]
  BY <1>2, <1>3
<1>5. calls'[c].value = s.calls[c].value /\ calls'[c].alias = s.calls[c].alias
  BY <1>1, <1>4
<1> QED
  BY <1>1, <1>2, <1>3, <1>4

\* What the scenario says of a call.
LEMMA CallIs ==
  ASSUME NEW s, NEW c, TypeInv(s, c)
  PROVE  /\ InvitationOf(c) = Invited(s, c)
         /\ IsOOB(c) <=> Invited(s, c).type = "oob"
         /\ HasAttachment(c) <=> Invited(s, c).attachments # <<>>
         /\ Receiver(c) = Invited(s, c).from
         /\ Alias(c) = PairOf(s, c).alias
         /\ calls[c].did = Creates(s, c) => Handshake(c) = HandshakeOf(s, c)
<1>1. calls[c].value = s.calls[c].value /\ calls[c].alias = s.calls[c].alias
  BY DEF TypeInv
<1>2. InvitationOf(c) = Invited(s, c)
  BY <1>1 DEF InvitationOf, Invited
<1> QED
  BY <1>1, <1>2 DEF IsOOB, HasAttachment, Receiver, Alias, PairOf, Handshake, HandshakeOf

\* A call that has thrown keeps what it has.
LEMMA ThrewKeeps ==
  ASSUME NEW s, NEW c, CallInv(s, c), UNCHANGED connections,
         calls'[c] = [value |-> s.calls[c].value, alias |-> s.calls[c].alias,
                      at |-> "threw", did |-> calls[c].did]
  PROVE  CallInv(s, c)'
<1>1. calls'[c].at = "threw" /\ calls'[c].did = calls[c].did
  OBVIOUS
<1>2. TypeInv(s, c)'
  BY <1>1 DEF TypeInv, CallInv, Over, Handshaking
<1>3. StoreInv(s, c)'
  BY <1>1 DEF StoreInv, Early, Stored
<1>4. ConnectionInv(s, c)'
  BY <1>1 DEF CallInv, ConnectionInv, Early, Handshaking, Granted, Host
<1> QED
  BY <1>2, <1>3, <1>4 DEF CallInv

\* The mediator's connection stays, with the list of connections.
LEMMA MediatorKeeps ==
  ASSUME NEW s, MediatorInv(s), UNCHANGED <<party, connections, mediators>>
  PROVE  MediatorInv(s)'
BY DEF MediatorInv, FirstConnection

\* What changes only how far its call is.
LEMMA CallKeeps ==
  ASSUME NEW s, NEW c \in Calls, InvitationsInv(s), NEW at, Goes(c, at), CallInv(s, c)',
         at # "idle", calls[c].at # "lost",
         UNCHANGED <<party, peerDIDs, pairs, told, known, wire, queue, connections, mediators>>
  PROVE  InvitationsInv(s)'
<1>1. /\ calls' = [x \in Calls |-> calls'[x]]
      /\ \A x \in Calls \ {c} : calls'[x] = calls[x]
      /\ calls'[c].at = at
  <2>1. /\ calls' = [x \in Calls |-> calls'[x]]
        /\ \A x \in Calls \ {c} : calls'[x] = calls[x]
        /\ calls'[c] = [value |-> s.calls[c].value, alias |-> s.calls[c].alias,
                        at |-> at, did |-> calls[c].did]
    BY GoesIs
  <2> QED
    BY <2>1
<1>2. Spares(s, c)
  BY <1>1, SparesRest
<1>3. MediatorInv(s)' /\ RowsInv'
  BY MediatorKeeps DEF InvitationsInv, RowsInv
<1> QED
  BY <1>2, <1>3, StepKeeps

\* A step that throws, and does nothing else.
LEMMA ThrowKeeps ==
  ASSUME NEW s, NEW c \in Calls, InvitationsInv(s), Goes(c, "threw"), calls[c].at # "lost",
         UNCHANGED <<party, peerDIDs, pairs, told, known, wire, queue, connections, mediators>>
  PROVE  InvitationsInv(s)'
<1>1. CallInv(s, c)
  BY DEF InvitationsInv
<1>2. calls'[c] = [value |-> s.calls[c].value, alias |-> s.calls[c].alias,
                   at |-> "threw", did |-> calls[c].did]
  BY GoesIs
<1>3. CallInv(s, c)'
  BY <1>1, <1>2, ThrewKeeps
<1> QED
  BY <1>3, CallKeeps

\* The mediator's connection is the first of its uri.
LEMMA MediatorIs ==
  ASSUME NEW s \in Scenarios, ConnectionsInv, MediatorInv(s)
  PROVE  /\ MediatorConnection # Absent => s.mediator # Absent
         /\ s.mediator # Absent =>
              /\ MediatorConnection # Absent
              /\ MediatorConnection.uri = s.mediator.did /\ MediatorConnection.host = s.mediator.host
<1>1. s.mediator = Absent => MediatorConnection = Absent
  BY DEF MediatorInv, MediatorConnection
<1>2. ASSUME s.mediator # Absent
      PROVE  /\ MediatorConnection # Absent
             /\ MediatorConnection.uri = s.mediator.did /\ MediatorConnection.host = s.mediator.host
  <2> DEFINE uri == s.mediator.did
  <2>1. FirstConnection = [Connection("mediator", uri, s.mediator.host, Absent) EXCEPT !.state = "GRANTED"]
    BY <1>2 DEF MediatorInv, Reconnected
  <2>2. /\ FirstConnection.uri = uri /\ FirstConnection.host = s.mediator.host
        /\ FirstConnection.kind = "mediator"
    BY <2>1 DEF Connection
  <2>3. FirstConnection # Absent
    BY <1>2, PresenceAssumption DEF MediatorInv
  <2>4. mediators = <<uri>> /\ Len(connections) \in Nat /\ Len(connections) >= 1
    BY <1>2 DEF MediatorInv, ConnectionsInv
  <2> HIDE DEF uri
  <2>5. 1 \in Of(uri) /\ Of(uri) \in SUBSET Nat
    BY <2>2, <2>4 DEF Of, FirstConnection
  <2>6. Min(Of(uri)) \in 1..Len(connections) /\ Min(Of(uri)) <= 1
    BY <2>5, MinIsLeast, FindIs
  <2>7. Min(Of(uri)) = 1
    BY <2>4, <2>6
  <2>8. Find(uri) = FirstConnection
    BY <2>5, <2>7, FindIs DEF First, FirstConnection
  <2>9. MediatorConnection = FirstConnection
    BY <2>2, <2>3, <2>4, <2>8 DEF MediatorConnection
  <2> QED
    BY <2>2, <2>3, <2>9 DEF uri
<1> QED
  BY <1>1, <1>2

\* CreatePeerDID begins: the DID is new.
LEMMA CreateKeeps ==
  ASSUME NEW s \in Scenarios, ConnectionsInv, InvitationsInv(s), NEW c \in Calls,
         calls[c].at \in {"idle", "parsed"}, InvitationOf(c) # Thrown,
         CreateDID(c), UNCHANGED connectionVars
  PROVE  InvitationsInv(s)'
<1> DEFINE did == NewPeerDID(c, InvitationOf(c), MediatorConnection.uri)
<1>1. UNCHANGED <<party, peerDIDs, pairs, told, known, wire, queue, connections, mediators>>
  BY DEF CreateDID, connectionVars
<1>2. CallInv(s, c) /\ TypeInv(s, c) /\ StoreInv(s, c) /\ ConnectionInv(s, c) /\ MediatorInv(s)
  BY DEF InvitationsInv, CallInv
<1>3. CASE Goes(c, "threw")
  BY <1>1, <1>3, ThrowKeeps
<1>4. CASE /\ MediatorConnection # Absent /\ did # Thrown
           /\ calls' = [calls EXCEPT ![c].at = "telling", ![c].did = did]
  <2>1. s.mediator # Absent /\ MediatorConnection.uri = s.mediator.did
    BY <1>2, <1>4, MediatorIs
  <2>2. did = Creates(s, c) /\ c \in Creating(s)
    BY <1>2, <1>4, <2>1, CallIs DEF Creates, Creating
  <2>3. Creates(s, c) # Absent
    BY <2>2, FreshAssumption
  <2> HIDE DEF did
  <2>4. calls = [x \in Calls |-> calls[x]]
    BY DEF InvitationsInv
  <2>5. /\ calls' = [x \in Calls |-> calls'[x]]
        /\ \A x \in Calls \ {c} : calls'[x] = calls[x]
        /\ calls'[c] = [value |-> s.calls[c].value, alias |-> s.calls[c].alias,
                        at |-> "telling", did |-> Creates(s, c)]
    <3>1. calls[c] = [value |-> s.calls[c].value, alias |-> s.calls[c].alias,
                      at |-> calls[c].at, did |-> calls[c].did]
      BY <1>2 DEF TypeInv
    <3>2. /\ calls' = [x \in Calls |-> calls'[x]]
          /\ \A x \in Calls \ {c} : calls'[x] = calls[x]
          /\ calls'[c] = [calls[c] EXCEPT !.at = "telling", !.did = did]
      BY <1>4, <2>4
    <3>3. calls'[c].value = s.calls[c].value /\ calls'[c].alias = s.calls[c].alias
      BY <3>1, <3>2
    <3> QED
      BY <2>2, <3>1, <3>2, <3>3
  <2>6. calls'[c].at = "telling" /\ calls'[c].did = Creates(s, c)
    BY <2>5
  <2>7. Spares(s, c)
    BY <1>1, <2>5, <2>6, SparesRest
  <2>8. TypeInv(s, c)'
    BY <2>2, <2>3, <2>5, <2>6 DEF TypeInv, Early, Handshaking
  <2>9. StoreInv(s, c)'
    <3>1. ~HasRow(Creates(s, c))'
      BY <1>1, <1>2, <2>2 DEF StoreInv, Early, HasRow
    <3> QED
      BY <2>6, <3>1 DEF StoreInv, Stored
  <2>10. ConnectionInv(s, c)'
    <3>1. \A i \in 1..Len(connections) : Host(i)' # Creates(s, c)
      BY <1>1, <1>2, <2>2 DEF ConnectionInv, Early, Host
    <3> QED
      BY <1>1, <2>6, <3>1 DEF ConnectionInv, Handshaking, Granted
  <2>11. MediatorInv(s)' /\ RowsInv' /\ CallInv(s, c)'
    BY <1>1, <1>2, <2>8, <2>9, <2>10, MediatorKeeps DEF InvitationsInv, RowsInv, CallInv
  <2> QED
    BY <1>1, <2>7, <2>11, StepKeeps
<1> QED
  BY <1>3, <1>4 DEF CreateDID

\* parseInvitation, and acceptInvitation of what it returned.
LEMMA ParseKeeps ==
  ASSUME NEW s \in Scenarios, ConnectionsInv, InvitationsInv(s), NEW c \in Calls, Parse(c) \/ Accept(c)
  PROVE  InvitationsInv(s)'
<1>1. UNCHANGED connectionVars /\ UNCHANGED <<connections, mediators>>
  BY DEF Parse, Accept, connectionVars
<1>2. CallInv(s, c) /\ TypeInv(s, c) /\ StoreInv(s, c) /\ ConnectionInv(s, c)
  BY DEF InvitationsInv, CallInv
<1>3. CASE Accept(c)
  <2>1. calls[c].at = "parsed" /\ CreateDID(c)
    BY <1>3 DEF Accept, At
  <2>2. InvitationOf(c) # Thrown
    BY <1>2, <2>1, CallIs DEF TypeInv
  <2> QED
    BY <1>1, <2>1, <2>2, CreateKeeps
<1>4. CASE Parse(c)
  <2>1. calls[c].at = "idle"
    BY <1>4 DEF Parse, At
  <2>2. CASE InvitationOf(c) # Thrown /\ CreateDID(c)
    BY <1>1, <2>1, <2>2, CreateKeeps
  <2>3. ASSUME UNCHANGED <<party, peerDIDs, pairs, messages, told, known, wire, queue, faults>>
        PROVE  UNCHANGED <<party, peerDIDs, pairs, told, known, wire, queue, connections, mediators>>
    BY <1>1, <2>3
  <2>4. CASE Goes(c, "threw") /\ UNCHANGED <<party, peerDIDs, pairs, messages, told, known, wire, queue, faults>>
    BY <2>1, <2>3, <2>4, ThrowKeeps
  <2>5. CASE /\ InvitationOf(c) # Thrown /\ IsOOB(c) /\ Goes(c, "parsed")
             /\ UNCHANGED <<party, peerDIDs, pairs, messages, told, known, wire, queue, faults>>
    <3>1. calls'[c] = [value |-> s.calls[c].value, alias |-> s.calls[c].alias,
                       at |-> "parsed", did |-> calls[c].did]
      BY <2>5, GoesIs
    <3>2. calls'[c].at = "parsed" /\ calls'[c].did = calls[c].did
      BY <3>1
    <3>3. TypeInv(s, c)'
      BY <1>2, <2>5, <3>1, <3>2, CallIs DEF TypeInv, Early, Handshaking
    <3>4. StoreInv(s, c)'
      BY <1>2, <2>1, <2>5, <3>2 DEF StoreInv, Early, Stored, HasRow
    <3>5. ConnectionInv(s, c)'
      BY <1>1, <1>2, <2>1, <3>2 DEF ConnectionInv, Early, Handshaking, Granted, Host
    <3>6. CallInv(s, c)'
      BY <3>3, <3>4, <3>5 DEF CallInv
    <3> QED
      BY <2>1, <2>3, <2>5, <3>6, CallKeeps
  <2> QED
    BY <1>4, <2>2, <2>4, <2>5 DEF Parse
<1> QED
  BY <1>3, <1>4

\* What the mediator reads in a keys update is the DID of the call.
LEMMA ToldIs ==
  ASSUME NEW s \in Scenarios, ConnectionsInv, MediatorInv(s), NEW c \in Creating(s),
         calls[c].did = Creates(s, c), NEW request,
         request = SendMessage(KeysUpdate(c), peerDIDs), request # Thrown
  PROVE  Told(request) = Creates(s, c)
<1> DEFINE content == [recipient |-> Creates(s, c)]
           m == KeysUpdate(c)
<1>1. s.mediator # Absent /\ party = s.mediator
  BY DEF Creating, Creates, MediatorInv
<1>2. content # Absent
  BY <1>1, PresenceAssumption
<1>3. /\ IsParty(party, party.did)
      /\ ~RequiresForwarding(MessagingUri(ResolveDID(party.did, Absent)))
  BY <1>1, PartiesAssumption
<1>4. m = Message("keys-update", MediatorConnection.host, party.did, <<Attachment("json", content)>>)
  BY <1>1, MediatorIs DEF KeysUpdate
<1> HIDE DEF content
<1>5. m = Message(m.piuri, m.from, m.to, m.attachments)
      /\ m.to = party.did /\ m.attachments = <<Attachment("json", content)>>
  <2> HIDE DEF m
  <2> QED
    BY <1>4 DEF Message
<1>6. ParseAttachments(m.attachments) = m.attachments
  BY <1>2, <1>5, OneAttachment
<1> HIDE DEF m
<1>7. SendMessage(m, peerDIDs) # Thrown /\ request = SendMessage(m, peerDIDs)
  BY DEF m
<1>8. request.packed = Packed(m) /\ CanBeRead(m)
  BY <1>3, <1>5, <1>6, <1>7, SentIs
<1>9. CanUnpack(Packed(m), {party})
  BY <1>3, <1>5, <1>8, ReadBy
<1>10. UnpackMessage(Packed(m), {party}) = m
  BY <1>5, <1>6, <1>9, UnpackIs
<1>11. m.attachments[1].content.recipient = Creates(s, c)
  BY <1>5 DEF Attachment, content
<1> QED
  BY <1>8, <1>10, <1>11 DEF Told

\* updateKeyListWithDID.
LEMMA TellKeeps ==
  ASSUME NEW s \in Scenarios, ConnectionsInv, InvitationsInv(s), NEW c \in Calls, TellMediator(c)
  PROVE  InvitationsInv(s)'
<1> DEFINE request == SendMessage(KeysUpdate(c), peerDIDs)
           arrived == told \cup {Told(request)}
<1>1. /\ calls[c].at = "telling"
      /\ UNCHANGED <<party, peerDIDs, pairs, known, wire, queue, connections, mediators>>
  BY DEF TellMediator, At, connectionVars
<1>2. CallInv(s, c) /\ TypeInv(s, c) /\ StoreInv(s, c) /\ ConnectionInv(s, c) /\ MediatorInv(s)
  BY DEF InvitationsInv, CallInv
<1>3. c \in Creating(s) /\ calls[c].did = Creates(s, c)
  BY <1>1, <1>2 DEF TypeInv, Over
<1>4. CASE request = Thrown
  <2>1. Goes(c, "threw") /\ told' = told
    BY <1>4 DEF TellMediator
  <2> QED
    BY <1>1, <2>1, ThrowKeeps
<1>5. CASE request # Thrown
  <2>1. arrived = told \cup {Creates(s, c)}
    BY <1>2, <1>3, <1>5, ToldIs
  <2>2. \/ told' = arrived /\ Goes(c, "storing")
        \/ told' \in {told, arrived} /\ Goes(c, "threw")
    BY <1>5 DEF TellMediator
  <2>3. told \subseteq told'
    BY <2>1, <2>2
  <2>4. PICK at \in {"storing", "threw"} : Goes(c, at) /\ (at = "storing" => told' = arrived)
    BY <2>2
  <2>5. /\ calls' = [x \in Calls |-> calls'[x]]
        /\ \A x \in Calls \ {c} : calls'[x] = calls[x]
        /\ calls'[c] = [value |-> s.calls[c].value, alias |-> s.calls[c].alias,
                        at |-> at, did |-> calls[c].did]
    BY <2>4, GoesIs
  <2>6. calls'[c].at = at /\ calls'[c].did = calls[c].did
    BY <2>5
  <2>7. Spares(s, c)
    BY <1>1, <2>3, <2>5, <2>6, SparesRest
  <2>8. CASE at = "threw"
    <3>1. CallInv(s, c)'
      BY <1>1, <1>2, <2>5, <2>8, ThrewKeeps
    <3>2. MediatorInv(s)' /\ RowsInv'
      BY <1>1, <1>2, MediatorKeeps DEF InvitationsInv, RowsInv
    <3> QED
      BY <1>1, <2>7, <3>1, <3>2, StepKeeps
  <2>9. CASE at = "storing"
    <3>1. TypeInv(s, c)'
      BY <1>1, <1>2, <2>5, <2>6, <2>9 DEF TypeInv, Early, Handshaking, Over
    <3>2. StoreInv(s, c)'
      BY <1>1, <1>2, <2>1, <2>4, <2>6, <2>9 DEF StoreInv, Early, Stored, HasRow
    <3>3. ConnectionInv(s, c)'
      BY <1>1, <1>2, <2>6, <2>9 DEF ConnectionInv, Early, Handshaking, Granted, Host
    <3>4. CallInv(s, c)'
      BY <3>1, <3>2, <3>3 DEF CallInv
    <3>5. MediatorInv(s)' /\ RowsInv'
      BY <1>1, <1>2, MediatorKeeps DEF InvitationsInv, RowsInv
    <3> QED
      BY <1>1, <2>7, <3>4, <3>5, StepKeeps
  <2> QED
    BY <2>8, <2>9
<1> QED
  BY <1>4, <1>5

\* storeDID: the row is there, and then its keys.
LEMMA StoreDIDKeeps ==
  ASSUME NEW s \in Scenarios, InvitationsInv(s), NEW c \in Calls, StoreDID(c)
  PROVE  InvitationsInv(s)'
<1> DEFINE did == Creates(s, c)
<1>1. /\ calls[c].at = "storing" /\ Goes(c, "linking")
      /\ UNCHANGED <<party, told, pairs, known, wire, queue, connections, mediators>>
  BY DEF StoreDID, At, connectionVars
<1>2. CallInv(s, c) /\ TypeInv(s, c) /\ StoreInv(s, c) /\ ConnectionInv(s, c) /\ MediatorInv(s)
  BY DEF InvitationsInv, CallInv
<1>3. c \in Creating(s) /\ calls[c].did = did
  BY <1>1, <1>2 DEF TypeInv, Over
<1>4. peerDIDs' = peerDIDs \cup {Keyless(did)} /\ ~HasRow(did) /\ Keyless(did).did = did
  BY <1>1, <1>2, <1>3 DEF StoreDID, Keyless, StoreInv, Early
<1>5. /\ calls' = [x \in Calls |-> calls'[x]]
      /\ \A x \in Calls \ {c} : calls'[x] = calls[x]
      /\ calls'[c] = [value |-> s.calls[c].value, alias |-> s.calls[c].alias,
                      at |-> "linking", did |-> calls[c].did]
  BY <1>1, GoesIs
<1>6. calls'[c].at = "linking" /\ calls'[c].did = calls[c].did
  BY <1>5
<1> HIDE DEF did
<1>7. \A x \in Creating(s) : x # c => Creates(s, x) # did
  BY <1>3, FreshAssumption DEF did
<1>8. \A x : HasRow(x)' <=> HasRow(x) \/ x = did
  BY <1>4 DEF HasRow
<1>9. Spares(s, c)
  BY <1>1, <1>4, <1>5, <1>6, <1>7, <1>8 DEF Spares
<1>10. RowsInv'
  BY <1>4 DEF InvitationsInv, RowsInv, HasRow
<1>11. TypeInv(s, c)'
  BY <1>1, <1>2, <1>5, <1>6 DEF TypeInv, Early, Handshaking, Over
<1>12. StoreInv(s, c)'
  BY <1>1, <1>2, <1>4, <1>6 DEF StoreInv, Early, Stored, did
<1>13. ConnectionInv(s, c)'
  BY <1>1, <1>2, <1>6 DEF ConnectionInv, Early, Handshaking, Granted, Host
<1>14. CallInv(s, c)' /\ MediatorInv(s)'
  BY <1>1, <1>2, <1>11, <1>12, <1>13, MediatorKeeps DEF CallInv
<1> QED
  BY <1>1, <1>9, <1>10, <1>14, StepKeeps

\* The keys take the place of a row without.
LEMMA StoreKeysKeeps ==
  ASSUME NEW s \in Scenarios, InvitationsInv(s), NEW c \in Calls, StoreKeys(c)
  PROVE  InvitationsInv(s)'
<1> DEFINE did == Creates(s, c)
           at == NextOf(c)
<1>1. /\ calls[c].at = "linking" /\ Goes(c, at)
      /\ UNCHANGED <<party, told, pairs, known, wire, queue, connections, mediators>>
  BY DEF StoreKeys, At, connectionVars
<1>2. CallInv(s, c) /\ TypeInv(s, c) /\ StoreInv(s, c) /\ ConnectionInv(s, c) /\ MediatorInv(s)
  BY DEF InvitationsInv, CallInv
<1>3. c \in Creating(s) /\ calls[c].did = did
  BY <1>1, <1>2 DEF TypeInv, Over
<1>4. peerDIDs' = (peerDIDs \ {Keyless(did)}) \cup {Row(s, c)} /\ Keyless(did) \in peerDIDs
  BY <1>1, <1>2, <1>3 DEF StoreKeys, Keyless, Row, StoreInv
<1>5. Keyless(did).did = did /\ Row(s, c).did = did
  BY DEF Keyless, Row
<1>6. /\ calls' = [x \in Calls |-> calls'[x]]
      /\ \A x \in Calls \ {c} : calls'[x] = calls[x]
      /\ calls'[c] = [value |-> s.calls[c].value, alias |-> s.calls[c].alias,
                      at |-> at, did |-> calls[c].did]
  BY <1>1, GoesIs
<1>7. calls'[c].at = at /\ calls'[c].did = calls[c].did
  BY <1>6
<1>8. /\ at \in {"handling", "onboarding"}
      /\ at = "handling" => Invited(s, c) # Thrown /\ Invited(s, c).type = "oob"
      /\ at = "onboarding" => Invited(s, c).type # "oob"
  BY <1>2, <1>3, CallIs DEF NextOf, Creating, Creates
<1> HIDE DEF did, at
<1>9. \A x \in Creating(s) : x # c => Creates(s, x) # did
  BY <1>3, FreshAssumption DEF did
<1>10. \A r \in peerDIDs : r.did = did => r = Keyless(did)
  BY <1>4, <1>5 DEF InvitationsInv, RowsInv
<1>11. \A x : HasRow(x)' <=> HasRow(x)
  BY <1>4, <1>5 DEF HasRow
<1>12. \A x \in Creating(s) : Row(s, x) # Keyless(did)
  BY DEF Row, Keyless, NewKeys
<1>13. \A x \in Creating(s) : x # c => Keyless(Creates(s, x)) # Keyless(did)
  BY <1>9 DEF Keyless
<1>14. Spares(s, c)
  BY <1>1, <1>4, <1>6, <1>7, <1>8, <1>11, <1>12, <1>13 DEF Spares
<1>15. RowsInv'
  BY <1>4, <1>5, <1>10 DEF InvitationsInv, RowsInv
<1>16. TypeInv(s, c)'
  BY <1>1, <1>2, <1>6, <1>7, <1>8 DEF TypeInv, Early, Stored, Handshaking, Over
<1>17. StoreInv(s, c)'
  BY <1>1, <1>2, <1>4, <1>7, <1>8 DEF StoreInv, Early, Stored
<1>18. ConnectionInv(s, c)'
  BY <1>1, <1>2, <1>7, <1>8 DEF ConnectionInv, Early, Handshaking, Granted, Host
<1>19. CallInv(s, c)' /\ MediatorInv(s)'
  BY <1>1, <1>2, <1>16, <1>17, <1>18, MediatorKeeps DEF CallInv
<1> QED
  BY <1>1, <1>14, <1>15, <1>19, StepKeeps

\* acceptPrismOnboardingInvitation: the DID that is posted is stored.
LEMMA OnboardKeeps ==
  ASSUME NEW s \in Scenarios, InvitationsInv(s), NEW c \in Calls, Onboard(c)
  PROVE  InvitationsInv(s)'
<1>1. /\ calls[c].at = "onboarding"
      /\ UNCHANGED <<party, peerDIDs, told, pairs, wire, queue, connections, mediators>>
  BY DEF Onboard, At, connectionVars
<1>2. CallInv(s, c) /\ TypeInv(s, c) /\ StoreInv(s, c) /\ ConnectionInv(s, c) /\ MediatorInv(s)
  BY DEF InvitationsInv, CallInv
<1>3. c \in Creating(s) /\ calls[c].did = Creates(s, c) /\ Invited(s, c).type # "oob"
  BY <1>1, <1>2 DEF TypeInv, Over
<1>4. IsReachable(s, c)
  BY <1>1, <1>2, <1>3 DEF IsReachable, StoreInv, Stored
<1>5. PICK at \in {"returned", "threw"} : Goes(c, at)
  BY DEF Onboard
<1>6. known' \ known \subseteq {Creates(s, c)}
  BY <1>3 DEF Onboard
<1>7. /\ calls' = [x \in Calls |-> calls'[x]]
      /\ \A x \in Calls \ {c} : calls'[x] = calls[x]
      /\ calls'[c] = [value |-> s.calls[c].value, alias |-> s.calls[c].alias,
                      at |-> at, did |-> calls[c].did]
  BY <1>5, GoesIs
<1>8. calls'[c].at = at /\ calls'[c].did = calls[c].did
  BY <1>7
<1>9. Spares(s, c)
  BY <1>1, <1>7, <1>8, SparesRest
<1>10. CallInv(s, c)'
  <2>1. CASE at = "threw"
    BY <1>1, <1>2, <1>7, <2>1, ThrewKeeps
  <2>2. CASE at = "returned"
    <3>1. TypeInv(s, c)'
      BY <1>1, <1>2, <1>3, <1>7, <1>8, <2>2 DEF TypeInv, Stored, Handshaking, Over
    <3>2. StoreInv(s, c)'
      BY <1>1, <1>2, <1>8, <2>2 DEF StoreInv, Early, Stored
    <3>3. ConnectionInv(s, c)'
      BY <1>1, <1>2, <1>3, <1>8, <2>2 DEF ConnectionInv, Early, Handshaking, Granted, Connecting, Host
    <3> QED
      BY <3>1, <3>2, <3>3 DEF CallInv
  <2> QED
    BY <2>1, <2>2
<1>11. MediatorInv(s)' /\ RowsInv'
  BY <1>1, <1>2, MediatorKeeps DEF InvitationsInv, RowsInv
<1>12. \A did \in known' \ known : \E x \in Calls : did = Creates(s, x) /\ IsReachable(s, x)'
  BY <1>4, <1>6, <1>9, StillSo
<1> QED
  BY <1>1, <1>9, <1>10, <1>11, <1>12, StepKeeps

\* An attached message: no connection is made.
LEMMA AttachmentKeeps ==
  ASSUME NEW s \in Scenarios, InvitationsInv(s), NEW c \in Calls,
         HandleAttachment(c) \/ KeepAttached(c)
  PROVE  InvitationsInv(s)'
<1>1. UNCHANGED <<party, peerDIDs, told, pairs, known, wire, queue, connections, mediators>>
  BY DEF HandleAttachment, KeepAttached, connectionVars
<1>2. CallInv(s, c) /\ TypeInv(s, c) /\ StoreInv(s, c) /\ ConnectionInv(s, c)
  BY DEF InvitationsInv, CallInv
<1>3. CASE Goes(c, "threw") /\ calls[c].at = "handling"
  BY <1>1, <1>3, ThrowKeeps
<1>4. ASSUME NEW at \in {"keeping", "announcing"}, Goes(c, at), calls[c].at \in {"handling", "keeping"},
             Invited(s, c).attachments # <<>>
      PROVE  InvitationsInv(s)'
  <2>1. calls'[c] = [value |-> s.calls[c].value, alias |-> s.calls[c].alias,
                     at |-> at, did |-> calls[c].did]
    BY <1>4, GoesIs
  <2>2. calls'[c].at = at /\ calls'[c].did = calls[c].did
    BY <2>1
  <2>3. TypeInv(s, c)'
    BY <1>2, <1>4, <2>1, <2>2 DEF TypeInv, Stored, Handshaking, Over
  <2>4. StoreInv(s, c)'
    BY <1>1, <1>2, <1>4, <2>2 DEF StoreInv, Early, Stored
  <2>5. ConnectionInv(s, c)'
    BY <1>1, <1>2, <1>4, <2>2 DEF ConnectionInv, Early, Handshaking, Granted, Connecting, Host
  <2>6. CallInv(s, c)'
    BY <2>3, <2>4, <2>5 DEF CallInv
  <2> QED
    BY <1>1, <1>4, <2>6, CallKeeps
<1>5. CASE KeepAttached(c)
  <2>1. calls[c].at = "keeping" /\ Goes(c, "announcing")
    BY <1>5 DEF KeepAttached, At
  <2>2. Invited(s, c).attachments # <<>>
    BY <1>2, <2>1 DEF TypeInv
  <2> QED
    BY <1>4, <2>1, <2>2
<1>6. CASE HandleAttachment(c)
  <2>1. calls[c].at = "handling" /\ (Goes(c, "keeping") \/ Goes(c, "threw"))
    BY <1>6 DEF HandleAttachment, At
  <2>2. Invited(s, c).attachments # <<>>
    BY <1>2, <1>6, CallIs DEF HandleAttachment
  <2> QED
    BY <1>3, <1>4, <2>1, <2>2
<1> QED
  BY <1>5, <1>6

\* A connection that is added is the last one.
LEMMA AddIs ==
  ASSUME ConnectionsInv, NEW n, Add(n)
  PROVE  /\ Len(connections) \in Nat /\ Len(connections') = Len(connections) + 1
         /\ connections'[Len(connections) + 1] = n
         /\ \A i \in 1..Len(connections) : i \in 1..Len(connections') /\ connections'[i] = connections[i]
         /\ \A i \in 1..Len(connections') : i \in 1..Len(connections) \/ i = Len(connections) + 1
<1> DEFINE S == {connections[i] : i \in 1..Len(connections)} \cup {n}
<1>1. connections \in Seq(S) /\ n \in S /\ connections' = Append(connections, n)
  BY DEF ConnectionsInv, Add
<1> HIDE DEF S
<1> QED
  BY <1>1

\* A connection of a host that is none of the agent's new DIDs, or of this call's,
\* which has none yet.
LEMMA AddSpares ==
  ASSUME NEW s, NEW c, InvitationsInv(s), ConnectionsInv, NEW n, Add(n), "host" \in DOMAIN n,
         \A x \in Creating(s) : x # c => n.host # Creates(s, x),
         UNCHANGED <<party, peerDIDs, mediators>>,
         calls' = [x \in Calls |-> calls'[x]],
         \A x \in Calls : /\ x # c => calls'[x] = calls[x]
                          /\ calls[x].at # "idle" => calls'[x].at # "idle"
                          /\ calls[x].at = "lost" => calls'[x].at = "lost",
         told' = told /\ wire' = wire /\ pairs' = pairs
  PROVE  Spares(s, c) /\ MediatorInv(s)'
<1>1. /\ Len(connections) \in Nat /\ Len(connections') = Len(connections) + 1
      /\ connections'[Len(connections) + 1] = n
      /\ \A i \in 1..Len(connections) : i \in 1..Len(connections') /\ connections'[i] = connections[i]
      /\ \A i \in 1..Len(connections') : i \in 1..Len(connections) \/ i = Len(connections) + 1
  BY AddIs
<1>2. Spares(s, c)
  BY <1>1 DEF Spares, HasRow
<1>3. MediatorInv(s)
  BY DEF InvitationsInv
<1>4. MediatorInv(s)'
  <2>1. s.mediator # Absent => Len(connections) >= 1 /\ 1 \in 1..Len(connections)
    BY <1>1, <1>3 DEF MediatorInv
  <2>2. s.mediator # Absent => Len(connections') >= 1 /\ FirstConnection' = FirstConnection
    BY <1>1, <2>1 DEF FirstConnection
  <2>3. \A i \in 1..Len(connections') : "host" \in DOMAIN connections'[i]
    BY <1>1, <1>3 DEF MediatorInv
  <2> QED
    BY <1>3, <2>2, <2>3 DEF MediatorInv
<1> QED
  BY <1>2, <1>4

\* HandleOOBInvitation: the connection of the new DID.
LEMMA ConnectKeeps ==
  ASSUME NEW s \in Scenarios, ConnectionsInv, InvitationsInv(s), NEW c \in Calls, HandleConnection(c)
  PROVE  InvitationsInv(s)'
<1> DEFINE did == Creates(s, c)
           from == Invited(s, c).from
           n == Connection("DIDComm", from, did, Alias(c))
<1>1. /\ calls[c].at = "handling"
      /\ UNCHANGED <<party, peerDIDs, told, pairs, known, wire, queue, mediators>>
  BY DEF HandleConnection, At
<1>2. CallInv(s, c) /\ TypeInv(s, c) /\ StoreInv(s, c) /\ ConnectionInv(s, c)
  BY DEF InvitationsInv, CallInv
<1>3. c \in Creating(s) /\ calls[c].did = did /\ Receiver(c) = from
  BY <1>1, <1>2, CallIs DEF TypeInv, Over
<1>4. CASE Goes(c, "threw") /\ connections' = connections
  BY <1>1, <1>4, ThrowKeeps
<1>5. CASE Receiver(c) # Thrown /\ Add(n) /\ Goes(c, "recording")
  <2>1. c \in Connecting(s)
    BY <1>1, <1>2, <1>3, <1>5, CallIs DEF Connecting, TypeInv, HandleConnection
  <2>2. /\ calls' = [x \in Calls |-> calls'[x]]
        /\ \A x \in Calls \ {c} : calls'[x] = calls[x]
        /\ calls'[c] = [value |-> s.calls[c].value, alias |-> s.calls[c].alias,
                        at |-> "recording", did |-> calls[c].did]
    BY <1>5, GoesIs
  <2>3. calls'[c].at = "recording" /\ calls'[c].did = calls[c].did
    BY <2>2
  <2>4. n.host = did /\ n.uri = from /\ "host" \in DOMAIN n
    BY DEF Connection
  <2>5. \A x \in Creating(s) : x # c => did # Creates(s, x)
    BY <1>3, FreshAssumption
  <2> HIDE DEF n, did, from
  <2>6. Spares(s, c) /\ MediatorInv(s)'
    BY <1>1, <1>5, <2>2, <2>3, <2>4, <2>5, AddSpares
  <2>7. /\ Len(connections) \in Nat /\ Len(connections') = Len(connections) + 1
        /\ connections'[Len(connections) + 1] = n
        /\ \A i \in 1..Len(connections) : i \in 1..Len(connections') /\ connections'[i] = connections[i]
        /\ \A i \in 1..Len(connections') : i \in 1..Len(connections) \/ i = Len(connections) + 1
    BY <1>5, AddIs
  <2>8. TypeInv(s, c)'
    BY <1>1, <1>2, <2>1, <2>2, <2>3 DEF TypeInv, Stored, Handshaking, Over
  <2>9. StoreInv(s, c)'
    BY <1>1, <1>2, <2>3 DEF StoreInv, Early, Stored
  <2>10. ConnectionInv(s, c)'
    <3>1. \A i \in 1..Len(connections) : Host(i) # did
      BY <1>1, <1>2, <1>3 DEF ConnectionInv, did
    <3>2. \A i \in 1..Len(connections') : Host(i)' = did => i = Len(connections) + 1
      BY <2>7, <3>1 DEF Host
    <3>3. IsConnected(s, c)'
      <4>1. Len(connections) + 1 \in 1..Len(connections')
        BY <2>7
      <4> QED
        BY <2>4, <2>7, <4>1 DEF IsConnected, Host, did, from
    <3> QED
      BY <2>3, <3>2, <3>3 DEF ConnectionInv, Early, Granted, did
  <2>11. CallInv(s, c)' /\ RowsInv'
    BY <1>1, <2>8, <2>9, <2>10 DEF CallInv, InvitationsInv, RowsInv
  <2> QED
    BY <1>1, <2>6, <2>11, StepKeeps
<1> QED
  BY <1>3, <1>4, <1>5 DEF HandleConnection

\* DIDCommConnection.send: what is sent has been stored.
LEMMA RecordKeeps ==
  ASSUME NEW s \in Scenarios, InvitationsInv(s), NEW c \in Calls, RecordHandshake(c)
  PROVE  InvitationsInv(s)'
<1>1. /\ calls[c].at = "recording" /\ Goes(c, "sending")
      /\ UNCHANGED <<party, peerDIDs, told, pairs, known, wire, queue, connections, mediators>>
  BY DEF RecordHandshake, At, connectionVars
<1>2. CallInv(s, c) /\ TypeInv(s, c) /\ StoreInv(s, c) /\ ConnectionInv(s, c)
  BY DEF InvitationsInv, CallInv
<1>3. calls'[c] = [value |-> s.calls[c].value, alias |-> s.calls[c].alias,
                   at |-> "sending", did |-> calls[c].did]
  BY <1>1, GoesIs
<1>4. calls'[c].at = "sending" /\ calls'[c].did = calls[c].did
  BY <1>3
<1>5. TypeInv(s, c)'
  BY <1>1, <1>2, <1>3, <1>4 DEF TypeInv, Stored, Handshaking, Over
<1>6. StoreInv(s, c)'
  BY <1>1, <1>2, <1>4 DEF StoreInv, Early, Stored
<1>7. ConnectionInv(s, c)'
  BY <1>1, <1>2, <1>4 DEF ConnectionInv, IsConnected, Early, Handshaking, Granted, Host
<1>8. CallInv(s, c)'
  BY <1>5, <1>6, <1>7 DEF CallInv
<1> QED
  BY <1>1, <1>8, CallKeeps

\* The inviters' DIDs, and the mediator's.
LEMMA InviterIs ==
  ASSUME NEW s \in Scenarios, MediatorInv(s), NEW c \in Connecting(s)
  PROVE  /\ party # Absent /\ IsParty(party, party.did) /\ c \in Creating(s)
         /\ IsParty(Row(s, c), party.did) /\ Row(s, c).did = Creates(s, c)
         /\ Creates(s, c) # party.did
         /\ \E i \in Inviters : i.did = Invited(s, c).from
         /\ \A i \in Inviters : /\ IsParty(i, party.did) /\ i.did # party.did
                                /\ i.did # Creates(s, c)
<1>1. s.mediator # Absent /\ c \in Creating(s) /\ party = s.mediator
  BY DEF Connecting, Creating, Creates, MediatorInv
<1>2. IsParty(Row(s, c), party.did) /\ Row(s, c).did = Creates(s, c)
  BY <1>1, PartiesAssumption DEF Row
<1>3. /\ IsParty(party, party.did)
      /\ \A i \in Inviters : IsParty(i, party.did) /\ i.did # party.did
  BY <1>1, PartiesAssumption
<1>4. /\ Creates(s, c) # party.did
      /\ \A i \in Inviters : i.did # Creates(s, c)
      /\ \E i \in Inviters : i.did = Invited(s, c).from
  BY <1>1, FreshAssumption
<1> QED
  BY <1>1, <1>2, <1>3, <1>4

\* The handshake, which arrives or not.
LEMMA SendKeeps ==
  ASSUME NEW s \in Scenarios, InvitationsInv(s), NEW c \in Calls, SendHandshake(c)
  PROVE  InvitationsInv(s)'
<1> DEFINE request == SendMessage(Handshake(c), peerDIDs)
           m == HandshakeOf(s, c)
<1>1. /\ calls[c].at = "sending"
      /\ UNCHANGED <<party, peerDIDs, told, pairs, queue, connections, mediators>>
  BY DEF SendHandshake, At, connectionVars
<1>2. CallInv(s, c) /\ TypeInv(s, c) /\ StoreInv(s, c) /\ ConnectionInv(s, c) /\ MediatorInv(s)
  BY DEF InvitationsInv, CallInv
<1>3. /\ c \in Connecting(s) /\ c \in Creating(s) /\ calls[c].did = Creates(s, c)
      /\ Handshake(c) = m
  BY <1>1, <1>2, CallIs DEF TypeInv, Over, Handshaking, Connecting
<1>4. CASE request = Thrown
  <2>1. Goes(c, "threw") /\ UNCHANGED <<wire, known>>
    BY <1>4 DEF SendHandshake
  <2> QED
    BY <1>1, <2>1, ThrowKeeps
<1>5. CASE request # Thrown
  <2>1. PICK at \in {"pairing", "threw"} : Goes(c, at)
          /\ \/ UNCHANGED <<wire, known>> /\ at = "threw"
             \/ wire' = wire \cup {request} /\ known' = known \cup {Creates(s, c)}
    BY <1>3, <1>5 DEF SendHandshake
  <2>2. /\ calls' = [x \in Calls |-> calls'[x]]
        /\ \A x \in Calls \ {c} : calls'[x] = calls[x]
        /\ calls'[c] = [value |-> s.calls[c].value, alias |-> s.calls[c].alias,
                        at |-> at, did |-> calls[c].did]
    BY <2>1, GoesIs
  <2>3. calls'[c].at = at /\ calls'[c].did = calls[c].did
    BY <2>2
  <2>4. Arriving(request) = Packed(m) /\ CanBeRead(m)
    <3>1. m = Message(m.piuri, m.from, m.to, <<>>) /\ m.to = Invited(s, c).from
      BY DEF HandshakeOf, Message
    <3>2. [next |-> m.to, packed |-> Packed(m)] # Absent
      <4>1. s.mediator # Absent
        BY <1>3 DEF Creating, Creates
      <4> QED
        BY <1>3, <4>1, PresenceAssumption
    <3>3. SendMessage(m, peerDIDs) # Thrown /\ request = SendMessage(m, peerDIDs)
      BY <1>3, <1>5
    <3>4. PICK p \in Inviters : p.did = Invited(s, c).from
      BY <1>2, <1>3, InviterIs
    <3>5. /\ party # Absent /\ IsParty(party, party.did)
          /\ IsParty(p, party.did) /\ p.did # party.did
      BY <1>2, <1>3, InviterIs
    <3> HIDE DEF m, request
    <3> QED
      BY <3>1, <3>2, <3>3, <3>4, <3>5, ArrivesAs
  <2> HIDE DEF request
  <2>5. IsReachable(s, c) /\ IsConnected(s, c)
    BY <1>1, <1>2, <1>3 DEF IsReachable, StoreInv, Stored, ConnectionInv, Handshaking
  <2>6. Spares(s, c)
    BY <1>1, <2>1, <2>2, <2>3, SparesRest
  <2>7. IsReachable(s, c)' /\ IsConnected(s, c)' /\ IsBound(s, c)'
    <3>1. IsReachable(s, c)' /\ IsConnected(s, c)'
      BY <2>5, <2>6, StillSo
    <3> QED
      BY <2>3, <3>1 DEF IsBound
  <2>8. \A x : Arriving(x)' = Arriving(x)
    BY <1>1 DEF Arriving
  <2>9. CallInv(s, c)'
    <3>1. CASE at = "threw"
      BY <1>1, <1>2, <2>2, <3>1, ThrewKeeps
    <3>2. CASE at = "pairing"
      <4>1. TypeInv(s, c)'
        BY <1>1, <1>2, <2>2, <2>3, <3>2 DEF TypeInv, Stored, Handshaking, Over
      <4>2. StoreInv(s, c)'
        BY <1>1, <1>2, <2>3, <3>2 DEF StoreInv, Early, Stored
      <4>3. HasArrived(s, c)'
        BY <2>1, <2>4, <2>8, <3>2 DEF HasArrived
      <4>4. ConnectionInv(s, c)'
        BY <1>1, <1>2, <2>3, <2>7, <3>2, <4>3 DEF ConnectionInv, Early, Handshaking, Granted, Host
      <4> QED
        BY <4>1, <4>2, <4>4 DEF CallInv
    <3> QED
      BY <3>1, <3>2
  <2>10. MediatorInv(s)' /\ RowsInv'
    BY <1>1, <1>2, MediatorKeeps DEF InvitationsInv, RowsInv
  <2>11. \A did \in known' \ known : \E x \in Calls : did = Creates(s, x) /\ IsReachable(s, x)'
    BY <2>1, <2>7
  <2>12. \A r \in wire' \ wire : \E x \in Connecting(s) :
           /\ Arriving(r)' = Packed(HandshakeOf(s, x)) /\ CanBeRead(HandshakeOf(s, x))
           /\ IsReachable(s, x)' /\ IsBound(s, x)'
    BY <1>3, <2>1, <2>4, <2>7, <2>8
  <2> QED
    BY <1>1, <2>6, <2>9, <2>10, <2>11, <2>12, StepKeeps
<1> QED
  BY <1>4, <1>5

\* storeDIDPair: both DIDs have a row then.
LEMMA PairKeeps ==
  ASSUME NEW s \in Scenarios, InvitationsInv(s), NEW c \in Calls, StorePair(c)
  PROVE  InvitationsInv(s)'
<1> DEFINE did == Creates(s, c)
           from == Invited(s, c).from
<1>1. /\ calls[c].at = "pairing" /\ Goes(c, "granting")
      /\ UNCHANGED <<party, told, known, wire, queue, connections, mediators>>
  BY DEF StorePair, At, connectionVars
<1>2. CallInv(s, c) /\ TypeInv(s, c) /\ StoreInv(s, c) /\ ConnectionInv(s, c) /\ MediatorInv(s)
  BY DEF InvitationsInv, CallInv
<1>3. c \in Connecting(s) /\ c \in Creating(s) /\ calls[c].did = did
  BY <1>1, <1>2 DEF TypeInv, Over, Handshaking, Connecting
<1>4. Row(s, c) \in peerDIDs /\ Row(s, c).did = did
  BY <1>1, <1>2 DEF StoreInv, Stored, Row
<1>5. Saved(peerDIDs, did) = peerDIDs
  BY <1>4 DEF Saved
<1>6. peerDIDs' = IF HasRow(from) THEN peerDIDs ELSE peerDIDs \cup {Keyless(from)}
  BY <1>2, <1>3, <1>5, CallIs DEF StorePair, Saved, HasRow, Keyless
<1>7. pairs' = pairs \cup {PairOf(s, c)}
  BY <1>2, <1>3, CallIs DEF StorePair, PairOf
<1>8. /\ calls' = [x \in Calls |-> calls'[x]]
      /\ \A x \in Calls \ {c} : calls'[x] = calls[x]
      /\ calls'[c] = [value |-> s.calls[c].value, alias |-> s.calls[c].alias,
                      at |-> "granting", did |-> calls[c].did]
  BY <1>1, GoesIs
<1>9. calls'[c].at = "granting" /\ calls'[c].did = calls[c].did
  BY <1>8
<1>10. \A x \in Creating(s) : Creates(s, x) # from
  BY <1>3, FreshAssumption
<1> HIDE DEF did, from
<1>11. Keyless(from).did = from
  BY DEF Keyless
<1>12. \A x : HasRow(x)' <=> HasRow(x) \/ x = from
  BY <1>6, <1>11 DEF HasRow
<1>13. Spares(s, c)
  BY <1>1, <1>6, <1>7, <1>8, <1>9, <1>10, <1>12 DEF Spares
<1>14. RowsInv'
  BY <1>6, <1>11 DEF InvitationsInv, RowsInv, HasRow
<1>15. TypeInv(s, c)'
  BY <1>1, <1>2, <1>8, <1>9 DEF TypeInv, Stored, Handshaking, Over
<1>16. StoreInv(s, c)'
  BY <1>1, <1>2, <1>6, <1>9 DEF StoreInv, Early, Stored
<1>17. ConnectionInv(s, c)'
  <2>1. IsConnected(s, c)' /\ HasArrived(s, c)'
    BY <1>1, <1>2, <1>13, StillSo DEF ConnectionInv, Handshaking
  <2>2. PairOf(s, c) \in pairs' /\ HasRow(from)'
    BY <1>7, <1>12
  <2> QED
    BY <1>1, <1>2, <1>9, <2>1, <2>2 DEF ConnectionInv, Early, Handshaking, Granted, Host, from
<1>18. CallInv(s, c)' /\ MediatorInv(s)'
  BY <1>1, <1>2, <1>15, <1>16, <1>17, MediatorKeeps DEF CallInv
<1>19. \A pair \in pairs' \ pairs : \E x \in Connecting(s) : pair = PairOf(s, x)
  BY <1>3, <1>7
<1> QED
  BY <1>1, <1>13, <1>14, <1>18, <1>19, StepKeeps

\* The state of a connection is all that SetState changes.
LEMMA SetStateIs ==
  ASSUME NEW s, MediatorInv(s), ConnectionsInv, NEW uri, NEW host, NEW state, SetState(uri, host, state)
  PROVE  /\ Len(connections') = Len(connections)
         /\ \A i \in 1..Len(connections) :
              /\ connections'[i].uri = connections[i].uri /\ connections'[i].host = connections[i].host
              /\ "host" \in DOMAIN connections'[i]
              /\ IF connections[i].uri = uri /\ connections[i].host = host
                 THEN connections'[i].state = state ELSE connections'[i] = connections[i]
<1> DEFINE n == Len(connections)
<1>1. /\ n \in Nat /\ DOMAIN connections = 1..n
      /\ connections' = [i \in 1..n |->
           IF connections[i].uri = uri /\ connections[i].host = host
           THEN [connections[i] EXCEPT !.state = state] ELSE connections[i]]
  BY DEF SetState, ConnectionsInv
<1>2. \A i \in 1..n : {"uri", "host", "state"} \subseteq DOMAIN connections[i]
  BY DEF MediatorInv, ConnectionsInv
<1>3. Len(connections') = n
  BY <1>1
<1>4. ASSUME NEW i \in 1..n
      PROVE  /\ connections'[i].uri = connections[i].uri /\ connections'[i].host = connections[i].host
             /\ "host" \in DOMAIN connections'[i]
             /\ IF connections[i].uri = uri /\ connections[i].host = host
                THEN connections'[i].state = state ELSE connections'[i] = connections[i]
  BY <1>1, <1>2
<1> QED
  BY <1>3, <1>4

\* The pair is stored when the connection is granted and announced.
LEMMA GrantKeeps ==
  ASSUME NEW s \in Scenarios, ConnectionsInv, InvitationsInv(s), NEW c \in Calls, Grant(c)
  PROVE  InvitationsInv(s)'
<1> DEFINE did == Creates(s, c)
           from == Invited(s, c).from
<1>1. /\ calls[c].at = "granting" /\ Goes(c, "announcing")
      /\ UNCHANGED <<party, peerDIDs, told, pairs, known, wire, queue, mediators>>
  BY DEF Grant, At
<1>2. CallInv(s, c) /\ TypeInv(s, c) /\ StoreInv(s, c) /\ ConnectionInv(s, c) /\ MediatorInv(s)
  BY DEF InvitationsInv, CallInv
<1>3. c \in Connecting(s) /\ c \in Creating(s) /\ calls[c].did = did
  BY <1>1, <1>2 DEF TypeInv, Over, Handshaking, Connecting
<1>4. SetState(from, did, "GRANTED")
  BY <1>2, <1>3, CallIs DEF Grant
<1>5. /\ calls' = [x \in Calls |-> calls'[x]]
      /\ \A x \in Calls \ {c} : calls'[x] = calls[x]
      /\ calls'[c] = [value |-> s.calls[c].value, alias |-> s.calls[c].alias,
                      at |-> "announcing", did |-> calls[c].did]
  BY <1>1, GoesIs
<1>6. calls'[c].at = "announcing" /\ calls'[c].did = calls[c].did
  BY <1>5
<1>7. /\ \A x \in Creating(s) : x # c => Creates(s, x) # did
      /\ s.mediator # Absent => s.mediator.host # did
  BY <1>3, FreshAssumption
<1> HIDE DEF did, from
<1>8. /\ Len(connections') = Len(connections) /\ Len(connections) \in Nat
      /\ \A i \in 1..Len(connections) :
           /\ connections'[i].uri = connections[i].uri /\ connections'[i].host = connections[i].host
           /\ "host" \in DOMAIN connections'[i]
           /\ IF connections[i].uri = from /\ connections[i].host = did
              THEN connections'[i].state = "GRANTED" ELSE connections'[i] = connections[i]
  BY <1>2, <1>4, SetStateIs DEF ConnectionsInv
<1>9. Spares(s, c)
  BY <1>1, <1>5, <1>6, <1>7, <1>8 DEF Spares, HasRow
<1>10. MediatorInv(s)'
  <2>1. ASSUME s.mediator # Absent
        PROVE  Len(connections') >= 1 /\ FirstConnection' = Reconnected(s.mediator)[1]
    <3>1. 1 \in 1..Len(connections) /\ FirstConnection = Reconnected(s.mediator)[1]
      BY <1>2, <1>8, <2>1 DEF MediatorInv
    <3>2. FirstConnection.host = s.mediator.host
      BY <2>1, <3>1 DEF Reconnected, Connection
    <3>3. FirstConnection' = FirstConnection
      BY <1>7, <1>8, <2>1, <3>1, <3>2 DEF FirstConnection
    <3> QED
      BY <1>8, <3>1, <3>3
  <2> QED
    BY <1>1, <1>2, <1>8, <2>1 DEF MediatorInv
<1>11. TypeInv(s, c)'
  BY <1>1, <1>2, <1>3, <1>5, <1>6 DEF TypeInv, Stored, Handshaking, Over
<1>12. StoreInv(s, c)'
  BY <1>1, <1>2, <1>6 DEF StoreInv, Early, Stored
<1>13. ConnectionInv(s, c)'
  <2>1. IsConnected(s, c)' /\ HasArrived(s, c)'
    BY <1>1, <1>2, <1>9, StillSo DEF ConnectionInv, Handshaking
  <2>2. PairOf(s, c) \in pairs' /\ HasRow(from)'
    BY <1>1, <1>2, <1>9 DEF ConnectionInv, Spares, from
  <2>3. \A i, j \in 1..Len(connections') : Host(i)' = did /\ Host(j)' = did => i = j
    BY <1>2, <1>3, <1>8 DEF ConnectionInv, Host, did
  <2>4. PICK j \in 1..Len(connections) : connections[j].uri = from /\ connections[j].host = did
    BY <1>1, <1>2 DEF ConnectionInv, Handshaking, IsConnected, Host, did, from
  <2>5. \A i \in 1..Len(connections') : Host(i)' = did => connections'[i].state = "GRANTED"
    BY <1>8, <2>3, <2>4 DEF Host
  <2> QED
    BY <1>3, <1>6, <2>1, <2>2, <2>3, <2>5 DEF ConnectionInv, Early, Handshaking, Host, did, from
<1>14. CallInv(s, c)' /\ RowsInv'
  BY <1>1, <1>11, <1>12, <1>13 DEF CallInv, InvitationsInv, RowsInv
<1> QED
  BY <1>1, <1>9, <1>10, <1>14, StepKeeps

\* The call returns what it has announced.
LEMMA AnnounceKeeps ==
  ASSUME NEW s \in Scenarios, InvitationsInv(s), NEW c \in Calls, Announce(c)
  PROVE  InvitationsInv(s)'
<1>1. /\ calls[c].at = "announcing"
      /\ UNCHANGED <<party, peerDIDs, told, pairs, known, wire, queue, connections, mediators>>
  BY DEF Announce, connectionVars
<1>2. CallInv(s, c) /\ TypeInv(s, c) /\ StoreInv(s, c) /\ ConnectionInv(s, c)
  BY DEF InvitationsInv, CallInv
<1>3. CASE Goes(c, "threw")
  BY <1>1, <1>3, ThrowKeeps
<1>4. CASE Goes(c, "returned")
  <2>1. /\ \A x \in Calls \ {c} : calls'[x] = calls[x]
        /\ calls' = [x \in Calls |-> calls'[x]]
        /\ calls'[c] = [value |-> s.calls[c].value, alias |-> s.calls[c].alias,
                        at |-> "returned", did |-> calls[c].did]
    BY <1>4, GoesIs
  <2>2. calls'[c].at = "returned" /\ calls'[c].did = calls[c].did
    BY <2>1
  <2>3. TypeInv(s, c)'
    BY <1>1, <1>2, <2>1, <2>2 DEF TypeInv, Stored, Handshaking, Over
  <2>4. StoreInv(s, c)'
    BY <1>1, <1>2, <2>2 DEF StoreInv, Early, Stored
  <2>5. Spares(s, c)
    BY <1>1, <2>1, <2>2, SparesRest
  <2>6. ConnectionInv(s, c)'
    <3>1. Granted(s, c)' <=> Granted(s, c)
      BY <1>1, <2>2 DEF Granted
    <3>2. IsConnected(s, c) => IsConnected(s, c)'
      BY <2>5, StillSo
    <3>3. HasArrived(s, c) => HasArrived(s, c)'
      BY <2>5, StillSo
    <3>4. HasRow(Invited(s, c).from)' <=> HasRow(Invited(s, c).from)
      BY <1>1 DEF HasRow
    <3> QED
      BY <1>1, <1>2, <2>2, <3>1, <3>2, <3>3, <3>4 DEF ConnectionInv, Early, Handshaking, Host
  <2>7. CallInv(s, c)'
    BY <2>3, <2>4, <2>6 DEF CallInv
  <2> QED
    BY <1>1, <1>4, <2>7, CallKeeps
<1> QED
  BY <1>3, <1>4 DEF Announce

\* The mediator queues the answer to a handshake that has arrived.
LEMMA AnswerKeeps ==
  ASSUME NEW s \in Scenarios, InvitationsInv(s), NEW i \in Inviters, NEW request \in wire,
         Answer(i, request)
  PROVE  InvitationsInv(s)'
<1>1. UNCHANGED <<party, calls, peerDIDs, pairs, told, known, wire, connections, mediators>>
  BY DEF Answer, connectionVars
<1>2. MediatorInv(s) /\ calls = [x \in Calls |-> calls[x]]
  BY DEF InvitationsInv
<1>3. PICK c \in Connecting(s) :
        /\ Arriving(request) = Packed(HandshakeOf(s, c)) /\ CanBeRead(HandshakeOf(s, c))
        /\ IsReachable(s, c) /\ IsBound(s, c)
  BY DEF InvitationsInv, WireInv
<1> DEFINE h == HandshakeOf(s, c)
           m == ResponseTo(s, c)
           Response(handshake) ==
             SendMessage(Message("response", i.did, handshake.from, <<>>), {i})
<1>4. PICK p \in Inviters : p.did = Invited(s, c).from
  BY <1>2, InviterIs
<1>5. /\ party # Absent /\ IsParty(party, party.did) /\ c \in Calls /\ c \in Creating(s)
      /\ IsParty(p, party.did) /\ IsParty(i, party.did)
      /\ IsParty(Row(s, c), party.did) /\ Row(s, c).did = Creates(s, c) /\ Creates(s, c) # party.did
  BY <1>2, InviterIs DEF Creating
<1>6. h = Message(h.piuri, h.from, h.to, h.attachments) /\ h.attachments = <<>>
      /\ h.from = Creates(s, c) /\ h.to = p.did
  BY <1>4 DEF HandshakeOf, Message
<1>7. ASSUME NEW packed \in queue', packed \notin queue
      PROVE  packed = Packed(m) /\ CanBeRead(m)
  <2> HIDE DEF h
  <2>1. PICK handshake \in {UnpackMessage(Arriving(request), {i})} \ {Thrown} :
          packed = Arriving(Response(handshake)) /\ Response(handshake) # Thrown
    BY <1>7 DEF Answer
  <2>2. Arriving(request) = Packed(h) /\ CanBeRead(h)
    BY <1>3 DEF h
  <2>3. CanUnpack(Packed(h), {i}) /\ handshake = UnpackMessage(Packed(h), {i})
    BY <2>1, <2>2 DEF UnpackMessage
  <2>4. i.did = p.did
    BY <1>5, <1>6, <2>2, <2>3, NotReadBy
  <2>5. handshake = h
    BY <1>6, <2>3, NoAttachments, UnpackIs
  <2>6. Message("response", i.did, handshake.from, <<>>) = m
    BY <1>4, <1>6, <2>4, <2>5 DEF ResponseTo
  <2>7. SendMessage(m, {i}) # Thrown /\ packed = Arriving(SendMessage(m, {i}))
    BY <2>1, <2>6
  <2>8. [next |-> m.to, packed |-> Packed(m)] # Absent
    <3>1. s.mediator # Absent
      BY <1>5 DEF Creating, Creates
    <3> QED
      BY <3>1, PresenceAssumption
  <2>9. m = Message(m.piuri, m.from, m.to, <<>>) /\ m.to = Row(s, c).did
    BY <1>5 DEF ResponseTo, Message
  <2> HIDE DEF m
  <2>10. Row(s, c).did # party.did
    BY <1>5
  <2> QED
    BY <1>5, <2>7, <2>8, <2>9, <2>10, ArrivesAs
<1>8. 0 \notin Calls
  BY CallsAssumption
<1>9. Spares(s, 0)
  BY <1>1, <1>2, SparesRest
<1>10. IsReachable(s, c)' /\ IsBound(s, c)'
  BY <1>3, <1>5, <1>9, StillSo
<1>11. MediatorInv(s)' /\ RowsInv'
  BY <1>1, <1>2, MediatorKeeps DEF InvitationsInv, RowsInv
<1>12. \A packed \in queue' \ queue : \E x \in Connecting(s) :
         /\ packed = Packed(ResponseTo(s, x)) /\ CanBeRead(ResponseTo(s, x))
         /\ IsReachable(s, x)' /\ IsBound(s, x)'
  BY <1>7, <1>10
<1> QED
  BY <1>1, <1>8, <1>9, <1>11, <1>12, StepKeeps

\* The mediator's connection alone.
LEMMA ReconnectedIs ==
  ASSUME NEW s \in Scenarios, NEW list, list = Reconnected(s.mediator)
  PROVE  /\ s.mediator = Absent => Len(list) = 0
         /\ s.mediator # Absent => Len(list) = 1 /\ list[1] = Reconnected(s.mediator)[1]
                                   /\ list[1].host = s.mediator.host
         /\ \A i \in 1..Len(list) : i = 1 /\ "host" \in DOMAIN list[i]
         /\ \A c \in Creating(s), i \in 1..Len(list) : list[i].host # Creates(s, c)
<1> DEFINE m == [Connection("mediator", s.mediator.did, s.mediator.host, Absent) EXCEPT !.state = "GRANTED"]
<1>1. list = IF s.mediator = Absent THEN <<>> ELSE <<m>>
  BY DEF Reconnected
<1>2. m.host = s.mediator.host /\ "host" \in DOMAIN m
  BY DEF Connection
<1>3. \A c \in Creating(s) : s.mediator # Absent /\ s.mediator.host # Creates(s, c)
  BY FreshAssumption DEF Creating, Creates
<1> HIDE DEF m
<1>4. s.mediator = Absent => list = <<>> /\ Len(list) = 0
  BY <1>1
<1>5. s.mediator # Absent => list = <<m>> /\ Len(list) = 1 /\ list[1] = m
  BY <1>1
<1> QED
  BY <1>2, <1>3, <1>4, <1>5

\* With its process a call ends, wherever it was.
LEMMA CrashKeeps ==
  ASSUME NEW s \in Scenarios, InvitationsInv(s), Crash
  PROVE  InvitationsInv(s)'
<1>1. /\ UNCHANGED <<party, peerDIDs, pairs, told, known, wire, queue, mediators>>
      /\ calls' = [c \in Calls |->
           IF calls[c].at = "idle" THEN calls[c] ELSE [calls[c] EXCEPT !.at = "lost"]]
      /\ connections' = Reconnected(s.mediator)
  BY DEF Crash, InvitationsInv, MediatorInv
<1>2. /\ s.mediator = Absent => Len(connections') = 0
      /\ s.mediator # Absent => Len(connections') = 1 /\ connections'[1] = Reconnected(s.mediator)[1]
      /\ \A i \in 1..Len(connections') : i = 1 /\ "host" \in DOMAIN connections'[i]
      /\ \A c \in Creating(s), i \in 1..Len(connections') : connections'[i].host # Creates(s, c)
  BY <1>1, ReconnectedIs
<1>3. MediatorInv(s)'
  BY <1>1, <1>2 DEF InvitationsInv, MediatorInv, FirstConnection
<1>4. ASSUME NEW c \in Calls
      PROVE  /\ CallInv(s, c)' /\ (calls'[c].at = "idle" <=> calls[c].at = "idle")
             /\ calls[c].at # "idle" => calls'[c].at = "lost"
  <2>1. CallInv(s, c) /\ TypeInv(s, c) /\ StoreInv(s, c) /\ ConnectionInv(s, c)
    BY DEF InvitationsInv, CallInv
  <2>2. \A i \in 1..Len(connections') : c \in Creating(s) => Host(i)' # Creates(s, c)
    BY <1>2 DEF Host
  <2>3. CASE calls[c].at = "idle"
    <3>1. calls'[c] = calls[c]
      BY <1>1, <2>3
    <3>2. TypeInv(s, c)' /\ StoreInv(s, c)'
      BY <1>1, <2>1, <2>3, <3>1 DEF TypeInv, StoreInv, HasRow
    <3>3. ConnectionInv(s, c)'
      BY <1>1, <2>2, <2>3, <3>1 DEF ConnectionInv, Handshaking, Granted
    <3> QED
      BY <2>3, <3>1, <3>2, <3>3 DEF CallInv
  <2>4. CASE calls[c].at # "idle"
    <3>1. calls'[c] = [calls[c] EXCEPT !.at = "lost"]
      BY <1>1, <2>4
    <3>2. calls'[c] = [value |-> s.calls[c].value, alias |-> s.calls[c].alias,
                       at |-> "lost", did |-> calls[c].did]
      BY <2>1, <3>1 DEF TypeInv
    <3>3. calls'[c].at = "lost" /\ calls'[c].did = calls[c].did
      BY <3>2
    <3>4. TypeInv(s, c)'
      BY <2>1, <3>2, <3>3 DEF TypeInv, Over, Handshaking
    <3>5. StoreInv(s, c)'
      BY <3>3 DEF StoreInv, Early, Stored
    <3>6. ConnectionInv(s, c)'
      BY <2>2, <3>3 DEF ConnectionInv, Early, Handshaking, Granted
    <3> QED
      BY <2>4, <3>3, <3>4, <3>5, <3>6 DEF CallInv
  <2> QED
    BY <2>3, <2>4
<1>5. \A c \in Connecting(s) : c \in Calls
  BY DEF Connecting, Creating
<1>6. \A c \in Calls : /\ IsReachable(s, c) => IsReachable(s, c)'
                       /\ IsBound(s, c) => IsBound(s, c)'
  BY <1>1, <1>4 DEF IsReachable, IsBound
<1>7. KnownInv(s)'
  BY <1>1, <1>6 DEF InvitationsInv, KnownInv
<1>8. \A request : Arriving(request)' = Arriving(request)
  BY <1>1 DEF Arriving
<1>9. WireInv(s)'
  BY <1>1, <1>5, <1>6, <1>8 DEF InvitationsInv, WireInv
<1>10. QueueInv(s)'
  BY <1>1, <1>5, <1>6 DEF InvitationsInv, QueueInv
<1>11. PairsInv(s)' /\ RowsInv'
  BY <1>1 DEF InvitationsInv, PairsInv, RowsInv
<1>12. calls' = [c \in Calls |-> calls'[c]]
  BY <1>1
<1> QED
  BY <1>3, <1>4, <1>7, <1>9, <1>10, <1>11, <1>12 DEF InvitationsInv

\* The connections of the flows are the hosts of no DID.
LEMMA FlowsKeep ==
  ASSUME NEW s \in Scenarios, ConnectionsInv, InvitationsInv(s), OidcNext, UNCHANGED invitationVars
  PROVE  InvitationsInv(s)'
<1>1. UNCHANGED <<party, calls, peerDIDs, pairs, told, known, wire, queue>>
  BY DEF invitationVars
<1>2. 0 \notin Calls /\ calls = [x \in Calls |-> calls[x]]
  BY CallsAssumption DEF InvitationsInv
<1>3. RowsInv'
  BY <1>1 DEF InvitationsInv, RowsInv
<1>4. CASE UNCHANGED <<connections, mediators>>
  <2>1. Spares(s, 0)
    BY <1>1, <1>2, <1>4, SparesRest
  <2>2. MediatorInv(s)'
    BY <1>1, <1>4, MediatorKeeps DEF InvitationsInv
  <2> QED
    BY <1>1, <1>2, <1>3, <2>1, <2>2, StepKeeps
<1>5. ASSUME NEW n, Add(n), "host" \in DOMAIN n, n.host = Absent, mediators' = mediators
      PROVE  InvitationsInv(s)'
  <2>1. \A x \in Creating(s) : n.host # Creates(s, x)
    BY <1>5, FreshAssumption
  <2>2. Spares(s, 0) /\ MediatorInv(s)'
    BY <1>1, <1>2, <1>5, <2>1, AddSpares
  <2> QED
    BY <1>1, <1>2, <1>3, <2>2, StepKeeps
<1>6. PICK f \in Flows : FlowStep(f)
  BY DEF OidcNext
<1>7. CASE ReceiveToken(f)
  <2> DEFINE n == OIDCConnection(flows[f].request, TokenFor(f))
  <2>1. mediators' = mediators /\ (Add(n) \/ connections' = connections)
    BY <1>7 DEF ReceiveToken, Answers
  <2>2. "host" \in DOMAIN n /\ n.host = Absent
    BY DEF OIDCConnection, Connection
  <2> QED
    BY <1>4, <1>5, <2>1, <2>2
<1>8. CASE ~ReceiveToken(f)
  <2>1. UNCHANGED connectionVars
    BY <1>6, <1>8 DEF FlowStep, ParseOffer, FetchIssuerMetadata, FetchAuthServerMeta, Authorize,
                      ResolveTokenRequest, FindConnection, CreateCredentialRequest, AskCredential
  <2> QED
    BY <1>4, <2>1 DEF connectionVars
<1> QED
  BY <1>7, <1>8

\* At first no call has done anything.
LEMMA InvitationsInitial == Init => \E s \in Scenarios : InvitationsInv(s)
<1> SUFFICES ASSUME NEW s \in Scenarios, ConnectionsInit(s.mediator), InvitationsInit(s.mediator, s.calls)
             PROVE  InvitationsInv(s)
  BY DEF Init
<1>1. /\ party = s.mediator /\ calls = s.calls
      /\ pairs = {} /\ told = {} /\ known = {} /\ wire = {} /\ queue = {}
      /\ connections = Reconnected(s.mediator)
      /\ mediators = IF s.mediator = Absent THEN <<>> ELSE <<s.mediator.did>>
  BY DEF InvitationsInit, ConnectionsInit
<1>2. /\ s.mediator = Absent => Len(connections) = 0
      /\ s.mediator # Absent => Len(connections) = 1 /\ connections[1] = Reconnected(s.mediator)[1]
      /\ \A i \in 1..Len(connections) : i = 1 /\ "host" \in DOMAIN connections[i]
      /\ \A c \in Creating(s), i \in 1..Len(connections) : connections[i].host # Creates(s, c)
  BY <1>1, ReconnectedIs
<1>3. MediatorInv(s)
  BY <1>1, <1>2 DEF MediatorInv, FirstConnection
<1>4. s.calls = [c \in Calls |->
        [CallInit(s.calls[c].value, s.calls[c].alias) EXCEPT !.at = s.calls[c].at]]
  BY ScenariosAssumption
<1>5. \A c \in Calls : s.calls[c].at \in {"idle", "threw"}
  BY ScenariosAssumption
<1>6. \A r \in peerDIDs : s.mediator # Absent /\ r = [did |-> s.mediator.host, keys |-> s.mediator.hostKeys]
  BY DEF InvitationsInit
<1>7. \A c \in Creating(s) : ~HasRow(Creates(s, c))
  BY <1>6, FreshAssumption DEF HasRow
<1>8. ASSUME NEW c \in Calls
      PROVE  CallInv(s, c)
  <2>1. calls[c] = [CallInit(s.calls[c].value, s.calls[c].alias) EXCEPT !.at = s.calls[c].at]
    BY <1>1, <1>4
  <2>2. /\ calls[c] = [value |-> s.calls[c].value, alias |-> s.calls[c].alias,
                       at |-> s.calls[c].at, did |-> Absent]
        /\ calls[c].at \in {"idle", "threw"} /\ calls[c].did = Absent
    BY <1>1, <1>5, <2>1 DEF CallInit
  <2>3. TypeInv(s, c)
    BY <2>2 DEF TypeInv, Early, Over, Handshaking
  <2>4. StoreInv(s, c)
    BY <1>7, <2>2 DEF StoreInv, Stored
  <2>5. ConnectionInv(s, c)
    BY <1>2, <2>2 DEF ConnectionInv, Handshaking, Granted, Host
  <2> QED
    BY <2>3, <2>4, <2>5 DEF CallInv
<1>9. RowsInv /\ KnownInv(s) /\ WireInv(s) /\ QueueInv(s) /\ PairsInv(s)
  BY <1>1, <1>6 DEF RowsInv, KnownInv, WireInv, QueueInv, PairsInv
<1>10. calls = [c \in Calls |-> calls[c]]
  BY <1>1, <1>4
<1> QED
  BY <1>3, <1>8, <1>9, <1>10 DEF InvitationsInv

\* Every step of the agent keeps the invariant of its scenario.
LEMMA InvitationsStep ==
  ASSUME NEW s \in Scenarios, ConnectionsInv, InvitationsInv(s), [Next]_vars
  PROVE  InvitationsInv(s)'
<1>1. ASSUME NEW c \in Calls, CallStep(c)
      PROVE  InvitationsInv(s)'
  BY <1>1, ParseKeeps, TellKeeps, StoreDIDKeeps, StoreKeysKeeps, OnboardKeeps, AttachmentKeeps,
     ConnectKeeps, RecordKeeps, SendKeeps, PairKeeps, GrantKeeps, AnnounceKeeps DEF CallStep
<1>2. CASE UNCHANGED <<invitationVars, connectionVars>>
  <2>1. UNCHANGED <<party, calls, peerDIDs, pairs, told, known, wire, queue, connections, mediators>>
    BY <1>2 DEF invitationVars, connectionVars
  <2>2. 0 \notin Calls /\ calls = [x \in Calls |-> calls[x]] /\ MediatorInv(s)
    BY CallsAssumption DEF InvitationsInv
  <2>3. Spares(s, 0) /\ MediatorInv(s)' /\ RowsInv'
    BY <2>1, <2>2, SparesRest, MediatorKeeps DEF InvitationsInv, RowsInv
  <2> QED
    BY <2>1, <2>2, <2>3, StepKeeps
<1>3. CASE RunCallback
  BY <1>2, <1>3 DEF RunCallback
<1>4. ASSUME NEW i \in Inviters, NEW request \in wire, Answer(i, request)
      PROVE  InvitationsInv(s)'
  BY <1>4, AnswerKeeps
<1>5. CASE Crash
  BY <1>5, CrashKeeps
<1>6. CASE OidcNext /\ UNCHANGED invitationVars
  BY <1>6, FlowsKeep
<1>7. CASE UNCHANGED vars
  BY <1>2, <1>7 DEF vars
<1> QED
  BY <1>1, <1>3, <1>4, <1>5, <1>6, <1>7 DEF Next, InvitationsNext

\* The two invariants together: a scenario that the state is one of.
ExchangeInv == OidcInv /\ \E s \in Scenarios : InvitationsInv(s)

\* Every step keeps both.
LEMMA ExchangeStep == ExchangeInv /\ [Next]_vars => ExchangeInv'
<1> SUFFICES ASSUME OidcInv, NEW s \in Scenarios, InvitationsInv(s), [Next]_vars
             PROVE  ExchangeInv'
  BY DEF ExchangeInv
<1>1. OidcInv'
  BY OidcStep
<1>2. InvitationsInv(s)'
  BY InvitationsStep DEF OidcInv
<1> QED
  BY <1>1, <1>2 DEF ExchangeInv

\* Both hold at first.
LEMMA ExchangeInitial == Init => ExchangeInv
BY OidcInitial, InvitationsInitial DEF ExchangeInv

\* Whatever other calls, the flows, failing requests and the end of the process do
\* meanwhile: who knows a DID of the agent reaches it, and what the mediator has
\* for it can be read, and is about a connection (CreatePeerDID,
\* HandleOOBInvitation).
THEOREM AnswersCorrect == Spec => []AnswersAreRead
<1>1. ExchangeInv => AnswersAreRead
  <2> SUFFICES ASSUME OidcInv, NEW s \in Scenarios, InvitationsInv(s)
               PROVE  AnswersAreRead
    BY DEF ExchangeInv
  <2>1. KnownIsReachable
    <3>1. \A c : Row(s, c).did = Creates(s, c) /\ Row(s, c).keys # <<>>
      BY DEF Row, NewKeys
    <3> QED
      BY <3>1 DEF InvitationsInv, KnownInv, IsReachable, KnownIsReachable
  <2>2. ASSUME NEW packed \in queue
        PROVE  /\ CanUnpack(packed, peerDIDs)
               /\ LET answer == UnpackMessage(packed, peerDIDs)
                  IN  \A c \in Calls : calls[c].did = answer.to /\ calls[c].at # "lost" =>
                        \E i \in DOMAIN connections : connections[i].uri = answer.from
    <3>1. PICK c \in Connecting(s) :
            /\ packed = Packed(ResponseTo(s, c)) /\ CanBeRead(ResponseTo(s, c))
            /\ IsReachable(s, c) /\ IsBound(s, c)
      BY DEF InvitationsInv, QueueInv
    <3> DEFINE m == ResponseTo(s, c)
    <3>2. m = Message(m.piuri, m.from, m.to, m.attachments) /\ m.attachments = <<>>
          /\ m.to = Creates(s, c) /\ m.from = Invited(s, c).from
      BY DEF ResponseTo, Message
    <3>3. /\ IsParty(Row(s, c), party.did) /\ Row(s, c).did = Creates(s, c) /\ c \in Creating(s)
      BY InviterIs DEF InvitationsInv
    <3>4. Row(s, c) \in peerDIDs /\ \A q \in peerDIDs : q.did = Row(s, c).did => q = Row(s, c)
      BY <3>1 DEF IsReachable, InvitationsInv, RowsInv
    <3> HIDE DEF m
    <3>5. packed = Packed(m) /\ CanBeRead(m)
      BY <3>1 DEF m
    <3>6. CanUnpack(packed, peerDIDs)
      BY <3>2, <3>3, <3>4, <3>5, ReadBy
    <3>7. UnpackMessage(packed, peerDIDs) = m
      BY <3>2, <3>5, <3>6, NoAttachments, UnpackIs
    <3>8. ASSUME NEW x \in Calls, calls[x].did = m.to, calls[x].at # "lost"
          PROVE  \E i \in DOMAIN connections : connections[i].uri = m.from
      <4>1. Creates(s, c) # Absent
        BY <3>3, FreshAssumption
      <4>2. x \in Creating(s) /\ Creates(s, x) = Creates(s, c)
        BY <3>2, <3>8, <4>1 DEF InvitationsInv, CallInv, TypeInv
      <4>3. x = c
        BY <3>3, <4>2, FreshAssumption
      <4>4. IsConnected(s, c)
        BY <3>1, <3>8, <4>3 DEF IsBound
      <4>5. DOMAIN connections = 1..Len(connections)
        BY DEF OidcInv, ConnectionsInv
      <4> QED
        BY <3>2, <4>4, <4>5 DEF IsConnected
    <3> QED
      BY <3>6, <3>7, <3>8
  <2> QED
    BY <2>1, <2>2 DEF AnswersAreRead, QueuedIsReadable
<1> QED
  BY <1>1, ExchangeInitial, ExchangeStep, PTL DEF Spec

\* Of one pair, it is found.
LEMMA OnlyPair ==
  ASSUME NEW pair, HasRow(pair.host), HasRow(pair.receiver)
  PROVE  OnlyOne({pair}, MapDIDPair) = pair
<1>1. Cardinality({pair}) = 1
  BY FS_Singleton
<1>2. (CHOOSE x \in {pair} : TRUE) = pair
  OBVIOUS
<1> QED
  BY <1>1, <1>2 DEF OnlyOne, MapDIDPair

\* Whatever other calls accept meanwhile, an announced connection is the only one of
\* its DID, it is granted, the pair is found by the DID and by an alias of its own,
\* and the inviter has got the handshake (HandleOOBInvitation, getPairByDID,
\* getPairByName).
THEOREM GrantedCorrect == Spec => []GrantedIsUsable
<1>1. ExchangeInv => GrantedIsUsable
  <2> SUFFICES ASSUME OidcInv, NEW s \in Scenarios, InvitationsInv(s), NEW c \in Calls, HasGranted(c)
               PROVE  LET pair == [host |-> calls[c].did, receiver |-> Receiver(c), alias |-> Alias(c)]
                      IN  /\ GetPairByDID(calls[c].did) = pair
                          /\ (\A d \in Calls \ {c} : Alias(d) # Alias(c)) => GetPairByName(Alias(c)) = pair
                          /\ Cardinality(ConnectionOf(c)) = 1
                          /\ \A i \in ConnectionOf(c) : connections[i].state = "GRANTED"
                          /\ \E request \in wire, inviter \in Inviters :
                               /\ inviter.did = Receiver(c)
                               /\ UnpackMessage(Arriving(request), {inviter}) = Handshake(c)
    BY DEF ExchangeInv, GrantedIsUsable
  <2> DEFINE did == Creates(s, c)
             from == Invited(s, c).from
             pair == PairOf(s, c)
             m == HandshakeOf(s, c)
  <2>1. /\ \A x \in Calls : TypeInv(s, x)
        /\ TypeInv(s, c) /\ StoreInv(s, c) /\ ConnectionInv(s, c) /\ MediatorInv(s)
    BY DEF InvitationsInv, CallInv
  <2>2. Granted(s, c) /\ c \in Connecting(s)
    BY <2>1, CallIs DEF HasGranted, Granted, TypeInv
  <2>3. c \in Creating(s) /\ calls[c].did = did
    BY <2>1, <2>2 DEF Granted, Connecting, TypeInv, Over
  <2>4. /\ Receiver(c) = from /\ Handshake(c) = m
        /\ [host |-> calls[c].did, receiver |-> Receiver(c), alias |-> Alias(c)] = pair
    BY <2>1, <2>3, CallIs DEF PairOf
  <2>5. pair \in pairs /\ HasRow(from) /\ HasRow(did) /\ pair.host = did /\ pair.receiver = from
    <3>1. Row(s, c) \in peerDIDs /\ Row(s, c).did = did
      BY <2>1, <2>2 DEF StoreInv, Granted, Stored, Row
    <3> QED
      BY <2>1, <2>2, <3>1 DEF ConnectionInv, HasRow, PairOf
  <2>6. \A p \in pairs : \E x \in Connecting(s) :
          /\ p = PairOf(s, x) /\ x \in Creating(s) /\ x \in Calls
          /\ p.host = Creates(s, x) /\ p.receiver # did /\ p.alias = Alias(x)
    <3>1. ASSUME NEW x \in Connecting(s)
          PROVE  /\ x \in Creating(s) /\ x \in Calls /\ PairOf(s, x).host = Creates(s, x)
                 /\ PairOf(s, x).receiver # did /\ PairOf(s, x).alias = Alias(x)
      <4>1. x \in Creating(s) /\ x \in Calls
        BY DEF Connecting, Creating
      <4>2. Invited(s, x).from # did
        BY <2>3, <4>1, FreshAssumption
      <4>3. PairOf(s, x).alias = Alias(x)
        BY <2>1, <4>1, CallIs
      <4> QED
        BY <4>1, <4>2, <4>3 DEF PairOf
    <3> QED
      BY <3>1 DEF InvitationsInv, PairsInv
  <2>7. GetPairByDID(did) = pair
    <3>1. \A p \in pairs : p.host = did => p = pair
      BY <2>3, <2>6, FreshAssumption
    <3>2. {p \in pairs : p.host = did \/ p.receiver = did} = {pair}
      <4> HIDE DEF pair, did, from
      <4> QED
        BY <2>5, <2>6, <3>1
    <3>3. OnlyOne({pair}, MapDIDPair) = pair
      BY <2>5, OnlyPair
    <3> HIDE DEF pair, did
    <3> QED
      BY <3>2, <3>3 DEF GetPairByDID
  <2>8. ASSUME \A d \in Calls \ {c} : Alias(d) # Alias(c)
        PROVE  GetPairByName(Alias(c)) = pair
    <3>1. pair.alias = Alias(c)
      BY <2>1, CallIs
    <3>2. {p \in pairs : p.alias = Alias(c)} = {pair}
      <4>1. \A p \in pairs : p.alias = Alias(c) => p = pair
        BY <2>6, <2>8
      <4> HIDE DEF pair
      <4> QED
        BY <2>5, <3>1, <4>1
    <3>3. OnlyOne({pair}, MapDIDPair) = pair
      BY <2>5, OnlyPair
    <3> HIDE DEF pair
    <3> QED
      BY <3>2, <3>3 DEF GetPairByName
  <2>9. /\ Cardinality(ConnectionOf(c)) = 1
        /\ \A i \in ConnectionOf(c) : connections[i].state = "GRANTED"
    <3>1. DOMAIN connections = 1..Len(connections)
      BY DEF OidcInv, ConnectionsInv
    <3>2. PICK i \in 1..Len(connections) : connections[i].uri = from /\ connections[i].host = did
      BY <2>1, <2>2 DEF ConnectionInv, IsConnected, Host
    <3>3. \A j \in 1..Len(connections) : connections[j].host = did => j = i
      BY <2>1, <2>3, <3>2 DEF ConnectionInv, Host
    <3>4. ConnectionOf(c) = {i}
      BY <2>3, <2>4, <3>1, <3>2, <3>3 DEF ConnectionOf
    <3>5. connections[i].state = "GRANTED"
      BY <2>1, <2>2, <3>2 DEF ConnectionInv, Host
    <3> QED
      BY <3>4, <3>5, FS_Singleton
  <2>10. \E request \in wire, inviter \in Inviters :
           inviter.did = from /\ UnpackMessage(Arriving(request), {inviter}) = m
    <3>1. CanBeRead(m) /\ \E request \in wire : Arriving(request) = Packed(m)
      BY <2>1, <2>2 DEF ConnectionInv, HasArrived
    <3>2. PICK p \in Inviters : p.did = from
      BY <2>1, <2>2, InviterIs
    <3>3. IsParty(p, party.did)
      BY <2>1, <2>2, InviterIs
    <3>4. m = Message(m.piuri, m.from, m.to, m.attachments) /\ m.attachments = <<>> /\ m.to = p.did
      BY <3>2 DEF HandshakeOf, Message
    <3> HIDE DEF m
    <3>5. CanUnpack(Packed(m), {p})
      BY <3>1, <3>3, <3>4, ReadBy
    <3>6. UnpackMessage(Packed(m), {p}) = m
      BY <3>4, <3>5, NoAttachments, UnpackIs
    <3> QED
      BY <3>1, <3>2, <3>6
  <2> HIDE DEF pair, did, from, m
  <2> QED
    BY <2>3, <2>4, <2>7, <2>8, <2>9, <2>10
<1> QED
  BY <1>1, ExchangeInitial, ExchangeStep, PTL DEF Spec
===============================================================================
