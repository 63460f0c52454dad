----------------------------- MODULE IssuanceProofs -----------------------------
(***************************************************************************)
(* The theorems of Issuance, for any number of calls, threads and          *)
(* deliveries, and any bound of the faults.                                *)
(***************************************************************************)
EXTENDS Issuance, TLAPS

-----------------------------------------------------------------------------
(* Type correctness, and which step goes with which kind of call           *)

\* The steps at which a call that is not an offer has an issued credential at hand.
Handling == {"metadata", "secret", "keeping", "definition", "storing", "revoking"}

CallShape(c) ==
  /\ step[c] = "idle" => kind[c] = None /\ todo[c] = {}
  /\ step[c] # "idle" => kind[c] \in Kinds /\ thread[c] \in Threads
  /\ kind[c] = "offer" => step[c] \notin {"metadata", "storing", "messages", "revoking"}
  /\ kind[c] # "offer" => step[c] \notin {"recording", "sending"}
  /\ kind[c] # "revocation" => step[c] \notin {"messages", "revoking"}
  /\ kind[c] # "offer" /\ step[c] \in Handling =>
       message[c] \in messages /\ message[c].request.thread = thread[c]
  /\ step[c] = "metadata" => thread[c] \in AnonCreds
  /\ step[c] = "keeping" => secret[c] = c
  /\ \A m \in todo[c] : m \in messages /\ m.request.thread = thread[c]

Shape == TypeOK /\ \A c \in Calls : CallShape(c)

LEMMA ShapeInit == Init => Shape
<1> SUFFICES ASSUME Init PROVE Shape
  OBVIOUS
<1>1. TypeOK
  BY IssuanceAssumption DEF Init, TypeOK, Steps, Setups, Secrets
<1>2. ASSUME NEW c \in Calls PROVE CallShape(c)
  BY DEF Init, CallShape, Handling, Kinds
<1> QED
  BY <1>1, <1>2 DEF Shape

\* What is in the type of a call that has begun.
LEMMA Begun ==
  ASSUME Shape, NEW c \in Calls, step[c] # "idle"
  PROVE  /\ thread[c] \in Threads /\ kind[c] \in Kinds
         /\ kind[c] # "offer" /\ step[c] \in Handling => message[c] \in Messages
         /\ step[c] = "keeping" => secret[c] \in Secrets
BY DEF Shape, TypeOK, CallShape, Secrets

\* NextMessage keeps the types of what it changes.
LEMMA NextMessageType ==
  ASSUME TypeOK, NEW c \in Calls, NEW from, NEW left \in SUBSET messages,
         NextMessage(c, from, left)
  PROVE  /\ step' \in [Calls -> Steps]
         /\ message' \in [Calls -> Messages \cup {None}]
         /\ todo' \in [Calls -> SUBSET Messages]
<1>1. CASE left = {} /\ step' = [step EXCEPT ![c] = "returned"]
           /\ todo' = [todo EXCEPT ![c] = {}] /\ message' = message
  BY <1>1 DEF TypeOK, Steps, Settled
<1>2. ASSUME NEW m \in left, step' = [step EXCEPT ![c] = Processing(thread[c])],
             message' = [message EXCEPT ![c] = m],
             todo' = [todo EXCEPT ![c] = left \ {m}]
      PROVE  /\ step' \in [Calls -> Steps]
             /\ message' \in [Calls -> Messages \cup {None}]
             /\ todo' \in [Calls -> SUBSET Messages]
  <2>1. Processing(thread[c]) \in Steps /\ m \in Messages
    BY DEF TypeOK, Processing, Steps, Running
  <2>2. left \ {m} \in SUBSET Messages
    BY DEF TypeOK
  <2> QED
    BY <1>2, <2>1, <2>2 DEF TypeOK
<1> QED
  BY <1>1, <1>2 DEF NextMessage, Go, Set

LEMMA TypeStep == Shape /\ [Next]_vars => TypeOK'
<1> SUFFICES ASSUME Shape, [Next]_vars PROVE TypeOK'
  OBVIOUS
<1>0. TypeOK
  BY DEF Shape
<1> USE IssuanceAssumption DEF Go, Set, rows, locals
<1>1. ASSUME NEW c \in Calls, NEW t \in Threads, BeginOffer(c, t) \/ BeginRevocation(c, t)
      PROVE  TypeOK'
  BY <1>0, <1>1 DEF BeginOffer, BeginRevocation, Begin, TypeOK, Steps, Running, Kinds
<1>2. ASSUME NEW c \in Calls, NEW m \in messages, BeginIssue(c, m) PROVE TypeOK'
  BY <1>0, <1>2 DEF BeginIssue, Begin, Processing, Messages, Requests, TypeOK, Steps,
                    Running, Kinds
<1>3. ASSUME NEW c \in Calls, LookForSecret(c) PROVE TypeOK'
  BY <1>0, <1>3 DEF LookForSecret, GetLinkSecret, IsFirst, Secrets, TypeOK, Steps, Running
<1>4. ASSUME NEW c \in Calls, MakeRequest(c) \/ ProcessCredential(c) PROVE TypeOK'
  BY <1>0, <1>4 DEF MakeRequest, ProcessCredential, TypeOK, Steps, Running, Settled
<1>5. ASSUME NEW c \in Calls, SendRequest(c) PROVE TypeOK'
  <2>1. [thread |-> thread[c], by |-> c, secret |-> secret[c]] \in Requests
    BY <1>0, <1>5, Begun DEF SendRequest, Requests, TypeOK
  <2> QED
    BY <1>0, <1>5, <2>1 DEF SendRequest, TypeOK, Steps, Settled
<1>6. ASSUME NEW c \in Calls, NEW u \in Uuids, KeepSecret(c, u) PROVE TypeOK'
  <2>1. secret[c] \in Secrets
    BY <1>6, Begun DEF KeepSecret
  <2> QED
    BY <1>0, <1>6, <2>1 DEF KeepSecret, TypeOK, Steps, Running
<1>7. ASSUME NEW c \in Calls, NEW u \in Uuids, RecordMetadata(c, u) PROVE TypeOK'
  <2>1. thread[c] \in Threads
    BY <1>7, Begun DEF RecordMetadata
  <2> QED
    BY <1>0, <1>7, <2>1 DEF RecordMetadata, TypeOK, Steps, Running
<1>8. ASSUME NEW c \in Calls, FindMetadata(c) PROVE TypeOK'
  <2>1. PICK r \in Answers(thread[c]) :
          /\ Go(c, "metadata", IF r = None THEN "rejected" ELSE "secret")
          /\ Set(request, c, r)
    BY <1>8 DEF FindMetadata
  <2>2. r \in Calls \cup {None}
    <3>1. r = None \/ \E row \in MetadataOf(thread[c]) : r = row.request
      BY DEF Answers
    <3>2. \A row \in MetadataOf(thread[c]) : row.request \in Calls
      BY <1>0 DEF MetadataOf, TypeOK
    <3> QED
      BY <3>1, <3>2
  <2>3. PICK s \in {"rejected", "secret"} : step' = [step EXCEPT ![c] = s]
    BY <2>1
  <2>4. step' \in [Calls -> Steps]
    BY <1>0, <2>3 DEF TypeOK, Steps, Running, Settled
  <2>5. request' \in [Calls -> Calls \cup {None}]
    BY <1>0, <2>1, <2>2 DEF TypeOK
  <2> QED
    BY <1>0, <1>8, <2>4, <2>5 DEF FindMetadata, TypeOK
<1>9. ASSUME NEW c \in Calls, StoreCredential(c) PROVE TypeOK'
  <2>1. message[c] \in Messages
    BY <1>9, Begun DEF StoreCredential, Handling, Shape, CallShape
  <2>2. Credential(c, message[c], FALSE)
          \in [call : Calls, message : Messages, revoked : BOOLEAN]
    BY <2>1 DEF Credential
  <2>3. step' \in [Calls -> Steps]
    BY <1>0, <1>9 DEF StoreCredential, TypeOK, Steps, Running, Settled
  <2> QED
    BY <1>0, <1>9, <2>2, <2>3 DEF StoreCredential, TypeOK
<1>10. ASSUME NEW c \in Calls, FindMessages(c) PROVE TypeOK'
  <2>1. OfThread(thread[c]) \subseteq messages
    BY DEF OfThread
  <2>2. /\ step' \in [Calls -> Steps]
        /\ message' \in [Calls -> Messages \cup {None}]
        /\ todo' \in [Calls -> SUBSET Messages]
    BY <1>0, <1>10, <2>1, NextMessageType DEF FindMessages
  <2> QED
    BY <1>0, <1>10, <2>2 DEF FindMessages, TypeOK
<1>11. ASSUME NEW c \in Calls, Revoke(c) PROVE TypeOK'
  <2>1. message[c] \in Messages
    BY <1>11, Begun DEF Revoke, NextMessage, Handling, Shape, CallShape
  <2>2. Credential(c, message[c], TRUE)
          \in [call : Calls, message : Messages, revoked : BOOLEAN]
    BY <2>1 DEF Credential
  <2>3. [call |-> c, message |-> message[c]] \in [call : Calls, message : Messages]
    BY <2>1
  <2>4. todo[c] \in SUBSET messages
    BY DEF Shape, CallShape
  <2>5. /\ step' \in [Calls -> Steps]
        /\ message' \in [Calls -> Messages \cup {None}]
        /\ todo' \in [Calls -> SUBSET Messages]
    BY <1>0, <1>11, <2>4, NextMessageType DEF Revoke
  <2>6. /\ credentials' \subseteq [call : Calls, message : Messages, revoked : BOOLEAN]
        /\ announced' \subseteq [call : Calls, message : Messages]
    BY <1>0, <1>11, <2>2, <2>3 DEF Revoke, TypeOK
  <2> QED
    BY <1>0, <1>11, <2>5, <2>6 DEF Revoke, TypeOK
<1>12. ASSUME NEW r \in sent, NEW n \in 1..Copies, IssueCredential(r, n) PROVE TypeOK'
  <2>1. [request |-> r, copy |-> n] \in Messages
    BY <1>0 DEF TypeOK, Messages
  <2> QED
    BY <1>0, <1>12, <2>1 DEF IssueCredential, TypeOK
<1>13. ASSUME NEW c \in Calls, CallThrows(c) PROVE TypeOK'
  BY <1>0, <1>13 DEF CallThrows, Fault, TypeOK, Steps, Settled
<1>14. CASE Crash
  BY <1>0, <1>14 DEF Crash, Fault, TypeOK, Steps, Settled
<1>15. CASE UNCHANGED vars
  BY <1>0, <1>15 DEF vars, TypeOK
<1> QED
  BY <1>1, <1>2, <1>3, <1>4, <1>5, <1>6, <1>7, <1>8, <1>9, <1>10, <1>11, <1>12, <1>13,
     <1>14, <1>15 DEF Next, CallStep

\* A step of call d leaves the shape of the others: their locals are not touched.
LEMMA OthersShape ==
  ASSUME NEW c \in Calls, CallShape(c), messages \subseteq messages',
         step'[c] = step[c], kind'[c] = kind[c], thread'[c] = thread[c],
         message'[c] = message[c], secret'[c] = secret[c], todo'[c] = todo[c]
  PROVE  CallShape(c)'
BY DEF CallShape

LEMMA ShapeStep == Shape /\ [Next]_vars => Shape'
<1> SUFFICES ASSUME Shape, [Next]_vars PROVE \A c \in Calls : CallShape(c)'
  BY TypeStep DEF Shape
<1>0. TypeOK /\ \A c \in Calls : CallShape(c)
  BY DEF Shape
<1> USE DEF Go, Set, rows, locals
<1>1. ASSUME NEW d \in Calls, NEW t \in Threads, BeginOffer(d, t) \/ BeginRevocation(d, t),
             NEW c \in Calls
      PROVE  CallShape(c)'
  <2>1. CASE c = d
    BY <1>0, <1>1, <2>1 DEF BeginOffer, BeginRevocation, Begin, CallShape, Kinds, TypeOK,
                            Handling
  <2> QED
    BY <1>0, <1>1, <2>1, OthersShape DEF BeginOffer, BeginRevocation, Begin, TypeOK
<1>2. ASSUME NEW d \in Calls, NEW m \in messages, BeginIssue(d, m), NEW c \in Calls
      PROVE  CallShape(c)'
  <2>1. CASE c = d
    <3>1. m.request.thread \in Threads
      BY <1>0 DEF TypeOK, Messages, Requests
    <3> QED
      BY <1>0, <1>2, <2>1, <3>1 DEF BeginIssue, Begin, Processing, CallShape, Kinds, TypeOK,
                                    Handling
  <2> QED
    BY <1>0, <1>2, <2>1, OthersShape DEF BeginIssue, Begin, TypeOK
<1>3. ASSUME NEW d \in Calls, LookForSecret(d), NEW c \in Calls PROVE CallShape(c)'
  <2>1. CASE c = d
    BY <1>0, <1>3, <2>1 DEF LookForSecret, GetLinkSecret, CallShape, TypeOK, Handling
  <2> QED
    BY <1>0, <1>3, <2>1, OthersShape DEF LookForSecret, GetLinkSecret, TypeOK
<1>4. ASSUME NEW d \in Calls, MakeRequest(d) \/ ProcessCredential(d) \/ SendRequest(d),
             NEW c \in Calls
      PROVE  CallShape(c)'
  <2>1. CASE c = d
    BY <1>0, <1>4, <2>1 DEF MakeRequest, ProcessCredential, SendRequest, CallShape, TypeOK,
                            Handling
  <2> QED
    BY <1>0, <1>4, <2>1, OthersShape DEF MakeRequest, ProcessCredential, SendRequest, TypeOK
<1>5. ASSUME NEW d \in Calls, NEW u \in Uuids, KeepSecret(d, u) \/ RecordMetadata(d, u),
             NEW c \in Calls
      PROVE  CallShape(c)'
  <2>1. CASE c = d
    BY <1>0, <1>5, <2>1 DEF KeepSecret, RecordMetadata, CallShape, TypeOK, Handling
  <2> QED
    BY <1>0, <1>5, <2>1, OthersShape DEF KeepSecret, RecordMetadata, TypeOK
<1>6. ASSUME NEW d \in Calls, FindMetadata(d), NEW c \in Calls PROVE CallShape(c)'
  <2>1. CASE c = d
    BY <1>0, <1>6, <2>1 DEF FindMetadata, CallShape, TypeOK, Handling
  <2> QED
    BY <1>0, <1>6, <2>1, OthersShape DEF FindMetadata, TypeOK
<1>7. ASSUME NEW d \in Calls, StoreCredential(d), NEW c \in Calls PROVE CallShape(c)'
  <2>1. CASE c = d
    BY <1>0, <1>7, <2>1 DEF StoreCredential, CallShape, TypeOK, Handling
  <2> QED
    BY <1>0, <1>7, <2>1, OthersShape DEF StoreCredential, TypeOK
<1>8. ASSUME NEW d \in Calls, FindMessages(d), NEW c \in Calls PROVE CallShape(c)'
  <2>1. CASE c = d
    BY <1>0, <1>8, <2>1 DEF FindMessages, NextMessage, OfThread, Processing, CallShape,
                            TypeOK, Handling
  <2> QED
    BY <1>0, <1>8, <2>1, OthersShape DEF FindMessages, NextMessage, TypeOK
<1>9. ASSUME NEW d \in Calls, Revoke(d), NEW c \in Calls PROVE CallShape(c)'
  <2>1. CASE c = d
    BY <1>0, <1>9, <2>1 DEF Revoke, NextMessage, Processing, CallShape, TypeOK, Handling
  <2> QED
    BY <1>0, <1>9, <2>1, OthersShape DEF Revoke, NextMessage, TypeOK
<1>10. ASSUME NEW r \in sent, NEW n \in 1..Copies, IssueCredential(r, n), NEW c \in Calls
       PROVE  CallShape(c)'
  BY <1>0, <1>10, OthersShape DEF IssueCredential, TypeOK
<1>11. ASSUME NEW d \in Calls, CallThrows(d), NEW c \in Calls PROVE CallShape(c)'
  <2>1. CASE c = d
    BY <1>0, <1>11, <2>1 DEF CallThrows, CallShape, TypeOK, Handling, Running
  <2> QED
    BY <1>0, <1>11, <2>1, OthersShape DEF CallThrows, TypeOK
<1>12. ASSUME Crash, NEW c \in Calls PROVE CallShape(c)'
  BY <1>0, <1>12 DEF Crash, CallShape, TypeOK, Handling, Running
<1>13. CASE UNCHANGED vars
  BY <1>0, <1>13 DEF vars, CallShape
<1> QED
  BY <1>1, <1>2, <1>3, <1>4, <1>5, <1>6, <1>7, <1>8, <1>9, <1>10, <1>11, <1>12, <1>13
  DEF Next, CallStep

\* Every variable of a call keeps its type, whatever the calls do and fail at.
THEOREM TypeCorrect == Spec => []TypeOK
<1>1. Spec => []Shape
  BY ShapeInit, ShapeStep, PTL DEF Spec
<1> QED
  BY <1>1, PTL DEF Shape

-----------------------------------------------------------------------------
(* What a step does to the rows, and to one call                           *)

LEMMA RowsGrow ==
  ASSUME [Next]_vars
  PROVE  /\ setup' = setup
         /\ linkSecrets \subseteq linkSecrets' /\ metadata \subseteq metadata'
         /\ messages \subseteq messages' /\ sent \subseteq sent'
         /\ \A c \in Calls, m \in messages :
              Credential(c, m, TRUE) \in credentials => Credential(c, m, TRUE) \in credentials'
<1> USE DEF rows, locals
<1>1. ASSUME NEW c \in Calls, Revoke(c), NEW d \in Calls, NEW m \in messages
      PROVE  Credential(d, m, TRUE) # Credential(c, message[c], FALSE)
  BY DEF Credential
<1>2. ASSUME NEW c \in Calls, CallStep(c)
      PROVE  /\ setup' = setup
             /\ linkSecrets \subseteq linkSecrets' /\ metadata \subseteq metadata'
             /\ messages \subseteq messages' /\ sent \subseteq sent'
             /\ \A d \in Calls, m \in messages :
                  Credential(d, m, TRUE) \in credentials => Credential(d, m, TRUE) \in credentials'
  BY <1>1, <1>2 DEF CallStep, LookForSecret, KeepSecret, MakeRequest, RecordMetadata,
     SendRequest, FindMetadata, ProcessCredential, StoreCredential, FindMessages, Revoke
<1> QED
  BY <1>2 DEF Next, vars, BeginOffer, BeginRevocation, BeginIssue, Begin, CallThrows, Crash,
     IssueCredential

\* Nothing of call c has changed but, perhaps, its step.
SameButStep(c) ==
  /\ kind'[c] = kind[c] /\ thread'[c] = thread[c] /\ secret'[c] = secret[c]
  /\ request'[c] = request[c] /\ message'[c] = message[c] /\ todo'[c] = todo[c]
  /\ before'[c] = before[c]

Rests(c) == SameButStep(c) /\ step'[c] = step[c]
Ends(c) == SameButStep(c) /\ step[c] \in Running /\ step'[c] \in {"threw", "lost"}

Begins(c) ==
  \/ \E t \in Threads : BeginOffer(c, t) \/ BeginRevocation(c, t)
  \/ \E m \in messages : BeginIssue(c, m)

\* To a call, a step is one of its own, or takes it to its end, or is of no concern.
LEMMA CallMoves ==
  ASSUME Shape, [Next]_vars, NEW c \in Calls
  PROVE  Begins(c) \/ CallStep(c) \/ Ends(c) \/ Rests(c)
<1>0. TypeOK
  BY DEF Shape
<1> USE DEF Go, Set, rows, locals, SameButStep, Rests, Ends
<1>1. ASSUME NEW d \in Calls, d # c, CallStep(d) PROVE Rests(c)
  BY <1>0, <1>1 DEF CallStep, LookForSecret, GetLinkSecret, KeepSecret, MakeRequest,
     RecordMetadata, SendRequest, FindMetadata, ProcessCredential, StoreCredential,
     FindMessages, Revoke, NextMessage, TypeOK
<1>2. ASSUME NEW d \in Calls, d # c,
             \/ \E t \in Threads : BeginOffer(d, t) \/ BeginRevocation(d, t)
             \/ \E m \in messages : BeginIssue(d, m)
      PROVE  Rests(c)
  BY <1>0, <1>2 DEF BeginOffer, BeginRevocation, BeginIssue, Begin, TypeOK
<1>3. ASSUME NEW d \in Calls, CallThrows(d)
      PROVE  Ends(c) \/ Rests(c)
  BY <1>0, <1>3 DEF CallThrows, TypeOK
<1>4. ASSUME Crash
      PROVE  Ends(c) \/ Rests(c)
  BY <1>0, <1>4 DEF Crash, TypeOK
<1>5. ASSUME NEW r \in sent, NEW n \in 1..Copies, IssueCredential(r, n)
      PROVE  Rests(c)
  BY <1>5 DEF IssueCredential
<1>6. CASE UNCHANGED vars
  BY <1>6 DEF vars
<1> QED
  BY <1>1, <1>2, <1>3, <1>4, <1>5, <1>6 DEF Next, Begins

-----------------------------------------------------------------------------
(* RequestIsBacked                                                         *)

HasSecret(v) == \E row \in linkSecrets : row.value = v
HasMetadata(t, b) == \E row \in metadata : row.name = t /\ row.request = b

\* From the time that it has a link secret, a call has one that is stored.
CallBacked(c) ==
  /\ step[c] \in {"definition", "recording"} => HasSecret(secret[c])
  /\ step[c] = "sending" /\ thread[c] \in AnonCreds =>
       HasSecret(secret[c]) /\ HasMetadata(thread[c], c)

Backed == RequestIsBacked /\ \A c \in Calls : CallBacked(c)

LEMMA BackedInit == Init => Backed
BY DEF Init, Backed, RequestIsBacked, CallBacked

LEMMA CallBackedStep ==
  ASSUME Shape, [Next]_vars, NEW c \in Calls, CallBacked(c)
  PROVE  CallBacked(c)'
<1>0. TypeOK
  BY DEF Shape
<1>1. linkSecrets \subseteq linkSecrets' /\ metadata \subseteq metadata'
  BY RowsGrow
<1> USE DEF CallBacked, HasSecret, HasMetadata
<1>2. CASE Begins(c)
  BY <1>0, <1>2 DEF Begins, BeginOffer, BeginRevocation, BeginIssue, Begin, Processing, Go,
                    Set, TypeOK
<1>3. CASE LookForSecret(c)
  BY <1>0, <1>1, <1>3 DEF LookForSecret, GetLinkSecret, IsFirst, Go, Set, TypeOK
<1>4. ASSUME NEW u \in Uuids, KeepSecret(c, u) PROVE CallBacked(c)'
  <2>1. [uuid |-> u, value |-> secret[c]] \in linkSecrets' /\ secret' = secret
    BY <1>4 DEF KeepSecret, locals
  <2> QED
    BY <1>0, <1>4, <2>1 DEF KeepSecret, Go, TypeOK
<1>5. ASSUME NEW u \in Uuids, RecordMetadata(c, u) PROVE CallBacked(c)'
  <2>1. /\ [uuid |-> u, name |-> thread[c], request |-> c] \in metadata'
        /\ secret' = secret /\ thread' = thread /\ linkSecrets' = linkSecrets
    BY <1>5 DEF RecordMetadata, locals
  <2> QED
    BY <1>0, <1>5, <2>1 DEF RecordMetadata, Go, TypeOK
<1>6. CASE MakeRequest(c) \/ ProcessCredential(c)
  BY <1>0, <1>1, <1>6 DEF MakeRequest, ProcessCredential, Go, rows, locals, TypeOK
<1>7. CASE SendRequest(c) \/ StoreCredential(c)
  BY <1>0, <1>7 DEF SendRequest, StoreCredential, Go, TypeOK
<1>8. CASE FindMetadata(c)
  BY <1>0, <1>8 DEF FindMetadata, Go, TypeOK
<1>9. FindMessages(c) => step'[c] \in {"returned", "metadata", "storing"}
  BY <1>0 DEF FindMessages, NextMessage, Processing, Go, TypeOK
<1>10. Revoke(c) => step'[c] \in {"returned", "metadata", "storing"}
  BY <1>0 DEF Revoke, NextMessage, Processing, Go, TypeOK
<1>11. CASE Ends(c) \/ Rests(c)
  BY <1>1, <1>11 DEF SameButStep, Ends, Rests
<1> QED
  BY <1>2, <1>3, <1>4, <1>5, <1>6, <1>7, <1>8, <1>9, <1>10, <1>11, CallMoves DEF CallStep

\* A request is sent by the call that made it, and by no other step.
LEMMA SentByCall ==
  ASSUME [Next]_vars, NEW r \in sent', r \notin sent
  PROVE  \E c \in Calls :
           SendRequest(c) /\ r = [thread |-> thread[c], by |-> c, secret |-> secret[c]]
BY DEF Next, vars, rows, locals, BeginOffer, BeginRevocation, BeginIssue, Begin, CallThrows,
   Crash, IssueCredential, CallStep, LookForSecret, KeepSecret, MakeRequest, RecordMetadata,
   SendRequest, FindMetadata, ProcessCredential, StoreCredential, FindMessages, Revoke

LEMMA BackedStep == Shape /\ Backed /\ [Next]_vars => Backed'
<1> SUFFICES ASSUME Shape, Backed, [Next]_vars PROVE RequestIsBacked'
  BY CallBackedStep DEF Backed
<1>1. linkSecrets \subseteq linkSecrets' /\ metadata \subseteq metadata'
  BY RowsGrow
<1>2. ASSUME NEW r \in sent', r.thread \in AnonCreds
      PROVE  HasMetadata(r.thread, r.by)' /\ HasSecret(r.secret)'
  <2>1. CASE r \in sent
    BY <1>1, <1>2, <2>1 DEF Backed, RequestIsBacked, HasMetadata, HasSecret
  <2>2. CASE r \notin sent
    BY <1>1, <1>2, <2>2, SentByCall DEF Backed, CallBacked, SendRequest, Go, HasMetadata,
                                        HasSecret
  <2> QED
    BY <2>1, <2>2
<1> QED
  BY <1>2 DEF RequestIsBacked, HasMetadata, HasSecret

\* Whatever fails or ends the process, no AnonCreds request reaches the issuer before
\* its metadata and its link secret are in the store (CredentialOffer, GetLinkSecret).
THEOREM RequestsAreBacked == Spec => []RequestIsBacked
<1>1. Spec => [](Shape /\ Backed)
  BY ShapeInit, ShapeStep, BackedInit, BackedStep, PTL DEF Spec
<1> QED
  BY <1>1, PTL DEF Backed

-----------------------------------------------------------------------------
(* RevocationIsThorough                                                    *)

Marked(c, m) == Credential(c, m, TRUE) \in credentials

\* Of the messages that were stored before, each is to come, at hand, or marked.
CallThorough(c) ==
  /\ before[c] \subseteq messages
  /\ kind[c] = "revocation" =>
       /\ step[c] \in Handling =>
            \A m \in before[c] : m.request.thread = thread[c] =>
              m \in todo[c] \/ m = message[c] \/ Marked(c, m)
       /\ step[c] = "returned" =>
            \A m \in before[c] : m.request.thread = thread[c] => Marked(c, m)

Thorough == \A c \in Calls : CallThorough(c)

LEMMA ThoroughInit == Init => Thorough
BY DEF Init, Thorough, CallThorough, Handling

LEMMA CallThoroughStep ==
  ASSUME Shape, [Next]_vars, NEW c \in Calls, CallThorough(c)
  PROVE  CallThorough(c)'
<1>0. TypeOK /\ CallShape(c)
  BY DEF Shape
<1>1. /\ messages \subseteq messages' /\ before[c] \subseteq messages
      /\ \A m \in messages : Marked(c, m) => Marked(c, m)'
  BY RowsGrow DEF CallThorough, Marked
<1>2. CASE Begins(c)
  <2>1. step'[c] \in {"secret", "sending", "metadata", "storing", "messages"}
        /\ (kind'[c] = "revocation" => step'[c] = "messages")
    BY <1>0, <1>2 DEF Begins, BeginOffer, BeginRevocation, BeginIssue, Begin, Processing, Go,
                      Set, TypeOK
  <2>2. before'[c] \subseteq messages
    BY <1>0, <1>2 DEF Begins, BeginOffer, BeginRevocation, BeginIssue, Begin, Set, TypeOK
  <2> QED
    BY <1>1, <2>1, <2>2 DEF CallThorough, Handling
<1>3. CASE \/ LookForSecret(c) \/ FindMetadata(c) \/ MakeRequest(c) \/ ProcessCredential(c)
           \/ \E u \in Uuids : KeepSecret(c, u) \/ RecordMetadata(c, u)
  <2>1. /\ kind'[c] = kind[c] /\ thread'[c] = thread[c] /\ before'[c] = before[c]
        /\ todo'[c] = todo[c] /\ message'[c] = message[c]
    BY <1>3 DEF LookForSecret, FindMetadata, MakeRequest, ProcessCredential, KeepSecret,
                RecordMetadata, locals
  <2>2. step'[c] # "returned" /\ (kind[c] = "revocation" => step[c] \in Handling)
    BY <1>0, <1>3 DEF LookForSecret, GetLinkSecret, FindMetadata, MakeRequest,
       ProcessCredential, KeepSecret, RecordMetadata, Go, TypeOK, Handling, CallShape
  <2> QED
    BY <1>1, <2>1, <2>2 DEF CallThorough
<1>4. CASE SendRequest(c) \/ StoreCredential(c)
  <2>1. /\ kind'[c] = kind[c] /\ thread'[c] = thread[c] /\ before'[c] = before[c]
        /\ todo'[c] = todo[c] /\ message'[c] = message[c]
    BY <1>4 DEF SendRequest, StoreCredential, locals
  <2>2. kind[c] = "revocation" => step[c] \in Handling /\ step'[c] # "returned"
    BY <1>0, <1>4 DEF SendRequest, StoreCredential, Go, TypeOK, Handling, CallShape
  <2> QED
    BY <1>1, <2>1, <2>2 DEF CallThorough
<1>5. CASE FindMessages(c)
  <2>1. kind'[c] = kind[c] /\ thread'[c] = thread[c] /\ before'[c] = before[c]
    BY <1>5 DEF FindMessages
  <2>2. \A m \in before[c] : m.request.thread = thread[c] => m \in OfThread(thread[c])
    BY <1>1 DEF OfThread
  <2>3. \/ OfThread(thread[c]) = {} /\ step'[c] = "returned"
        \/ /\ \A m \in OfThread(thread[c]) : m \in todo'[c] \/ m = message'[c]
           /\ step'[c] # "returned"
    BY <1>0, <1>5 DEF FindMessages, NextMessage, Processing, Go, Set, TypeOK
  <2> QED
    BY <1>1, <2>1, <2>2, <2>3 DEF CallThorough
<1>6. CASE Revoke(c)
  <2>1. kind'[c] = kind[c] /\ thread'[c] = thread[c] /\ before'[c] = before[c]
    BY <1>6 DEF Revoke
  <2>2. Credential(c, message[c], TRUE) \in credentials'
    BY <1>6 DEF Revoke
  <2>3. step[c] \in Handling /\ message[c] \in messages
    BY <1>0, <1>6 DEF Revoke, NextMessage, Go, Handling, CallShape
  <2>4. \/ todo[c] = {} /\ step'[c] = "returned"
        \/ /\ \A m \in todo[c] : m \in todo'[c] \/ m = message'[c]
           /\ step'[c] # "returned"
    BY <1>0, <1>6 DEF Revoke, NextMessage, Processing, Go, Set, TypeOK
  <2>5. kind[c] = "revocation" =>
          \A m \in before[c] : m.request.thread = thread[c] => m \in todo[c] \/ Marked(c, m)'
    <3> SUFFICES ASSUME kind[c] = "revocation", NEW m \in before[c],
                        m.request.thread = thread[c], m \notin todo[c]
                 PROVE  Marked(c, m)'
      OBVIOUS
    <3>1. CASE m = message[c]
      BY <2>2, <3>1 DEF Marked, Credential
    <3>2. CASE Marked(c, m)
      BY <1>1, <3>2
    <3> QED
      BY <2>3, <3>1, <3>2 DEF CallThorough
  <2> QED
    BY <1>1, <2>1, <2>4, <2>5 DEF CallThorough
<1>7. CASE Ends(c) \/ Rests(c)
  BY <1>1, <1>7 DEF SameButStep, Ends, Rests, CallThorough, Handling
<1> QED
  BY <1>2, <1>3, <1>4, <1>5, <1>6, <1>7, CallMoves DEF CallStep

\* A revocation that returns has stored and marked a credential for each message of its
\* thread, though other calls run and messages arrive meanwhile (HandleRevocation).
THEOREM RevocationsAreThorough == Spec => []RevocationIsThorough
<1>1. Shape /\ Thorough /\ [Next]_vars => Thorough'
  BY CallThoroughStep DEF Thorough
<1>2. Thorough => RevocationIsThorough
  BY DEF Thorough, CallThorough, RevocationIsThorough, Marked
<1>3. Spec => [](Shape /\ Thorough)
  BY ShapeInit, ShapeStep, ThoroughInit, <1>1, PTL DEF Spec
<1> QED
  BY <1>2, <1>3, PTL

-----------------------------------------------------------------------------
(* CredentialsArePresentable: there is one link secret                     *)

Sole ==
  /\ setup.primed => linkSecrets # {}
  /\ ~setup.overlap =>
       \A b, c \in Calls : step[b] \in Running /\ step[c] \in Running => b = c
  /\ setup.primed \/ ~setup.overlap =>
       /\ \A r, q \in linkSecrets : r.value = q.value
       /\ \A c \in Calls : step[c] = "keeping" => linkSecrets = {}

\* What is stored was issued, and what was issued was sent.
Issued ==
  /\ \A m \in messages : m.request \in sent
  /\ \A x \in credentials : x.message \in messages

LEMMA SoleInit == Init => Sole /\ Issued
<1> SUFFICES ASSUME Init PROVE Sole /\ Issued
  OBVIOUS
<1>1. \A c \in Calls : step[c] \notin Running
  BY DEF Init, Running
<1>2. setup.primed => linkSecrets # {}
  BY DEF Init
<1>3. \A r, q \in linkSecrets : r.value = q.value
  BY DEF Init
<1>4. \A c \in Calls : step[c] # "keeping"
  BY DEF Init
<1>5. Issued
  BY DEF Init, Issued
<1> QED
  BY <1>1, <1>2, <1>3, <1>4, <1>5 DEF Sole

\* Only a call that begins starts to run, and only when it may.
LEMMA RunningStep ==
  ASSUME Shape, [Next]_vars, NEW c \in Calls, step'[c] \in Running
  PROVE  step[c] \in Running \/ Begins(c)
BY CallMoves DEF Rests, Ends, CallStep, LookForSecret, GetLinkSecret, KeepSecret, MakeRequest,
   RecordMetadata, SendRequest, FindMetadata, ProcessCredential, StoreCredential,
   FindMessages, Revoke, NextMessage, Go, Running

LEMMA SequentialStep ==
  ASSUME Shape, Sole, [Next]_vars, ~setup.overlap,
         NEW b \in Calls, NEW c \in Calls, step'[b] \in Running, step'[c] \in Running
  PROVE  b = c
<1>0. TypeOK
  BY DEF Shape
<1>1. ASSUME NEW d \in Calls, Begins(d), NEW e \in Calls, e # d
      PROVE  step[e] \notin Running /\ step'[e] = step[e]
  BY <1>0, <1>1 DEF Begins, BeginOffer, BeginRevocation, BeginIssue, Begin, MayBegin, Go, TypeOK
<1> QED
  BY <1>1, RunningStep DEF Sole

LEMMA SoleStep == Shape /\ Sole /\ [Next]_vars => Sole'
<1> SUFFICES ASSUME Shape, Sole, [Next]_vars PROVE Sole'
  OBVIOUS
<1>0. TypeOK
  BY DEF Shape
<1>1. setup' = setup /\ linkSecrets \subseteq linkSecrets'
  BY RowsGrow
<1>2. CASE \E c \in Calls, u \in Uuids : KeepSecret(c, u)
  <2>1. PICK c \in Calls, u \in Uuids : KeepSecret(c, u)
    BY <1>2
  <2>2. /\ step[c] = "keeping" /\ step' = [step EXCEPT ![c] = "definition"]
        /\ linkSecrets' = linkSecrets \cup {[uuid |-> u, value |-> secret[c]]}
    BY <2>1 DEF KeepSecret, Go
  <2>3. setup.primed \/ ~setup.overlap => linkSecrets = {} /\ ~setup.overlap
    BY <2>2 DEF Sole
  <2>4. ASSUME ~setup.overlap, NEW d \in Calls PROVE step'[d] # "keeping"
    BY <1>0, <2>2, <2>4 DEF Sole, Running, TypeOK
  <2> QED
    BY <1>1, <2>2, <2>3, <2>4, SequentialStep DEF Sole
<1>3. CASE ~\E c \in Calls, u \in Uuids : KeepSecret(c, u)
  <2>1. linkSecrets' = linkSecrets
    BY <1>3 DEF Next, vars, rows, locals, BeginOffer, BeginRevocation, BeginIssue, Begin,
       CallThrows, Crash, IssueCredential, CallStep, LookForSecret, MakeRequest,
       RecordMetadata, SendRequest, FindMetadata, ProcessCredential, StoreCredential,
       FindMessages, Revoke
  <2>2. ASSUME NEW c \in Calls, step'[c] = "keeping" PROVE step[c] = "keeping" \/ linkSecrets = {}
    <3>1. ~Begins(c)
      BY <1>0, <2>2 DEF Begins, BeginOffer, BeginRevocation, BeginIssue, Begin, Processing, Go,
                        TypeOK
    <3>2. CASE CallStep(c)
      BY <1>0, <2>2, <3>2 DEF CallStep, LookForSecret, GetLinkSecret, KeepSecret, MakeRequest,
         RecordMetadata, SendRequest, FindMetadata, ProcessCredential, StoreCredential,
         FindMessages, Revoke, NextMessage, Processing, Go, TypeOK
    <3> QED
      BY <2>2, <3>1, <3>2, CallMoves DEF Rests, Ends
  <2> QED
    BY <1>1, <2>1, <2>2, SequentialStep DEF Sole
<1> QED
  BY <1>2, <1>3

LEMMA IssuedStep == Shape /\ Issued /\ [Next]_vars => Issued'
<1> SUFFICES ASSUME Shape, Issued, [Next]_vars PROVE Issued'
  OBVIOUS
<1>1. messages \subseteq messages' /\ sent \subseteq sent'
  BY RowsGrow
<1>2. ASSUME NEW m \in messages', m \notin messages PROVE m.request \in sent
  <2>1. PICK r \in sent, n \in 1..Copies : IssueCredential(r, n)
    BY <1>2 DEF Next, vars, rows, locals, BeginOffer, BeginRevocation, BeginIssue, Begin,
       CallThrows, Crash, CallStep, LookForSecret, KeepSecret, MakeRequest, RecordMetadata,
       SendRequest, FindMetadata, ProcessCredential, StoreCredential, FindMessages, Revoke
  <2>2. m = [request |-> r, copy |-> n]
    BY <1>2, <2>1 DEF IssueCredential
  <2> QED
    BY <2>2
<1>3. ASSUME NEW c \in Calls, StoreCredential(c) \/ Revoke(c) PROVE message[c] \in messages
  BY <1>3 DEF StoreCredential, Revoke, NextMessage, Go, Shape, CallShape, Handling
<1>4. ASSUME NEW x \in credentials', x \notin credentials PROVE x.message \in messages
  <2>1. PICK c \in Calls : StoreCredential(c) \/ Revoke(c)
    BY <1>4 DEF Next, vars, rows, locals, BeginOffer, BeginRevocation, BeginIssue, Begin,
       CallThrows, Crash, IssueCredential, CallStep, LookForSecret, KeepSecret, MakeRequest,
       RecordMetadata, SendRequest, FindMetadata, ProcessCredential, FindMessages
  <2>2. x = Credential(c, message[c], FALSE) \/ x = Credential(c, message[c], TRUE)
    BY <1>4, <2>1 DEF StoreCredential, Revoke
  <2>3. x.message = message[c]
    BY <2>2 DEF Credential
  <2> QED
    BY <1>3, <2>1, <2>3
<1> QED
  BY <1>1, <1>2, <1>4 DEF Issued

\* With a link secret from earlier, or with calls that are awaited, a wallet has one
\* secret, which every AnonCreds credential it stores is bound to (GetLinkSecret).
THEOREM CredentialsPresentable == Spec => []CredentialsArePresentable
<1>1. Backed /\ Sole /\ Issued => CredentialsArePresentable
  BY DEF Backed, RequestIsBacked, Sole, Issued, CredentialsArePresentable
<1>2. Spec => [](Shape /\ Backed /\ Sole /\ Issued)
  BY ShapeInit, ShapeStep, BackedInit, BackedStep, SoleInit, SoleStep, IssuedStep, PTL
  DEF Spec
<1> QED
  BY <1>1, <1>2, PTL

-----------------------------------------------------------------------------
(* IssuedIsProcessable                                                     *)

Offered(b, t) == b \in Calls /\ step[b] # "idle" /\ kind[b] = "offer" /\ thread[b] = t

\* Requests and metadata come of offers; an offer that is not handled again is its
\* thread's only one.
Offers ==
  /\ \A r \in sent : Offered(r.by, r.thread)
  /\ \A row \in metadata : Offered(row.request, row.name)
  /\ ~setup.again =>
       \A b, c \in Calls, t \in Threads : Offered(b, t) /\ Offered(c, t) => b = c

\* The metadata that was found is of the thread, and the call has not been rejected.
CallProceeds(c) ==
  /\ kind[c] # "offer" /\ step[c] \in {"secret", "keeping", "definition"} =>
       thread[c] \in AnonCreds /\ Offered(request[c], thread[c])
  /\ Careful => step[c] # "rejected"

Proceeds == Offers /\ \A c \in Calls : CallProceeds(c)

LEMMA ProceedsInit == Init => Proceeds
BY DEF Init, Proceeds, Offers, CallProceeds, Offered

LEMMA OfferedStays ==
  ASSUME Shape, [Next]_vars, NEW b, NEW t, Offered(b, t)
  PROVE  Offered(b, t)'
<1>0. TypeOK
  BY DEF Shape
<1>1. ~Begins(b)
  BY DEF Offered, Begins, BeginOffer, BeginRevocation, BeginIssue, Begin, Go
<1>2. CASE CallStep(b)
  BY <1>0, <1>2 DEF CallStep, LookForSecret, GetLinkSecret, KeepSecret, MakeRequest,
     RecordMetadata, SendRequest, FindMetadata, ProcessCredential, StoreCredential,
     FindMessages, Revoke, NextMessage, Processing, Go, Offered, TypeOK
<1> QED
  BY <1>1, <1>2, CallMoves DEF Offered, Rests, Ends, SameButStep

\* A call is an offer of t from its beginning, or not at all.
LEMMA OfferedAnew ==
  ASSUME Shape, [Next]_vars, NEW b, NEW t \in Threads, Offered(b, t)', ~Offered(b, t)
  PROVE  BeginOffer(b, t)
<1>0. TypeOK
  BY DEF Shape
<1>1. CASE Begins(b)
  <2>1. step[b] = "idle" /\ b \in Calls
    BY <1>1 DEF Begins, BeginOffer, BeginRevocation, BeginIssue, Begin, Go, Offered
  <2> QED
    BY <1>0, <1>1, <2>1 DEF Begins, BeginOffer, BeginRevocation, BeginIssue, Begin, Set, Offered,
       TypeOK
<1>2. CASE CallStep(b)
  BY <1>0, <1>2 DEF CallStep, LookForSecret, GetLinkSecret, KeepSecret, MakeRequest,
     RecordMetadata, SendRequest, FindMetadata, ProcessCredential, StoreCredential,
     FindMessages, Revoke, NextMessage, Go, Offered, TypeOK
<1> QED
  BY <1>1, <1>2, CallMoves DEF Offered, Rests, Ends, SameButStep, Running

LEMMA OffersStep == Shape /\ Offers /\ [Next]_vars => Offers'
<1> SUFFICES ASSUME Shape, Offers, [Next]_vars PROVE Offers'
  OBVIOUS
<1>0. TypeOK
  BY DEF Shape
<1>1. ASSUME NEW r \in sent' PROVE Offered(r.by, r.thread)'
  <2>1. CASE r \notin sent
    <3>1. PICK c \in Calls :
            SendRequest(c) /\ r = [thread |-> thread[c], by |-> c, secret |-> secret[c]]
      BY <2>1, <1>1, SentByCall
    <3>2. Offered(c, thread[c])
      BY <3>1 DEF SendRequest, Go, Offered, Shape, CallShape
    <3> QED
      BY <3>1, <3>2, OfferedStays
  <2> QED
    BY <2>1, OfferedStays DEF Offers
<1>2. ASSUME NEW row \in metadata' PROVE Offered(row.request, row.name)'
  <2>1. CASE row \notin metadata
    <3>1. PICK c \in Calls, u \in Uuids : RecordMetadata(c, u)
      BY <2>1, <1>2 DEF Next, vars, rows, locals, BeginOffer, BeginRevocation, BeginIssue,
         Begin, CallThrows, Crash, IssueCredential, CallStep, LookForSecret, KeepSecret,
         MakeRequest, SendRequest, FindMetadata, ProcessCredential, StoreCredential,
         FindMessages, Revoke
    <3>2. row.request = c /\ row.name = thread[c]
      BY <1>2, <2>1, <3>1 DEF RecordMetadata
    <3>3. Offered(c, thread[c])
      BY <3>1 DEF RecordMetadata, Go, Offered, Shape, CallShape
    <3> QED
      BY <3>2, <3>3, OfferedStays
  <2> QED
    BY <2>1, OfferedStays DEF Offers
<1>3. ASSUME ~setup.again, NEW b \in Calls, NEW c \in Calls, NEW t \in Threads,
             Offered(b, t)', Offered(c, t)'
      PROVE  b = c
  <2>1. ASSUME NEW d \in Calls, NEW e \in Calls, e # d, BeginOffer(d, t)
        PROVE  ~Offered(e, t) /\ ~BeginOffer(e, t)
    BY <1>0, <1>3, <2>1 DEF BeginOffer, Begin, Go, Offered, TypeOK
  <2> QED
    BY <1>3, <2>1, OfferedAnew DEF Offers
<1>4. setup' = setup
  BY RowsGrow
<1> QED
  BY <1>1, <1>2, <1>3, <1>4 DEF Offers

IInv == Shape /\ Backed /\ Sole /\ Issued /\ Proceeds

\* What a call has of an issued AnonCreds credential, when it is about to process it.
LEMMA AtHand ==
  ASSUME IInv, NEW c \in Calls, kind[c] # "offer", step[c] \in Handling,
         thread[c] \in AnonCreds
  PROVE  /\ Offered(message[c].request.by, thread[c])
         /\ HasMetadata(thread[c], message[c].request.by)
         /\ HasSecret(message[c].request.secret)
<1>1. message[c].request \in sent /\ message[c].request.thread = thread[c]
  BY DEF IInv, Shape, CallShape, Issued
<1> QED
  BY <1>1 DEF IInv, Backed, RequestIsBacked, Proceeds, Offers, HasMetadata, HasSecret

\* A careful application's credential is bound to what the call has found.
LEMMA CarefulIsBound ==
  ASSUME IInv, Careful, NEW c \in Calls, kind[c] # "offer", step[c] = "definition"
  PROVE  IsBound(c)
<1>1. thread[c] \in AnonCreds /\ thread[c] \in Threads /\ Offered(request[c], thread[c])
  BY DEF IInv, Proceeds, CallProceeds, Shape, CallShape
<1>2. Offered(message[c].request.by, thread[c]) /\ HasSecret(message[c].request.secret)
  BY <1>1, AtHand DEF Handling
<1>3. message[c].request.by = request[c]
  BY <1>1, <1>2 DEF Careful, IInv, Proceeds, Offers, Offered
<1>4. HasSecret(secret[c])
  BY DEF IInv, Backed, CallBacked
<1>5. message[c].request.secret = secret[c]
  BY <1>2, <1>4 DEF Careful, IInv, Sole, HasSecret
<1> QED
  BY <1>3, <1>5 DEF IsBound

LEMMA CallProceedsStep ==
  ASSUME IInv, [Next]_vars, NEW c \in Calls
  PROVE  CallProceeds(c)'
<1>0. Shape /\ TypeOK /\ CallShape(c) /\ CallProceeds(c) /\ Offers
  BY DEF IInv, Shape, Proceeds
<1>1. Careful' = Careful /\ \A b \in Calls, t \in Threads : Offered(b, t) => Offered(b, t)'
  BY <1>0, RowsGrow, OfferedStays DEF Careful
<1>2. CASE Begins(c)
  <2>1. step'[c] \in {"secret", "sending", "metadata", "storing", "messages"}
        /\ (step'[c] = "secret" => kind'[c] = "offer")
    BY <1>0, <1>2 DEF Begins, BeginOffer, BeginRevocation, BeginIssue, Begin, Processing, Go,
                      Set, TypeOK
  <2> QED
    BY <2>1 DEF CallProceeds
<1>3. CASE FindMetadata(c)
  <2>1. /\ kind[c] # "offer" /\ thread[c] \in AnonCreds /\ step[c] = "metadata"
        /\ kind' = kind /\ thread' = thread
    BY <1>0, <1>3 DEF FindMetadata, Go, CallShape
  <2>2. MetadataOf(thread[c]) # {}
    BY <2>1, AtHand DEF MetadataOf, HasMetadata, Handling
  <2>3. PICK r \in Answers(thread[c]) :
          /\ step' = [step EXCEPT ![c] = IF r = None THEN "rejected" ELSE "secret"]
          /\ request' = [request EXCEPT ![c] = r]
    BY <1>3 DEF FindMetadata, Go, Set
  <2>4. Offered(r, thread[c]) /\ r # None
    <3>1. PICK row \in MetadataOf(thread[c]) : r = row.request
      BY <2>2, <2>3 DEF Answers
    <3>2. Offered(row.request, thread[c])
      BY <1>0 DEF Offers, MetadataOf
    <3> QED
      BY <3>1, <3>2, IssuanceAssumption DEF Offered
  <2>5. Offered(r, thread[c])'
    <3>1. r \in Calls /\ thread[c] \in Threads
      BY <1>0, <2>1, <2>4 DEF Offered, CallShape, TypeOK
    <3> QED
      BY <1>1, <2>1, <2>4, <3>1, OfferedStays DEF Offered
  <2>6. step'[c] = "secret" /\ request'[c] = r
    BY <1>0, <2>3, <2>4 DEF TypeOK
  <2> QED
    BY <2>1, <2>5, <2>6 DEF CallProceeds, Offered
<1>4. CASE ProcessCredential(c)
  BY <1>0, <1>1, <1>4, CarefulIsBound DEF ProcessCredential, Go, CallProceeds, TypeOK
<1>5. CASE LookForSecret(c) \/ \E u \in Uuids : KeepSecret(c, u)
  <2>1. /\ kind' = kind /\ thread' = thread /\ request' = request
        /\ step[c] \in {"secret", "keeping"} /\ step'[c] \in {"keeping", "definition"}
    BY <1>0, <1>5 DEF LookForSecret, GetLinkSecret, KeepSecret, Go, locals, TypeOK
  <2>2. kind[c] # "offer" => Offered(request[c], thread[c])'
    BY <1>0, <1>1, <2>1, OfferedStays DEF CallProceeds, Offered, CallShape
  <2> QED
    BY <1>0, <2>1, <2>2 DEF CallProceeds, Offered
<1>6. CASE \/ MakeRequest(c) \/ SendRequest(c) \/ StoreCredential(c)
           \/ \E u \in Uuids : RecordMetadata(c, u)
  BY <1>0, <1>6 DEF MakeRequest, SendRequest, StoreCredential, RecordMetadata, Go, CallProceeds,
                    TypeOK
<1>7. CASE FindMessages(c) \/ Revoke(c)
  <2>1. step'[c] \in {"returned", "metadata", "storing"}
    BY <1>0, <1>7 DEF FindMessages, Revoke, NextMessage, Processing, Go, TypeOK
  <2> QED
    BY <2>1 DEF CallProceeds
<1>8. CASE Ends(c)
  BY <1>8 DEF Ends, CallProceeds
<1>9. CASE Rests(c)
  BY <1>0, <1>1, <1>9 DEF Rests, SameButStep, CallProceeds, Offered, CallShape
<1> QED
  BY <1>0, <1>2, <1>3, <1>4, <1>5, <1>6, <1>7, <1>8, <1>9, CallMoves DEF CallStep

\* An application that handles each offer once, and awaits its calls or has a link secret,
\* can have every credential that it is issued processed (CredentialIssue).
THEOREM IssuedProcessable == Spec => []IssuedIsProcessable
<1>1. Init => IInv
  BY ShapeInit, BackedInit, SoleInit, ProceedsInit DEF IInv
<1>2. IInv /\ [Next]_vars => IInv'
  BY ShapeStep, BackedStep, SoleStep, IssuedStep, OffersStep, CallProceedsStep
  DEF IInv, Proceeds
<1>3. IInv => IssuedIsProcessable
  BY DEF IInv, Proceeds, CallProceeds, IssuedIsProcessable
<1> QED
  BY <1>1, <1>2, <1>3, PTL DEF Spec
=============================================================================
