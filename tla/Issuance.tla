-------------------------------- MODULE Issuance --------------------------------
(***************************************************************************)
(* A holder's side of the issuance of credentials.  An application hands   *)
(* each message it is told of to agent.handle(): an offer, which makes the *)
(* request that the application sends; an issued credential, which is      *)
(* processed and stored; a notification of a revocation, which processes   *)
(* the thread's issued credentials again, and marks them.  The calls may   *)
(* overlap, an await may fail, and the process may end between two awaits. *)
(*                                                                         *)
(* An AnonCreds request is bound to the holder's link secret, which is     *)
(* made when there is none, and to metadata which is stored under the      *)
(* thread's id; the credential issued on it needs both.  Secrets and       *)
(* requests are named by the call that made them.                          *)
(***************************************************************************)
EXTENDS Naturals, FiniteSets

CONSTANTS
  Calls,      \* calls of agent.handle(), one message each
  Threads,    \* issuances
  AnonCreds,  \* those of AnonCreds credentials; the others are JWT or SD-JWT
  Uuids,      \* the order the store lists its rows in: uuids are random
  Copies,     \* bound: how often an issued credential is delivered
  MaxFaults,  \* bound: failed awaits and crashes
  None, Earlier

ASSUME IssuanceAssumption ==
  /\ AnonCreds \subseteq Threads
  /\ Uuids \subseteq Nat
  /\ Copies \in Nat /\ MaxFaults \in Nat
  /\ None \notin Calls /\ Earlier \notin Calls /\ None # Earlier

VARIABLES
  setup,        \* do calls overlap, are offers handled again, is there a link
                \* secret from earlier: never changes
  linkSecrets,  \* rows of Pluto: link secrets of the default name,
  metadata,     \* the metadata of requests,
  messages,     \* the IssueCredential messages that pickup stored,
  credentials,  \* and credentials
  sent,         \* the requests that reached the issuer
  announced,    \* the credentials that a REVOKE event was emitted for
  kind, thread, step,  \* of each call: what it handles and the await it is at
  secret,       \* the link secret it has got
  request,      \* the request that the metadata it has found belongs to
  message,      \* the issued credential it is processing
  todo,         \* those still to be processed, of a revocation
  before,       \* those stored when a revocation began
  faults

rows == <<linkSecrets, metadata, messages, credentials>>
locals == <<secret, request, message, todo, before>>
vars == <<setup, rows, sent, announced, kind, thread, step, locals, faults>>

Setups == [overlap : BOOLEAN, again : BOOLEAN, primed : BOOLEAN]
Secrets == Calls \cup {Earlier}
Requests == [thread : Threads, by : Calls, secret : Secrets \cup {None}]
Messages == [request : Requests, copy : 1..Copies]
Kinds == {"offer", "issue", "revocation"}
Settled == {"returned", "threw", "rejected", "lost"}
Running == {"secret", "keeping", "definition", "recording", "sending", "metadata",
            "storing", "messages", "revoking"}
Steps == {"idle"} \cup Running \cup Settled

TypeOK ==
  /\ setup \in Setups
  /\ linkSecrets \subseteq [uuid : Uuids, value : Secrets]
  /\ metadata \subseteq [uuid : Uuids, name : Threads, request : Calls]
  /\ messages \subseteq Messages
  /\ credentials \subseteq [call : Calls, message : Messages, revoked : BOOLEAN]
  /\ sent \subseteq Requests
  /\ announced \subseteq [call : Calls, message : Messages]
  /\ kind \in [Calls -> Kinds \cup {None}]
  /\ thread \in [Calls -> Threads \cup {None}]
  /\ step \in [Calls -> Steps]
  /\ secret \in [Calls -> Secrets \cup {None}]
  /\ request \in [Calls -> Calls \cup {None}]
  /\ message \in [Calls -> Messages \cup {None}]
  /\ todo \in [Calls -> SUBSET Messages]
  /\ before \in [Calls -> SUBSET Messages]
  /\ faults \in 0..MaxFaults

Init ==
  /\ setup \in Setups
  /\ linkSecrets \in
       IF setup.primed THEN {{[uuid |-> u, value |-> Earlier]} : u \in Uuids} ELSE {{}}
  /\ metadata = {} /\ messages = {} /\ credentials = {}
  /\ sent = {} /\ announced = {}
  /\ kind = [c \in Calls |-> None]
  /\ thread = [c \in Calls |-> None]
  /\ step = [c \in Calls |-> "idle"]
  /\ secret = [c \in Calls |-> None]
  /\ request = [c \in Calls |-> None]
  /\ message = [c \in Calls |-> None]
  /\ todo = [c \in Calls |-> {}]
  /\ before = [c \in Calls |-> {}]
  /\ faults = 0

Go(c, from, to) == step[c] = from /\ step' = [step EXCEPT ![c] = to]
Set(f, c, v) == f' = [f EXCEPT ![c] = v]

\* findOne: of the rows that match, the one the store lists first.
IsFirst(row, table) == row \in table /\ \A other \in table : row.uuid <= other.uuid

OfThread(t) == {m \in messages : m.request.thread = t}

-----------------------------------------------------------------------------
(* A call begins                                                           *)

MayBegin == setup.overlap \/ \A b \in Calls : step[b] \notin Running

Begin(c, k, t, first) ==
  /\ MayBegin
  /\ Go(c, "idle", first)
  /\ Set(kind, c, k) /\ Set(thread, c, t)
  /\ Set(before, c, IF k = "revocation" THEN messages ELSE {})
  /\ UNCHANGED <<setup, rows, sent, announced, secret, request, todo, faults>>

\* An offer of a JWT or SD-JWT credential has a prism DID created (PrismDIDs)
\* and signs with it: nothing that the credential is later checked against.
BeginOffer(c, t) ==
  /\ setup.again \/ \A b \in Calls : kind[b] = "offer" => thread[b] # t
  /\ Begin(c, "offer", t, IF t \in AnonCreds THEN "secret" ELSE "sending")
  /\ UNCHANGED message

\* The first step of processing an issued credential.
Processing(t) == IF t \in AnonCreds THEN "metadata" ELSE "storing"

BeginIssue(c, m) ==
  /\ m \in messages
  /\ Begin(c, "issue", m.request.thread, Processing(m.request.thread))
  /\ Set(message, c, m)

BeginRevocation(c, t) ==
  /\ Begin(c, "revocation", t, "messages")
  /\ UNCHANGED message

-----------------------------------------------------------------------------
(* GetLinkSecret, of an offer and of an issued credential                  *)

\* Mutant of GetLinkSecret: each offer makes a secret of its own.
GetLinkSecretPerOffer(c) ==
  \/ \E row \in linkSecrets :
       /\ kind[c] # "offer"
       /\ IsFirst(row, linkSecrets)
       /\ Go(c, "secret", "definition")
       /\ Set(secret, c, row.value)
  \/ /\ kind[c] = "offer"
     /\ Go(c, "secret", "keeping")
     /\ Set(secret, c, c)

\* Pluto.getLinkSecret is answered; when there is none, one is created.
GetLinkSecret(c) ==
  \/ \E row \in linkSecrets :
       /\ IsFirst(row, linkSecrets)
       /\ Go(c, "secret", "definition")
       /\ Set(secret, c, row.value)
  \/ /\ linkSecrets = {}
     /\ Go(c, "secret", "keeping")
     /\ Set(secret, c, c)

LookForSecret(c) ==
  /\ GetLinkSecret(c)
  /\ UNCHANGED <<setup, rows, sent, announced, kind, thread, request, message,
                 todo, before, faults>>

\* Mutant of KeepSecret: the secret is used and not kept.
KeepSecretNot(c, u) ==
  /\ Go(c, "keeping", "definition")
  /\ UNCHANGED <<setup, rows, sent, announced, kind, thread, locals, faults>>

\* The insert of Pluto.storeLinkSecret.
KeepSecret(c, u) ==
  /\ \A row \in linkSecrets : row.uuid # u
  /\ Go(c, "keeping", "definition")
  /\ linkSecrets' = linkSecrets \cup {[uuid |-> u, value |-> secret[c]]}
  /\ UNCHANGED <<setup, metadata, messages, credentials, sent, announced, kind, thread,
                 locals, faults>>

-----------------------------------------------------------------------------
(* An offer                                                                *)

\* Mutant of MakeRequest: the request is returned without its metadata.
MakeRequestOnly(c) ==
  /\ kind[c] = "offer"
  /\ Go(c, "definition", "sending")
  /\ UNCHANGED <<setup, rows, sent, announced, kind, thread, locals, faults>>

\* The credential definition is there, and the request made: its metadata is next.
MakeRequest(c) ==
  /\ kind[c] = "offer"
  /\ Go(c, "definition", "recording")
  /\ UNCHANGED <<setup, rows, sent, announced, kind, thread, locals, faults>>

RecordMetadata(c, u) ==
  /\ \A row \in metadata : row.uuid # u
  /\ Go(c, "recording", "sending")
  /\ metadata' = metadata \cup {[uuid |-> u, name |-> thread[c], request |-> c]}
  /\ UNCHANGED <<setup, linkSecrets, messages, credentials, sent, announced, kind, thread,
                 locals, faults>>

\* handle() has returned the request, and the application has it sent.
SendRequest(c) ==
  /\ Go(c, "sending", "returned")
  /\ sent' = sent \cup {[thread |-> thread[c], by |-> c, secret |-> secret[c]]}
  /\ UNCHANGED <<setup, rows, announced, kind, thread, locals, faults>>

\* The issuer answers a request; pickup stores the answer, perhaps repeatedly.
IssueCredential(r, n) ==
  /\ [request |-> r, copy |-> n] \notin messages
  /\ n > 1 => [request |-> r, copy |-> n - 1] \in messages
  /\ messages' = messages \cup {[request |-> r, copy |-> n]}
  /\ UNCHANGED <<setup, linkSecrets, metadata, credentials, sent, announced, kind, thread,
                 step, locals, faults>>

-----------------------------------------------------------------------------
(* An issued credential, and what a revocation makes of it                 *)

MetadataOf(t) == {row \in metadata : row.name = t}

\* What Pluto.getCredentialMetadata answers: a row's request, or null.
Answers(t) ==
  IF MetadataOf(t) = {} THEN {None}
  ELSE {row.request : row \in {x \in MetadataOf(t) : IsFirst(x, MetadataOf(t))}}

FindMetadata(c) ==
  \E r \in Answers(thread[c]) :
    /\ Go(c, "metadata", IF r = None THEN "rejected" ELSE "secret")
    /\ Set(request, c, r)
    /\ UNCHANGED <<setup, rows, sent, announced, kind, thread, secret, message, todo, before,
                   faults>>

\* processCredential: the credential is bound to its request and the link secret.
IsBound(c) == message[c].request.by = request[c] /\ message[c].request.secret = secret[c]

ProcessCredential(c) ==
  /\ kind[c] # "offer"
  /\ Go(c, "definition", IF IsBound(c) THEN "storing" ELSE "rejected")
  /\ UNCHANGED <<setup, rows, sent, announced, kind, thread, locals, faults>>

Credential(c, m, revoked) == [call |-> c, message |-> m, revoked |-> revoked]

\* A credential that is parsed is a new object, and makes a row of its own.
StoreCredential(c) ==
  /\ Go(c, "storing", IF kind[c] = "revocation" THEN "revoking" ELSE "returned")
  /\ credentials' = credentials \cup {Credential(c, message[c], FALSE)}
  /\ UNCHANGED <<setup, linkSecrets, metadata, messages, sent, announced, kind, thread,
                 locals, faults>>

\* The next of the messages that matched, or none is left.
NextMessage(c, from, left) ==
  \/ /\ left = {}
     /\ Go(c, from, "returned")
     /\ Set(todo, c, {})
     /\ UNCHANGED message
  \/ \E m \in left :
       /\ Go(c, from, Processing(thread[c]))
       /\ Set(message, c, m)
       /\ Set(todo, c, left \ {m})

FindMessages(c) ==
  /\ NextMessage(c, "messages", OfThread(thread[c]))
  /\ UNCHANGED <<setup, rows, sent, announced, kind, thread, secret, request, before, faults>>

\* Mutant of Revoke: only the first of the messages is seen to.
RevokeFirstOnly(c) ==
  /\ NextMessage(c, "revoking", {})
  /\ credentials' = (credentials \ {Credential(c, message[c], FALSE)})
                      \cup {Credential(c, message[c], TRUE)}
  /\ announced' = announced \cup {[call |-> c, message |-> message[c]]}
  /\ UNCHANGED <<setup, linkSecrets, metadata, messages, sent, kind, thread, secret,
                 request, before, faults>>

\* Pluto.revokeCredential updates the row that was just stored.
Revoke(c) ==
  /\ NextMessage(c, "revoking", todo[c])
  /\ credentials' = (credentials \ {Credential(c, message[c], FALSE)})
                      \cup {Credential(c, message[c], TRUE)}
  /\ announced' = announced \cup {[call |-> c, message |-> message[c]]}
  /\ UNCHANGED <<setup, linkSecrets, metadata, messages, sent, kind, thread, secret,
                 request, before, faults>>

-----------------------------------------------------------------------------

Fault == faults < MaxFaults /\ faults' = faults + 1

\* An await rejects, and so does the call.
CallThrows(c) ==
  /\ step[c] \in Running
  /\ Fault
  /\ Set(step, c, "threw")
  /\ UNCHANGED <<setup, rows, sent, announced, kind, thread, locals>>

Crash ==
  /\ \E c \in Calls : step[c] \in Running
  /\ Fault
  /\ step' = [c \in Calls |-> IF step[c] \in Running THEN "lost" ELSE step[c]]
  /\ UNCHANGED <<setup, rows, sent, announced, kind, thread, locals>>

CallStep(c) ==
  \/ LookForSecret(c) \/ MakeRequest(c) \/ SendRequest(c)
  \/ \E u \in Uuids : KeepSecret(c, u) \/ RecordMetadata(c, u)
  \/ FindMetadata(c) \/ ProcessCredential(c) \/ StoreCredential(c)
  \/ FindMessages(c) \/ Revoke(c)

Next ==
  \/ \E c \in Calls, t \in Threads : BeginOffer(c, t) \/ BeginRevocation(c, t)
  \/ \E c \in Calls, m \in messages : BeginIssue(c, m)
  \/ \E c \in Calls : CallStep(c) \/ CallThrows(c)
  \/ \E r \in sent, n \in 1..Copies : IssueCredential(r, n)
  \/ Crash

Spec == Init /\ [][Next]_vars

-----------------------------------------------------------------------------

\* What the issuer has been asked for can be taken up after any crash: the metadata
\* of an AnonCreds request, and the secret it is bound to, are stored before
\* the request is sent.
RequestIsBacked ==
  \A r \in sent : r.thread \in AnonCreds =>
    /\ \E row \in metadata : row.name = r.thread /\ row.request = r.by
    /\ \E row \in linkSecrets : row.value = r.secret

\* An application that handles no offer twice, and has a link secret or awaits its
\* calls: every credential issued to it can be processed, whatever failed.
\* (Otherwise two secrets, or two requests under one thread id, get in its way.)
Careful == ~setup.again /\ (setup.primed \/ ~setup.overlap)

IssuedIsProcessable == Careful => \A c \in Calls : step[c] # "rejected"

\* A wallet whose calls are awaited has one link secret; with it each AnonCreds
\* credential stored can be presented.
CredentialsArePresentable ==
  setup.primed \/ ~setup.overlap =>
    \A x \in credentials : x.message.request.thread \in AnonCreds =>
      \A row \in linkSecrets : x.message.request.secret = row.value

\* A revocation that was handled to its end has marked a credential for each
\* message that issued one and was stored before.
RevocationIsThorough ==
  \A c \in Calls : kind[c] = "revocation" /\ step[c] = "returned" =>
    \A m \in before[c] : m.request.thread = thread[c] =>
      Credential(c, m, TRUE) \in credentials

\* "Mark a credential as revoked" (Pluto.revokeCredential): when a revocation that
\* was awaited has been handled, no credential of its thread is left unmarked.
RevokedIsMarked ==
  [][\A c \in Calls :
       ~setup.overlap /\ kind[c] = "revocation" /\ step[c] # "returned" /\ step'[c] = "returned" =>
         \A x \in credentials' : x.message.request.thread = thread[c] => x.revoked]_vars
=============================================================================
