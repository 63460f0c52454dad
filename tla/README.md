# A formal model of the Identus TypeScript SDK

TLA+ modules of the parts of this repository that are hard to get right, TLC
configurations that model-check them on small instances, and theorems about
them that TLAPS checks for every instance. Paths below that start with `sdk/`
are under `src/packages/lib/sdk/src/`, those that start with `domain/` under
`src/packages/shared/domain/src/`, and `didcomm/` stands for
`sdk/plugins/internal/didcomm/`. `PROJECT.json` gives, for every definition, the
lines it translates.

## 1. The system

The SDK is a library for agents that hold decentralised identities. An `Agent`
is put together from four building blocks and a set of plugins:

| part | keeps | operations | talks to |
|---|---|---|---|
| **Agent** (`sdk/edge-agent/Agent.ts`) | lifecycle state, managers, seed | start, stop, startFetchingMessages, stopFetchingMessages, and one method per task | everything, through a task's context |
| **Startable.Controller** (`domain/protocols/Startable.ts`) | STOPPED, STARTING, RUNNING, STOPPING | start, stop | the entity's `_start`, `_stop` |
| **ConnectionsManager, JobManager** (`sdk/edge-agent/connections`) | connections, mediators, the fetch job | add, addMediator, remove, stop | connections, CancellableTask |
| **CancellableTask** (`sdk/edge-agent/helpers/Task.ts`) | an AbortController, a timer | construction, cancel | the task it repeats |
| **EventsManager** (`sdk/edge-agent/Agent.MessageEvents.ts`) | sets of listeners | add, remove, emit | the application |
| **Tasks, contexts, plugins** (`sdk/utils/tasks.ts`, `RunProtocol.ts`) | registered protocol handlers | run, findProtocol | the managers of each plugin |
| **DIDComm plugin** (`didcomm/`) | the mediator's connection and socket | mediation, pickup, invitations, issue-credential | Mercury, Pluto, Events |
| **OEA, DIF, AnonCreds plugins** | nothing lasting | requests, presentations, verification | Pollux, Pluto, HTTP |
| **OIDC plugin** (`sdk/plugins/internal/oidc`) | a connection and a token for each issuer | offer, authorization, callback, token, credential | ConnectionsManager, Castor, HTTP |
| **Mercury** (`sdk/mercury`) | nothing | pack, unpack, forward, send | Castor, Pluto (secrets), HTTP |
| **Pluto** (`sdk/pluto`) | nine collections of an asynchronous store | store and read DIDs, keys, pairs, mediators, messages, credentials; backup, restore | the store, without transactions |
| **Apollo** (`sdk/apollo`) | nothing | keys, derivation paths, their rows, JWK and PEM | Pluto, which stores its keys |
| **Castor** (`sdk/castor`) | nothing | create, resolve, publish and verify prism and peer DIDs | Apollo, the registry of prism DIDs |
| **Pollux** (`sdk/pollux`) | nothing | sign, parse and verify JWT and SD-JWT, revocation | Castor, Pluto (keys), status lists |

What is hard about it: JavaScript runs one callback at a time, but every `await`
is a point where any other callback may run: a timer of a polling loop, a pushed
message, a second call of the application. The store has no transactions, so a
call of several inserts can be overtaken, fail or end with the process half way.
The mediator is remote: requests and answers are lost, deliveries are repeated.

What makes each part correct:

* *lifecycle*: start and stop settle; a stopped agent does not fetch; a mediator
  is registered once and agrees with what is stored of it; a cancelled loop ends.
* *pickup*: no message is lost, whatever fails; an application is told of each,
  in order, after it is stored and acknowledged.
* *Pluto*: no link without what it links; a read finds all that was stored before
  it began; storing twice is no error.
* *prism DIDs*: a returned DID has its keys; no keys are derived twice.
* *restore*: complete when it returns, refused on a store in use, once.
* *issuance*: what an issuer was asked for can still be processed when it comes, after
  any crash; what is stored can be presented; what is revoked is marked.
* *backup*: what had been stored when it began is in it, with what it belongs to.
* *invitations and connections*: who has got to know a DID of the agent can reach it,
  and what it answers can be read; a connection that is announced can be used.
* *events*: each listener hears an event once, whatever callbacks do to the listeners.
* *OIDC*: codes, tokens and proofs go where they belong, with flows side by side.
* *keys and DIDs*: what is stored, encoded or published comes back as what it was
  made of, each key under the relationship of its usage; a signature is of the DID.
* *credentials and presentations*: what is accepted is backed by its issuer, its holder and
  its status; what an honest holder answers is accepted.

Every part is listed in `PROJECT.json` with what is modelled of it, and every
hazard at its line with the properties that would show it going wrong.

## 2. The modules

| module | models | composes |
|---|---|---|
| `Startable` | Controller.start and stop: the contract of the lifecycle | abstract |
| `AgentLifecycle` | Agent start/stop, StartMediator, MediateGrant and MediateDeny, storeMediator, fetching, CancellableTask, live-mode sockets | implements `Startable` |
| `Inbox` | what pickup promises: at-least-once delivery | abstract |
| `Pickup` | the polling loop, pushed deliveries, PickupDelivery, the mediator | implements `Inbox` |
| `PlutoStore` | Pluto's tables under overlapping calls that store and read | |
| `PrismDIDs` | createPrismDID, the key path index and storeDID | |
| `Backup` | BackupTask's queries, one after the other | beside the calls of `PlutoStore` |
| `Restore` | BackupManager.restore and RestoreTask | a client of `PlutoStore`, which it implements |
| `Issuance` | agent.handle() of offers, issued credentials and revocations: link secret, metadata, credentials | |
| `DIDDocuments` | the document, its core properties and the getters that collect them | |
| `Castor` | prism and peer DIDs: the operation, the parts, resolving, publishing, verifying | on `DIDDocuments` |
| `Apollo` | derivation paths, key creation, rows, JWK, PEM, VarInt, multicodec | on `Castor` (keys) |
| `Pollux` | choice of the signing key, JWT and SD-JWT, their parsing and verification | on `Apollo` |
| `Presentations` | definitions, DIF and OEA presentations, their verification, revocation | on `Pollux` |
| `Identity` | an identity from its keys to the proofs made with them | all five above, with Pluto's rows, a registry and status lists |
| `Mercury` | messages, attachments, the two resolvers, packing, forwarding, sending | on `Castor` |
| `Connections` | ConnectionsManager: the connections, the mediators, find | on `Mercury` |
| `Events` | EventsManager: listeners and an emission | |
| `Invitations` | parseInvitation, acceptInvitation, CreatePeerDID, the key list, the handshake | `Connections` and `Events`, with a mediator and inviters |
| `Oidc` | the OIDC plugin, from an offer to a stored credential | `Connections`, with issuers and authorization servers |
| `Exchange` | the agent among others: invitations and OIDC flows that share connections and events | `Invitations` and `Oidc` |
| `MC...` | the values of constants that a `.cfg` cannot state | |
| `...Proofs` | the theorems of each module | |

An action is what runs between two awaits. A handler is the sequence of its
actions; the variable that says which await it is at is `pc` in
`AgentLifecycle`, `step` in `Pickup`, `PrismDIDs` and `Issuance`, `status` and `pos` in
`PlutoStore`, `stage` and `at` in `Restore`. `Crash` ends the process: only what
is stored (`links`, `rows`, `store`, `dids`) and what the mediator keeps (`queue`)
survive it. A failure is an action that takes the error path of the code.
`Castor`, `Apollo`, `Pollux`, `Presentations` and `Mercury` hold no state in the code and
none here: they are operators, each for a function of the source, which return `Thrown` where
the code throws and `Absent` for undefined. `Identity` and `Exchange` are the
machines that call them.
Data is abstracted to what the properties tell apart: a message is the number
of its arrival, a row is its table and unique id, a key is the path it is derived
at, a DID is a model value or the keys and services that determine it.

**AgentLifecycle.** `Start` to `Started` are the awaits of `Agent._start` in
order: Pluto, the lookup of stored mediators (`RestoreMediator`,
`NoMediatorStored`, `LookupThrows`), the mediation request and its answers, the
three inserts of `storeMediator`, and the agent's own call of
startFetchingMessages. `Stop` to `Stopped` are those of `_stop`. `CallStartFetching`
and `CallReturns` are the two halves of StartFetchingMessages, before and after
it awaits `getSocketService`. `PollSucceeds`, `PollFails`, `TimerFires` are
`CancellableTask.loopOnTaskEvery`. The variable `setup` never changes: it says how the
application behaves (any call at any time, fetching only while running, or each
call awaited before the next) and whether the mediator offers a socket, and is drawn at
`Init` from the constants `Disciplines` and `SocketServices`, so that one run checks them all.

**Pickup.** A handler of `Loops` goes through "timer" and "requested" and then, with a
delivery, through the awaits of `PickupDelivery.run`; one of `Pushes` starts with
the delivery a socket brings. `StoreMessage` is one insert of `storeMessages`.
`Forget` is the mediator acting on the receipt, `HandlerThrows` any rejected await,
after which `DIDCommConnection.receive` swallows the error. The mediator is external:
it delivers the oldest messages first and keeps each until it is acknowledged.

**PlutoStore.** A call is a sequence of rows to insert (`DIDRows`, `PairRows`,
`MediatorRows`, `ObjectRows`); a row of the DIDs' table is looked up first
(`DIDRepository.save`), and a row whose unique id is taken makes the call throw.
Readers are `getAllPeerDIDs`, `getAllPrismDIDs` and `getDIDPrivateKeysByDID`,
one query per action. The calls of the constant `Alone` begin only when no other
is under way and keep the others waiting.

**PrismDIDs.** `KeyPathIndex` is PrismKeyPathIndexTask, `RecordedIndex` what the
key's specification says of the index it was derived at, and the steps after it are
those of `storeDID`. The store starts with one of the `Backups` restored in it, which
the constant variable `restored` remembers: for each DID, the index its keys were derived at and
the one that their specification records. A backup writes the second (Backup.ts:66) and restore() sets
it again (Restore.ts:70-72), so a key that createPrismDID made comes back with 0, and its index is
handed out again as it is without a backup (the finding of `prism_fresh_index`); keys that an
application derived with `KeyProperties.index` keep it. `RestoredKeysAreNotReused` is about the keys
that record where they were derived, beside others in the store that do not.

**Backup.** Each action is one query of `BackupTask.run`, in its order; `OtherStep` is a step of
any call of `PlutoStore` between two of them. `backup.since` and `backup.quiet` are
histories: who had returned when it began, and whether anything has been stored since.
Credential metadata is not in a backup (no query of `BackupTask` reads it), so a credential
that is issued after a restore, on a request made before it, finds none.

**Restore.** `LookIn` and `LookInLast` are the queries of `assertStoreIsEmpty`. `Launch`
begins the calls of the phase an attempt has come to (and, after it has thrown, those
still to reach their first query); `PhaseReturns` and `PhaseThrows` are the two
outcomes of `Promise.all`. Every call that stores is a call of an instance of
`PlutoStore`, with its lookups, conflicts and failures. The constant variable `serial`
says whether the application awaits one restore before it asks for the next.

**Issuance.** A call of agent.handle() takes the steps of the handler of its message:
an offer those of `HandleOfferCredential` and, for AnonCreds, of `GetLinkSecret` and
`CredentialOffer`; an issued credential those of `HandleIssueCredential` and
`CredentialIssue`; a revocation those of `HandleRevocation`, which are those of an issued
credential again, for each stored message of the thread. `FindMetadata` and `GetLinkSecret`
take the row that the store lists first (`IsFirst`): rows are listed by their random ids. The
issuer is external; it answers each request it has got, perhaps repeatedly, and
the answers are stored by pickup. The constant variable `setup` says whether calls overlap, whether
an offer is handled again, and whether the wallet has a link secret already. Two
properties depend on it, and fail without those conditions: overlapping first offers make two link
secrets, and an offer that is handled twice leaves two metadata rows under one name.

**DIDDocuments, Castor, Apollo.** A prism DID is the operation that creates it and the
hash of that operation; a peer DID is the parts its text is made of. Encoding a key and decoding it
lose nothing, a signature is by a key, and a key pair is known by its origin (a seed
or a draw) and the axes it was derived along: the cryptography is taken to do what
it is for, and what is left is the code around it: which id a key gets, under
which relationship it comes back, which member of a row or a JWK is read. Bytes of a secp256k1
key may be those of a compressed point, which hold no y (`Compressed`): verifySignature takes the
point of them, and createProtos, which slices x and y out of the bytes, finds no y. Numbers keep
a width: `AxisBits` for the 31 bits of an axis, `GroupBits` for the 7 of a group, and `WordBits` for
the 32 of the words on which `&`, `|`, `<<` and `>>>` of VarInt.ts work. So a number is cut to a word
when it is written, and when it is read the highest bit of the word is its sign.
`PeerServiceEncode` replaces DIDCommMessaging wherever a service's type holds it, and decoding only
takes back a type that is nothing else: the constant `Abbreviations` gives the types that hold it.

**Pollux, Presentations.** A token is its payload, the key id of its header, and a
signature. Claims, the filters on them, and what paths lead through are functions of member
names; the revocation bit string is read with bytes of `ByteBits`. The registry, the status lists
and an issuer that frames its credentials are external.

**Identity.** `MakeKey` and `DeriveKey` make keys, `CreateDID` DIDs with their rows,
`Publish` asks for the publication of a prism DID. The registry knows a DID by its hash: when what was
published is the operation the DID is the hash of, it answers from then on with a document of that
operation in a form of its choice, and otherwise as before (`Registered`). The forms are keys as
multibase, compressed or not, or as JWK, listed once and named by the relationships; or as JWK
embedded in the relationships and listed nowhere else, as in the answer that
`src/packages/lib/sdk/tests/castor/PrismDID.test.ts` quotes. That answer's key id, issuing0, is of an
operation made by other software; the operations of the model are those of this SDK, whose ids are a
usage and a number. `IssueOwn` is what an agent issues on a request,
`IssueFramed` what an external issuer does with the same modules; `RequestPresentation`,
`CreatePresentation` and `Verify` are the three messages of a presentation, which meet in the
verifier's stored messages. The constant variable `setup` says which part
a behaviour is about; each uses all the modules below it.

**Mercury, Connections, Events.** A packed message is for the keys of its receiver's
document, and `UnpackMessage` asks the secrets resolver, that is Pluto, for the keys of
a DID. `Connections` keeps them in the order they were added, as find() goes through them. An
emission visits a list whose entries only turn to gaps while it is visited, as a JavaScript Set does.

**Invitations.** A call goes "idle", "parsed", "telling" (the mediator of the new DID), "storing" and
"linking" (the DID, its keys), then "onboarding", or "handling", "recording", "sending", "pairing",
"granting" and "announcing": the awaits of ParseInvitation, AcceptInvitation, CreatePeerDID and
HandleOOBInvitation. The mediator and the inviters use the operators of Mercury for
what they receive and send. `Crash` brings back the connection of the mediator, and no other.

**Oidc.** A flow goes from resolving its offer to the metadata of issuer and
server, the authorization url, the callback, the token, the connection and the
credential. The application may hand any callback to any flow. Answers are checked by the
schemas of `types.ts` (`IsCredentialOffer` to `IsCredential`), and one that does not fit throws.

**Exchange.** A behaviour follows one of the constant `Scenarios`: the mediator, what each
call is given, the listeners, the offers. Nothing else happens while an emission runs,
because nothing in `emit` awaits.

## 3. The runs

Bounds are in the configurations. They are small because each hazard needs few
actors: two overlapping calls and the agent's own, one loop and one push,
three storing calls over shared DIDs, two restores, two invitations, two OIDC
flows. One fault is enough, as each property only tells the first from none or
bounds rows by their number. The counters bounded are `MaxMessages`, `MaxFaults`,
`MaxLosses` (requests of OIDC flows that fail), `MaxEntries` (of a list of listeners),
`MaxKeys`, `MaxDIDs`, `MaxTokens`, `MaxRequests`, and the numbers of calls, loops and
sockets that can exist at one time.

| run | question | result |
|---|---|---|
| `agent` | An application that calls anything at any time, and one that awaits its calls, with and without sockets: does every interleaving keep the job table, the mediator record and the contract of Startable; does an awaited stop end fetching; does what begins settle? | holds |
| `agent_leaked_loop` | Calls overlap on a running agent: does a stopped agent fetch? | violated |
| `pickup` | A loop, with or without a push: is nothing lost (Pickup implements Inbox); is a message announced once and in order, what does one that cannot be unpacked block, is all that is ahead of it fetched? | holds |
| `store` | Calls that store over shared DIDs, and a reader or a backup beside them: are links grounded, is half a mediator record only left by a call that failed, is storing again no error, do readers find all that was stored and nothing half, is a backup complete? | holds |
| `prism_create` | Do returned DIDs have their keys, is no restored key that records its index derived again, is an interrupted creation taken up again? | holds |
| `prism_fresh_index` | Does each DID have an index of its own? | violated |
| `restore` | Is a restore that returns complete, does it settle, is a coherent backup restored without an error and once, and does Restore implement PlutoStore? | holds |
| `issuance` | Can all that an issuer was asked for be taken up after any failure; is what is issued processed, what is stored presented, and does a revocation see to all that was issued before? | holds |
| `issuance_revoked` | When a revocation has been handled, is every credential of its thread marked? | violated |
| `identity` | Do keys and encodings survive; do DIDs resolve, publish and verify as what they were created of; are presentations accepted when they are backed, and only then? | holds |
| `own_jwt_unreadable` | Can a holder's agent read what an issuing agent issues? | violated |
| `exchange` | Can answers to a handshake be read whenever they come, can a granted connection be used, does each listener hear once, do codes, tokens and proofs go where they belong? | holds |

Where the parts of an instance do not interact, the instance holds them side
by side:

* `store` is bounded by two constraints. `ReadersMeetCreations`: a reader overlaps two calls
  that create DIDs, and there is one at a time, because a reader writes
  nothing and two tell no more than each. `BackupMeetsCalls`: a backup overlaps two calls
  of any kind, and no reader. Without reader or backup all three calls overlap freely.
* `prism_create` draws what was restored (`MCBackups`): nothing; DIDs whose keys record their index; DIDs
  of createPrismDID, whose keys record 0; and one of each, where the recorded index is the higher one.
* `identity` draws `setup`: keys of every option and every curve (one made, one derived), DIDs of
  every payload of `mcPayloads` (all usages, several keys of one usage, services that are and
  are not for messages) published in each form a registry may use, and proofs of
  two issuers and two holders with two requests in one or two threads. Axes have 3 bits, groups 3,
  words 11 and bytes 4: as in the code, the groups of a word leave a part of the last unused. `mcTexts` and
  `mcNumbers` have numbers on both sides of each limit: a group, the sign of a word, a word.
* `exchange` draws a scenario: one invitation of every kind, well-formed or not, with and without a
  mediator; two at once, with equal and different aliases; three listeners whose callbacks
  add, remove and throw; one OIDC offer of every kind, with issuers and servers that answer
  with an error, with an incomplete document or not at all; two flows with one issuer or two;
  a flow beside an invitation.

The four violated runs are the findings of `PROJECT.json`:

* `agent_leaked_loop`. StartFetchingMessages reads `jobs.fetchMessages` before it awaits
  the lookup of the socket and assigns it after, so two calls on one agent (one may be
  the agent's own), or a call and a stop, leave a loop that no stop can cancel.
* `prism_fresh_index`. createPrismDID derives at an index that is not the one it records
  with the key, so the next creation but one derives the same keys.
* `issuance_revoked`. HandleRevocation processes the issued credential again, which stores a second
  row, and marks that one; the row that the wallet has held since the credential was
  issued stays unmarked.
* `own_jwt_unreadable`. The vc of a JWT credential that HandleRequestCredential issues is only its
  subject; JWTCredential asks for a context and a type, and throws on it.

Some properties say as much in their conditions as in what they conclude:

* `NothingPassesUndecryptable` is a property of the design that a user may not
  expect: with polling, one message that cannot be unpacked keeps all later ones out for
  ever. The liveness property of fetching is therefore about messages that are
  `Unobstructed`: those far enough ahead of it that no delivery has to hold both.
* `BackupIsComplete` promises what had been stored when the backup began, and no unnamed DID only
  if nothing is stored beside it: a key stored in between is backed up without its DID.
* `HonestIsAccepted` excepts a request that repeats the thread of an earlier one (the verifier takes
  the first it stored), a filter of kind const (which never matches), and OEA presentations.
* `RequestsBelongTogether` excepts a callback given to the wrong flow when neither server names
  itself in it: no state is sent that could tell them apart.
* `PublishedIsCreated` lets what is published differ from the operation the DID is the hash of when it was
  made of a registry's document with compressed or embedded keys: createProtos makes an operation with an
  empty y of the first, and of the second one without keys, since only listed methods are read. The
  registry then knows no such DID, and keeps its answer; what it answers must resolve to the
  created keys in every form. A document without a list has no master key in it.
* `ResolvedIsCreated` excepts the type of a peer DID's service that holds DIDCommMessaging and more.
* `GrantedIsUsable` finds a pair by its alias only if no other call took the same one.

Further behaviour of the code that the modules show, and that no run calls wrong
because it is a matter of intent:

* *Lifecycle and pickup.* A message is announced after its receipt, so a
  crash in between leaves it stored and never announced; in live mode each call
  opens a socket over the one that stop knows; half a mediator record, left by a crash,
  makes every later start throw.
* *Store.* A restore that throws leaves inserts under way; an SD-JWT credential is restored as a
  JWT credential (`Recovered`); two pairs under one alias hide each other, and
  getPairByName and getPairByDID, which speak of `null`, throw when none is found.
* *Invitations.* Whether an invitation has expired is only asked when it is parsed;
  the mediator's answer to a keys update is not looked at; a handshake that fails leaves a NEW
  connection, which find() returns before any later one to the same inviter; after a restart
  only the mediator's connection is known; the DID of an onboarding invitation
  has the onboarding url as its messaging service; a callback that throws makes the call
  throw although the connection is granted, or the message stored.
* *Mercury.* The document resolver never gives services to the DIDComm library; an attachment that is
  malformed inside a forward is left out silently; a peer DID's service
  whose encoding holds a "-" or a "_" cannot be read back (`Unencodable`).
* *OIDC.* A type lets the metadata omit its authorization servers, where the resolution of
  the request throws; the token response given to the credential request is not
  passed on; of two connections to one credential endpoint the first is used, so a renewed
  token never is, and two issuers behind one endpoint share the first's.
* *Keys and DIDs.* Base keys of one seed with an index and no path are the same key for every index; the
  long-form resolver compares a state hash with itself; methods given as JWK
  verify no signature, and a secp256k1 key given as JWK makes publishing throw; a short form
  published again from compressed or embedded keys is another operation; the type of a service, given as
  text, is reduced to its first letter.
* *Encodings.* putUVarInt and uVarInt, which by their comments (VarInt.ts:1 and 27) encode and decode a
  UInt64, work on words of 32 bits: 2^31 is read as a negative number, and 2^32 as 0.
  EncodingsRoundTrip checks what comes back in either case (`WordOf`); the SDK's own use, the codes of
  multicodecs, stays far below.
* *Presentations.* A DIF presentation is signed with the first key the store lists of the subject,
  which may be none that authenticates.

`CHECK_DEADLOCK FALSE` stands where the system comes to an end: in the runs over calls
that are made once (`store`, `prism_create`, `prism_fresh_index`, `restore`, `issuance`, `issuance_revoked`,
`exchange`) and over bounded numbers of things made (`identity`, `own_jwt_unreadable`).

## 4. Fairness

Only what the event loop guarantees is assumed. A request that was sent settles
(resolves or rejects), a pending continuation runs, and an armed timer fires: weak
fairness of the step that is due, per handler, loop, call or attempt. Success is never
assumed: fairness is of "answered or failed", and a failure is always possible
up to its bound. Nothing is assumed of the application (no call is ever obliged), of
peers, or of crashes. `Identity`, `Exchange`, `PlutoStore` with
`Backup`, `PrismDIDs` and `Issuance` state no fairness: only safety is checked of them.
`PollingContinues` concerns a loop whose last poll succeeded, for
a rejected poll ends the loop in the code, and `QueuedIsFetched` excepts the case that no
loop is left running.

## 5. The proofs

All theorems hold for every value of the constants: any number of calls, loops, sockets,
messages, DIDs and keys, and any bound of the faults. The assumptions are the `ASSUME`s
of the modules, which say that the constants have their types and that names of
absent things are not names of things; TLC evaluates them in every run. Those that say more are
about what is outside the code: a backup gives the fields that its schema requires, and lists
each key and each message once (`BackupAssumption`, `NamesAssumption`), two servers that give the same issuer say the same of it
(`ServersAssumption`), in the beginning no call and no flow has begun and no listener is registered
twice (`ScenariosAssumption`), an agent's DID is new because its keys are and an invitation to connect
is an inviter's (`FreshAssumption`), and what is packed for a DID can be unpacked with the keys it was
created of, and goes to its own endpoint or to this mediator (`PartiesAssumption` of `Exchange`).
Of `Identity`: the keys of a payload come in a record, by usage (`UsagesAssumption`); no DID is the text that is
signed, and no document or method is what stands for an error or for undefined (`DocumentsAssumption`);
and no service has the type "dm" (`PayloadsAssumption`), which a peer DID would give back as DIDCommMessaging;
`AbbreviationsAssumption` of `Castor` says what replacing DIDCommMessaging does: alone it becomes "dm", within
another type it does not.

* `AgentLifecycleProofs`. `ControlAgrees` (the state and the await agree) gives the
  refinement of Startable. `LoopInv`: only loops still polling are marked cancelled, and the
  registered job is neither cancelled nor free. It is
  needed because "the job is not cancelled" alone is not preserved when the model gives the
  name of an ended loop to a new one. `MediatorInv` adds to the agreement of memory and record which inserts each
  await of storeMediator has behind it. `SerialInv` describes the quiescent states of
  an application that awaits its calls, from which EveryLoopIsRegistered follows; `FetchInv`
  adds what start() has got before it resolves and what stop() has closed, and gives
  StoppedAgentClosedSocket and the action property StartedAgentFetches.
* `PickupProofs`. `SafeInv` says what each await of a handler knows: stored if past
  "storing", gone from the queue if past "acking". For one loop, `OrderInv` says that the queue is an interval
  that ends with the last arrival, that a delivery is a prefix of it, and what was
  announced lies before it; `CountInv` relates rows to faults. The first needs a lemma on the mediator's
  delivery (`OldestIsPrefix`). `BlockedInv` holds for any number of loops: a message that cannot be
  unpacked stays queued, so a delivery that could be unpacked lies before it.
* `PlutoStoreProofs`. The heart is `RefsComeFirst`: in the rows of every call,
  those a link refers to stand before the link. `CallInv` (the rows
  before a call's position are stored) then grounds every link. Reads are proved with
  `ReadInv`, which remembers for each call that had returned what the reader has still to come to;
  mediators with `Origin`: every link was inserted by a call whose rows hold it. `InsertedOnce`
  says that only rows of the DIDs' table are shared by calls. `AloneInv` says that what a call
  that no other overlaps has not found stays away until the call has inserted it, so what it meets in
  its way is an object: StoringAgainIsNoError.
* Of `Backup`, in the same module. `SinceInv` says, for each query, what it has found of the calls that had returned when the
  backup began; `InsertedOnce` gives a key one link at most, and hence the one DID that it is backed up
  with. `QuietInv` says that while nothing is stored the backup has every DID that is, and so every DID
  that the links read later name.
* `IssuanceProofs`. `CallMoves` says what any step is to one call, and each invariant is proved of
  a call's own steps. `Backed` says what a call on its way to a request has stored;
  `Thorough` that each message a revocation found is to come, at hand, or marked.
  `Sole` (one link secret, and nobody about to keep another) gives CredentialsArePresentable
  from it, and `Proceeds` (the metadata found is of the thread's only offer) gives IssuedIsProcessable.
* `PrismDIDsProofs`. The next index is above every index in use because the set of these
  has a maximum (`MaxIsGreatest`, by a smallest counterexample: the library's induction theorems
  cannot be instantiated). `LinkedInv` says which rows each await of storeDID has behind it, `FreshInv` that
  an index handed out is above every index that a restored key records (so above where it was derived,
  if it records that), and `RetryInv` that an index
  other than 0 stays the one a retry gets (a new link records 0 and leaves the maximum alone), while
  0 is handed out only to an empty store, which stays empty or gets a DID at 0.
* `RestoreProofs`. Every step of Restore is a step of PlutoStore or leaves it alone, so the store's
  theorems hold of it. `CallsInv` says that what is before a call's position is stored, `AttemptsInv` that every call of
  the phases before has returned: RestoredIsComplete follows. AwaitedRestoreSucceedsOnce needs more.
  `RowsDiffer` gives every row but those of DIDs the one call that inserts it, and a phase of
  links comes after the DIDs they name, so no call meets a row in its way (`NoThrowInv`). `OnceInv` says that
  what one restore has stored the next cannot overlook; a backup of nothing leaves nothing, and may be
  restored again.
* `ExchangeProofs`. `EventsInv` says that a list holds a listener once and that, between what an
  emission has begun with and what it visits now, entries have only turned to gaps or been added:
  ListenersHearOnce follows. RequestsBelongTogether rests on `FlowInv`, what a flow has
  at each stage, and on `FirstStays`: the connection that a flow has found is still the first of its uri,
  with the same token, when connections have been added or granted since (the first of a set of
  numbers by `MinIsLeast`). AnswersAreRead and GrantedIsUsable rest on `InvitationsInv`: what each await of a call
  has behind it (on the mediator's list, in Pluto, connected, sent, paired, granted), that a DID has one
  row and one connection, and that whatever is under way is a handshake, or its answer, of a call that
  is ready for it. `Spares` says what a step of one call leaves the others, so
  that each action is only shown to keep its own call's part; `ArrivesAs` that what is sent reaches who it is
  for as it was packed, directly or in a forward that the mediator takes apart.

* `IdentityProofs`. What the operators compute goes through folds over sequences (`FlattenSeq`), which are
  unfolded by the lemmas of the first section: joining, the parts that are kept of a
  sequence (`Pick`), the first position that a test holds at. KeysSurviveStorage rests on what a
  key is by any of the ways to make one. For AcceptedIsBacked, `PrismDocument` and
  `PeerIsDocument` say what a DID of any payload resolves to, kind by kind, and `MethodKeys` that every
  method of it is of a key the DID was created with: so `JWTIsOfIssuer` and
  `SDJWTIsOfIssuer`. `Walk` says what a path leads to, and `JWTSatisfies` and `SDJWTSatisfies`
  that constraints which hold are met by the credential's own claims; `FirstOfThread` that the request judged by
  is the thread's first, and `AskedBefore` that no later one takes its place. `Accepted` adds what a token, a
  message and a presentation are made of, and that nothing is published while proofs are made.
  `ClaimsAssumption` and `PartiesAssumption` are needed: a claim named like a member of the
  credential that holds it (issuer, vc, ...) is looked up in the member, and a request for it can be met by what is no claim.
  ResolvedIsCreated rests on `DIDsCreated`: each DID is `Created` of a payload that is offered. `OperationIs`,
  `KeysUnder` and `IdsDistinct` say of the operation that it has the keys of each usage in order, under ids that differ (the
  words of the usages do, and the numbers under one word), `PrismKeys` that a document made of such methods has
  the payload's keys whatever a method looks like, so that it serves for the resolved long form (`PrismResolved`) and for the
  registry's document (`RegistryResolved`), where references are found again by their ids (`EntryFound`). For
  PublishedIsCreated, `RegistryInv` says that each answer of the registry is a document, in one of the
  forms, of the operation that the DID is the hash of, and which form the last publication read. It is needed
  because what is published again is computed from the registry's own answer: `PublishIs` says
  that of a long form, or of an answer with uncompressed multibase keys, the operation comes back; of
  any other answer the registry either gets an operation with another hash, and keeps what it has, or the same one,
  and either way `RegistryHas` holds. SignaturesAreOfTheDID follows
  from both: `Verified` says which keys verify for a DID given an answer, in turn for multibase keys, for none, and for the
  signing keys of a peer DID.

Model-checked only:

* everything about liveness (TLAPS has no proof rules for weak fairness here);
* of `Identity`, EncodingsRoundTrip (powers of two, and numbers that are cut into groups, are
  recursions over data), CredentialsAreOfTheirIssuer and HonestIsAccepted, whose converse halves (that a
  good credential does verify, that an honest holder is accepted) need of each check on the way that it passes.
* The `TypeOK` of a module without theorems is not among the runs' properties.

## 6. Not modelled, and the plan

Out of reach: cryptography (curves, mnemonics, the DIDComm, AnonCreds and JWE wasm packages),
the RIDB store itself with its schemas and migrations, HTTP, generated protobufs. Left out
for the reason given in `PROJECT.json`:

* AnonCreds proofs and credentials: computed by the wasm package; the SDK passes them on.
* The envelope of a backup and its exclusions (`Agent.Backup.ts`): encryption around `Backup`; and
  the query of the link secret, which no call of `PlutoStore` stores.
* update and deactivate of DIDs: only passed on to a method that the application registers.
* Deletions, and updates other than a revocation: one statement on one row each.
* Task contexts and the lookup of handlers: constant tables, with nothing that can interleave.

The plan of this project was: the lifecycle and the pickup of messages first, because they run
for as long as an agent does; then the store, what is built on its missing
transactions (prism DIDs, restore, issuance, backup); then identity, in which
errors are not of interleaving but of what one module makes of another's output; and last the
exchange with other parties. What it has left is theorems: CredentialsAreOfTheirIssuer and
HonestIsAccepted, from the same lemmas on documents and on paths.
