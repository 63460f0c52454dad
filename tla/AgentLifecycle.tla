---------------------------- MODULE AgentLifecycle ----------------------------
(***************************************************************************)
(* The lifecycle of the edge agent: Agent.start()/stop() and everything    *)
(* they call that changes state (StartMediator, MediateGrant, MediateDeny, *)
(* ConnectionsManager, JobManager), the public startFetchingMessages() and *)
(* stopFetchingMessages(), the polling loop of CancellableTask, and the    *)
(* sockets of live mode.                                                   *)
(*                                                                         *)
(* JavaScript runs one callback at a time, so an action here is what runs  *)
(* between two awaits, and any other callback may run in between.  Crash   *)
(* ends the process; only what Pluto stores survives it.                   *)
(***************************************************************************)
EXTENDS Naturals, FiniteSets

CONSTANTS
  Callers,           \* overlapping calls of agent.startFetchingMessages()
  Boot,              \* the one call that Agent._start makes itself
  Fetchers,          \* CancellableTask objects that can exist at one time
  NoFetcher,         \* jobs.fetchMessages === undefined
  Sockets,           \* WebSocket objects that can exist at one time
  NoSocket,          \* MediatorConnection.socket === undefined
  HasMediatorDID,    \* a mediatorDID was given to Agent.initialize
  UseSockets,        \* options.experiments.liveMode
  SocketServices,    \* whether the mediator's DID document lists a ws(s):// service
  Disciplines        \* how an application may call the agent: see ClientMayCall

ASSUME ConstantsAssumption ==
  /\ Boot \notin Callers
  /\ NoFetcher \notin Fetchers
  /\ NoSocket \notin Sockets
  /\ {HasMediatorDID, UseSockets} \cup SocketServices \subseteq BOOLEAN
  /\ Disciplines \subseteq {"any", "running", "serial"}

VARIABLES
  setup,      \* the application and the mediator of this behaviour: never changes
  state,      \* Controller.state of the agent
  pc,         \* the await the running start() or stop() is at
  mediator,   \* state of the mediator's connection, or "none" registered
  links,      \* link rows storeMediator has inserted (persistent)
  waiting,    \* StartFetchingMessages runs awaiting getSocketService
  job,        \* jobs.fetchMessages
  fetcher,    \* what each CancellableTask is doing
  aborted,    \* the CancellableTasks whose AbortController has aborted
  sockets,    \* what each WebSocket is doing
  socket      \* MediatorConnection.socket

jobVars == <<job, fetcher, aborted>>
sockVars == <<sockets, socket>>
vars == <<setup, state, pc, mediator, links, waiting, job, fetcher, aborted, sockets, socket>>

Setups == [discipline : Disciplines, socketService : SocketServices]
Live == UseSockets /\ setup.socketService
Serial == setup.discipline = "serial"
Runs == Callers \cup {Boot}

\* The awaits of _start, in order, then those of _stop.
StartSteps == {"plutoStart", "lookup", "host", "request", "grantDIDs", "mediatorLink",
               "routingLink", "fetch", "fetching", "started"}
StopSteps  == {"closing", "cancelling", "plutoStop"}

ConnectionStates == {"unknown", "requested", "denied", "granted", "closed"}
FetcherStates == {"free", "polling", "timer", "dead"}
SocketStates  == {"free", "open", "closed"}
AllLinks == {"mediator", "routing"}

TypeOK ==
  /\ setup \in Setups
  /\ state \in {"stopped", "starting", "running", "stopping"}
  /\ pc \in StartSteps \cup StopSteps \cup {"idle", "threw"}
  /\ mediator \in ConnectionStates \cup {"none"}
  /\ links \in SUBSET AllLinks
  /\ waiting \in SUBSET Runs
  /\ job \in Fetchers \cup {NoFetcher}
  /\ fetcher \in [Fetchers -> FetcherStates]
  /\ aborted \in SUBSET Fetchers
  /\ sockets \in [Sockets -> SocketStates]
  /\ socket \in Sockets \cup {NoSocket}

\* A fresh process: nothing in memory.
FreshProcess ==
  /\ state' = "stopped" /\ pc' = "idle" /\ mediator' = "none"
  /\ waiting' = {}
  /\ job' = NoFetcher /\ fetcher' = [f \in Fetchers |-> "free"] /\ aborted' = {}
  /\ sockets' = [s \in Sockets |-> "free"] /\ socket' = NoSocket

Init ==
  /\ setup \in Setups
  /\ state = "stopped" /\ pc = "idle" /\ mediator = "none"
  /\ links = {} /\ waiting = {}
  /\ job = NoFetcher /\ fetcher = [f \in Fetchers |-> "free"] /\ aborted = {}
  /\ sockets = [s \in Sockets |-> "free"] /\ socket = NoSocket

-----------------------------------------------------------------------------
(* CancellableTask and JobManager                                          *)

\* Mutant of CancelJob: only the timer is cleared, the controller not aborted.
CancelJobNoAbort ==
  /\ job' = NoFetcher
  /\ IF job = NoFetcher
     THEN UNCHANGED fetcher
     ELSE fetcher' = [fetcher EXCEPT ![job] = IF @ = "polling" THEN @ ELSE "free"]
  /\ UNCHANGED aborted

\* CancellableTask.cancel() on the registered job, which is then forgotten.
\* A pending timer is cleared, so that loop is over; the abort of a loop whose
\* task is in flight is only noticed when its next timer fires; a rejected
\* loop has nothing left to run.
CancelJob ==
  /\ job' = NoFetcher
  /\ IF job = NoFetcher
     THEN UNCHANGED <<fetcher, aborted>>
     ELSE /\ fetcher' = [fetcher EXCEPT ![job] = IF @ = "polling" THEN @ ELSE "free"]
          /\ aborted' = IF fetcher[job] = "polling" THEN aborted \cup {job} ELSE aborted

\* jobs.fetchMessages = new CancellableTask(...): the constructor starts the
\* first poll at once, and the job registered before is forgotten.  A dead
\* loop that nothing refers to any more is garbage.
RegisterFetcher(f) ==
  /\ fetcher[f] = "free"
  /\ job' = f
  /\ fetcher' = [g \in Fetchers |-> IF g = f THEN "polling"
                                    ELSE IF g = job /\ fetcher[g] = "dead" THEN "free"
                                    ELSE fetcher[g]]
  /\ UNCHANGED aborted

\* The request was answered: the next timer is set, cancelled or not.
PollSucceeds(f) ==
  /\ fetcher[f] = "polling"
  /\ fetcher' = [fetcher EXCEPT ![f] = "timer"]
  /\ UNCHANGED <<state, pc, mediator, links, waiting, job, aborted, sockets, socket>>

\* The request threw: the promise is rejected and no timer is set again.
PollFails(f) ==
  /\ fetcher[f] = "polling"
  /\ fetcher' = [fetcher EXCEPT ![f] = IF job = f THEN "dead" ELSE "free"]
  /\ aborted' = aborted \ {f}
  /\ UNCHANGED <<state, pc, mediator, links, waiting, job, sockets, socket>>

\* Mutant of TimerFires: the abort signal is not looked at.
TimerFiresUnchecked(f) ==
  /\ fetcher[f] = "timer"
  /\ fetcher' = [fetcher EXCEPT ![f] = "polling"]
  /\ UNCHANGED <<state, pc, mediator, links, waiting, job, aborted, sockets, socket>>

\* Mutant of TimerFires: the loop is not taken up again.
TimerFiresOnce(f) ==
  /\ fetcher[f] = "timer" /\ f \in aborted
  /\ fetcher' = [fetcher EXCEPT ![f] = "free"]
  /\ aborted' = aborted \ {f}
  /\ UNCHANGED <<state, pc, mediator, links, waiting, job, sockets, socket>>

\* loopOnTaskEvery: an aborted loop ends here, any other polls again.
TimerFires(f) ==
  /\ fetcher[f] = "timer"
  /\ fetcher' = [fetcher EXCEPT ![f] = IF f \in aborted THEN "free" ELSE "polling"]
  /\ aborted' = aborted \ {f}
  /\ UNCHANGED <<state, pc, mediator, links, waiting, job, sockets, socket>>

-----------------------------------------------------------------------------
(* MediatorConnection's socket                                             *)

\* new WebSocket(...) and useLiveMode: the previous socket is forgotten, not
\* closed.
OpenSocket(s) ==
  /\ sockets[s] = "free"
  /\ socket' = s
  /\ sockets' = [t \in Sockets |-> IF t = s THEN "open"
                                   ELSE IF t = socket /\ sockets[t] = "closed" THEN "free"
                                   ELSE sockets[t]]

\* The mediator or the network closes a socket; nobody reopens it.
SocketCloses(s) ==
  /\ sockets[s] = "open"
  /\ sockets' = [sockets EXCEPT ![s] = IF s = socket THEN "closed" ELSE "free"]
  /\ UNCHANGED <<state, pc, mediator, links, waiting, job, fetcher, aborted, socket>>

-----------------------------------------------------------------------------
(* StartFetchingMessages                                                   *)

\* "check we're not already fetching messages"
MayFetch == job = NoFetcher /\ mediator # "none"

\* The run resumes after getSocketService: it opens a socket or registers a
\* polling loop, without a second look at jobs.fetchMessages.
Fetch(r) ==
  /\ r \in waiting
  /\ waiting' = waiting \ {r}
  /\ \/ /\ Live
        /\ \E s \in Sockets : OpenSocket(s)
        /\ UNCHANGED jobVars
     \/ /\ ~Live
        /\ \E f \in Fetchers : RegisterFetcher(f)
        /\ UNCHANGED sockVars

\* Castor cannot resolve the mediator's DID document (asked for in live mode).
ResolveFails(r) ==
  /\ UseSockets
  /\ r \in waiting
  /\ waiting' = waiting \ {r}
  /\ UNCHANGED <<jobVars, sockVars>>

-----------------------------------------------------------------------------
(* Agent.start() and the tasks it runs                                     *)

\* One step of start() or stop(): control moves on.
At(from, to) == pc = from /\ pc' = to

Quiescent == pc \in {"idle", "threw"} /\ waiting = {}

\* "any": any public method at any time; "running": startFetchingMessages only
\* on a running agent; "serial": that, and each call awaited before the next.
ClientMayCall  == Serial => Quiescent
ClientMayFetch == ClientMayCall /\ (setup.discipline # "any" => state = "running")

Start ==
  /\ ClientMayCall
  /\ state = "stopped"
  /\ state' = "starting"
  /\ pc' = "plutoStart"
  /\ UNCHANGED <<mediator, links, waiting, jobVars, sockVars>>

\* pluto.start() resolved: StartMediator runs only for a given DID and when no
\* mediator connection is left from an earlier start of this process.
PlutoStarted ==
  /\ At("plutoStart", IF mediator # "none" THEN "fetch"
                      ELSE IF HasMediatorDID THEN "lookup" ELSE "started")
  /\ UNCHANGED <<state, mediator, links, waiting, jobVars, sockVars>>

\* getAllMediators finds a complete record: the connection is registered.
RestoreMediator ==
  /\ links = AllLinks
  /\ At("lookup", "fetch")
  /\ mediator' = "unknown"
  /\ UNCHANGED <<state, links, waiting, jobVars, sockVars>>

\* Mutant of NoMediatorStored: any record that cannot be restored is replaced.
NoMediatorRestored ==
  /\ links # AllLinks
  /\ At("lookup", "host")
  /\ UNCHANGED <<state, mediator, links, waiting, jobVars, sockVars>>

\* It finds none (NoMediatorAvailableError): achieveMediation begins.
NoMediatorStored ==
  /\ links = {}
  /\ At("lookup", "host")
  /\ UNCHANGED <<state, mediator, links, waiting, jobVars, sockVars>>

\* It throws on a record with only one of its two links, and StartMediator
\* rethrows any error but NoMediatorAvailableError.
LookupThrows ==
  /\ links \notin {{}, AllLinks}
  /\ At("lookup", "threw")
  /\ UNCHANGED <<state, mediator, links, waiting, jobVars, sockVars>>

\* The host peer DID is stored: the connection is registered, the request sent.
RequestMediation ==
  /\ At("host", "request")
  /\ mediator' = "requested"
  /\ UNCHANGED <<state, links, waiting, jobVars, sockVars>>

\* MediateGrant: the connection is updated, then storeMediator begins.
MediateGrant ==
  /\ At("request", "grantDIDs")
  /\ mediator' = "granted"
  /\ UNCHANGED <<state, links, waiting, jobVars, sockVars>>

MediateDeny ==
  /\ At("request", "fetch")
  /\ mediator' = "denied"
  /\ UNCHANGED <<state, links, waiting, jobVars, sockVars>>

\* No answer that can be parsed, a problem report, or an answer whose handler
\* is unknown or throws: receive() swallows it all.
OtherAnswer ==
  /\ At("request", "fetch")
  /\ UNCHANGED <<state, mediator, links, waiting, jobVars, sockVars>>

\* storeMediator: three DIDs, then two link rows, each an insert of its own.
StoreMediatorDIDs ==
  /\ At("grantDIDs", "mediatorLink")
  /\ UNCHANGED <<state, mediator, links, waiting, jobVars, sockVars>>

StoreMediatorLink ==
  /\ At("mediatorLink", "routingLink")
  /\ links' = links \cup {"mediator"}
  /\ UNCHANGED <<state, mediator, waiting, jobVars, sockVars>>

StoreRoutingLink ==
  /\ At("routingLink", "fetch")
  /\ links' = links \cup {"routing"}
  /\ UNCHANGED <<state, mediator, waiting, jobVars, sockVars>>

\* An insert of storeMediator fails: receive() swallows the error.
StoreMediatorFails ==
  /\ pc \in {"grantDIDs", "mediatorLink", "routingLink"}
  /\ pc' = "fetch"
  /\ UNCHANGED <<state, mediator, links, waiting, jobVars, sockVars>>

\* Mutant of BootFetch: the agent leaves fetching to the application.
BootFetchSkipped ==
  /\ At("fetch", "started")
  /\ UNCHANGED <<state, mediator, links, waiting, jobVars, sockVars>>

\* _start's own startFetchingMessages().
BootFetch ==
  /\ IF MayFetch
     THEN At("fetch", "fetching") /\ waiting' = waiting \cup {Boot}
     ELSE At("fetch", "started") /\ UNCHANGED waiting
  /\ UNCHANGED <<state, mediator, links, jobVars, sockVars>>

BootFetched ==
  /\ \/ Fetch(Boot) /\ At("fetching", "started")
     \/ ResolveFails(Boot) /\ At("fetching", "threw")
  /\ UNCHANGED <<state, mediator, links>>

Started ==
  /\ At("started", "idle")
  /\ state' = "running"
  /\ UNCHANGED <<mediator, links, waiting, jobVars, sockVars>>

\* Pluto, CreatePeerDID, the store or the network throws out of _start.
StartThrows ==
  /\ pc \in {"plutoStart", "lookup", "host", "request"}
  /\ pc' = "threw"
  /\ UNCHANGED <<state, mediator, links, waiting, jobVars, sockVars>>

-----------------------------------------------------------------------------
(* Agent.stop()                                                            *)

\* Mutant of Stop: the state is set before the routine is awaited.
StopSetsStateFirst ==
  /\ ClientMayCall
  /\ state = "running"
  /\ state' = "stopped"
  /\ pc' = "closing"
  /\ UNCHANGED <<mediator, links, waiting, jobVars, sockVars>>

Stop ==
  /\ ClientMayCall
  /\ state = "running"
  /\ state' = "stopping"
  /\ pc' = "closing"
  /\ UNCHANGED <<mediator, links, waiting, jobVars, sockVars>>

\* Mutant of CloseConnections: the connection is marked, its socket left open.
CloseConnectionsOnly ==
  /\ At("closing", "cancelling")
  /\ mediator' = IF mediator = "none" THEN "none" ELSE "closed"
  /\ UNCHANGED <<state, links, waiting, jobVars, sockVars>>

\* ConnectionsManager.stop(): close() keeps the connection registered.
CloseConnections ==
  /\ At("closing", "cancelling")
  /\ mediator' = IF mediator = "none" THEN "none" ELSE "closed"
  /\ sockets' = IF socket = NoSocket THEN sockets ELSE [sockets EXCEPT ![socket] = "closed"]
  /\ UNCHANGED <<state, links, waiting, jobVars, socket>>

\* Mutant of StopJobs: stop() never gets to the end of JobManager.stop().
StopJobsHangs ==
  /\ pc = "cancelling"
  /\ CancelJob
  /\ UNCHANGED <<state, pc, mediator, links, waiting, sockVars>>

\* JobManager.stop()
StopJobs ==
  /\ At("cancelling", "plutoStop")
  /\ CancelJob
  /\ UNCHANGED <<state, mediator, links, waiting, sockVars>>

Stopped ==
  /\ At("plutoStop", "idle")
  /\ state' = "stopped"
  /\ UNCHANGED <<mediator, links, waiting, jobVars, sockVars>>

StopThrows ==
  /\ At("plutoStop", "threw")
  /\ UNCHANGED <<state, mediator, links, waiting, jobVars, sockVars>>

-----------------------------------------------------------------------------
(* The application, and the end of the process                             *)

\* agent.startFetchingMessages(): public, and nothing checks the agent's state.
CallStartFetching(c) ==
  /\ ClientMayFetch
  /\ c \notin waiting
  /\ MayFetch
  /\ waiting' = waiting \cup {c}
  /\ UNCHANGED <<state, pc, mediator, links, jobVars, sockVars>>

CallReturns(c) ==
  /\ Fetch(c) \/ ResolveFails(c)
  /\ UNCHANGED <<state, pc, mediator, links>>

CallStopFetching ==
  /\ ClientMayCall
  /\ job # NoFetcher
  /\ CancelJob
  /\ UNCHANGED <<state, pc, mediator, links, waiting, sockVars>>

Crash == FreshProcess /\ UNCHANGED links

StartStep ==
  \/ PlutoStarted \/ RestoreMediator \/ NoMediatorStored \/ LookupThrows
  \/ RequestMediation \/ MediateGrant \/ MediateDeny \/ OtherAnswer
  \/ StoreMediatorDIDs \/ StoreMediatorLink \/ StoreRoutingLink \/ StoreMediatorFails
  \/ BootFetch \/ BootFetched \/ Started \/ StartThrows

StopStep == CloseConnections \/ StopJobs \/ Stopped \/ StopThrows

Client ==
  \/ Start \/ Stop \/ CallStopFetching
  \/ \E c \in Callers : CallStartFetching(c)

Step ==
  \/ Client \/ StartStep \/ StopStep \/ Crash
  \/ \E c \in Callers : CallReturns(c)
  \/ \E f \in Fetchers : PollSucceeds(f) \/ PollFails(f) \/ TimerFires(f)
  \/ \E s \in Sockets : SocketCloses(s)

Next == Step /\ UNCHANGED setup

Spec == Init /\ [][Next]_vars

\* A request settles one way or the other, timers fire, and the microtasks of
\* a resumed call run: the event loop starves none of them.  Nothing obliges
\* the application to call anything, nor the process to end.
Fairness ==
  /\ WF_vars(StartStep /\ UNCHANGED setup)
  /\ WF_vars(StopStep /\ UNCHANGED setup)
  /\ \A c \in Callers : WF_vars(CallReturns(c) /\ UNCHANGED setup)
  /\ \A f \in Fetchers :
       /\ WF_vars((PollSucceeds(f) \/ PollFails(f)) /\ UNCHANGED setup)
       /\ WF_vars(TimerFires(f) /\ UNCHANGED setup)

FairSpec == Spec /\ Fairness

-----------------------------------------------------------------------------
(* What holds whatever the application calls, and whenever                 *)

\* The loop that goes on polling: started, not cancelled, not failed.
LiveLoop(f) == fetcher[f] \in {"polling", "timer"} /\ f \notin aborted

\* jobs.fetchMessages never refers to a loop that was cancelled: whoever
\* cancels it (stop, stopFetchingMessages) also forgets it, so that a later
\* startFetchingMessages is not turned away for a loop that no longer runs.
RegisteredJobNotCancelled ==
  job # NoFetcher => job \notin aborted /\ fetcher[job] # "free"

\* What Pluto has stored and what the process believes of its mediator agree
\* across restarts and crashes: a pending or denied mediation has no record,
\* and a restored connection has a complete one.
MediatorAgreesWithRecord ==
  /\ mediator \in {"requested", "denied"} => links = {}
  /\ mediator = "unknown" => links = AllLinks

\* StartMediator, which adds a connection, never runs while one is registered,
\* however often the agent is stopped and started: there is one connection.
MediatorAddedOnce == pc \in {"lookup", "host"} => mediator = "none"

\* The agent implements the lifecycle contract of Startable.Controller.
Lifecycle == INSTANCE Startable WITH
  state <- state,
  routine <- IF pc = "idle" THEN "none" ELSE IF pc = "threw" THEN "threw" ELSE "inside"

LifecycleSpec == Lifecycle!Spec

-----------------------------------------------------------------------------
(* What holds for an application that awaits each call ("serial")          *)

\* There is one loop to cancel: every loop that goes on polling is the one
\* that jobs.fetchMessages refers to.  JobManager: stopping the agent also stops
\* it and destroys it until the agent is started again.
EveryLoopIsRegistered ==
  Serial =>
    /\ \A f \in Fetchers : LiveLoop(f) => job = f
    /\ state = "stopped" => job = NoFetcher

\* start() resolves with a running agent that fetches: with a mediator, a loop
\* is registered or, in live mode, a socket was opened.
StartedAgentFetches ==
  [][Serial /\ state = "starting" /\ state' = "running" /\ mediator # "none"
       => IF Live THEN socket # NoSocket ELSE job # NoFetcher]_vars

\* stop() closes the socket of the mediator's connection.
StoppedAgentClosedSocket ==
  Serial /\ state = "stopped" /\ socket # NoSocket => sockets[socket] = "closed"

\* start() and stop() settle: they resolve or throw.
StartAndStopSettle ==
  \A s \in {"starting", "stopping"} : (state = s) ~> (state # s \/ pc = "threw")

\* A cancelled loop comes to an end.
CancelledLoopEnds == \A f \in Fetchers : (f \in aborted) ~> (f \notin aborted)

\* The registered loop polls again after each successful poll, until it is
\* cancelled.
PollingContinues ==
  \A f \in Fetchers : (job = f /\ fetcher[f] = "timer") ~> (fetcher[f] = "polling" \/ job # f)

-----------------------------------------------------------------------------
(* What the repository says and the code does not do                       *)

\* JobManager: "stopping the Agent should also stop this from running and
\* destroy the instance of the task until agent is started again".  A call of
\* startFetchingMessages that overlaps stop() registers a loop afterwards.
StopEndsFetching ==
  setup.discipline # "any" /\ state = "stopped" =>
    job = NoFetcher /\ \A f \in Fetchers : ~LiveLoop(f)
==============================================================================
