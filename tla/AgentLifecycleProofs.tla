------------------------- MODULE AgentLifecycleProofs -------------------------
(***************************************************************************)
(* Theorems about AgentLifecycle, for any number of overlapping calls,     *)
(* polling loops and sockets.                                              *)
(***************************************************************************)
EXTENDS AgentLifecycle, TLAPS

(***************************************************************************)
(* The inductive invariants.                                               *)
(***************************************************************************)

\* Where start() or stop() is determines the controller's state.
ControlAgrees ==
  /\ pc = "idle" => state \in {"stopped", "running"}
  /\ pc \in StartSteps => state = "starting"
  /\ pc \in StopSteps => state = "stopping"
  /\ pc = "threw" => state \in {"starting", "stopping"}

\* Only loops still under way are aborted, and never the registered one.
LoopInv ==
  /\ \A f \in aborted : fetcher[f] \in {"polling", "timer"}
  /\ RegisteredJobNotCancelled

\* What each await of StartMediator and MediateGrant knows of the record.
MediatorInv ==
  /\ MediatorAgreesWithRecord
  /\ MediatorAddedOnce
  /\ pc = "host" => links = {}
  /\ pc = "request" => mediator = "requested"
  /\ pc \in {"grantDIDs", "mediatorLink", "routingLink"} => mediator = "granted"
  /\ pc \in {"grantDIDs", "mediatorLink"} => links = {}
  /\ pc = "routingLink" => links = {"mediator"}

\* One run of StartFetchingMessages at a time, and none while a job is
\* registered; stop() leaves neither a run nor a job behind.
SerialInv ==
  /\ \A f \in Fetchers : LiveLoop(f) => job = f
  /\ waiting # {} => job = NoFetcher
  /\ \A r, q \in waiting : r = q
  /\ pc = "fetching" => waiting \subseteq {Boot}
  /\ pc \notin {"idle", "fetching"} => waiting = {}
  /\ pc = "idle" /\ waiting # {} => state = "running"
  /\ pc = "plutoStop" \/ state = "stopped" => job = NoFetcher

\* A live agent has no job.  Past closing, stop() has closed the socket and no
\* run is left to open another; past fetching, start() has one or a job.
FetchInv ==
  /\ Live => job = NoFetcher
  /\ (pc \in {"cancelling", "plutoStop"} \/ state = "stopped") /\ socket # NoSocket
       => sockets[socket] = "closed"
  /\ pc = "started" /\ mediator # "none"
       => IF Live THEN socket # NoSocket ELSE job # NoFetcher

-----------------------------------------------------------------------------
LEMMA SetupIsFixed == [Next]_vars => setup' = setup
  BY DEF Next, vars

\* Agent: every step keeps the variables in their types.
THEOREM TypeCorrect == Spec => []TypeOK
<1> USE ConstantsAssumption DEF TypeOK, StartSteps, StopSteps, ConnectionStates,
        FetcherStates, SocketStates, AllLinks, Runs, Setups
<1>1. Init => TypeOK
  BY DEF Init
<1>2. TypeOK /\ [Next]_vars => TypeOK'
  <2> SUFFICES ASSUME TypeOK, [Next]_vars PROVE TypeOK'
    OBVIOUS
  <2>0. UNCHANGED setup
    BY SetupIsFixed
  <2>1. CASE Client
    <3>1. CASE Start \/ Stop
      BY <2>0, <3>1 DEF Start, Stop, jobVars, sockVars
    <3>2. CASE CallStopFetching
      BY <2>0, <3>2 DEF CallStopFetching, CancelJob, sockVars
    <3>3. ASSUME NEW c \in Callers, CallStartFetching(c) PROVE TypeOK'
      BY <2>0, <3>3 DEF CallStartFetching, jobVars, sockVars
    <3> QED BY <2>1, <3>1, <3>2, <3>3 DEF Client
  <2>2. CASE StartStep
    <3>1. CASE BootFetched
      BY <2>0, <3>1 DEF BootFetched, Fetch, ResolveFails, RegisterFetcher, OpenSocket, At,
                  jobVars, sockVars
    <3>2. CASE StartStep /\ ~BootFetched
      BY <2>0, <3>2 DEF StartStep, PlutoStarted, RestoreMediator, NoMediatorStored, LookupThrows,
                  RequestMediation, MediateGrant, MediateDeny, OtherAnswer,
                  StoreMediatorDIDs, StoreMediatorLink, StoreRoutingLink,
                  StoreMediatorFails, BootFetch, Started, StartThrows, At, MayFetch,
                  jobVars, sockVars
    <3> QED BY <2>2, <3>1, <3>2
  <2>3. CASE StopStep
    BY <2>0, <2>3 DEF StopStep, CloseConnections, StopJobs, Stopped, StopThrows, CancelJob, At,
                jobVars, sockVars
  <2>4. CASE Crash
    BY <2>0, <2>4 DEF Crash, FreshProcess
  <2>5. ASSUME NEW c \in Callers, CallReturns(c) PROVE TypeOK'
    BY <2>0, <2>5 DEF CallReturns, Fetch, ResolveFails, RegisterFetcher, OpenSocket,
                jobVars, sockVars
  <2>6. ASSUME NEW f \in Fetchers, PollSucceeds(f) \/ PollFails(f) \/ TimerFires(f)
        PROVE  TypeOK'
    BY <2>0, <2>6 DEF PollSucceeds, PollFails, TimerFires
  <2>7. ASSUME NEW s \in Sockets, SocketCloses(s) PROVE TypeOK'
    BY <2>0, <2>7 DEF SocketCloses
  <2>8. CASE UNCHANGED vars
    BY <2>0, <2>8 DEF vars
  <2> QED BY <2>1, <2>2, <2>3, <2>4, <2>5, <2>6, <2>7, <2>8 DEF Next, Step
<1> QED BY <1>1, <1>2, PTL DEF Spec

\* Agent: the state of the controller and the progress of start() and stop()
\* agree, whatever throws.
THEOREM ControlCorrect == Spec => []ControlAgrees
<1> USE DEF ControlAgrees, StartSteps, StopSteps
<1>1. Init => ControlAgrees
  BY DEF Init
<1>2. ControlAgrees /\ [Next]_vars => ControlAgrees'
  <2> SUFFICES ASSUME ControlAgrees, [Next]_vars PROVE ControlAgrees'
    OBVIOUS
  <2>1. CASE Client
    BY <2>1 DEF Client, Start, Stop, CallStopFetching, CallStartFetching
  <2>2. CASE StartStep
    BY <2>2 DEF StartStep, PlutoStarted, RestoreMediator, NoMediatorStored, LookupThrows,
                RequestMediation, MediateGrant, MediateDeny, OtherAnswer, StoreMediatorDIDs,
                StoreMediatorLink, StoreRoutingLink, StoreMediatorFails, BootFetch,
                BootFetched, Started, StartThrows, At
  <2>3. CASE StopStep
    BY <2>3 DEF StopStep, CloseConnections, StopJobs, Stopped, StopThrows, At
  <2>4. CASE Crash
    BY <2>4 DEF Crash, FreshProcess
  <2>5. CASE UNCHANGED <<state, pc>>
    BY <2>5
  <2>6. \/ \E c \in Callers : CallReturns(c)
        \/ \E f \in Fetchers : PollSucceeds(f) \/ PollFails(f) \/ TimerFires(f)
        \/ \E s \in Sockets : SocketCloses(s)
        \/ UNCHANGED vars
        => UNCHANGED <<state, pc>>
    BY DEF CallReturns, PollSucceeds, PollFails, TimerFires, SocketCloses, vars
  <2> QED BY <2>1, <2>2, <2>3, <2>4, <2>5, <2>6 DEF Next, Step
<1> QED BY <1>1, <1>2, PTL DEF Spec

-----------------------------------------------------------------------------
\* CancellableTask: the steps that leave every loop and the job alone.
LEMMA OtherStepsKeepJobs ==
  ASSUME [Next]_vars,
         ~StopJobs, ~CallStopFetching, ~Crash,
         ~\E r \in Runs : Fetch(r),
         ~\E f \in Fetchers : PollSucceeds(f) \/ PollFails(f) \/ TimerFires(f)
  PROVE  UNCHANGED jobVars
<1>1. CASE Client
  BY <1>1 DEF Client, Start, Stop, CallStartFetching, jobVars
<1>2. CASE StartStep
  BY <1>2 DEF StartStep, PlutoStarted, RestoreMediator, NoMediatorStored, LookupThrows,
              RequestMediation, MediateGrant, MediateDeny, OtherAnswer, StoreMediatorDIDs,
              StoreMediatorLink, StoreRoutingLink, StoreMediatorFails, BootFetch,
              BootFetched, ResolveFails, Started, StartThrows, jobVars, Runs
<1>3. CASE StopStep
  BY <1>3 DEF StopStep, CloseConnections, Stopped, StopThrows, jobVars
<1>4. ASSUME NEW c \in Callers, CallReturns(c) PROVE UNCHANGED jobVars
  BY <1>4 DEF CallReturns, ResolveFails, jobVars, Runs
<1>5. ASSUME NEW s \in Sockets, SocketCloses(s) PROVE UNCHANGED jobVars
  BY <1>5 DEF SocketCloses, jobVars
<1>6. CASE UNCHANGED vars
  BY <1>6 DEF vars, jobVars
<1> QED BY <1>1, <1>2, <1>3, <1>4, <1>5, <1>6 DEF Next, Step

\* CancellableTask: the loop invariant is inductive.
LEMMA LoopStep == TypeOK /\ LoopInv /\ [Next]_vars => LoopInv'
<1> SUFFICES ASSUME TypeOK, LoopInv, [Next]_vars PROVE LoopInv'
  OBVIOUS
<1> USE ConstantsAssumption DEF TypeOK, LoopInv, RegisteredJobNotCancelled, FetcherStates
<1>1. CASE StopJobs \/ CallStopFetching
  BY <1>1 DEF StopJobs, CallStopFetching, CancelJob
<1>2. CASE Crash
  BY <1>2 DEF Crash, FreshProcess
<1>3. ASSUME NEW r \in Runs, Fetch(r) PROVE LoopInv'
  BY <1>3 DEF Fetch, RegisterFetcher, jobVars
<1>4. ASSUME NEW f \in Fetchers, PollSucceeds(f) \/ PollFails(f) \/ TimerFires(f)
      PROVE  LoopInv'
  BY <1>4 DEF PollSucceeds, PollFails, TimerFires
<1>5. CASE UNCHANGED jobVars
  BY <1>5 DEF jobVars
<1> QED BY <1>1, <1>2, <1>3, <1>4, <1>5, OtherStepsKeepJobs

\* jobs.fetchMessages never refers to a cancelled loop, whatever the
\* application calls and in whatever order.
THEOREM JobCorrect == Spec => []RegisteredJobNotCancelled
<1>1. Init => LoopInv
  BY ConstantsAssumption DEF Init, LoopInv, RegisteredJobNotCancelled
<1>2. LoopInv => RegisteredJobNotCancelled
  BY DEF LoopInv
<1> QED BY <1>1, <1>2, LoopStep, TypeCorrect, PTL DEF Spec

-----------------------------------------------------------------------------
\* StartMediator and MediateGrant: the invariant of the record is inductive.
LEMMA MediatorStep == MediatorInv /\ [Next]_vars => MediatorInv'
<1> SUFFICES ASSUME MediatorInv, [Next]_vars PROVE MediatorInv'
  OBVIOUS
<1> USE DEF MediatorInv, MediatorAgreesWithRecord, MediatorAddedOnce, AllLinks
<1>1. CASE Client
  BY <1>1 DEF Client, Start, Stop, CallStopFetching, CallStartFetching
<1>2. CASE StartStep
  BY <1>2 DEF StartStep, PlutoStarted, RestoreMediator, NoMediatorStored, LookupThrows,
              RequestMediation, MediateGrant, MediateDeny, OtherAnswer, StoreMediatorDIDs,
              StoreMediatorLink, StoreRoutingLink, StoreMediatorFails, BootFetch,
              BootFetched, Started, StartThrows, At
<1>3. CASE StopStep
  BY <1>3 DEF StopStep, CloseConnections, StopJobs, Stopped, StopThrows, At
<1>4. CASE Crash
  BY <1>4 DEF Crash, FreshProcess
<1>5. CASE UNCHANGED <<pc, mediator, links>>
  BY <1>5
<1>6. \/ \E c \in Callers : CallReturns(c)
      \/ \E f \in Fetchers : PollSucceeds(f) \/ PollFails(f) \/ TimerFires(f)
      \/ \E s \in Sockets : SocketCloses(s)
      \/ UNCHANGED vars
      => UNCHANGED <<pc, mediator, links>>
  BY DEF CallReturns, PollSucceeds, PollFails, TimerFires, SocketCloses, vars
<1> QED BY <1>1, <1>2, <1>3, <1>4, <1>5, <1>6 DEF Next, Step

\* The stored mediator and the connection in memory agree across crashes and
\* restarts.
THEOREM MediatorCorrect == Spec => []MediatorAgreesWithRecord
<1>1. Init => MediatorInv
  BY DEF Init, MediatorInv, MediatorAgreesWithRecord, MediatorAddedOnce
<1>2. MediatorInv => MediatorAgreesWithRecord
  BY DEF MediatorInv
<1> QED BY <1>1, <1>2, MediatorStep, PTL DEF Spec

\* No second connection is registered for the mediator.
THEOREM MediatorOnce == Spec => []MediatorAddedOnce
<1>1. Init => MediatorInv
  BY DEF Init, MediatorInv, MediatorAgreesWithRecord, MediatorAddedOnce
<1>2. MediatorInv => MediatorAddedOnce
  BY DEF MediatorInv
<1> QED BY <1>1, <1>2, MediatorStep, PTL DEF Spec

-----------------------------------------------------------------------------
\* The serial application: the invariant is inductive.  SerialInv needs the
\* types and the agreement of pc and state.
LEMMA SerialStep ==
  ASSUME Serial
  PROVE  TypeOK /\ ControlAgrees /\ SerialInv /\ [Next]_vars => SerialInv'
<1> SUFFICES ASSUME TypeOK, ControlAgrees, SerialInv, [Next]_vars PROVE SerialInv'
  OBVIOUS
<1> USE ConstantsAssumption DEF TypeOK, ControlAgrees, SerialInv, LiveLoop, StartSteps, StopSteps, FetcherStates, Runs, At
<1>1. CASE Client
  <2>1. CASE CallStopFetching
    BY <2>1 DEF CallStopFetching, CancelJob
  <2>2. CASE Start \/ Stop
    BY <2>2 DEF Start, Stop, ClientMayCall, Quiescent, jobVars
  <2>3. ASSUME NEW c \in Callers, CallStartFetching(c) PROVE SerialInv'
    BY <2>3 DEF Serial, CallStartFetching, ClientMayFetch, ClientMayCall, Quiescent, MayFetch, jobVars
  <2> QED BY <1>1, <2>1, <2>2, <2>3 DEF Client
<1>2. CASE StartStep
  <2>1. CASE BootFetched
    <3>1. CASE Fetch(Boot)
      BY <2>1, <3>1 DEF BootFetched, Fetch, RegisterFetcher, jobVars
    <3>2. CASE ResolveFails(Boot)
      BY <2>1, <3>2 DEF BootFetched, ResolveFails, Fetch, jobVars
    <3> QED BY <2>1, <3>1, <3>2 DEF BootFetched
  <2>2. CASE BootFetch
    BY <2>2 DEF BootFetch, MayFetch, jobVars
  <2>3. CASE StartStep /\ ~BootFetched /\ ~BootFetch
    BY <2>3 DEF StartStep, PlutoStarted, RestoreMediator, NoMediatorStored, LookupThrows,
                RequestMediation, MediateGrant, MediateDeny, OtherAnswer, StoreMediatorDIDs,
                StoreMediatorLink, StoreRoutingLink, StoreMediatorFails, Started,
                StartThrows, jobVars
  <2> QED BY <1>2, <2>1, <2>2, <2>3
<1>3. CASE StopStep
  <2>1. CASE StopJobs
    BY <2>1 DEF StopJobs, CancelJob
  <2>2. CASE CloseConnections \/ Stopped \/ StopThrows
    BY <2>2 DEF CloseConnections, Stopped, StopThrows, jobVars
  <2> QED BY <1>3, <2>1, <2>2 DEF StopStep
<1>4. CASE Crash
  BY <1>4 DEF Crash, FreshProcess
<1>5. ASSUME NEW c \in Callers, CallReturns(c) PROVE SerialInv'
  BY <1>5 DEF CallReturns, Fetch, ResolveFails, RegisterFetcher, jobVars
<1>6. ASSUME NEW f \in Fetchers, PollSucceeds(f) \/ PollFails(f) \/ TimerFires(f)
      PROVE  SerialInv'
  BY <1>6 DEF PollSucceeds, PollFails, TimerFires
<1>7. ASSUME NEW s \in Sockets, SocketCloses(s) PROVE SerialInv'
  BY <1>7 DEF SocketCloses
<1>8. CASE UNCHANGED vars
  BY <1>8 DEF vars
<1> QED BY <1>1, <1>2, <1>3, <1>4, <1>5, <1>6, <1>7, <1>8 DEF Next, Step

LEMMA SerialInvariant == Spec => [](Serial => SerialInv)
<1>1. Init => SerialInv
  BY ConstantsAssumption DEF Init, SerialInv, LiveLoop
<1>2. [Next]_vars => (Serial' <=> Serial)
  BY SetupIsFixed DEF Serial
<1>3. Serial => (TypeOK /\ ControlAgrees /\ SerialInv /\ [Next]_vars => SerialInv')
  BY SerialStep
<1> QED BY <1>1, <1>2, <1>3, TypeCorrect, ControlCorrect, PTL DEF Spec

\* For an application that awaits each call, every loop that goes on polling can be
\* cancelled, and a stopped agent has no job (JobManager's promise) and so no loop.
THEOREM RegisteredCorrect == Spec => []EveryLoopIsRegistered
<1>1. (Serial => SerialInv) => EveryLoopIsRegistered
  BY DEF SerialInv, EveryLoopIsRegistered
<1> QED BY <1>1, SerialInvariant, PTL

-----------------------------------------------------------------------------
\* The serial application: every step keeps what start() and stop() leave behind.
\* FetchInv needs SerialInv: no run resumes while stop() is under way.
LEMMA FetchStep ==
  ASSUME Serial
  PROVE  TypeOK /\ ControlAgrees /\ SerialInv /\ FetchInv /\ [Next]_vars => FetchInv'
<1> SUFFICES ASSUME TypeOK, ControlAgrees, SerialInv, FetchInv, [Next]_vars PROVE FetchInv'
  OBVIOUS
<1> USE ConstantsAssumption DEF TypeOK, ControlAgrees, SerialInv, FetchInv, StartSteps, StopSteps, At
<1>0. Live' = Live /\ Live \in BOOLEAN
  BY SetupIsFixed DEF Live, Setups
<1>1. CASE Client
  <2>1. CASE CallStopFetching
    BY <1>0, <2>1 DEF CallStopFetching, ClientMayCall, Quiescent, CancelJob, sockVars
  <2>2. CASE Start \/ Stop
    BY <1>0, <2>2 DEF Start, Stop, jobVars, sockVars
  <2>3. ASSUME NEW c \in Callers, CallStartFetching(c) PROVE FetchInv'
    BY <1>0, <2>3 DEF CallStartFetching, jobVars, sockVars
  <2> QED BY <1>1, <2>1, <2>2, <2>3 DEF Client
<1>2. CASE StartStep
  <2>1. CASE BootFetched
    <3>1. CASE Fetch(Boot) /\ At("fetching", "started")
      BY <1>0, <2>1, <3>1 DEF BootFetched, Fetch, RegisterFetcher, OpenSocket, jobVars, sockVars
    <3>2. CASE ResolveFails(Boot) /\ At("fetching", "threw")
      <4>1. pc' = "threw" /\ UNCHANGED <<state, mediator, job, socket, sockets>>
        BY <2>1, <3>2 DEF BootFetched, ResolveFails, jobVars, sockVars
      <4> QED BY <1>0, <3>2, <4>1
    <3> QED BY <2>1, <3>1, <3>2 DEF BootFetched
  <2>2. CASE BootFetch
    BY <1>0, <2>2 DEF BootFetch, MayFetch, jobVars, sockVars
  <2>3. CASE StartStep /\ ~BootFetched /\ ~BootFetch
    BY <1>0, <2>3 DEF StartStep, PlutoStarted, RestoreMediator, NoMediatorStored, LookupThrows,
                RequestMediation, MediateGrant, MediateDeny, OtherAnswer, StoreMediatorDIDs,
                StoreMediatorLink, StoreRoutingLink, StoreMediatorFails, Started,
                StartThrows, jobVars, sockVars
  <2> QED BY <1>2, <2>1, <2>2, <2>3
<1>3. CASE StopStep
  <2>1. CASE StopJobs
    BY <1>0, <2>1 DEF StopJobs, CancelJob, sockVars
  <2>2. CASE CloseConnections
    BY <1>0, <2>2 DEF CloseConnections, jobVars
  <2>3. CASE Stopped \/ StopThrows
    BY <1>0, <2>3 DEF Stopped, StopThrows, jobVars, sockVars
  <2> QED BY <1>3, <2>1, <2>2, <2>3 DEF StopStep
<1>4. CASE Crash
  BY <1>0, <1>4 DEF Crash, FreshProcess
<1>5. ASSUME NEW c \in Callers, CallReturns(c) PROVE FetchInv'
  <2>1. c \in waiting /\ UNCHANGED <<state, pc>>
    BY <1>5 DEF CallReturns, Fetch, ResolveFails
  <2>2. pc = "idle" /\ state = "running"
    BY <2>1
  <2> QED BY <1>0, <1>5, <2>1, <2>2 DEF CallReturns, Fetch, ResolveFails, RegisterFetcher,
                                        OpenSocket, jobVars, sockVars
<1>6. ASSUME NEW f \in Fetchers, PollSucceeds(f) \/ PollFails(f) \/ TimerFires(f)
      PROVE  FetchInv'
  BY <1>0, <1>6 DEF PollSucceeds, PollFails, TimerFires
<1>7. ASSUME NEW s \in Sockets, SocketCloses(s) PROVE FetchInv'
  BY <1>0, <1>7 DEF SocketCloses
<1>8. CASE UNCHANGED vars
  BY <1>0, <1>8 DEF vars
<1> QED BY <1>1, <1>2, <1>3, <1>4, <1>5, <1>6, <1>7, <1>8 DEF Next, Step

LEMMA FetchInvariant == Spec => [](Serial => FetchInv)
<1>1. Init => FetchInv
  BY DEF Init, FetchInv
<1>2. [Next]_vars => (Serial' <=> Serial)
  BY SetupIsFixed DEF Serial
<1>3. Serial => (TypeOK /\ ControlAgrees /\ SerialInv /\ FetchInv /\ [Next]_vars => FetchInv')
  BY FetchStep
<1> QED BY <1>1, <1>2, <1>3, TypeCorrect, ControlCorrect, SerialInvariant, PTL DEF Spec

\* For an application that awaits each call, stop() has closed the connection's
\* socket, and no socket is opened behind its back.
THEOREM SocketCorrect == Spec => []StoppedAgentClosedSocket
<1>1. (Serial => FetchInv) => StoppedAgentClosedSocket
  BY DEF FetchInv, StoppedAgentClosedSocket
<1> QED BY <1>1, FetchInvariant, PTL

\* For an application that awaits each call, start() resolves with a running agent
\* that fetches.
THEOREM StartedCorrect == Spec => StartedAgentFetches
<1> DEFINE Fetching ==
      Serial /\ state = "starting" /\ state' = "running" /\ mediator # "none"
        => IF Live THEN socket # NoSocket ELSE job # NoFetcher
<1>1. ControlAgrees /\ (Serial => FetchInv) /\ [Next]_vars => [Fetching]_vars
  <2> SUFFICES ASSUME ControlAgrees, FetchInv, [Next]_vars,
                      state = "starting", state' = "running", mediator # "none"
               PROVE  IF Live THEN socket # NoSocket ELSE job # NoFetcher
    OBVIOUS
  <2>1. Started
    <3>1. ~Client
      BY DEF Client, Start, Stop, CallStopFetching, CallStartFetching
    <3>2. StartStep => Started
      BY DEF StartStep, PlutoStarted, RestoreMediator, NoMediatorStored, LookupThrows,
             RequestMediation, MediateGrant, MediateDeny, OtherAnswer, StoreMediatorDIDs,
             StoreMediatorLink, StoreRoutingLink, StoreMediatorFails, BootFetch,
             BootFetched, StartThrows
    <3>3. ~StopStep /\ ~Crash
      BY DEF StopStep, CloseConnections, StopJobs, Stopped, StopThrows, Crash, FreshProcess
    <3>4. /\ ~\E c \in Callers : CallReturns(c)
          /\ ~\E f \in Fetchers : PollSucceeds(f) \/ PollFails(f) \/ TimerFires(f)
          /\ ~\E s \in Sockets : SocketCloses(s)
          /\ ~UNCHANGED vars
      BY DEF CallReturns, PollSucceeds, PollFails, TimerFires, SocketCloses, vars
    <3> QED BY <3>1, <3>2, <3>3, <3>4 DEF Next, Step
  <2> QED BY <2>1 DEF Started, At, FetchInv
<1> QED BY <1>1, ControlCorrect, FetchInvariant, PTL DEF Spec, StartedAgentFetches

-----------------------------------------------------------------------------
\* The agent implements the lifecycle contract of Startable.Controller.
THEOREM ImplementsStartable == Spec => LifecycleSpec
<1> DEFINE routine == IF pc = "idle" THEN "none" ELSE IF pc = "threw" THEN "threw" ELSE "inside"
<1> USE DEF Lifecycle!Init, Lifecycle!Next, Lifecycle!vars
<1>1. Init => Lifecycle!Init
  BY DEF Init
<1>2. TypeOK /\ ControlAgrees /\ [Next]_vars => [Lifecycle!Next]_(Lifecycle!vars)
  <2> SUFFICES ASSUME TypeOK, ControlAgrees, [Next]_vars
               PROVE  Lifecycle!Next \/ UNCHANGED Lifecycle!vars
    OBVIOUS
  <2> USE DEF TypeOK, ControlAgrees, StartSteps, StopSteps, At
  <2>1. CASE Start \/ Stop
    <3>1. ClientMayCall /\ state \in {"stopped", "running"} => pc = "idle"
      BY DEF ClientMayCall, Quiescent
    <3> QED BY <2>1, <3>1 DEF Start, Stop, Lifecycle!Start, Lifecycle!Stop
  <2>2. CASE Started
    BY <2>2 DEF Started, Lifecycle!Started
  <2>3. CASE Stopped
    BY <2>3 DEF Stopped, Lifecycle!Stopped
  <2>4. CASE Crash
    BY <2>4 DEF Crash, FreshProcess, Lifecycle!Crash
  <2>5. CASE LookupThrows \/ StartThrows \/ StopThrows
    BY <2>5 DEF LookupThrows, StartThrows, StopThrows, Lifecycle!Threw
  <2>6. CASE BootFetched
    BY <2>6 DEF BootFetched, Lifecycle!Threw
  <2>7. CASE StartStep /\ ~Started /\ ~LookupThrows /\ ~StartThrows /\ ~BootFetched
    BY <2>7 DEF StartStep, PlutoStarted, RestoreMediator, NoMediatorStored,
                RequestMediation, MediateGrant, MediateDeny, OtherAnswer, StoreMediatorDIDs,
                StoreMediatorLink, StoreRoutingLink, StoreMediatorFails, BootFetch
  <2>8. CASE CloseConnections \/ StopJobs
    BY <2>8 DEF CloseConnections, StopJobs
  <2>9. CASE UNCHANGED <<state, pc>>
    BY <2>9
  <2>10. \/ \E c \in Callers : CallReturns(c) \/ CallStartFetching(c)
         \/ \E f \in Fetchers : PollSucceeds(f) \/ PollFails(f) \/ TimerFires(f)
         \/ \E s \in Sockets : SocketCloses(s)
         \/ CallStopFetching
         \/ UNCHANGED vars
         => UNCHANGED <<state, pc>>
    BY DEF CallReturns, CallStartFetching, CallStopFetching, PollSucceeds, PollFails,
           TimerFires, SocketCloses, vars
  <2> QED BY <2>1, <2>2, <2>3, <2>4, <2>5, <2>6, <2>7, <2>8, <2>9, <2>10
             DEF Next, Step, Client, StopStep
<1> QED BY <1>1, <1>2, TypeCorrect, ControlCorrect, PTL DEF Spec, LifecycleSpec, Lifecycle!Spec
==============================================================================
