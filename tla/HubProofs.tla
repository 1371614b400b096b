------------------------------ MODULE HubProofs -----------------------------
(***************************************************************************)
(* Proofs about Hub, for any consumers, topics and scope: the composition  *)
(* is a registry as specified, its three components agree on the demand,   *)
(* and consumers are served while they should be.                          *)
(***************************************************************************)
EXTENDS Hub, TLAPS

RP == INSTANCE RegistryProofs
IP == INSTANCE IngestProofs

(* The core is up, and nothing has cancelled the run loop.                 *)
CoreUp ==
  /\ sub = "open" /\ drain = "on"
  /\ ~stopping /\ stopper = "idle" /\ cancel = "no"
  /\ runner \notin {"none", "done"}

Before == {"boot"}
While  == {"bind_ws", "bind_status", "serving", "debug", "status", "ws", "transport"}
After  == {"ingest", "snapshot", "stopped", "failed", "exited"}

(* Where the core is up, and where nobody is there to use it.              *)
Lifecycle ==
  /\ mode \in {"hub", "mcp"} /\ phase \in Before \cup While \cup After
  /\ phase \in While => CoreUp
  /\ phase = "boot" => stopper = "idle" /\ cancel = "no" /\ runner = "none"
  /\ phase = "boot" => consumers = {}
  /\ phase = "transport" => mode = "mcp"
  /\ phase \in {"bind_ws", "bind_status"} => mode = "hub"
  /\ mode = "hub" /\ phase \in {"ingest", "snapshot", "stopped"} => consumers = {}
  /\ listening =>
       mode = "hub" /\ phase \in {"bind_status", "serving", "debug", "status", "failed"}
  /\ phase = "exited" => consumers \subseteq late
  /\ phase = "exited" /\ mode = "hub" /\ stopping => consumers = {}

(* The snapshot store's subscription and drain task, phase by phase.       *)
SnapshotLife ==
  /\ phase = "boot" => sub = "none" /\ drain = "off"
  /\ phase \in While \cup {"ingest"} => sub = "open" /\ drain = "on"
  /\ phase = "snapshot" => sub = "closed" /\ drain = "cancelled"
  /\ phase = "stopped" => sub = "none" /\ drain = "off"
  /\ phase = "failed" => sub = "open" /\ drain \in {"cancelled", "off"}
  /\ phase = "exited" => sub \in {"none", "open"} /\ drain = "off"

(* The run loop, its tasks and its connection, also when asyncio.run and   *)
(* not stop() cancels it; and that only a shutdown stops the ingest.       *)
RunLoop ==
  /\ runner \in {"none", "spawned", "connecting", "session", "joining", "closing",
                 "backoff", "done"}
  /\ conn = "none" <=> ~Ingest!HasWs
  /\ runner \notin {"session", "joining"} =>
       receive = "off" /\ reconcile = "off" /\ watchdog = "off"
  /\ cancel \in {"no", "requested", "raised"}
  /\ cancel = "requested" =>
       runner \in {"spawned", "connecting", "session", "closing", "backoff"}
  /\ cancel = "raised" => runner \in {"joining", "closing"}
  /\ stopping \in BOOLEAN
  /\ stopping => phase \in {"ingest", "snapshot", "stopped", "exited"}
  /\ phase \in {"ingest", "snapshot", "stopped"} => stopping
  /\ stopper # "idle" => phase = "ingest" /\ runner # "none"
  /\ phase = "exited" => runner \in {"none", "done"}
  /\ stopping /\ stopper = "idle" =>
       runner = "none" /\ upState \in {"absent", "disconnected"}

Shape == TypeOK /\ SnapshotLife /\ RunLoop

IInv ==
  /\ RP!IInv
  /\ OneDemand
  /\ Lifecycle
  /\ Shape
  /\ IP!SessionInv

-----------------------------------------------------------------------------
(* What the callbacks of one registry operation are told is how the topics *)
(* held change, if the table is exact before.                              *)
LEMMA FirstHeldIsGain ==
  ASSUME RP!IInv, NEW ts \in SUBSET Topics,
         Held' = Held \cup ts
  PROVE  Held' = Held \cup Registry!FirstHeld(ts)
  <1>1. \A t \in Topics : Registry!TopicSubscribers(t) # {} => t \in Held
    BY DEF RP!IInv, RP!RefcountExact, RP!ActiveTopics, RP!HoldersOf,
           Registry!TopicSubscribers, Held
  <1> QED BY <1>1 DEF Registry!FirstHeld

LEMMA LastHeldIsLoss ==
  ASSUME RP!IInv, NEW c \in Consumers, NEW ts \in SUBSET Topics,
         c \in consumers, ts \subseteq topics[c],
         Held' = {t \in Topics : \E d \in consumers : t \in topics[d] /\ (t \in ts => d # c)}
  PROVE  Held' = Held \ Registry!LastHeld(c, ts)
  <1>1. \A t \in Topics : t \in DOMAIN refcount <=> RP!HoldersOf(t) # {}
    BY DEF RP!IInv, RP!RefcountExact, RP!ActiveTopics
  <1>2. \A t \in DOMAIN refcount : refcount[t] = RP!HoldersOf(t)
    BY DEF RP!IInv, RP!RefcountExact, RP!ActiveTopics
  <1>3. \A t \in Topics : t \in Registry!LastHeld(c, ts) <=>
                          t \in ts /\ RP!HoldersOf(t) \ {c} = {}
    BY <1>1, <1>2 DEF Registry!LastHeld, Registry!ActiveTopics, RP!HoldersOf
  <1> QED BY <1>3 DEF Held, RP!HoldersOf

(* The callbacks keep ingest and snapshot store on the demand.             *)
LEMMA GainKeepsDemand ==
  ASSUME OneDemand, NEW ts, OnFirst(ts), UNCHANGED sub, Held' = Held \cup ts
  PROVE  OneDemand'
  BY DEF OneDemand, OnFirst, Track, Ingest!OnFirstSubscriber

LEMMA LossKeepsDemand ==
  ASSUME OneDemand, NEW ts, OnLast(ts), UNCHANGED sub, Held' = Held \ ts
  PROVE  OneDemand'
  BY DEF OneDemand, OnLast, Untrack, Ingest!OnLastUnsubscriber

(* A registry operation leaves the run loop and the snapshot store's life  *)
(* alone.                                                                  *)
LEMMA CallbacksLeaveCore ==
  ASSUME NEW ts, OnFirst(ts) \/ OnLast(ts), UNCHANGED <<sub, drain>>
  PROVE  UNCHANGED <<sub, drain, stopping, stopper, cancel, runner>>
  BY DEF OnFirst, OnLast, Ingest!OnFirstSubscriber, Ingest!OnLastUnsubscriber,
         Ingest!stopVars, Ingest!runnerVars

-----------------------------------------------------------------------------
(* The registry operations, with their callbacks.                          *)

LEMMA RegisterKeeps ==
  ASSUME IInv, NEW c \in Consumers, NEW ts \in SUBSET Topics, Register(c, ts)
  PROVE  /\ RP!Next /\ OneDemand'
         /\ UNCHANGED <<sub, drain, stopping, stopper, cancel, runner>>
  <1>1. Registry!RegisterConsumer(c, ts) /\ OnFirst(Registry!FirstHeld(ts))
          /\ UNCHANGED <<sub, drain>>
    BY DEF Register
  <1>2. RP!RegisterConsumer(c, ts)
    BY <1>1 DEF Registry!RegisterConsumer, RP!RegisterConsumer, Registry!Fire, RP!Fire,
       Registry!IncrementRefcount, RP!IncrementRefcount, Registry!FirstHeld, RP!FirstHeld,
       Registry!TopicSubscribers, RP!TopicSubscribers, Registry!ActiveTopics, RP!ActiveTopics
  <1>3. RP!Next
    BY <1>2 DEF RP!Next
  <1>4. Held' = Held \cup ts
    <2>1. /\ consumers' = consumers \cup {c} /\ c \notin consumers
          /\ topics'[c] = ts /\ \A d \in consumers : topics'[d] = topics[d]
      BY <1>1 DEF Registry!RegisterConsumer, IInv, RP!IInv, RP!TypeOK
    <2> QED BY <2>1 DEF Held
  <1>5. Held' = Held \cup Registry!FirstHeld(ts)
    BY <1>4, FirstHeldIsGain DEF IInv
  <1>6. OneDemand'
    BY <1>1, <1>5, GainKeepsDemand DEF IInv
  <1> QED BY <1>1, <1>3, <1>6, CallbacksLeaveCore

LEMMA UnregisterKeeps ==
  ASSUME IInv, NEW c \in Consumers, Unregister(c)
  PROVE  /\ RP!Next /\ OneDemand' /\ consumers' \subseteq consumers
         /\ UNCHANGED <<sub, drain, stopping, stopper, cancel, runner>>
  <1>1. Registry!UnregisterConsumer(c) /\ OnLast(Registry!LastHeld(c, topics[c]))
          /\ UNCHANGED <<sub, drain>>
    BY DEF Unregister
  <1>2. RP!UnregisterConsumer(c)
    BY <1>1 DEF Registry!UnregisterConsumer, RP!UnregisterConsumer, Registry!Fire, RP!Fire,
       Registry!DecrementRefcount, RP!DecrementRefcount, Registry!LastHeld, RP!LastHeld,
       Registry!ActiveTopics, RP!ActiveTopics
  <1>3. RP!Next
    BY <1>2 DEF RP!Next
  <1>4. /\ consumers' = consumers \ {c} /\ c \in consumers /\ topics[c] \in SUBSET Topics
        /\ \A d \in consumers \ {c} : topics'[d] = topics[d]
    BY <1>1 DEF Registry!UnregisterConsumer, IInv, RP!IInv, RP!TypeOK
  <1>5. Held' = {t \in Topics :
                   \E d \in consumers : t \in topics[d] /\ (t \in topics[c] => d # c)}
    BY <1>4 DEF Held
  <1>6. Held' = Held \ Registry!LastHeld(c, topics[c])
    BY <1>4, <1>5, LastHeldIsLoss DEF IInv
  <1>7. OneDemand'
    BY <1>1, <1>6, LossKeepsDemand DEF IInv
  <1> QED BY <1>1, <1>3, <1>4, <1>7, CallbacksLeaveCore

LEMMA AddTopicKeeps ==
  ASSUME IInv, NEW c \in Consumers, NEW t \in Topics, AddTopic(c, t)
  PROVE  /\ RP!Next /\ OneDemand' /\ consumers # {}
         /\ UNCHANGED <<mode, phase, listening, consumers, sub, drain, stopping, stopper, cancel, runner>>
  <1>1. Registry!AddTopic(c, t) /\ OnFirst(Registry!FirstHeld({t}))
          /\ UNCHANGED <<mode, phase, listening, sub, drain>>
    BY DEF AddTopic, mainVars
  <1>2. RP!AddTopic(c, t)
    BY <1>1 DEF Registry!AddTopic, RP!AddTopic, Registry!Fire, RP!Fire,
       Registry!IncrementRefcount, RP!IncrementRefcount, Registry!FirstHeld, RP!FirstHeld,
       Registry!TopicSubscribers, RP!TopicSubscribers, Registry!ActiveTopics, RP!ActiveTopics
  <1>3. RP!Next
    BY <1>2 DEF RP!Next
  <1>4. /\ consumers' = consumers /\ c \in consumers
        /\ topics'[c] = topics[c] \cup {t}
        /\ \A d \in consumers \ {c} : topics'[d] = topics[d]
    BY <1>1 DEF Registry!AddTopic, IInv, RP!IInv, RP!TypeOK
  <1>5. Held' = Held \cup {t}
    BY <1>4 DEF Held
  <1>6. Held' = Held \cup Registry!FirstHeld({t})
    BY <1>5, FirstHeldIsGain DEF IInv
  <1>7. OneDemand'
    BY <1>1, <1>6, GainKeepsDemand DEF IInv
  <1> QED BY <1>1, <1>3, <1>4, <1>7, CallbacksLeaveCore

LEMMA RemoveTopicKeeps ==
  ASSUME IInv, NEW c \in Consumers, NEW t \in Topics, RemoveTopic(c, t)
  PROVE  /\ RP!Next /\ OneDemand' /\ consumers # {}
         /\ UNCHANGED <<mode, phase, listening, consumers, sub, drain, stopping, stopper, cancel, runner>>
  <1>1. Registry!RemoveTopic(c, t) /\ OnLast(Registry!LastHeld(c, {t}))
          /\ UNCHANGED <<mode, phase, listening, sub, drain>>
    BY DEF RemoveTopic, mainVars
  <1>2. RP!RemoveTopic(c, t)
    BY <1>1 DEF Registry!RemoveTopic, RP!RemoveTopic, Registry!Fire, RP!Fire,
       Registry!DecrementRefcount, RP!DecrementRefcount, Registry!LastHeld, RP!LastHeld,
       Registry!ActiveTopics, RP!ActiveTopics
  <1>3. RP!Next
    BY <1>2 DEF RP!Next
  <1>4. /\ consumers' = consumers /\ c \in consumers /\ t \in topics[c]
        /\ topics'[c] = topics[c] \ {t}
        /\ \A d \in consumers \ {c} : topics'[d] = topics[d]
    BY <1>1 DEF Registry!RemoveTopic, IInv, RP!IInv, RP!TypeOK
  <1>5. Held' = {u \in Topics :
                   \E d \in consumers : u \in topics[d] /\ (u \in {t} => d # c)}
    BY <1>4 DEF Held
  <1>6. Held' = Held \ Registry!LastHeld(c, {t})
    BY <1>4, <1>5, LastHeldIsLoss DEF IInv
  <1>7. OneDemand'
    BY <1>1, <1>6, LossKeepsDemand DEF IInv
  <1> QED BY <1>1, <1>3, <1>4, <1>7, CallbacksLeaveCore

-----------------------------------------------------------------------------
(* The steps that leave the registry alone.                                *)

\* The store is not running, goes on, or is started when nothing is held.
Quiet ==
  /\ registryVars' = registryVars /\ desired' = desired
  /\ \/ sub' # "open"
     \/ sub = "open" /\ tracked' = tracked
     \/ tracked' = {} /\ consumers = {}

LEMMA QuietKeepsDemand ==
  ASSUME OneDemand, Quiet
  PROVE  OneDemand'
  BY DEF OneDemand, Held, registryVars, Quiet

(* No step of the ingest's own, or of the exchange, changes the demand;    *)
(* and none ends a run loop that nobody stops or cancels.                  *)
LEMMA IngestLeavesDemand ==
  ASSUME Ingest!OwnStep \/ Ingest!EnvStep
  PROVE  /\ UNCHANGED <<desired, stopping>>
         /\ stopper = "idle" => stopper' = "idle"
         /\ cancel = "no" /\ stopper = "idle" => cancel' = "no"
         /\ cancel = "no" /\ stopper = "idle" /\ ~stopping /\ runner \notin {"none", "done"}
              => runner' \notin {"none", "done"}
         /\ cancel = "no" /\ stopper = "idle" /\ runner = "none" => runner' = "none"
  <1> USE DEF Ingest!demandVars, Ingest!stopVars, Ingest!runnerVars, Ingest!taskVars,
              Ingest!reconVars, Ingest!netVars
  <1>1. CASE Ingest!RunnerStep
    BY <1>1 DEF Ingest!RunnerStep, Ingest!RunBegins, Ingest!ConnectSucceeds,
       Ingest!ConnectFails, Ingest!BackoffEnds, Ingest!SessionEnds, Ingest!JoinReturns,
       Ingest!AexitReturns, Ingest!RunnerCancelled, Ingest!LeaveOrBackOff
  <1>2. CASE Ingest!ReceiveEnds \/ Ingest!ReconcileStep \/ Ingest!WatchdogStep
    BY <1>2 DEF Ingest!ReceiveEnds, Ingest!ReconcileStep, Ingest!ReconcileWakes,
       Ingest!SendReturns, Ingest!WatchdogStep, Ingest!WatchdogQuits,
       Ingest!WatchdogExpires, Ingest!WatchdogCloses
  <1>3. CASE Ingest!StopStep
    BY <1>3 DEF Ingest!StopStep, Ingest!StopCancels, Ingest!StopReturns
  <1>4. CASE Ingest!EnvStep
    BY <1>4 DEF Ingest!EnvStep, Ingest!ConnLost, Ingest!ServerApplies, Ingest!Tick,
       Ingest!ReceiveFrame
  <1> QED BY <1>1, <1>2, <1>3, <1>4 DEF Ingest!OwnStep

-----------------------------------------------------------------------------
LEMMA HubInit == Init => IInv
  <1> SUFFICES ASSUME Init PROVE IInv
    OBVIOUS
  <1>1. RP!Init
    BY DEF Init, Registry!Init, RP!Init
  <1>2. RP!IInv
    BY <1>1, RP!InitIInv
  <1>3. OneDemand
    BY DEF Init, Registry!Init, Ingest!Init, OneDemand, Held
  <1>4. Lifecycle
    BY DEF Init, Registry!Init, Ingest!Init, Lifecycle, Before, While, After
  <1>5. Shape
    BY DEF Init, Ingest!Init, Ingest!HasWs, Shape, TypeOK, SnapshotLife, RunLoop, While
  <1>6. IP!SessionInv
    <2>1. IP!IngestAssumption
      BY HubIngestAssumption DEF IP!IngestAssumption
    <2>2. IP!Init
      BY DEF Init, Ingest!Init, IP!Init, Ingest!NoFrame, IP!NoFrame, Ingest!NothingToDo,
         IP!NothingToDo
    <2> QED BY <2>1, <2>2, IP!InitIInv DEF IP!IInv
  <1> QED BY <1>2, <1>3, <1>4, <1>5, <1>6 DEF IInv

(* Every step of the hub is a step of the registry or leaves it alone, and *)
(* keeps the three components together and the core up while it is used.   *)
LEMMA HubStep ==
  ASSUME IInv, [Next]_hubVars
  PROVE  [RP!Next]_registryVars /\ OneDemand' /\ Lifecycle'
  <1> USE DEF Before, While, After
  <1>l. OneDemand /\ Lifecycle
    BY DEF IInv
  <1>1. CASE ConsumerStep
    <2>e. phase # "exited"
      BY <1>1 DEF ConsumerStep
    <2>1. ASSUME NEW c \in Consumers, ClientConnects(c) \/ \E t \in Topics : CallBegins(c, t)
          PROVE  [RP!Next]_registryVars /\ OneDemand' /\ Lifecycle'
      <3>1. PICK ts \in SUBSET Topics : Register(c, ts)
        BY <2>1 DEF ClientConnects, CallBegins
      <3>2. /\ RP!Next /\ OneDemand'
            /\ UNCHANGED <<sub, drain, stopping, stopper, cancel, runner>>
        BY <3>1, RegisterKeeps
      <3>3. UNCHANGED <<mode, phase, listening>>
        BY <2>1 DEF ClientConnects, CallBegins, mainVars
      <3>4. phase # "boot" /\ ~(mode = "hub" /\ phase \in {"ingest", "snapshot", "stopped"})
        BY <1>l, <2>1 DEF ClientConnects, CallBegins, WSListens, Lifecycle
      <3>5. Lifecycle'
        BY <1>l, <2>e, <3>2, <3>3, <3>4 DEF Lifecycle, CoreUp
      <3> QED BY <3>2, <3>5
    <2>2. ASSUME NEW c \in Consumers, ConsumerLeaves(c)
          PROVE  [RP!Next]_registryVars /\ OneDemand' /\ Lifecycle'
      <3>1. /\ RP!Next /\ OneDemand' /\ consumers' \subseteq consumers
            /\ UNCHANGED <<sub, drain, stopping, stopper, cancel, runner>>
        BY <2>2, UnregisterKeeps DEF ConsumerLeaves
      <3>2. UNCHANGED <<mode, phase, listening>>
        BY <2>2 DEF ConsumerLeaves, mainVars
      <3>3. Lifecycle'
        BY <1>l, <2>e, <3>1, <3>2 DEF Lifecycle, CoreUp
      <3> QED BY <3>1, <3>3
    <2>3. ASSUME NEW c \in Consumers, NEW t \in Topics, AddTopic(c, t) \/ RemoveTopic(c, t)
          PROVE  [RP!Next]_registryVars /\ OneDemand' /\ Lifecycle'
      <3>1. /\ RP!Next /\ OneDemand' /\ consumers # {}
            /\ UNCHANGED <<mode, phase, listening, consumers, sub, drain, stopping, stopper,
                           cancel, runner>>
        BY <2>3, AddTopicKeeps, RemoveTopicKeeps
      <3>2. Lifecycle'
        BY <1>l, <2>e, <3>1 DEF Lifecycle, CoreUp
      <3> QED BY <3>1, <3>2
    <2> QED BY <1>1, <2>1, <2>2, <2>3 DEF ConsumerStep
  <1>2. CASE DebugBegins
    <2>1. DebugCli \in Consumers /\ DebugTopics \in SUBSET Topics
      BY HubAssumption
    <2>2. Register(DebugCli, DebugTopics) /\ phase = "serving"
            /\ UNCHANGED <<mode, phase, listening>>
      BY <1>2 DEF DebugBegins
    <2>3. /\ RP!Next /\ OneDemand'
          /\ UNCHANGED <<sub, drain, stopping, stopper, cancel, runner>>
      BY <2>1, <2>2, RegisterKeeps
    <2>4. Lifecycle'
      BY <1>l, <2>2, <2>3 DEF Lifecycle, CoreUp
    <2> QED BY <2>3, <2>4
  <1>3. CASE DebugCancelled
    <2>1. CASE Unregister(DebugCli)
      <3>1. /\ RP!Next /\ OneDemand' /\ consumers' \subseteq consumers
            /\ UNCHANGED <<sub, drain, stopping, stopper, cancel, runner>>
        BY <2>1, UnregisterKeeps, HubAssumption
      <3>2. Lifecycle'
        BY <1>l, <1>3, <3>1 DEF DebugCancelled, Lifecycle, CoreUp
      <3> QED BY <3>1, <3>2
    <2>2. CASE UNCHANGED <<snapshotVars, registryVars, ingestVars>>
      <3>1. /\ UNCHANGED <<mode, phase, listening, late, sub, tracked, drain, desired,
                           stopping, stopper, cancel, runner>>
            /\ UNCHANGED registryVars
        BY <1>3, <2>2 DEF DebugCancelled, snapshotVars, ingestVars
      <3>2. OneDemand'
        BY <1>l, <3>1, QuietKeepsDemand DEF Quiet
      <3>3. Lifecycle'
        BY <1>l, <3>1 DEF Lifecycle, CoreUp, registryVars
      <3> QED BY <3>1, <3>2, <3>3
    <2> QED BY <1>3, <2>1, <2>2 DEF DebugCancelled
  <1>4. CASE HubBoots \/ McpBoots
    <2>1. /\ phase = "boot" /\ phase' \in {"bind_ws", "serving"} /\ UNCHANGED mode
          /\ phase' = "bind_ws" => mode = "hub"
          /\ sub' = "open" /\ tracked' = {} /\ drain' = "on"
          /\ stopping' = FALSE /\ runner' = "spawned"
          /\ UNCHANGED <<listening, stopper, cancel, desired>> /\ UNCHANGED registryVars
      BY <1>4 DEF HubBoots, McpBoots, CoreStarts, SnapshotStart, Ingest!Start,
                  Ingest!demandVars
    <2>2. consumers = {}
      BY <1>l, <2>1 DEF Lifecycle
    <2>3. OneDemand'
      BY <1>l, <2>1, <2>2, QuietKeepsDemand DEF Quiet
    <2>4. Lifecycle'
      BY <1>l, <2>1, <2>2 DEF Lifecycle, CoreUp
    <2> QED BY <2>1, <2>3, <2>4
  <1>5. CASE ServersStep \/ DebugJoined \/ StopSignal
    <2>1. /\ UNCHANGED <<mode, sub, tracked, drain, desired, stopping, stopper, cancel, runner>>
          /\ UNCHANGED registryVars
      BY <1>5 DEF ServersStep, WSStarts, StatusStarts, StatusStopped, DebugJoined,
         StopSignal, HubStops, McpStops, Moves, snapshotVars, ingestVars
    <2>2. phase \in While /\ phase' \in While /\ (phase' = "transport" => mode = "mcp")
      BY <1>5 DEF ServersStep, WSStarts, StatusStarts, StatusStopped, DebugJoined,
         StopSignal, HubStops, McpStops, Moves
    <2>l. /\ listening' =>
               mode' = "hub" /\ phase' \in {"bind_status", "serving", "debug", "status"}
          /\ phase' \in {"bind_ws", "bind_status"} => mode' = "hub"
      BY <1>l, <1>5 DEF ServersStep, WSStarts, StatusStarts, StatusStopped, DebugJoined,
         StopSignal, HubStops, McpStops, Moves, Lifecycle
    <2>3. OneDemand'
      BY <1>l, <2>1, QuietKeepsDemand DEF Quiet
    <2>4. Lifecycle'
      BY <1>l, <2>1, <2>2, <2>l DEF Lifecycle, CoreUp
    <2> QED BY <2>1, <2>3, <2>4
  <1>6. CASE BindFails
    <2>1. /\ phase \in {"bind_ws", "bind_status"} /\ phase' = "failed"
          /\ UNCHANGED <<mode, listening, sub, tracked, desired>> /\ UNCHANGED registryVars
      BY <1>6 DEF BindFails
    <2>2. OneDemand'
      BY <1>l, <2>1, QuietKeepsDemand DEF Quiet
    <2>3. Lifecycle'
      BY <1>l, <2>1 DEF Lifecycle
    <2> QED BY <2>1, <2>2, <2>3
  <1>7. CASE ServersStopped \/ TransportJoined
    <2>1. /\ phase \in {"ws", "transport"} /\ phase' = "ingest"
          /\ UNCHANGED <<mode, listening, sub, tracked, desired>> /\ UNCHANGED registryVars
      BY <1>7 DEF ServersStopped, TransportJoined, IngestStops, Ingest!StopBegins,
         snapshotVars
    <2>2. mode = "hub" => consumers = {}
      BY <1>7, <1>l DEF ServersStopped, TransportJoined, Lifecycle
    <2>3. OneDemand'
      BY <1>l, <2>1, QuietKeepsDemand DEF Quiet
    <2>4. Lifecycle'
      BY <1>l, <2>1, <2>2 DEF Lifecycle, registryVars
    <2> QED BY <2>1, <2>3, <2>4
  <1>8. CASE IngestStopped \/ SnapshotStopped
    <2>1. /\ phase \in {"ingest", "snapshot"} /\ phase' \in {"snapshot", "stopped"}
          /\ UNCHANGED <<mode, listening, desired>> /\ UNCHANGED registryVars
          /\ sub' # "open"
      BY <1>8 DEF IngestStopped, SnapshotStopped, SnapshotStop, SnapshotJoined, ingestVars
    <2>2. OneDemand'
      BY <1>l, <2>1, QuietKeepsDemand DEF Quiet
    <2>3. Lifecycle'
      BY <1>l, <2>1 DEF Lifecycle, registryVars
    <2> QED BY <2>1, <2>2, <2>3
  <1>9. CASE ExitStep
    <2>1. /\ phase \in {"stopped", "failed"}
          /\ \/ phase' = phase /\ listening' = listening
             \/ phase' = "exited" /\ listening' = FALSE /\ consumers \subseteq late
          /\ UNCHANGED <<mode, late, sub, tracked, desired, stopping>>
          /\ UNCHANGED registryVars
      BY <1>9 DEF ExitStep, DrainCancelled, Exit, mainVars, snapshotVars, ingestVars
    <2>2. OneDemand'
      BY <1>l, <2>1, QuietKeepsDemand DEF Quiet
    <2>3. phase = "failed" => ~stopping
      BY DEF IInv, Shape, RunLoop
    <2>4. Lifecycle'
      BY <1>l, <2>1, <2>3 DEF Lifecycle, registryVars
    <2> QED BY <2>1, <2>2, <2>4
  <1>10. CASE IngestStep
    <2>1. /\ UNCHANGED <<mode, phase, listening, late, sub, tracked, drain>>
          /\ UNCHANGED registryVars
          /\ Ingest!OwnStep \/ Ingest!EnvStep
      BY <1>10 DEF IngestStep, mainVars, snapshotVars
    <2>2. OneDemand'
      BY <1>l, <2>1, IngestLeavesDemand, QuietKeepsDemand DEF Quiet
    <2>3. Lifecycle'
      BY <1>l, <2>1, IngestLeavesDemand DEF Lifecycle, CoreUp, registryVars
    <2> QED BY <2>1, <2>2, <2>3
  <1>11. CASE UNCHANGED hubVars
    <2>1. /\ UNCHANGED <<mode, phase, listening, late, sub, tracked, drain, desired,
                         stopping, stopper, cancel, runner>>
          /\ UNCHANGED registryVars
      BY <1>11 DEF hubVars, mainVars, snapshotVars, ingestVars
    <2>2. OneDemand'
      BY <1>l, <2>1, QuietKeepsDemand DEF Quiet
    <2>3. Lifecycle'
      BY <1>l, <2>1 DEF Lifecycle, CoreUp, registryVars
    <2> QED BY <2>1, <2>2, <2>3
  <1> QED BY <1>1, <1>2, <1>3, <1>4, <1>5, <1>6, <1>7, <1>8, <1>9, <1>10, <1>11
          DEF Next, MainStep, DebugStep

-----------------------------------------------------------------------------
(* The life of the store and of the run loop.                              *)

(* A registry operation, with its callbacks, happens beside them.          *)
Beside ==
  /\ mode' = mode /\ phase' = phase /\ debug' \in {"off", "spawned", "on", "done"}
  /\ listening' = listening /\ late' \subseteq Consumers
  /\ sub' = sub /\ drain' = drain

LEMMA CallbacksKeepShape ==
  ASSUME Shape, OneDemand', NEW ts, OnFirst(ts) \/ OnLast(ts), Beside
  PROVE  Shape'
  <1>1. tracked' \subseteq Topics
    <2>1. sub = "open" => tracked' = Held'
      BY DEF OneDemand, Beside
    <2>2. Held' \subseteq Topics
      BY DEF Held
    <2>3. sub # "open" => tracked' = tracked
      BY DEF OnFirst, OnLast, Track, Untrack
    <2> QED BY <2>1, <2>2, <2>3 DEF Shape, TypeOK
  <1>2. TypeOK'
    BY <1>1 DEF Beside, Shape, TypeOK
  <1>3. SnapshotLife'
    BY DEF Beside, Shape, SnapshotLife
  <1>4. RunLoop'
    BY DEF Beside, Shape, RunLoop, OnFirst, OnLast, Ingest!OnFirstSubscriber,
       Ingest!OnLastUnsubscriber, Ingest!reconVars, Ingest!taskVars, Ingest!runnerVars,
       Ingest!stopVars, Ingest!netVars, Ingest!HasWs
  <1> QED BY <1>2, <1>3, <1>4 DEF Shape

(* The ingest's tasks and the exchange keep it too, in every phase.        *)
LEMMA IngestKeepsRunLoop ==
  ASSUME RunLoop, Ingest!OwnStep \/ Ingest!EnvStep, phase' = phase
  PROVE  RunLoop'
  <1> USE DEF RunLoop, Ingest!HasWs, Ingest!demandVars, Ingest!stopVars, Ingest!runnerVars,
              Ingest!taskVars, Ingest!reconVars, Ingest!netVars
  <1>1. CASE Ingest!RunBegins \/ Ingest!ConnectSucceeds \/ Ingest!ConnectFails
               \/ Ingest!BackoffEnds
    BY <1>1 DEF Ingest!RunBegins, Ingest!ConnectSucceeds, Ingest!ConnectFails,
       Ingest!BackoffEnds, Ingest!LeaveOrBackOff
  <1>2. CASE Ingest!SessionEnds \/ Ingest!JoinReturns
    BY <1>2 DEF Ingest!SessionEnds, Ingest!JoinReturns, Ingest!Shut
  <1>3. CASE Ingest!AexitReturns
    BY <1>3 DEF Ingest!AexitReturns, Ingest!LeaveOrBackOff
  <1>4. CASE Ingest!RunnerCancelled
    BY <1>4 DEF Ingest!RunnerCancelled
  <1>5. CASE Ingest!ReceiveEnds \/ Ingest!WatchdogStep
    BY <1>5 DEF Ingest!ReceiveEnds, Ingest!WatchdogStep, Ingest!WatchdogQuits,
       Ingest!WatchdogExpires, Ingest!WatchdogCloses, Ingest!Shut
  <1>6. CASE Ingest!ReconcileStep
    BY <1>6 DEF Ingest!ReconcileStep, Ingest!ReconcileWakes, Ingest!SendReturns
  <1>7. CASE Ingest!StopStep
    BY <1>7 DEF Ingest!StopStep, Ingest!StopCancels, Ingest!StopReturns,
       Ingest!CancelRunner
  <1>8. CASE Ingest!EnvStep
    BY <1>8 DEF Ingest!EnvStep, Ingest!ConnLost, Ingest!ServerApplies, Ingest!Tick,
       Ingest!ReceiveFrame, Ingest!Shut
  <1> QED BY <1>1, <1>2, <1>3, <1>4, <1>5, <1>6, <1>7, <1>8
          DEF Ingest!OwnStep, Ingest!RunnerStep

LEMMA ShapeStep ==
  ASSUME IInv, [Next]_hubVars, OneDemand'
  PROVE  Shape'
  <1>i. Shape /\ Lifecycle /\ TypeOK /\ SnapshotLife /\ RunLoop
    BY DEF IInv, Shape
  <1>1. CASE ConsumerStep \/ DebugStep
    <2>1. \/ \E ts : OnFirst(ts) \/ OnLast(ts)
          \/ UNCHANGED <<snapshotVars, ingestVars>>
      BY <1>1 DEF ConsumerStep, DebugStep, ClientConnects, CallBegins, ConsumerLeaves,
         AddTopic, RemoveTopic, DebugBegins, DebugCancelled, Register, Unregister
    <2>2. Beside
      BY <1>1, <1>i DEF ConsumerStep, DebugStep, ClientConnects, CallBegins, ConsumerLeaves,
         AddTopic, RemoveTopic, DebugBegins, DebugCancelled, Register, Unregister,
         mainVars, snapshotVars, Beside, TypeOK
    <2>3. CASE UNCHANGED <<snapshotVars, ingestVars>>
      BY <1>i, <2>2, <2>3 DEF snapshotVars, ingestVars, Beside, Shape, TypeOK, SnapshotLife,
         RunLoop, Ingest!HasWs
    <2> QED BY <1>i, <2>1, <2>2, <2>3, CallbacksKeepShape
  <1>2. CASE HubBoots \/ McpBoots
    <2>1. /\ phase = "boot" /\ phase' \in {"bind_ws", "serving"} /\ UNCHANGED <<mode, debug, listening, late>>
          /\ sub' = "open" /\ tracked' = {} /\ drain' = "on"
          /\ stopping' = FALSE /\ runner = "none" /\ runner' = "spawned" /\ stopper = "idle"
          /\ UNCHANGED <<stopper, cancel, conn, receive, reconcile, watchdog>>
      BY <1>2 DEF HubBoots, McpBoots, CoreStarts, SnapshotStart, Ingest!Start,
         Ingest!demandVars, Ingest!reconVars, Ingest!taskVars, Ingest!netVars
    <2>2. TypeOK' /\ SnapshotLife'
      BY <1>i, <2>1 DEF TypeOK, SnapshotLife, While
    <2>3. RunLoop'
      BY <1>i, <2>1 DEF RunLoop, Ingest!HasWs
    <2> QED BY <2>2, <2>3 DEF Shape
  <1>3. CASE ServersStep \/ DebugJoined \/ StopSignal
    <2>1. /\ UNCHANGED <<mode, sub, tracked, drain, stopping, stopper, cancel, runner, conn,
                         receive, reconcile, watchdog, upState>>
          /\ debug' \in {debug, "off", "spawned"}
          /\ listening' \in {listening, TRUE, FALSE} /\ late' = late
          /\ phase \in While /\ phase' \in While
      BY <1>3 DEF ServersStep, WSStarts, StatusStarts, StatusStopped, DebugJoined,
         StopSignal, HubStops, McpStops, Moves, snapshotVars, ingestVars, While
    <2>2. TypeOK' /\ SnapshotLife'
      BY <1>i, <2>1 DEF TypeOK, SnapshotLife, While
    <2>3. RunLoop'
      BY <1>i, <2>1 DEF RunLoop, Ingest!HasWs, While
    <2> QED BY <2>2, <2>3 DEF Shape
  <1>4. CASE BindFails
    <2>1. /\ phase \in While /\ phase' = "failed" /\ drain' = "cancelled"
          /\ UNCHANGED <<mode, debug, listening, late, sub, tracked, stopping, stopper,
                         runner, conn, receive, reconcile, watchdog, upState>>
          /\ cancel' = IF runner \in {"joining", "done"} THEN cancel ELSE "requested"
      BY <1>4 DEF BindFails, Ingest!CancelRunner, While
    <2>2. CoreUp
      BY <1>i, <2>1 DEF Lifecycle
    <2>3. TypeOK' /\ SnapshotLife'
      BY <1>i, <2>1, <2>2 DEF TypeOK, SnapshotLife, CoreUp, While
    <2>4. RunLoop'
      BY <1>i, <2>1, <2>2 DEF RunLoop, CoreUp, Ingest!HasWs
    <2> QED BY <2>3, <2>4 DEF Shape
  <1>5. CASE ServersStopped \/ TransportJoined
    <2>1. /\ phase \in While /\ phase' = "ingest" /\ Ingest!StopBegins
          /\ UNCHANGED <<mode, debug, listening, late, sub, tracked, drain>>
      BY <1>5 DEF ServersStopped, TransportJoined, IngestStops, snapshotVars, While
    <2>2. CoreUp
      BY <1>i, <2>1 DEF Lifecycle
    <2>3. TypeOK' /\ SnapshotLife'
      BY <1>i, <2>1, <2>2 DEF TypeOK, SnapshotLife, CoreUp, While
    <2>4. /\ stopping' = TRUE /\ stopper' # "idle"
          /\ UNCHANGED <<runner, receive, reconcile, watchdog>>
          /\ conn' = IF Ingest!HasWs THEN "shut" ELSE conn
          /\ cancel' \in {"no", "requested"}
          /\ cancel' = "requested" => ~Ingest!HasWs /\ runner # "done"
      BY <2>1, <2>2 DEF Ingest!StopBegins, Ingest!CancelRunner, Ingest!Shut, CoreUp,
         Ingest!netVars, Ingest!reconVars, Ingest!taskVars
    <2>5. RunLoop'
      BY <1>i, <2>1, <2>2, <2>4 DEF RunLoop, CoreUp, Ingest!HasWs
    <2> QED BY <2>3, <2>5 DEF Shape
  <1>6. CASE IngestStopped \/ SnapshotStopped \/ ExitStep
    <2>1. /\ UNCHANGED <<mode, debug, late, stopping, stopper, cancel, runner, conn, receive,
                         reconcile, watchdog, upState>>
          /\ listening' \in {listening, FALSE}
      BY <1>6 DEF IngestStopped, SnapshotStopped, ExitStep, DrainCancelled, Exit, mainVars,
         ingestVars
    <2>2. \/ /\ phase = "ingest" /\ stopper = "idle" /\ phase' = "snapshot"
             /\ sub' = "closed" /\ drain' = "cancelled" /\ tracked' = tracked
          \/ /\ phase = "snapshot" /\ phase' = "stopped"
             /\ sub' = "none" /\ drain' = "off" /\ tracked' = {}
          \/ /\ phase = "failed" /\ phase' = "failed"
             /\ sub' = sub /\ drain' = "off" /\ tracked' = tracked
          \/ /\ phase \in {"stopped", "failed"} /\ phase' = "exited"
             /\ drain = "off" /\ runner \in {"none", "done"}
             /\ sub' = sub /\ drain' = drain /\ tracked' = tracked
      BY <1>6 DEF IngestStopped, SnapshotStop, SnapshotStopped, SnapshotJoined, ExitStep,
         DrainCancelled, Exit, mainVars, snapshotVars
    <2>3. TypeOK' /\ SnapshotLife'
      BY <1>i, <2>1, <2>2 DEF TypeOK, SnapshotLife, While
    <2>4. RunLoop'
      BY <1>i, <2>1, <2>2 DEF RunLoop, Ingest!HasWs
    <2> QED BY <2>3, <2>4 DEF Shape
  <1>7. CASE IngestStep
    <2>1. /\ UNCHANGED <<mode, phase, debug, listening, late, sub, tracked, drain>>
          /\ Ingest!OwnStep \/ Ingest!EnvStep
      BY <1>7 DEF IngestStep, mainVars, snapshotVars
    <2>2. TypeOK' /\ SnapshotLife'
      BY <1>i, <2>1 DEF TypeOK, SnapshotLife, While
    <2>3. RunLoop'
      BY <1>i, <2>1, IngestKeepsRunLoop
    <2> QED BY <2>2, <2>3 DEF Shape
  <1>8. CASE UNCHANGED hubVars
    BY <1>8, <1>i DEF hubVars, mainVars, snapshotVars, ingestVars, Shape, TypeOK,
       SnapshotLife, RunLoop, While, Ingest!HasWs
  <1> QED BY <1>1, <1>2, <1>3, <1>4, <1>5, <1>6, <1>7, <1>8 DEF Next, MainStep

(* Every step but a failed start is a step of the ingest's specification,  *)
(* or leaves the ingest alone.                                             *)
LEMMA HubStepsIngest ==
  ASSUME IInv, [Next]_hubVars, [~BindFails]_hubVars
  PROVE  [Ingest!Next]_(Ingest!ingestVars)
  <1>1. CASE ConsumerStep \/ DebugStep
    <2>1. \/ \E ts \in SUBSET Topics : OnFirst(ts) \/ OnLast(ts)
          \/ UNCHANGED ingestVars
      <3>1. \A ts \in SUBSET Topics : Registry!FirstHeld(ts) \in SUBSET Topics
        BY DEF Registry!FirstHeld
      <3>2. \A c, ts : Registry!LastHeld(c, ts) \in SUBSET Topics
        BY DEF Registry!LastHeld, Registry!ActiveTopics, IInv, RP!IInv, RP!TypeOK,
           RP!ActiveTopics
      <3>3. ASSUME NEW c, NEW ts \in SUBSET Topics, Register(c, ts)
            PROVE  \E us \in SUBSET Topics : OnFirst(us)
        BY <3>1, <3>3 DEF Register
      <3>4. ASSUME NEW c, Unregister(c) PROVE \E us \in SUBSET Topics : OnLast(us)
        BY <3>2, <3>4 DEF Unregister
      <3>5. ASSUME NEW c, NEW t \in Topics, AddTopic(c, t) \/ RemoveTopic(c, t)
            PROVE  \E us \in SUBSET Topics : OnFirst(us) \/ OnLast(us)
        BY <3>1, <3>2, <3>5 DEF AddTopic, RemoveTopic
      <3>6. DebugTopics \in SUBSET Topics
        BY HubAssumption
      <3>7. CASE DebugStep
        BY <3>3, <3>4, <3>6, <3>7 DEF DebugStep, DebugBegins, DebugCancelled
      <3>8. ASSUME NEW c \in Consumers, ClientConnects(c) \/ ConsumerLeaves(c)
                     \/ \E t \in Topics : CallBegins(c, t)
            PROVE  \E us \in SUBSET Topics : OnFirst(us) \/ OnLast(us)
        BY <3>3, <3>4, <3>8 DEF ClientConnects, ConsumerLeaves, CallBegins
      <3> QED BY <1>1, <3>5, <3>7, <3>8 DEF ConsumerStep
    <2>2. ASSUME NEW ts \in SUBSET Topics, OnFirst(ts) \/ OnLast(ts) PROVE Ingest!Next
      BY <2>2 DEF OnFirst, OnLast, Ingest!Next, Ingest!DemandStep
    <2> QED BY <2>1, <2>2 DEF ingestVars, Ingest!ingestVars, Ingest!demandVars,
            Ingest!reconVars, Ingest!taskVars, Ingest!runnerVars, Ingest!stopVars,
            Ingest!netVars
  <1>2. CASE MainStep \/ TransportJoined
    <2>1. Ingest!Start \/ Ingest!StopBegins \/ UNCHANGED ingestVars
      BY <1>2 DEF MainStep, TransportJoined, HubBoots, McpBoots, CoreStarts, ServersStep,
         WSStarts, StatusStarts, StatusStopped, DebugJoined, Moves, ServersStopped,
         IngestStops, IngestStopped, SnapshotStopped
    <2> QED BY <2>1 DEF Ingest!Next, ingestVars, Ingest!ingestVars, Ingest!demandVars,
            Ingest!reconVars, Ingest!taskVars, Ingest!runnerVars, Ingest!stopVars,
            Ingest!netVars
  <1>3. CASE IngestStep
    BY <1>3 DEF IngestStep, Ingest!Next
  <1>4. CASE StopSignal \/ ExitStep \/ UNCHANGED hubVars
    <2>1. UNCHANGED ingestVars
      BY <1>4 DEF StopSignal, HubStops, McpStops, Moves, ExitStep, DrainCancelled, Exit,
         hubVars
    <2> QED BY <2>1 DEF ingestVars, Ingest!ingestVars, Ingest!demandVars,
            Ingest!reconVars, Ingest!taskVars, Ingest!runnerVars, Ingest!stopVars,
            Ingest!netVars
  <1> QED BY <1>1, <1>2, <1>3, <1>4 DEF Next

(* One and the same step, under the names of the two instances.            *)
LEMMA SameIngest == [Ingest!Next]_(Ingest!ingestVars) => [IP!Next]_(IP!ingestVars)
  <1> USE DEF Ingest!demandVars, IP!demandVars, Ingest!reconVars, IP!reconVars,
      Ingest!taskVars, IP!taskVars, Ingest!runnerVars, IP!runnerVars, Ingest!stopVars,
      IP!stopVars, Ingest!netVars, IP!netVars, Ingest!ingestVars, IP!ingestVars,
      Ingest!HasWs, IP!HasWs, Ingest!Shut, IP!Shut, Ingest!Lesser, IP!Lesser,
      Ingest!CancelRunner, IP!CancelRunner
  <1>1. Ingest!DemandStep => IP!DemandStep
    BY DEF Ingest!DemandStep, IP!DemandStep, Ingest!OnFirstSubscriber,
        IP!OnFirstSubscriber, Ingest!OnLastUnsubscriber, IP!OnLastUnsubscriber
  <1>2. Ingest!Start => IP!Start
    BY DEF Ingest!Start, IP!Start
  <1>3. Ingest!StopBegins => IP!StopBegins
    BY DEF Ingest!StopBegins, IP!StopBegins
  <1>4. Ingest!RunnerStep => IP!RunnerStep
    BY DEF Ingest!RunnerStep, IP!RunnerStep, Ingest!RunBegins, IP!RunBegins,
        Ingest!EnsureUpstreamRegistered, IP!EnsureUpstreamRegistered,
        Ingest!ConnectSucceeds, IP!ConnectSucceeds, Ingest!MarkConnected,
        IP!MarkConnected, Ingest!SessionForgetsActive, IP!SessionForgetsActive,
        Ingest!ConnectFails, IP!ConnectFails, Ingest!LeaveOrBackOff, IP!LeaveOrBackOff,
        Ingest!BackoffEnds, IP!BackoffEnds, Ingest!NextBackoff, IP!NextBackoff,
        Ingest!SessionEnds, IP!SessionEnds, Ingest!JoinReturns, IP!JoinReturns,
        Ingest!NoFrame, IP!NoFrame, Ingest!NothingToDo, IP!NothingToDo,
        Ingest!AexitReturns, IP!AexitReturns, Ingest!RunnerCancelled, IP!RunnerCancelled
  <1>5. Ingest!ReceiveEnds => IP!ReceiveEnds
    BY DEF Ingest!ReceiveEnds, IP!ReceiveEnds
  <1>6. Ingest!ReconcileWakes => IP!ReconcileWakes
    BY DEF Ingest!ReconcileWakes, IP!ReconcileWakes, Ingest!Continue, IP!Continue,
        Ingest!SendNext, IP!SendNext, Ingest!NoFrame, IP!NoFrame, Ingest!NothingToDo,
        IP!NothingToDo
  <1>7. Ingest!SendReturns => IP!SendReturns
    BY DEF Ingest!SendReturns, IP!SendReturns, Ingest!Continue, IP!Continue,
        Ingest!SendNext, IP!SendNext, Ingest!NoFrame, IP!NoFrame, Ingest!NothingToDo,
        IP!NothingToDo, Ingest!Applied, IP!Applied
  <1>8. Ingest!WatchdogStep => IP!WatchdogStep
    BY DEF Ingest!WatchdogStep, IP!WatchdogStep, Ingest!WatchdogQuits, IP!WatchdogQuits,
        Ingest!WatchdogExpires, IP!WatchdogExpires, Ingest!WatchdogCloses,
        IP!WatchdogCloses
  <1>9. Ingest!StopStep => IP!StopStep
    BY DEF Ingest!StopStep, IP!StopStep, Ingest!StopCancels, IP!StopCancels,
        Ingest!StopReturns, IP!StopReturns
  <1>10. Ingest!EnvStep => IP!EnvStep
    BY DEF Ingest!EnvStep, IP!EnvStep, Ingest!ConnLost, IP!ConnLost,
        Ingest!ServerApplies, IP!ServerApplies, Ingest!Applied, IP!Applied, Ingest!Tick,
        IP!Tick, Ingest!ReceiveFrame, IP!ReceiveFrame, Ingest!FrameKinds, IP!FrameKinds,
        Ingest!Uncaught, IP!Uncaught
  <1> QED BY <1>1, <1>2, <1>3, <1>4, <1>5, <1>6, <1>7, <1>8, <1>9, <1>10
         DEF Ingest!Next, IP!Next, Ingest!OwnStep, IP!OwnStep, Ingest!ReconcileStep,
             IP!ReconcileStep

(* What a session of the ingest rests on holds in the hub too, also when   *)
(* it is asyncio.run that cancels the run loop.                            *)
LEMMA SessionStep ==
  ASSUME IInv, [Next]_hubVars
  PROVE  IP!SessionInv'
  <1>a. IP!IngestAssumption
    BY HubIngestAssumption DEF IP!IngestAssumption
  <1>i. IP!SessionInv
    BY DEF IInv
  <1>1. CASE BindFails
    <2>1. UNCHANGED <<desired, event, reconcile, sending, todo, active, upTopics, receive,
                      watchdog, age, runner, backoff, upState, reconnects, stopping,
                      stopper, starts, conn, wire, serverSubs>>
      BY <1>1 DEF BindFails
    <2>2. CoreUp
      BY <1>1 DEF BindFails, IInv, Lifecycle, While
    <2>3. cancel' = IF runner \in {"joining", "done"} THEN cancel ELSE "requested"
      BY <1>1 DEF BindFails, Ingest!CancelRunner
    <2>4. IP!CancelMatchesRunner'
      BY <1>i, <2>1, <2>2, <2>3
      DEF CoreUp, IP!SessionInv, IP!CancelMatchesRunner, IP!TypeOK
    <2>5. IP!TypeOK'
      BY <1>i, <2>1, <2>2, <2>3 DEF CoreUp, IP!SessionInv, IP!TypeOK
    <2>6. IP!TasksMatchRunner' /\ IP!NoLostWakeup' /\ IP!BeliefMatchesExchange'
            /\ IP!ReportMatchesBelief'
      BY <1>i, <2>1
      DEF IP!SessionInv, IP!TasksMatchRunner, IP!HasWs, IP!NoLostWakeup, IP!Planned,
          IP!BeliefMatchesExchange, IP!WillServe, IP!ReportMatchesBelief
    <2> QED BY <2>4, <2>5, <2>6 DEF IP!SessionInv
  <1>2. CASE ~BindFails \/ UNCHANGED hubVars
    <2>1. [Ingest!Next]_(Ingest!ingestVars)
      BY <1>2, HubStepsIngest
    <2>2. [IP!Next]_(IP!ingestVars)
      BY <2>1, SameIngest
    <2> QED BY <1>a, <1>i, <2>2, IP!SessionStep
  <1> QED BY <1>1, <1>2

LEMMA HubStepIInv == IInv /\ [Next]_hubVars => IInv'
  <1> SUFFICES ASSUME IInv, [Next]_hubVars PROVE IInv'
    OBVIOUS
  <1>1. [RP!Next]_registryVars /\ OneDemand' /\ Lifecycle'
    BY HubStep
  <1>2. [RP!Next]_(RP!registryVars)
    BY <1>1 DEF registryVars, RP!registryVars
  <1>3. RP!IInv'
    BY <1>2, RP!NextIInv DEF IInv
  <1>4. Shape'
    BY <1>1, ShapeStep
  <1>5. IP!SessionInv'
    BY SessionStep
  <1> QED BY <1>1, <1>3, <1>4, <1>5 DEF IInv

LEMMA HubInvariant == Spec => []IInv
  BY HubInit, HubStepIInv, PTL DEF Spec

-----------------------------------------------------------------------------
(* The callbacks and the life cycle around it leave the registry what it   *)
(* is: the composition implements the registry's specification, so that    *)
(* the theorems about Registry hold of the hub.                            *)
THEOREM HubImplementsRegistry == Spec => Registry!Spec
  <1>1. Init => Registry!Init
    BY DEF Init
  <1>2. IInv /\ [Next]_hubVars => [Registry!Next]_(Registry!registryVars)
    <2> SUFFICES ASSUME IInv, [Next]_hubVars
                 PROVE  [Registry!Next]_(Registry!registryVars)
      OBVIOUS
    <2>1. [RP!Next]_registryVars
      BY HubStep
    <2> QED BY <2>1 DEF registryVars, Registry!registryVars, RP!Next, Registry!Next,
         Registry!RegisterConsumer, RP!RegisterConsumer, Registry!UnregisterConsumer,
         RP!UnregisterConsumer, Registry!AddTopic, RP!AddTopic, Registry!RemoveTopic,
         RP!RemoveTopic, Registry!Fire, RP!Fire,
         Registry!IncrementRefcount, RP!IncrementRefcount, Registry!FirstHeld, RP!FirstHeld,
         Registry!DecrementRefcount, RP!DecrementRefcount, Registry!LastHeld, RP!LastHeld,
         Registry!TopicSubscribers, RP!TopicSubscribers, Registry!ActiveTopics,
         RP!ActiveTopics
  <1> QED BY <1>1, <1>2, HubInvariant, PTL DEF Spec, Registry!Spec

(* As long as every server can bind, the hub runs the ingest as Ingest     *)
(* says it is run: it starts it once, stops it once, and tells it of       *)
(* topics.  So what is proved of Ingest holds of the ingest in the hub.    *)
THEOREM HubImplementsIngest == Spec /\ [][~BindFails]_hubVars => Ingest!Spec
  <1>1. Init => Ingest!Init
    BY DEF Init
  <1>2. IInv /\ [Next]_hubVars /\ [~BindFails]_hubVars => [Ingest!Next]_(Ingest!ingestVars)
    BY HubStepsIngest
  <1> QED BY <1>1, <1>2, HubInvariant, PTL DEF Spec, Ingest!Spec

(* Registry, ingest and snapshot store agree on the demand (__main__.py,   *)
(* _build_core), whoever joins, leaves or changes topics, at any moment of *)
(* the life of the process.                                                *)
THEOREM HubOneDemand == Spec => []OneDemand
  <1>1. IInv => OneDemand
    BY DEF IInv
  <1> QED BY <1>1, HubInvariant, PTL

(* Consumers are never served by a core that is down.                      *)
THEOREM HubConsumersServed == Spec => []ConsumersServed
  <1>1. IInv => ConsumersServed
    BY DEF IInv, Lifecycle, CoreUp, ConsumersServed, Before, While, After
  <1> QED BY <1>1, HubInvariant, PTL

(* coinbase.py's reconcile loop behind __main__.py's callbacks: whenever   *)
(* the loop rests with nothing to do, what it has asked for and reported   *)
(* is what the consumers hold in scope, and the exchange will send what it *)
(* trades of it.  The demand is theirs (OneDemand), what the loop has      *)
(* planned is the demand (NoLostWakeup), what it believes is what the      *)
(* exchange has been told (BeliefMatchesExchange), and what it reports is  *)
(* what it believes (ReportMatchesBelief).                                 *)
THEOREM HubUpstreamServesHeld == Spec => []UpstreamServesHeld
  <1>1. ASSUME IInv, runner = "session", conn = "open", reconcile = "wait", ~event
        PROVE  /\ active = Held \cap InScope
               /\ upTopics = Held \cap InScope
               /\ Ingest!WillServe = Held \cap Traded
    <2>i. /\ IP!TasksMatchRunner /\ IP!NoLostWakeup /\ IP!BeliefMatchesExchange
          /\ IP!ReportMatchesBelief
      BY <1>1 DEF IInv, IP!SessionInv
    <2>1. sending = IP!NoFrame /\ todo = IP!NothingToDo
      BY <1>1, <2>i DEF IP!TasksMatchRunner
    <2>2. IP!Applied(active, sending) = active
      BY <2>1 DEF IP!Applied, IP!NoFrame
    <2>3. IP!Planned = active
      BY <2>1, <2>2 DEF IP!Planned, IP!NothingToDo
    <2>4. IP!Planned = desired
      BY <1>1, <2>i DEF IP!NoLostWakeup
    <2>5. active = Held \cap InScope
      BY <1>1, <2>3, <2>4 DEF IInv, OneDemand
    <2>6. upTopics = active
      BY <1>1, <2>i DEF IP!ReportMatchesBelief
    <2>7. Ingest!WillServe = active \cap Traded
      <3>1. IP!WillServe = active \cap Traded
        BY <1>1, <2>i, <2>2 DEF IP!BeliefMatchesExchange
      <3>2. Ingest!WillServe = IP!WillServe
        BY DEF Ingest!WillServe, IP!WillServe
      <3> QED BY <3>1, <3>2
    <2>8. Held \cap InScope \cap Traded = Held \cap Traded
      BY HubIngestAssumption
    <2> QED BY <2>5, <2>6, <2>7, <2>8
  <1>2. IInv => UpstreamServesHeld
    BY <1>1 DEF UpstreamServesHeld
  <1> QED BY <1>2, HubInvariant, PTL

(* Type correctness, and the store's subscription as long as its drain     *)
(* task, except after a failed start.                                      *)
THEOREM HubTypeOK == Spec => []TypeOK
  <1>1. IInv => TypeOK
    BY DEF IInv, Shape
  <1> QED BY <1>1, HubInvariant, PTL

(* __main__.py, run_hub and run_mcp, and asyncio.run around them: what was *)
(* started is stopped, and the process ends with no task of the core and   *)
(* no connection, also when a server could not bind.  A hub that stopped   *)
(* in order ends with no consumer and no demand; what is left after a      *)
(* failed start, or of late calls, is the latecomers' alone.               *)
THEOREM HubCleanShutdown == Spec => []CleanShutdown
  <1>1. ASSUME IInv PROVE CleanShutdown
    <2>i. Lifecycle /\ SnapshotLife /\ RunLoop
      BY <1>1 DEF IInv, Shape
    <2>1. ASSUME phase = "stopped"
          PROVE  /\ Ingest!QuietAfterStop /\ stopping /\ stopper = "idle"
                 /\ sub = "none" /\ drain = "off"
                 /\ mode = "hub" => consumers = {}
      <3>1. stopping /\ stopper = "idle" /\ runner = "none"
        BY <2>i, <2>1 DEF RunLoop
      <3>2. Ingest!QuietAfterStop
        BY <2>i, <3>1 DEF RunLoop, Ingest!QuietAfterStop, Ingest!HasWs
      <3> QED BY <2>i, <2>1, <3>1, <3>2 DEF Lifecycle, SnapshotLife
    <2>2. ASSUME phase = "exited"
          PROVE  /\ runner \in {"none", "done"} /\ conn = "none" /\ cancel = "no"
                 /\ receive = "off" /\ reconcile = "off" /\ watchdog = "off"
                 /\ drain = "off"
                 /\ mode = "hub" /\ stopping => consumers = {}
                 /\ \A t \in DOMAIN refcount : refcount[t] # {} /\ refcount[t] \subseteq late
                 /\ desired \subseteq DOMAIN refcount
      <3>1. consumers \subseteq late /\ (mode = "hub" /\ stopping => consumers = {})
        BY <2>i, <2>2 DEF Lifecycle
      <3>2. ASSUME NEW t \in DOMAIN refcount
            PROVE  refcount[t] # {} /\ refcount[t] \subseteq consumers
        BY <1>1 DEF IInv, RP!IInv, RP!RefcountExact, RP!ActiveTopics, RP!HoldersOf
      <3>3. desired \subseteq DOMAIN refcount
        BY <1>1 DEF IInv, OneDemand, Held, RP!IInv, RP!RefcountExact, RP!ActiveTopics,
           RP!HoldersOf
      <3>4. runner \in {"none", "done"} /\ drain = "off"
        BY <2>i, <2>2 DEF RunLoop, SnapshotLife
      <3>5. /\ conn = "none" /\ cancel = "no"
            /\ receive = "off" /\ reconcile = "off" /\ watchdog = "off"
        BY <2>i, <3>4 DEF RunLoop, Ingest!HasWs
      <3> QED BY <3>1, <3>2, <3>3, <3>4, <3>5
    <2> QED BY <2>1, <2>2 DEF CleanShutdown
  <1> QED BY <1>1, HubInvariant, PTL
=============================================================================
