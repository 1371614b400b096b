-------------------------------- MODULE Hub ---------------------------------
(***************************************************************************)
(* __main__.py: the core that _build_core wires together (registry, ingest *)
(* and snapshot store, connected by the registry's callbacks), the order   *)
(* in which run_hub and run_mcp start and stop it, what asyncio.run cleans *)
(* up after them, and the consumers that come and go meanwhile: WebSocket  *)
(* clients and the debug consumer in hub mode, tool calls in mcp mode.     *)
(* They reach the core only through the registry's operations.             *)
(***************************************************************************)
EXTENDS Integers, Sequences

CONSTANTS Consumers, Topics, InScope, Traded, ChannelOf, HeartbeatTimeout,
          InitialBackoff, MaxBackoff, WireCap, MaxReconnects, MaxStarts,
          DebugCli,     \* the consumer of _debug_consumer, in hub mode
          DebugTopics   \* MDB_DEBUG_SUBSCRIBE

ASSUME HubAssumption ==
  /\ DebugCli \in Consumers
  /\ DebugTopics \subseteq Topics

\* As for the ingest by itself.
ASSUME HubIngestAssumption ==
  /\ InScope \subseteq Topics /\ Traded \subseteq InScope
  /\ DOMAIN ChannelOf = Topics
  /\ {HeartbeatTimeout, WireCap, MaxReconnects, MaxStarts} \subseteq Nat
  /\ {InitialBackoff, MaxBackoff} \subseteq Nat \ {0}
  /\ InitialBackoff <= MaxBackoff

VARIABLES
  mode,     \* hub or mcp: the command on the command line
  phase,    \* where run_hub or run_mcp is
  debug,    \* the debug consumer's task
  listening,\* ws_server's listening socket is open
  late,     \* consumers that asyncio.run neither cancels nor awaits
  sub,      \* the snapshot store's subscription: none, open or closed
  tracked,  \* its topics
  drain,    \* the snapshot store's drain task
  consumers, topics, refcount, balance,
  desired, active, event, stopping, runner, cancel, stopper, receive, reconcile,
  watchdog, sending, todo, age, backoff, upState, upTopics, reconnects, starts,
  conn, wire, serverSubs

Registry == INSTANCE Registry
Ingest == INSTANCE Ingest

snapshotVars == <<sub, tracked, drain>>
registryVars == <<consumers, topics, refcount, balance>>
ingestVars ==
  <<desired, event, reconcile, sending, todo, active, upTopics, receive, watchdog,
    age, runner, cancel, backoff, upState, reconnects, stopping, stopper, starts,
    conn, wire, serverSubs>>
mainVars == <<mode, phase, debug, listening>>
hubVars == <<mainVars, late, snapshotVars, registryVars, ingestVars>>

Init ==
  /\ mode \in {"hub", "mcp"} /\ phase = "boot" /\ debug = "off"
  /\ listening = FALSE /\ late = {}
  /\ sub = "none" /\ tracked = {} /\ drain = "off"
  /\ Registry!Init
  /\ Ingest!Init

-----------------------------------------------------------------------------
(* SnapshotStore.                                                          *)

\* track and untrack are no-ops without an open subscription.
Track(ts) == tracked' = IF sub = "open" THEN tracked \cup ts ELSE tracked

Untrack(ts) == tracked' = IF sub = "open" THEN tracked \ ts ELSE tracked

\* start(): a fresh subscription, with no topics, and the drain task.
SnapshotStart ==
  /\ drain = "off"
  /\ sub' = "open" /\ tracked' = {} /\ drain' = "on"

\* stop() up to joining the drain task it has cancelled.
SnapshotStop ==
  /\ sub' = "closed"
  /\ drain' = "cancelled"
  /\ UNCHANGED tracked

\* The closed subscription is kept.
SnapshotJoinedKeepsSub ==
  /\ drain = "cancelled"
  /\ drain' = "off"
  /\ UNCHANGED <<sub, tracked>>

SnapshotJoined ==
  /\ drain = "cancelled"
  /\ sub' = "none" /\ tracked' = {} /\ drain' = "off"

-----------------------------------------------------------------------------
(* The callbacks that _build_core gives the registry.                      *)

\* The snapshot store is not told of topics that lose their last holder.
OnLastIngestOnly(ts) ==
  /\ Ingest!OnLastUnsubscriber(ts)
  /\ UNCHANGED tracked

OnFirst(ts) == Ingest!OnFirstSubscriber(ts) /\ Track(ts)

OnLast(ts) == Ingest!OnLastUnsubscriber(ts) /\ Untrack(ts)

Register(c, ts) ==
  /\ Registry!RegisterConsumer(c, ts)
  /\ OnFirst(Registry!FirstHeld(ts))
  /\ UNCHANGED <<sub, drain>>

Unregister(c) ==
  /\ Registry!UnregisterConsumer(c)
  /\ OnLast(Registry!LastHeld(c, topics[c]))
  /\ UNCHANGED <<sub, drain>>

-----------------------------------------------------------------------------
(* WebSocket clients: they connect while ws_server listens, with no topic. *)
(* After a failed start nobody closes its listener: asyncio.run's clean-up *)
(* runs the event loop until the tasks it has cancelled are over, and who  *)
(* connects meanwhile is not one of them.                                  *)

WSListens == listening

ClientConnects(c) ==
  /\ WSListens /\ c # DebugCli
  /\ Register(c, {})
  /\ late' = IF phase = "failed" THEN late \cup {c} ELSE late
  /\ UNCHANGED mainVars

AddTopic(c, t) ==
  /\ mode = "hub" /\ c # DebugCli
  /\ Registry!AddTopic(c, t)
  /\ OnFirst(Registry!FirstHeld({t}))
  /\ UNCHANGED <<mainVars, late, sub, drain>>

RemoveTopic(c, t) ==
  /\ mode = "hub" /\ c # DebugCli
  /\ Registry!RemoveTopic(c, t)
  /\ OnLast(Registry!LastHeld(c, {t}))
  /\ UNCHANGED <<mainVars, late, sub, drain>>

(* Tool calls: what the mcp library does with them once run_mcp has        *)
(* cancelled its task is its own business, to the end of the process.      *)

CallBegins(c, t) ==
  /\ mode = "mcp"
  /\ phase \in {"serving", "transport", "ingest", "snapshot", "stopped"}
  /\ Register(c, {t})
  /\ late' = IF phase = "stopped" THEN late \cup {c} ELSE late
  /\ UNCHANGED mainVars

\* A client's handler or a call ends, by itself or because it is cancelled.
ConsumerLeaves(c) ==
  /\ mode = "hub" => c # DebugCli
  /\ Unregister(c)
  /\ late' = late \ {c}
  /\ UNCHANGED mainVars

ConsumerStep ==
  /\ phase # "exited"
  /\ \E c \in Consumers :
       \/ ClientConnects(c) \/ ConsumerLeaves(c)
       \/ \E t \in Topics : AddTopic(c, t) \/ RemoveTopic(c, t) \/ CallBegins(c, t)

(* _debug_consumer: its task runs once the hub is ready, until cancelled.  *)

DebugBegins ==
  /\ debug = "spawned" /\ phase = "serving"
  /\ debug' = "on"
  /\ Register(DebugCli, DebugTopics)
  /\ UNCHANGED <<mode, phase, listening, late>>

\* The cancelled task does not unregister.
DebugAbandons ==
  /\ phase = "debug" /\ debug \in {"spawned", "on"}
  /\ debug' = "done"
  /\ UNCHANGED <<mode, phase, listening, late, snapshotVars, registryVars, ingestVars>>

\* A task that is cancelled before it has run never registers.
DebugCancelled ==
  /\ phase = "debug"
  /\ debug' = "done"
  /\ \/ debug = "on" /\ Unregister(DebugCli)
     \/ debug = "spawned" /\ UNCHANGED <<snapshotVars, registryVars, ingestVars>>
  /\ UNCHANGED <<mode, phase, listening, late>>

DebugStep == DebugBegins \/ DebugCancelled

-----------------------------------------------------------------------------
(* run_hub and run_mcp.                                                    *)

\* A step of the main task that leaves the core alone.
Moves(from, to) ==
  /\ phase = from /\ phase' = to
  /\ UNCHANGED <<mode, late, snapshotVars, registryVars, ingestVars>>

CoreStarts ==
  /\ SnapshotStart
  /\ Ingest!Start
  /\ UNCHANGED <<mode, debug, listening, late, registryVars>>

\* snapshot.start() and ingest.start() do not suspend; ws_server.start() does.
HubBoots ==
  /\ mode = "hub" /\ phase = "boot"
  /\ phase' = "bind_ws"
  /\ CoreStarts

\* run_mcp suspends when it waits for the transport's end or a signal.
McpBoots ==
  /\ mode = "mcp" /\ phase = "boot"
  /\ phase' = "serving"
  /\ CoreStarts

WSStarts ==
  /\ Moves("bind_ws", "bind_status")
  /\ listening' = TRUE
  /\ UNCHANGED debug

\* status_server.start() returns; the debug consumer may be asked for.
StatusStarts ==
  /\ Moves("bind_status", "serving")
  /\ debug' \in {"off", "spawned"}
  /\ UNCHANGED listening

\* A server cannot bind: run_hub raises before its "try", so that nothing is
\* stopped, not even a ws_server that listens by then, and asyncio.run
\* cancels every task there is.
BindFails ==
  /\ phase \in {"bind_ws", "bind_status"}
  /\ phase' = "failed"
  /\ drain' = "cancelled"
  /\ Ingest!CancelRunner
  /\ UNCHANGED <<mode, debug, listening, late, sub, tracked, registryVars, desired, event, reconcile,
                 sending, todo, active, upTopics, receive, watchdog, age, runner,
                 backoff, upState, reconnects, stopping, stopper, starts, conn, wire,
                 serverSubs>>

\* SIGINT or SIGTERM.
HubStops ==
  /\ mode = "hub"
  /\ Moves("serving", IF debug = "off" THEN "status" ELSE "debug")
  /\ UNCHANGED <<debug, listening>>

\* A signal, or the transport has ended; its task is cancelled and awaited.
McpStops ==
  /\ mode = "mcp"
  /\ Moves("serving", "transport")
  /\ UNCHANGED <<debug, listening>>

StopSignal == HubStops \/ McpStops

DebugJoined ==
  /\ debug = "done"
  /\ Moves("debug", "status")
  /\ UNCHANGED <<debug, listening>>

\* status_server.stop() returns; ws_server.stop() closes its listener and the
\* clients.
StatusStopped ==
  /\ Moves("status", "ws")
  /\ listening' = FALSE
  /\ UNCHANGED debug

IngestStops ==
  /\ phase' = "ingest"
  /\ Ingest!StopBegins
  /\ UNCHANGED <<mode, debug, listening, late, snapshotVars, registryVars>>

\* The ingest is stopped without waiting for the clients to leave.
ServersLeaveEarly == phase = "ws" /\ IngestStops

\* ws_server.stop() returns once every handler has ended; then ingest.stop().
ServersStopped == phase = "ws" /\ consumers = {} /\ IngestStops

\* The mcp library's task has ended, with or without its calls.
TransportJoined == phase = "transport" /\ IngestStops

\* The ingest has been told to stop; its run loop may still be there.
IngestStopUnawaited ==
  /\ phase = "ingest"
  /\ phase' = "snapshot"
  /\ SnapshotStop
  /\ UNCHANGED <<mode, debug, listening, late, registryVars, ingestVars>>

\* ingest.stop() returns; then snapshot.stop().
IngestStopped ==
  /\ phase = "ingest" /\ stopper = "idle"
  /\ phase' = "snapshot"
  /\ SnapshotStop
  /\ UNCHANGED <<mode, debug, listening, late, registryVars, ingestVars>>

SnapshotStopped ==
  /\ phase = "snapshot"
  /\ phase' = "stopped"
  /\ SnapshotJoined
  /\ UNCHANGED <<mode, debug, listening, late, registryVars, ingestVars>>

-----------------------------------------------------------------------------
(* asyncio.run: what there is when it begins is cancelled once and awaited.*)

\* The drain task, cancelled by no stop(): the subscription stays open.
DrainCancelled ==
  /\ phase = "failed" /\ drain = "cancelled"
  /\ drain' = "off"
  /\ UNCHANGED <<mainVars, late, sub, tracked, registryVars, ingestVars>>

\* The loop is closed over the handlers and calls that came too late.
Exit ==
  /\ phase \in {"stopped", "failed"}
  /\ consumers \subseteq late /\ drain = "off" /\ runner \in {"none", "done"}
  /\ phase' = "exited"
  /\ listening' = FALSE
  /\ UNCHANGED <<mode, debug, late, snapshotVars, registryVars, ingestVars>>

ExitStep == DrainCancelled \/ Exit

ServersStep == WSStarts \/ StatusStarts \/ StatusStopped

MainStep ==
  \/ HubBoots \/ McpBoots \/ ServersStep \/ DebugJoined \/ ServersStopped
  \/ IngestStopped \/ SnapshotStopped

IngestStep ==
  /\ Ingest!OwnStep \/ Ingest!EnvStep
  /\ UNCHANGED <<mainVars, late, snapshotVars, registryVars>>

Next ==
  \/ ConsumerStep \/ DebugStep \/ MainStep \/ BindFails \/ StopSignal
  \/ TransportJoined \/ IngestStep \/ ExitStep

Spec == Init /\ [][Next]_hubVars

\* Those who are told to end: by ws_server.stop(), or by asyncio.run.
Leaving(c) == phase \in {"ws", "stopped", "failed"} /\ c \notin late

(* The clients' handlers end once they are told to, and the main task and  *)
(* the ingest's tasks run when they are not suspended.  Nobody tells those *)
(* to end who came too late for asyncio.run, and whether the mcp library   *)
(* gives the main task back is not for this code to say.                   *)
Fairness ==
  /\ \A c \in Consumers : WF_hubVars(Leaving(c) /\ ConsumerLeaves(c))
  /\ WF_hubVars(MainStep) /\ WF_hubVars(DebugStep) /\ WF_hubVars(ExitStep)
  /\ Ingest!Fairness

FairSpec == Spec /\ Fairness

-----------------------------------------------------------------------------
(* Type invariant of the hub's own variables; the subscription of the      *)
(* snapshot store is there exactly as long as its drain task, except after *)
(* a failed start, and what is tracked is known to be topics.              *)
TypeOK ==
  /\ mode \in {"hub", "mcp"}
  /\ phase \in {"boot", "bind_ws", "bind_status", "serving", "debug", "status", "ws",
                "transport", "ingest", "snapshot", "stopped", "failed", "exited"}
  /\ debug \in {"off", "spawned", "on", "done"}
  /\ listening \in BOOLEAN /\ late \subseteq Consumers
  /\ sub \in {"none", "open", "closed"}
  /\ drain \in {"off", "on", "cancelled"}
  /\ tracked \subseteq Topics
  /\ \/ <<drain, sub>> \in {<<"off", "none">>, <<"on", "open">>, <<"cancelled", "closed">>}
     \/ phase \in {"failed", "exited"} /\ drain # "on" /\ sub = "open"

Held == {t \in Topics : \E c \in consumers : t \in topics[c]}

(* The three components agree, whoever joins, leaves or changes topics and *)
(* in whatever state the upstream connection is: the ingest wants the      *)
(* topics in its scope that somebody holds, and while the snapshot store   *)
(* runs it observes exactly the topics somebody holds.                     *)
OneDemand ==
  /\ desired = Held \cap InScope
  /\ sub = "open" => tracked = Held

(* run_hub and run_mcp tear down what they started: the ingest is quiet    *)
(* and not reported as alive, the store is stopped, and in hub mode no     *)
(* consumer is left.  However the process ends, a failed start included,   *)
(* it ends with no task of the core and no connection; the only consumers  *)
(* and the only demand that may be left, and never after an orderly stop   *)
(* of the hub, are those of the latecomers: clients that connect through   *)
(* the listener a failed start leaves open, calls of the mcp library.      *)
CleanShutdown ==
  /\ phase = "stopped" =>
       /\ Ingest!QuietAfterStop /\ stopping /\ stopper = "idle"
       /\ sub = "none" /\ drain = "off"
       /\ mode = "hub" => consumers = {}
  /\ phase = "exited" =>
       /\ runner \in {"none", "done"} /\ conn = "none" /\ cancel = "no"
       /\ receive = "off" /\ reconcile = "off" /\ watchdog = "off" /\ drain = "off"
       /\ mode = "hub" /\ stopping => consumers = {}
       /\ \A t \in DOMAIN refcount : refcount[t] # {} /\ refcount[t] \subseteq late
       /\ desired \subseteq DOMAIN refcount

(* The upstream and the snapshot store outlive the handlers of WebSocket   *)
(* clients and the debug consumer, and a tool call that begins before the  *)
(* transport has ended is served.                                          *)
ConsumersServed ==
  consumers # {} /\ phase \notin {"failed", "exited"}
    /\ (mode = "hub" \/ phase \in {"serving", "transport"})
  => /\ sub = "open" /\ drain = "on"
     /\ ~stopping /\ runner \notin {"none", "done"}

(* End to end: whenever the reconcile loop of a live session rests with    *)
(* nothing to do, the topics in scope that somebody holds have been asked  *)
(* for, no others, and the status document lists them; and the exchange    *)
(* will send those of them that it trades, however the consumers' changes  *)
(* fell between the steps of the loop, and whether the hub is started,     *)
(* being stopped or failed.                                                *)
UpstreamServesHeld ==
  runner = "session" /\ conn = "open" /\ reconcile = "wait" /\ ~event
    => /\ active = Held \cap InScope
       /\ upTopics = Held \cap InScope
       /\ Ingest!WillServe = Held \cap Traded

(* A stop signal is followed by the end of the process, in whatever state  *)
(* the connection, the sends and the consumers are when it comes; in mcp   *)
(* mode from the moment the library's task has ended.  The clients of the  *)
(* status server are taken to read their answers or to go away: only then  *)
(* does status_server.stop() return.                                       *)
ShutdownCompletes ==
  phase \in {"debug", "status", "ws", "ingest"} ~> phase = "exited"

(* A hub that cannot bind ends too, provided the cancellation of the run   *)
(* loop does not fall into the join of a session, which swallows it.       *)
FailedStartExits == phase = "failed" /\ cancel # "no" ~> phase = "exited"

(* Of what consumers hold, the exchange sends what it trades, end to end:  *)
(* unless they keep changing their minds, sessions keep being lost or the  *)
(* hub is shut down, what it sends becomes and stays what it trades of the *)
(* topics held, however many it ignores are asked for beside them.         *)
HeldTopicsFlow ==
  \/ []<><<ConsumerStep>>_hubVars
  \/ []<><<Ingest!Disruption>>_hubVars
  \/ <>(phase \notin {"boot", "bind_ws", "bind_status", "serving"})
  \/ <>[](serverSubs = Held \cap Traded)
=============================================================================
