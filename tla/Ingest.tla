------------------------------- MODULE Ingest -------------------------------
(***************************************************************************)
(* ingest/coinbase.py: CoinbaseIngest.  One run-loop task connects, runs a *)
(* session, backs off and reconnects; a session is three tasks (receive,   *)
(* reconcile, watchdog) of which the first to finish ends the others; the  *)
(* registry's callbacks change the demand at any moment; stop() runs in a  *)
(* task of its own and cancels the run loop wherever it is suspended.      *)
(*                                                                         *)
(* The tasks share one event loop, so a step here is what a task does from *)
(* one suspension point to the next.  The exchange and the connection to   *)
(* it are the environment: the connection delivers frames in order until   *)
(* it is lost, and may be lost at any moment.  A topic of the right form   *)
(* may be of a symbol that the exchange does not trade; the hub cannot     *)
(* know (docs/failure_modes.md, section 1).                                *)
(***************************************************************************)
EXTENDS Integers, Sequences

CONSTANTS
  Topics,            \* topics the registry may ask for
  InScope,           \* those _parse_coinbase_topic accepts
  Traded,            \* environment: those of them whose symbol is traded
  ChannelOf,         \* ChannelOf[t]: the channel part of topic t
  HeartbeatTimeout,  \* _heartbeat_timeout, in ticks
  InitialBackoff,    \* _initial_backoff and _max_backoff, in the same unit
  MaxBackoff,
  WireCap,           \* frames the transport buffers before send() suspends
  MaxReconnects,     \* bound: reconnects are counted up to this
  MaxStarts          \* bound: calls of start() in a behaviour

ASSUME IngestAssumption ==
  /\ InScope \subseteq Topics /\ Traded \subseteq InScope
  /\ DOMAIN ChannelOf = Topics
  /\ {HeartbeatTimeout, WireCap, MaxReconnects, MaxStarts} \subseteq Nat
  /\ {InitialBackoff, MaxBackoff} \subseteq Nat \ {0}
  /\ InitialBackoff <= MaxBackoff

VARIABLES
  desired,     \* _desired: the topics wanted upstream
  active,      \* _active_upstream: the topics believed subscribed
  event,       \* _reconcile_event
  stopping,    \* _stopping
  runner,      \* where the run loop is suspended
  cancel,      \* a cancellation of the run loop: none, requested, or raised
  stopper,     \* where stop() is suspended
  receive,     \* the session's three tasks
  reconcile,
  watchdog,
  sending,     \* the frame the reconcile loop has written and awaits
  todo,        \* what is left of to_add and to_remove in this pass
  age,         \* ticks since _last_msg_at
  backoff,
  upState,     \* the registry's UpstreamConnection: state, topics and
  upTopics,    \* reconnect_count
  reconnects,
  starts,      \* history: calls of start()
  conn,        \* environment: the connection
  wire,        \* environment: frames written and not yet read by the exchange
  serverSubs   \* environment: the topics the exchange sends us

demandVars  == <<desired, event>>
reconVars   == <<reconcile, sending, todo, active, upTopics>>
taskVars    == <<receive, watchdog, age>>
runnerVars  == <<runner, cancel, backoff, upState, reconnects>>
stopVars    == <<stopping, stopper, starts>>
netVars     == <<conn, wire, serverSubs>>
ingestVars  == <<demandVars, reconVars, taskVars, runnerVars, stopVars, netVars>>

Frames == [op : {"subscribe", "unsubscribe"}, topics : SUBSET InScope]
NoFrame == [op |-> "none", topics |-> {}]
NothingToDo == [add |-> {}, remove |-> {}]

\* self._ws is set: from the handshake to the end of __aexit__.
HasWs == runner \in {"session", "joining", "closing"}

Lesser(a, b) == IF a < b THEN a ELSE b

Init ==
  /\ desired = {} /\ event = FALSE
  /\ reconcile = "off" /\ sending = NoFrame /\ todo = NothingToDo
  /\ active = {} /\ upTopics = {}
  /\ receive = "off" /\ watchdog = "off" /\ age = 0
  /\ runner = "none" /\ cancel = "no" /\ backoff = InitialBackoff
  /\ upState = "absent" /\ reconnects = 0
  /\ stopping = FALSE /\ stopper = "idle" /\ starts = 0
  /\ conn = "none" /\ wire = <<>> /\ serverSubs = {}

-----------------------------------------------------------------------------
(* Registry callbacks, for the topics ts of one registry call.             *)

OnFirstSubscriber(ts) ==
  /\ desired' = desired \cup (ts \cap InScope)
  /\ event' = (event \/ ts \cap InScope # {})
  /\ UNCHANGED <<reconVars, taskVars, runnerVars, stopVars, netVars>>

\* The demand goes without a signal to the reconcile loop.
OnLastSilently(ts) ==
  /\ desired' = desired \ (ts \cap InScope)
  /\ UNCHANGED <<event, reconVars, taskVars, runnerVars, stopVars, netVars>>

OnLastUnsubscriber(ts) ==
  /\ desired' = desired \ (ts \cap InScope)
  /\ event' = (event \/ ts \cap InScope # {})
  /\ UNCHANGED <<reconVars, taskVars, runnerVars, stopVars, netVars>>

-----------------------------------------------------------------------------
(* The connection.                                                         *)

\* Closed by us, by the exchange, or broken: its subscriptions are gone.
Shut ==
  /\ conn' = "shut"
  /\ wire' = <<>>
  /\ serverSubs' = {}

ConnLost ==
  /\ conn = "open"
  /\ Shut
  /\ UNCHANGED <<demandVars, reconVars, taskVars, runnerVars, stopVars>>

Applied(subs, f) ==
  IF f.op = "subscribe" THEN subs \cup f.topics ELSE subs \ f.topics

\* A symbol the exchange does not trade is ignored without an error frame.
ServerApplies ==
  /\ wire # <<>>
  /\ serverSubs' = Applied(serverSubs, Head(wire)) \cap Traded
  /\ wire' = Tail(wire)
  /\ UNCHANGED <<conn, demandVars, reconVars, taskVars, runnerVars, stopVars>>

Tick ==
  /\ runner = "session"
  /\ age <= HeartbeatTimeout
  /\ age' = age + 1
  /\ UNCHANGED <<receive, watchdog, demandVars, reconVars, runnerVars, stopVars,
                 netVars>>

-----------------------------------------------------------------------------
(* The run loop.                                                           *)

\* start(): a no-op while a runner is alive.
Start ==
  /\ runner = "none" /\ stopper = "idle"
  /\ starts < MaxStarts
  /\ starts' = starts + 1
  /\ stopping' = FALSE
  /\ runner' = "spawned"
  /\ UNCHANGED <<stopper, cancel, backoff, upState, reconnects, demandVars,
                 reconVars, taskVars, netVars>>

\* A record that is there already is used as it is.
EnsureUpstreamRegistered ==
  upState' = IF upState = "absent" THEN "connecting" ELSE upState

\* _run up to the first await.
RunBegins ==
  /\ runner = "spawned" /\ cancel = "no"
  /\ runner' = "connecting"
  /\ EnsureUpstreamRegistered
  /\ backoff' = InitialBackoff
  /\ UNCHANGED <<cancel, reconnects, demandVars, reconVars, taskVars, stopVars,
                 netVars>>

\* The subscriptions of the previous session are still believed in.
SessionKeepsActive == UNCHANGED active

\* A fresh handshake starts with zero subscriptions.
SessionForgetsActive == active' = {}

MarkConnected ==
  /\ upState' = "connected"
  /\ reconnects' = IF upState = "reconnecting" THEN Lesser(reconnects + 1, MaxReconnects)
                   ELSE reconnects

\* The handshake succeeds: everything up to asyncio.wait in _handle_session.
ConnectSucceeds ==
  /\ runner = "connecting" /\ cancel = "no"
  /\ runner' = "session"
  /\ MarkConnected
  /\ backoff' = InitialBackoff
  /\ SessionForgetsActive
  /\ age' = 0
  /\ event' = TRUE
  /\ receive' = "on" /\ reconcile' = "wait" /\ watchdog' = "on"
  /\ conn' = "open" /\ wire' = <<>> /\ serverSubs' = {}
  /\ UNCHANGED <<cancel, desired, sending, todo, upTopics, stopVars>>

\* The registry is not told that the session is over.
BackOffSilently ==
  /\ runner' = IF stopping THEN "done" ELSE "backoff"
  /\ UNCHANGED upState

\* The stopping flag is not looked at between sessions.
BackOffAlways ==
  /\ runner' = "backoff"
  /\ upState' = "reconnecting"

\* After the "finally": leave the loop when stopping, else sleep.
LeaveOrBackOff ==
  /\ runner' = IF stopping THEN "done" ELSE "backoff"
  /\ upState' = IF stopping THEN "disconnected" ELSE "reconnecting"

ConnectFails ==
  /\ runner = "connecting" /\ cancel = "no"
  /\ LeaveOrBackOff
  /\ UNCHANGED <<cancel, backoff, reconnects, demandVars, reconVars, taskVars,
                 stopVars, netVars>>

DoubledBackoff == 2 * backoff

NextBackoff == Lesser(2 * backoff, MaxBackoff)

BackoffEnds ==
  /\ runner = "backoff" /\ cancel = "no"
  /\ backoff' = NextBackoff
  /\ runner' = "connecting"
  /\ UNCHANGED <<cancel, upState, reconnects, demandVars, reconVars, taskVars,
                 stopVars, netVars>>

\* asyncio.wait returns: one of the session's tasks has finished.
SessionEnds ==
  /\ runner = "session" /\ cancel = "no"
  /\ "done" \in {receive, reconcile, watchdog}
  /\ runner' = "joining"
  /\ UNCHANGED <<cancel, backoff, upState, reconnects, demandVars, reconVars,
                 taskVars, stopVars, netVars>>

\* The other tasks, cancelled, have ended; __aexit__ begins to close.
JoinReturns ==
  /\ runner = "joining"
  /\ runner' = "closing"
  /\ receive' = "off" /\ reconcile' = "off" /\ watchdog' = "off"
  /\ sending' = NoFrame /\ todo' = NothingToDo
  /\ Shut
  /\ UNCHANGED <<age, active, upTopics, cancel, backoff, upState, reconnects,
                 demandVars, stopVars>>

\* __aexit__ returns and _ws is reset; a raised cancellation goes on.
AexitReturns ==
  /\ runner = "closing" /\ cancel # "requested"
  /\ conn' = "none"
  /\ cancel' = "no"
  /\ IF cancel = "raised" THEN runner' = "done" /\ UNCHANGED upState
                          ELSE LeaveOrBackOff
  /\ UNCHANGED <<backoff, reconnects, wire, serverSubs, demandVars, reconVars,
                 taskVars, stopVars>>

\* In the backoff the CancelledError only ends the sleep.
CancelEndsSleep ==
  /\ cancel = "requested"
  /\ cancel' = "no"
  /\ runner' = IF runner = "backoff" /\ ~stopping THEN "connecting" ELSE "done"
  /\ conn' = "none"
  /\ UNCHANGED <<backoff, upState, reconnects, wire, serverSubs, demandVars,
                 reconVars, taskVars, stopVars>>

\* CancelledError is thrown where the run loop is suspended.
RunnerCancelled ==
  /\ cancel = "requested"
  /\ IF runner = "session"
       THEN runner' = "joining" /\ cancel' = "raised" /\ UNCHANGED conn
       ELSE runner' = "done" /\ cancel' = "no" /\ conn' = "none"
  /\ UNCHANGED <<backoff, upState, reconnects, wire, serverSubs, demandVars,
                 reconVars, taskVars, stopVars>>

RunnerStep ==
  \/ RunBegins \/ ConnectSucceeds \/ ConnectFails \/ BackoffEnds
  \/ SessionEnds \/ JoinReturns \/ AexitReturns \/ RunnerCancelled

-----------------------------------------------------------------------------
(* The receive task.  A frame refreshes the watchdog's clock before it is  *)
(* looked at; publishing it is the bus's and the registry's state.  Frames *)
(* buffered before the connection shut are still read.                     *)

FrameKinds == {"data", "control", "not_json", "not_object", "unknown_type",
               "invalid_fields", "invalid_product"}

\* What the loop does not catch: the InvalidTopicError that topic_for raises
\* for a frame whose fields are valid and whose product_id is not.
Uncaught == {"invalid_product"}

ReceiveFrame(kind) ==
  /\ runner = "session" /\ receive = "on"
  /\ age' = 0
  /\ receive' = IF kind \in Uncaught THEN "done" ELSE "on"
  /\ UNCHANGED <<watchdog, demandVars, reconVars, runnerVars, stopVars, netVars>>

\* "async for raw in ws" ends, or raises ConnectionClosed.
ReceiveEnds ==
  /\ runner = "session" /\ receive = "on" /\ conn = "shut"
  /\ receive' = "done"
  /\ UNCHANGED <<watchdog, age, demandVars, reconVars, runnerVars, stopVars, netVars>>

-----------------------------------------------------------------------------
(* The reconcile task.                                                     *)

\* Subscriptions are sent before unsubscriptions, one frame per channel.
SendNext(add, remove) ==
  LET op == IF add # {} THEN "subscribe" ELSE "unsubscribe"
      pending == IF add # {} THEN add ELSE remove
  IN  \E ch \in {ChannelOf[t] : t \in pending} :
        LET group == {t \in pending : ChannelOf[t] = ch}
            frame == [op |-> op, topics |-> group]
        IN  IF conn = "open"
              THEN /\ reconcile' = "sending"
                   /\ wire' = Append(wire, frame)
                   /\ sending' = frame
                   /\ todo' = [add |-> add \ group, remove |-> remove \ group]
              ELSE \* send() raises ConnectionClosed
                   /\ reconcile' = "done"
                   /\ UNCHANGED <<wire, sending, todo>>

\* The pass goes on with the beliefs subs until it suspends in a send, or
\* ends by reporting the beliefs to the registry.
Continue(subs, add, remove) ==
  /\ active' = subs
  /\ IF add \cup remove # {}
       THEN SendNext(add, remove) /\ UNCHANGED upTopics
       ELSE /\ reconcile' = "wait"
            /\ upTopics' = subs
            /\ sending' = NoFrame /\ todo' = NothingToDo
            /\ UNCHANGED wire

ReconcileWakes ==
  /\ runner = "session" /\ reconcile = "wait" /\ event
  /\ event' = FALSE
  /\ IF stopping
       THEN reconcile' = "done" /\ UNCHANGED <<sending, todo, active, upTopics, wire>>
       ELSE Continue(active, desired \ active, active \ desired)
  /\ UNCHANGED <<desired, taskVars, runnerVars, stopVars, conn, serverSubs>>

\* send() returns once the transport has room; on a lost connection it raises.
SendReturns ==
  /\ runner = "session" /\ reconcile = "sending"
  /\ IF conn = "open"
       THEN /\ Len(wire) <= WireCap
            /\ Continue(Applied(active, sending), todo.add, todo.remove)
       ELSE /\ reconcile' = "done"
            /\ UNCHANGED <<sending, todo, active, upTopics, wire>>
  /\ UNCHANGED <<demandVars, taskVars, runnerVars, stopVars, conn, serverSubs>>

ReconcileStep == ReconcileWakes \/ SendReturns

-----------------------------------------------------------------------------
(* The watchdog task.                                                      *)

\* The sleep ends while stopping.
WatchdogQuits ==
  /\ runner = "session" /\ watchdog = "on" /\ stopping
  /\ watchdog' = "done"
  /\ UNCHANGED <<receive, age, demandVars, reconVars, runnerVars, stopVars, netVars>>

\* The feed is watched only while nobody wants it.
WatchdogExpiresIdle ==
  /\ runner = "session" /\ watchdog = "on" /\ ~stopping
  /\ desired = {}
  /\ age > HeartbeatTimeout
  /\ watchdog' = "closing"
  /\ Shut
  /\ UNCHANGED <<receive, age, demandVars, reconVars, runnerVars, stopVars>>

\* The sleep ends, somebody wants data and none came for too long.
WatchdogExpires ==
  /\ runner = "session" /\ watchdog = "on" /\ ~stopping
  /\ desired # {}
  /\ age > HeartbeatTimeout
  /\ watchdog' = "closing"
  /\ Shut
  /\ UNCHANGED <<receive, age, demandVars, reconVars, runnerVars, stopVars>>

\* ws.close returns.
WatchdogCloses ==
  /\ runner = "session" /\ watchdog = "closing"
  /\ watchdog' = "done"
  /\ UNCHANGED <<receive, age, demandVars, reconVars, runnerVars, stopVars, netVars>>

WatchdogStep == WatchdogQuits \/ WatchdogExpires \/ WatchdogCloses

-----------------------------------------------------------------------------
(* stop().                                                                 *)

\* runner.cancel(): while the children are joined the CancelledError is
\* swallowed with theirs, and a finished task is not cancelled.
CancelRunner ==
  cancel' = IF runner \in {"joining", "done"} THEN cancel ELSE "requested"

StopBegins ==
  /\ stopper = "idle"
  /\ stopping' = TRUE
  /\ event' = TRUE
  /\ IF HasWs
       THEN /\ stopper' = "closing"
            /\ Shut
            /\ UNCHANGED <<cancel, upState>>
       ELSE IF runner # "none"
       THEN /\ stopper' = "joining"
            /\ CancelRunner
            /\ UNCHANGED <<upState, netVars>>
       ELSE /\ upState' = IF upState = "absent" THEN "absent" ELSE "disconnected"
            /\ UNCHANGED <<stopper, cancel, netVars>>
  /\ UNCHANGED <<desired, runner, backoff, reconnects, starts, reconVars, taskVars>>

\* ws.close returns.
StopCancels ==
  /\ stopper = "closing"
  /\ stopper' = "joining"
  /\ CancelRunner
  /\ UNCHANGED <<runner, backoff, upState, reconnects, stopping, starts, demandVars,
                 reconVars, taskVars, netVars>>

\* stop() does not await the run loop it has cancelled.
StopReturnsAtOnce ==
  /\ stopper = "joining"
  /\ stopper' = "idle"
  /\ runner' = "none"
  /\ upState' = IF upState = "absent" THEN "absent" ELSE "disconnected"
  /\ UNCHANGED <<cancel, backoff, reconnects, stopping, starts, demandVars, reconVars,
                 taskVars, netVars>>

\* The run loop has ended, one way or the other.
StopReturns ==
  /\ stopper = "joining" /\ runner = "done"
  /\ stopper' = "idle"
  /\ runner' = "none"
  /\ upState' = IF upState = "absent" THEN "absent" ELSE "disconnected"
  /\ UNCHANGED <<cancel, backoff, reconnects, stopping, starts, demandVars, reconVars,
                 taskVars, netVars>>

StopStep == StopCancels \/ StopReturns

-----------------------------------------------------------------------------
\* One registry call may fire the callback for several topics in a row.
DemandStep ==
  \E ts \in SUBSET Topics : OnFirstSubscriber(ts) \/ OnLastUnsubscriber(ts)

OwnStep ==
  RunnerStep \/ ReceiveEnds \/ ReconcileStep \/ WatchdogStep \/ StopStep

EnvStep ==
  ConnLost \/ ServerApplies \/ Tick \/ \E kind \in FrameKinds : ReceiveFrame(kind)

Next == DemandStep \/ Start \/ StopBegins \/ OwnStep \/ EnvStep

Spec == Init /\ [][Next]_ingestVars

(* Each task runs when it is not suspended; time passes, a close handshake *)
(* and a connection attempt end, and the exchange reads what it is sent.   *)
Fairness ==
  /\ WF_ingestVars(RunnerStep) /\ WF_ingestVars(ReceiveEnds)
  /\ WF_ingestVars(ReconcileStep) /\ WF_ingestVars(WatchdogStep)
  /\ WF_ingestVars(StopStep)
  /\ WF_ingestVars(Tick) /\ WF_ingestVars(ServerApplies)

FairSpec == Spec /\ Fairness

-----------------------------------------------------------------------------
TypeOK ==
  /\ desired \subseteq InScope /\ active \subseteq InScope
  /\ upTopics \subseteq InScope /\ serverSubs \subseteq Traded
  /\ event \in BOOLEAN /\ stopping \in BOOLEAN
  /\ runner \in {"none", "spawned", "connecting", "session", "joining", "closing",
                 "backoff", "done"}
  /\ cancel \in {"no", "requested", "raised"}
  /\ stopper \in {"idle", "closing", "joining"}
  /\ receive \in {"off", "on", "done"}
  /\ reconcile \in {"off", "wait", "sending", "done"}
  /\ watchdog \in {"off", "on", "closing", "done"}
  /\ sending \in Frames \cup {NoFrame}
  /\ todo \in [add : SUBSET InScope, remove : SUBSET InScope]
  /\ age \in 0..HeartbeatTimeout + 1
  /\ backoff \in InitialBackoff..MaxBackoff
  /\ upState \in {"absent", "connecting", "connected", "reconnecting", "disconnected"}
  /\ reconnects \in 0..MaxReconnects
  /\ starts \in 0..MaxStarts
  /\ conn \in {"none", "open", "shut"}
  /\ wire \in Seq(Frames)

(* The beliefs once the current pass has sent all it set out to send.      *)
Planned ==
  (Applied(active, sending) \cup todo.add) \ todo.remove

(* No lost wakeup: while a session's reconcile task is alive and the event *)
(* is clear, the pass under way, or the last one, was made for the demand  *)
(* as it is now.                                                           *)
NoLostWakeup ==
  runner = "session" /\ reconcile \in {"wait", "sending"} /\ ~event
    => Planned = desired

(* What the exchange will send once it has read the wire: of what it       *)
(* trades, the last frame on the wire that names a topic decides, else its *)
(* set now.                                                                *)
WillServe ==
  {t \in Traded :
     \/ t \in serverSubs /\ \A i \in 1..Len(wire) : t \notin wire[i].topics
     \/ \E i \in 1..Len(wire) :
          /\ wire[i].op = "subscribe" /\ t \in wire[i].topics
          /\ \A j \in i+1..Len(wire) : t \notin wire[j].topics}

(* The beliefs are true as far as they can be: on an open connection the   *)
(* exchange will send just what it trades of what is believed subscribed,  *)
(* with the frame whose send is under way.                                 *)
BeliefMatchesExchange ==
  runner = "session" /\ conn = "open"
    => WillServe = Applied(active, sending) \cap Traded

(* stop() is final: once it has returned, and until the next start(), no   *)
(* task and no connection of the ingest is left, and the registry does not *)
(* report the upstream as connected or about to be.                        *)
QuietAfterStop ==
  stopping /\ stopper = "idle"
    => /\ runner = "none" /\ cancel = "no" /\ conn = "none"
       /\ receive = "off" /\ reconcile = "off" /\ watchdog = "off"
       /\ upState \in {"absent", "disconnected"}

(* "connected" is reported only while there is a session, or its remains   *)
(* are being torn down.                                                    *)
ConnectedMeansSession ==
  upState = "connected" => HasWs \/ runner = "done"

(* stop() always returns, whatever the run loop is doing when it is called.*)
StopTerminates == stopper # "idle" ~> stopper = "idle"

Disruption ==
  \/ ConnLost \/ ConnectFails \/ WatchdogExpires
  \/ \E kind \in Uncaught : ReceiveFrame(kind)

(* Demand reaches the exchange: unless the demand keeps changing, sessions *)
(* keep being lost, or the ingest is not running, the exchange comes to    *)
(* send, and goes on sending, what it trades of the topics desired, and    *)
(* the registry reports them all, the ones that are ignored included.      *)
DemandConverges ==
  \/ []<><<DemandStep>>_ingestVars
  \/ []<><<Disruption>>_ingestVars
  \/ []<>(runner = "none")
  \/ <>[](serverSubs = desired \cap Traded /\ upTopics = desired)

(* A feed that is wanted and silent does not stay connected (coinbase.py,  *)
(* "Stale feed").                                                          *)
SilentFeedDropped ==
  \/ []<><<\E kind \in FrameKinds : ReceiveFrame(kind)>>_ingestVars
  \/ []<>(desired = {})
  \/ []<>(conn # "open")
=============================================================================
