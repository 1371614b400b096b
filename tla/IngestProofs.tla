---------------------------- MODULE IngestProofs ----------------------------
(***************************************************************************)
(* Proofs about Ingest, for any topics, channels, timeouts and capacities: *)
(* no wakeup of the reconcile loop is lost, the ingest's beliefs about the *)
(* exchange are true, and stop() is final.                                 *)
(***************************************************************************)
EXTENDS Ingest, TLAPS

(* Which tasks exist, and what they hold, in each phase of the run loop.   *)
TasksMatchRunner ==
  /\ conn = "none" <=> ~HasWs
  /\ runner = "session" =>
       receive # "off" /\ reconcile # "off" /\ watchdog # "off"
  /\ runner \notin {"session", "joining"} =>
       receive = "off" /\ reconcile = "off" /\ watchdog = "off"
  /\ reconcile \in {"off", "wait"} => sending = NoFrame /\ todo = NothingToDo
  /\ todo.add \cap todo.remove = {}

(* Where the run loop can be while stop() is suspended, and that nothing   *)
(* but stop() cancels or ends it.                                          *)
StopMatchesRunner ==
  /\ stopper # "idle" => stopping
  /\ stopper = "closing" => HasWs \/ runner = "done"
  /\ stopper = "closing" => cancel = "no"
  /\ stopper = "joining" /\ cancel = "no" => runner \in {"joining", "closing", "done"}
  /\ cancel # "no" => stopper = "joining"
  /\ runner = "done" => stopper # "idle"

(* Where a cancellation can be, whoever asked for it; stop() is suspended  *)
(* only while there is a run loop.                                         *)
CancelMatchesRunner ==
  /\ stopper # "idle" => runner # "none"
  /\ cancel = "requested" =>
       runner \in {"spawned", "connecting", "session", "closing", "backoff"}
  /\ cancel = "raised" => runner \in {"joining", "closing"}

(* A resting reconcile loop has told the registry what it believes.        *)
ReportMatchesBelief ==
  runner = "session" /\ reconcile = "wait" /\ ~event => upTopics = active

(* What a session rests on, also if it is not stop() that ends it.         *)
SessionInv ==
  /\ TypeOK
  /\ TasksMatchRunner
  /\ CancelMatchesRunner
  /\ NoLostWakeup
  /\ BeliefMatchesExchange
  /\ ReportMatchesBelief

IInv ==
  /\ SessionInv
  /\ StopMatchesRunner
  /\ QuietAfterStop
  /\ ConnectedMeansSession

-----------------------------------------------------------------------------
(* What is left to do in a pass is a record of two sets of topics in scope.*)
LEMMA TodoType ==
  ASSUME NEW a \in SUBSET InScope, NEW r \in SUBSET InScope
  PROVE  [add |-> a, remove |-> r] \in [add : SUBSET InScope, remove : SUBSET InScope]
  OBVIOUS

(* How Continue leaves the pass: the beliefs it was given are taken over,  *)
(* the plan is kept, and what is newly written is what is being sent.      *)
LEMMA ContinueEffect ==
  ASSUME TypeOK, NEW subs \in SUBSET InScope, NEW add \in SUBSET InScope,
         NEW remove \in SUBSET InScope, add \cap remove = {},
         Continue(subs, add, remove)
  PROVE  /\ active' = subs
         /\ upTopics' \in SUBSET InScope
         /\ reconcile' \in {"wait", "sending", "done"}
         /\ reconcile' = "wait" =>
                sending' = NoFrame /\ todo' = NothingToDo /\ upTopics' = active'
         /\ reconcile' # "done" =>
              /\ todo' \in [add : SUBSET InScope, remove : SUBSET InScope]
              /\ todo'.add \cap todo'.remove = {}
              /\ (Applied(subs, sending') \cup todo'.add) \ todo'.remove
                   = (subs \cup add) \ remove
              /\ \/ sending' = NoFrame /\ wire' = wire
                 \/ sending' \in Frames /\ wire' = Append(wire, sending')
         /\ reconcile' = "done" => conn # "open" /\ UNCHANGED <<wire, sending, todo>>
<1>1. CASE add \cup remove = {}
  <2>1. /\ active' = subs /\ upTopics' = subs /\ reconcile' = "wait"
        /\ sending' = NoFrame /\ todo' = NothingToDo /\ wire' = wire
    BY <1>1 DEF Continue
  <2>2. /\ NothingToDo \in [add : SUBSET InScope, remove : SUBSET InScope]
        /\ NothingToDo.add = {} /\ NothingToDo.remove = {}
    BY DEF NothingToDo
  <2>3. Applied(subs, NoFrame) = subs
    BY DEF Applied, NoFrame
  <2> QED BY <1>1, <2>1, <2>2, <2>3
<1>2. CASE add \cup remove # {}
  <2> DEFINE pending == IF add # {} THEN add ELSE remove
             op == IF add # {} THEN "subscribe" ELSE "unsubscribe"
  <2>1. /\ active' = subs /\ upTopics' = upTopics
        /\ \E ch \in {ChannelOf[t] : t \in pending} :
             LET group == {t \in pending : ChannelOf[t] = ch}
                 frame == [op |-> op, topics |-> group]
             IN  IF conn = "open"
                   THEN /\ reconcile' = "sending"
                        /\ wire' = Append(wire, frame)
                        /\ sending' = frame
                        /\ todo' = [add |-> add \ group, remove |-> remove \ group]
                   ELSE /\ reconcile' = "done"
                        /\ UNCHANGED <<wire, sending, todo>>
    BY <1>2 DEF Continue, SendNext
  <2>2. CASE conn # "open"
    BY <2>1, <2>2 DEF TypeOK
  <2>3. CASE conn = "open"
    <3>1. PICK group \in SUBSET pending :
            /\ reconcile' = "sending"
            /\ sending' = [op |-> op, topics |-> group]
            /\ wire' = Append(wire, sending')
            /\ todo' = [add |-> add \ group, remove |-> remove \ group]
      BY <2>1, <2>3
    <3>2. sending' \in Frames
      BY <3>1 DEF Frames
    <3>3. /\ todo' \in [add : SUBSET InScope, remove : SUBSET InScope]
          /\ todo'.add = add \ group /\ todo'.remove = remove \ group
      BY <3>1
    <3>4. Applied(subs, sending') = IF add # {} THEN subs \cup group ELSE subs \ group
      BY <3>1 DEF Applied
    <3>5. (Applied(subs, sending') \cup todo'.add) \ todo'.remove
            = (subs \cup add) \ remove
      <4>1. CASE add # {}
        BY <4>1, <3>3, <3>4
      <4>2. CASE add = {}
        BY <4>2, <3>3, <3>4
      <4> QED BY <4>1, <4>2
    <3> QED BY <2>1, <3>1, <3>2, <3>3, <3>5 DEF TypeOK
  <2> QED BY <2>2, <2>3
<1> QED BY <1>1, <1>2

(* Applying a frame keeps a set of topics in scope.                        *)
LEMMA AppliedType ==
  ASSUME NEW subs \in SUBSET InScope, NEW f \in Frames \cup {NoFrame}
  PROVE  Applied(subs, f) \in SUBSET InScope
  BY DEF Applied, Frames, NoFrame

(* A frame added to the wire is the last the exchange will apply.          *)
LEMMA WireAppend ==
  ASSUME TypeOK, NEW f \in Frames, wire' = Append(wire, f), serverSubs' = serverSubs
  PROVE  WillServe' = Applied(WillServe, f) \cap Traded
<1>1. Len(wire) \in Nat /\ Len(wire') = Len(wire) + 1
  BY DEF TypeOK
<1>2. /\ \A i \in 1..Len(wire) : wire'[i] = wire[i]
      /\ wire'[Len(wire) + 1] = f
  BY DEF TypeOK
<1>3. f.op \in {"subscribe", "unsubscribe"} /\ f.topics \subseteq InScope
  BY DEF Frames
<1>4. ASSUME NEW t \in Traded, t \in f.topics
      PROVE  t \in WillServe' <=> f.op = "subscribe"
  <2>1. Len(wire) + 1 \in 1..Len(wire') /\ t \in wire'[Len(wire) + 1].topics
    BY <1>1, <1>2, <1>4
  <2>2. \A i \in 1..Len(wire') : i # Len(wire) + 1 => Len(wire) + 1 \in i+1..Len(wire')
    BY <1>1
  <2>3. \A j \in (Len(wire) + 1) + 1..Len(wire') : FALSE
    BY <1>1
  <2> QED BY <2>1, <2>2, <2>3, <1>2, <1>4 DEF WillServe
<1>5. ASSUME NEW t \in Traded, t \notin f.topics
      PROVE  t \in WillServe' <=> t \in WillServe
  <2>1. ASSUME NEW i \in 1..Len(wire) 
        PROVE  (\A j \in i+1..Len(wire') : t \notin wire'[j].topics)
                 <=> (\A j \in i+1..Len(wire) : t \notin wire[j].topics)
    BY <1>1, <1>2, <1>5
  <2>2. (\A i \in 1..Len(wire') : t \notin wire'[i].topics)
          <=> (\A i \in 1..Len(wire) : t \notin wire[i].topics)
    BY <1>1, <1>2, <1>5
  <2>3. \A i \in 1..Len(wire') : i \in 1..Len(wire) \/ i = Len(wire) + 1
    BY <1>1
  <2>4. 1..Len(wire) \subseteq 1..Len(wire')
    BY <1>1
  <2> QED BY <2>1, <2>2, <2>3, <2>4, <1>2, <1>5 DEF WillServe
<1> QED BY <1>3, <1>4, <1>5 DEF WillServe, Applied

(* The exchange reading the first frame of the wire changes nothing of     *)
(* what it will have in the end.                                           *)
LEMMA WireTail ==
  ASSUME TypeOK, wire # <<>>, wire' = Tail(wire),
         serverSubs' = Applied(serverSubs, Head(wire)) \cap Traded
  PROVE  WillServe' = WillServe
<1> DEFINE n == Len(wire)
           Last(t, i) == /\ wire[i].op = "subscribe" /\ t \in wire[i].topics
                         /\ \A j \in i+1..n : t \notin wire[j].topics
           LastNext(t, i) == /\ wire'[i].op = "subscribe" /\ t \in wire'[i].topics
                             /\ \A j \in i+1..n-1 : t \notin wire'[j].topics
<1>1. n \in Nat /\ n >= 1 /\ Len(wire') = n - 1
  BY DEF TypeOK
<1>2. \A i \in 1..n-1 : wire'[i] = wire[i+1] /\ i+1 \in 2..n
  BY <1>1 DEF TypeOK
<1>3. \A j \in 2..n : wire[j] = wire'[j-1] /\ j-1 \in 1..n-1
  BY <1>1, <1>2
<1>4. Head(wire) = wire[1] /\ wire[1] \in Frames
  BY <1>1 DEF TypeOK
<1>5. ASSUME NEW t \in Traded, NEW i \in 1..n-1
      PROVE  LastNext(t, i) <=> Last(t, i+1)
  <2>1. (\A j \in i+1..n-1 : t \notin wire'[j].topics)
          <=> (\A j \in (i+1)+1..n : t \notin wire[j].topics)
    <3>1. ASSUME NEW j \in i+1..n-1 PROVE wire'[j] = wire[j+1] /\ j+1 \in (i+1)+1..n
      BY <1>1, <1>2
    <3>2. ASSUME NEW j \in (i+1)+1..n PROVE wire[j] = wire'[j-1] /\ j-1 \in i+1..n-1
      BY <1>1, <1>3
    <3> HIDE DEF n
    <3> QED BY <3>1, <3>2
  <2> QED BY <2>1, <1>2
<1>6. ASSUME NEW t \in Traded
      PROVE  (\A i \in 1..n-1 : t \notin wire'[i].topics)
               <=> (\A j \in 2..n : t \notin wire[j].topics)
  <2> HIDE DEF n
  <2> QED BY <1>2, <1>3
<1>7. \A t \in Traded : t \in WillServe <=>
        \/ t \in serverSubs /\ \A i \in 1..n : t \notin wire[i].topics
        \/ \E i \in 1..n : Last(t, i)
  BY DEF WillServe
<1>8. \A t \in Traded : t \in WillServe' <=>
        \/ t \in serverSubs' /\ \A i \in 1..n-1 : t \notin wire'[i].topics
        \/ \E i \in 1..n-1 : LastNext(t, i)
  BY <1>1 DEF WillServe
<1>9. ASSUME NEW t \in Traded
      PROVE  (\E i \in 1..n-1 : LastNext(t, i)) <=> (\E i \in 2..n : Last(t, i))
  <2> HIDE DEF n, Last, LastNext
  <2>1. ASSUME NEW i \in 1..n-1, LastNext(t, i) PROVE \E j \in 2..n : Last(t, j)
    BY <2>1, <1>2, <1>5
  <2>2. ASSUME NEW j \in 2..n, Last(t, j) PROVE \E i \in 1..n-1 : LastNext(t, i)
    <3>1. j-1 \in 1..n-1 /\ (j-1)+1 = j
      BY <1>1, <1>3
    <3> QED BY <2>2, <3>1, <1>5
  <2> QED BY <2>1, <2>2
<1>10. 1..n = {1} \cup 2..n
  BY <1>1
<1>11. \A t \in Traded : Last(t, 1) <=>
         /\ wire[1].op = "subscribe" /\ t \in wire[1].topics
         /\ \A j \in 2..n : t \notin wire[j].topics
  BY <1>1
<1>12. \A t \in Traded : t \in serverSubs' <=>
         IF wire[1].op = "subscribe" THEN t \in serverSubs \/ t \in wire[1].topics
         ELSE t \in serverSubs /\ t \notin wire[1].topics
  BY <1>4 DEF Applied
<1>13. ASSUME NEW t \in Traded PROVE t \in WillServe' <=> t \in WillServe
  <2> HIDE DEF n, Last, LastNext
  <2>1. t \in WillServe' <=>
          \/ t \in serverSubs' /\ \A j \in 2..n : t \notin wire[j].topics
          \/ \E i \in 2..n : Last(t, i)
    BY <1>6, <1>8, <1>9
  <2>2. t \in WillServe <=>
          \/ /\ t \in serverSubs /\ t \notin wire[1].topics
             /\ \A j \in 2..n : t \notin wire[j].topics
          \/ Last(t, 1) \/ \E i \in 2..n : Last(t, i)
    BY <1>7, <1>10
  <2> QED BY <2>1, <2>2, <1>11, <1>12
<1> QED BY <1>13 DEF WillServe

(* What ContinueEffect says of the two steps that continue a pass.         *)
LEMMA WakeEffect ==
  ASSUME SessionInv, ReconcileWakes, ~stopping
  PROVE  /\ active' = active
         /\ upTopics' \in SUBSET InScope
         /\ reconcile' \in {"wait", "sending", "done"}
         /\ reconcile' = "wait" =>
                sending' = NoFrame /\ todo' = NothingToDo /\ upTopics' = active'
         /\ reconcile' # "done" =>
              /\ todo' \in [add : SUBSET InScope, remove : SUBSET InScope]
              /\ todo'.add \cap todo'.remove = {}
              /\ (Applied(active, sending') \cup todo'.add) \ todo'.remove = desired
              /\ \/ sending' = NoFrame /\ wire' = wire
                 \/ sending' \in Frames /\ wire' = Append(wire, sending')
         /\ reconcile' = "done" => conn # "open" /\ UNCHANGED <<wire, sending, todo>>
<1> DEFINE add == desired \ active
           remove == active \ desired
<1>1. Continue(active, add, remove)
  BY DEF ReconcileWakes
<1>2. /\ active \in SUBSET InScope /\ add \in SUBSET InScope
      /\ remove \in SUBSET InScope /\ add \cap remove = {}
      /\ (active \cup add) \ remove = desired
  BY DEF SessionInv, TypeOK
<1>3. TypeOK
  BY DEF SessionInv
<1> HIDE DEF add, remove
<1>4. /\ active' = active
      /\ upTopics' \in SUBSET InScope
      /\ reconcile' \in {"wait", "sending", "done"}
      /\ reconcile' = "wait" =>
             sending' = NoFrame /\ todo' = NothingToDo /\ upTopics' = active'
      /\ reconcile' # "done" =>
           /\ todo' \in [add : SUBSET InScope, remove : SUBSET InScope]
           /\ todo'.add \cap todo'.remove = {}
           /\ (Applied(active, sending') \cup todo'.add) \ todo'.remove
                = (active \cup add) \ remove
           /\ \/ sending' = NoFrame /\ wire' = wire
              \/ sending' \in Frames /\ wire' = Append(wire, sending')
      /\ reconcile' = "done" => conn # "open" /\ UNCHANGED <<wire, sending, todo>>
  BY <1>1, <1>2, <1>3, ContinueEffect
<1> QED BY <1>2, <1>4

(* The same for a send that returns while the connection is open.          *)
LEMMA SendEffect ==
  ASSUME SessionInv, SendReturns, conn = "open"
  PROVE  LET subs == Applied(active, sending)
         IN  /\ subs \in SUBSET InScope
             /\ active' = subs
             /\ upTopics' \in SUBSET InScope
             /\ reconcile' \in {"wait", "sending"}
             /\ reconcile' = "wait" =>
                    sending' = NoFrame /\ todo' = NothingToDo /\ upTopics' = active'
             /\ todo' \in [add : SUBSET InScope, remove : SUBSET InScope]
             /\ todo'.add \cap todo'.remove = {}
             /\ (Applied(subs, sending') \cup todo'.add) \ todo'.remove
                  = (subs \cup todo.add) \ todo.remove
             /\ \/ sending' = NoFrame /\ wire' = wire
                \/ sending' \in Frames /\ wire' = Append(wire, sending')
<1> DEFINE subs == Applied(active, sending)
           add == todo.add
           remove == todo.remove
<1>1. Continue(subs, add, remove)
  BY DEF SendReturns
<1>2. /\ add \in SUBSET InScope /\ remove \in SUBSET InScope
      /\ add \cap remove = {}
  BY DEF SessionInv, TypeOK, TasksMatchRunner
<1>3. subs \in SUBSET InScope
  BY AppliedType DEF SessionInv, TypeOK
<1>4. TypeOK
  BY DEF SessionInv
<1> HIDE DEF subs, add, remove
<1>5. /\ active' = subs
      /\ upTopics' \in SUBSET InScope
      /\ reconcile' \in {"wait", "sending"}
      /\ reconcile' = "wait" =>
             sending' = NoFrame /\ todo' = NothingToDo /\ upTopics' = active'
      /\ todo' \in [add : SUBSET InScope, remove : SUBSET InScope]
      /\ todo'.add \cap todo'.remove = {}
      /\ (Applied(subs, sending') \cup todo'.add) \ todo'.remove
           = (subs \cup add) \ remove
      /\ \/ sending' = NoFrame /\ wire' = wire
         \/ sending' \in Frames /\ wire' = Append(wire, sending')
  BY <1>1, <1>2, <1>3, <1>4, ContinueEffect
<1> QED BY <1>3, <1>5 DEF subs, add, remove

-----------------------------------------------------------------------------
(* Every step keeps the types.                                             *)
LEMMA TypeStep == SessionInv /\ [Next]_ingestVars => TypeOK'
<1> SUFFICES ASSUME SessionInv, [Next]_ingestVars PROVE TypeOK'
  OBVIOUS
<1> USE DEF SessionInv, TypeOK, ingestVars, demandVars, reconVars, taskVars, runnerVars, stopVars, netVars
<1>1. CASE UNCHANGED ingestVars
  BY <1>1
<1>2. ASSUME NEW ts \in SUBSET Topics, OnFirstSubscriber(ts)
      PROVE  TypeOK'
  BY <1>2 DEF OnFirstSubscriber
<1>3. ASSUME NEW ts \in SUBSET Topics, OnLastUnsubscriber(ts)
      PROVE  TypeOK'
  BY <1>3 DEF OnLastUnsubscriber
<1>4. ASSUME Start
      PROVE  TypeOK'
  <2>1. starts' \in 0..MaxStarts
    BY <1>4, IngestAssumption DEF Start
  <2>2. /\ stopping' \in BOOLEAN
        /\ runner' \in {"none", "spawned", "connecting", "session", "joining",
                        "closing", "backoff", "done"}
    BY <1>4 DEF Start
  <2>3. UNCHANGED <<stopper, cancel, backoff, upState, reconnects, demandVars,
                    reconVars, taskVars, netVars>>
    BY <1>4 DEF Start
  <2> QED BY <2>1, <2>2, <2>3
<1>5. ASSUME StopBegins
      PROVE  TypeOK'
  <2>1. /\ cancel' \in {"no", "requested", "raised"}
        /\ stopper' \in {"idle", "closing", "joining"}
        /\ upState' \in {"absent", "connecting", "connected", "reconnecting",
                         "disconnected"}
    BY <1>5 DEF StopBegins, CancelRunner, HasWs
  <2>2. /\ conn' \in {"none", "open", "shut"} /\ wire' \in Seq(Frames)
        /\ serverSubs' \subseteq Traded
    <3>1. Shut \/ UNCHANGED netVars
      BY <1>5 DEF StopBegins
    <3>2. CASE Shut
      BY <3>2 DEF Shut
    <3>3. CASE UNCHANGED netVars
      BY <3>3
    <3> QED BY <3>1, <3>2, <3>3
  <2> QED BY <1>5, <2>1, <2>2 DEF StopBegins
<1>6. ASSUME RunBegins
      PROVE  TypeOK'
  BY <1>6, IngestAssumption DEF RunBegins, EnsureUpstreamRegistered
<1>7. ASSUME ConnectSucceeds
      PROVE  TypeOK'
  BY <1>7, IngestAssumption DEF ConnectSucceeds, MarkConnected, SessionForgetsActive, Lesser
<1>8. ASSUME ConnectFails
      PROVE  TypeOK'
  BY <1>8 DEF ConnectFails, LeaveOrBackOff
<1>9. ASSUME BackoffEnds
      PROVE  TypeOK'
  BY <1>9, IngestAssumption DEF BackoffEnds, NextBackoff, Lesser
<1>10. ASSUME SessionEnds
      PROVE  TypeOK'
  BY <1>10 DEF SessionEnds
<1>11. ASSUME JoinReturns
      PROVE  TypeOK'
  <2>1. NothingToDo \in [add : SUBSET InScope, remove : SUBSET InScope]
    BY DEF NothingToDo
  <2> QED BY <1>11, <2>1 DEF JoinReturns, Shut
<1>12. ASSUME AexitReturns
      PROVE  TypeOK'
  BY <1>12 DEF AexitReturns, LeaveOrBackOff
<1>13. ASSUME RunnerCancelled
      PROVE  TypeOK'
  BY <1>13 DEF RunnerCancelled
<1>14. ASSUME ReceiveEnds
      PROVE  TypeOK'
  BY <1>14 DEF ReceiveEnds
<1>15. ASSUME ReconcileWakes
      PROVE  TypeOK'
  <2>1. CASE stopping
    BY <1>15, <2>1 DEF ReconcileWakes
  <2>2. CASE ~stopping
    <3>1. sending' \in Frames \cup {NoFrame} /\ wire' \in Seq(Frames)
      <4>1. \/ sending' \in Frames \cup {NoFrame} /\ wire' = wire
            \/ sending' \in Frames /\ wire' = Append(wire, sending')
        BY <2>2, <1>15, WakeEffect
      <4> QED BY <4>1
    <3>2. /\ active' \subseteq InScope /\ upTopics' \subseteq InScope
          /\ reconcile' \in {"off", "wait", "sending", "done"}
          /\ todo' \in [add : SUBSET InScope, remove : SUBSET InScope]
      BY <2>2, <1>15, WakeEffect
    <3>3. UNCHANGED <<desired, stopping, receive, watchdog, age, runnerVars, stopper,
                      starts, conn, serverSubs>>
      BY <2>2, <1>15 DEF ReconcileWakes, stopVars, taskVars
    <3>4. event' \in BOOLEAN
      BY <2>2, <1>15 DEF ReconcileWakes
    <3> QED BY <3>1, <3>2, <3>3, <3>4
  <2> QED BY <2>1, <2>2
<1>16. ASSUME SendReturns
      PROVE  TypeOK'
  <2>1. CASE conn # "open"
    BY <1>16, <2>1 DEF SendReturns
  <2>2. CASE conn = "open"
    <3>1. sending' \in Frames \cup {NoFrame} /\ wire' \in Seq(Frames)
      <4>1. \/ sending' = NoFrame /\ wire' = wire
            \/ sending' \in Frames /\ wire' = Append(wire, sending')
        BY <2>2, <1>16, SendEffect
      <4>2. wire \in Seq(Frames)
        OBVIOUS
      <4> HIDE DEF SessionInv, TypeOK
      <4> QED BY <4>1, <4>2
    <3>2. /\ active' \subseteq InScope /\ upTopics' \subseteq InScope
          /\ reconcile' \in {"off", "wait", "sending", "done"}
          /\ todo' \in [add : SUBSET InScope, remove : SUBSET InScope]
      BY <2>2, <1>16, SendEffect
    <3> QED BY <1>16, <3>1, <3>2 DEF SendReturns
  <2> QED BY <2>1, <2>2
<1>17. ASSUME WatchdogQuits
      PROVE  TypeOK'
  BY <1>17 DEF WatchdogQuits
<1>18. ASSUME WatchdogExpires
      PROVE  TypeOK'
  BY <1>18 DEF WatchdogExpires, Shut
<1>19. ASSUME WatchdogCloses
      PROVE  TypeOK'
  BY <1>19 DEF WatchdogCloses
<1>20. ASSUME StopCancels
      PROVE  TypeOK'
  BY <1>20 DEF StopCancels, CancelRunner
<1>21. ASSUME StopReturns
      PROVE  TypeOK'
  BY <1>21 DEF StopReturns
<1>22. ASSUME ConnLost
      PROVE  TypeOK'
  BY <1>22 DEF ConnLost, Shut
<1>23. ASSUME ServerApplies
      PROVE  TypeOK'
  <2>1. Head(wire) \in Frames /\ Tail(wire) \in Seq(Frames)
    BY <1>23 DEF ServerApplies
  <2>2. serverSubs' \in SUBSET Traded
    BY <1>23 DEF ServerApplies
  <2> QED BY <1>23, <2>1, <2>2 DEF ServerApplies
<1>24. ASSUME Tick
      PROVE  TypeOK'
  BY <1>24, IngestAssumption DEF Tick
<1>25. ASSUME NEW kind \in FrameKinds, ReceiveFrame(kind)
      PROVE  TypeOK'
  BY <1>25, IngestAssumption DEF ReceiveFrame
<1> QED
  BY <1>1, <1>2, <1>3, <1>4, <1>5, <1>6, <1>7, <1>8, <1>9, <1>10, <1>11,
     <1>12, <1>13, <1>14, <1>15, <1>16, <1>17, <1>18, <1>19, <1>20, <1>21,
     <1>22, <1>23, <1>24, <1>25
  DEF Next, DemandStep, OwnStep, RunnerStep, ReconcileStep, WatchdogStep, StopStep,
      EnvStep

(* Every step keeps the tasks in agreement with the run loop.              *)
LEMMA TasksStep == SessionInv /\ [Next]_ingestVars => TasksMatchRunner'
<1> SUFFICES ASSUME SessionInv, [Next]_ingestVars PROVE TasksMatchRunner'
  OBVIOUS
<1> USE DEF SessionInv, TypeOK, TasksMatchRunner, HasWs, ingestVars, demandVars, reconVars, taskVars, runnerVars, stopVars, netVars
<1>1. CASE UNCHANGED ingestVars
  BY <1>1
<1>2. ASSUME NEW ts \in SUBSET Topics, OnFirstSubscriber(ts)
      PROVE  TasksMatchRunner'
  BY <1>2 DEF OnFirstSubscriber
<1>3. ASSUME NEW ts \in SUBSET Topics, OnLastUnsubscriber(ts)
      PROVE  TasksMatchRunner'
  BY <1>3 DEF OnLastUnsubscriber
<1>4. ASSUME Start
      PROVE  TasksMatchRunner'
  BY <1>4 DEF Start
<1>5. ASSUME StopBegins
      PROVE  TasksMatchRunner'
  BY <1>5 DEF StopBegins, CancelRunner, Shut, HasWs
<1>6. ASSUME RunBegins
      PROVE  TasksMatchRunner'
  BY <1>6 DEF RunBegins, EnsureUpstreamRegistered
<1>7. ASSUME ConnectSucceeds
      PROVE  TasksMatchRunner'
  BY <1>7 DEF ConnectSucceeds, MarkConnected, SessionForgetsActive, Lesser
<1>8. ASSUME ConnectFails
      PROVE  TasksMatchRunner'
  BY <1>8 DEF ConnectFails, LeaveOrBackOff
<1>9. ASSUME BackoffEnds
      PROVE  TasksMatchRunner'
  BY <1>9 DEF BackoffEnds, NextBackoff, Lesser
<1>10. ASSUME SessionEnds
      PROVE  TasksMatchRunner'
  BY <1>10 DEF SessionEnds
<1>11. ASSUME JoinReturns
      PROVE  TasksMatchRunner'
  BY <1>11 DEF JoinReturns, Shut, NothingToDo
<1>12. ASSUME AexitReturns
      PROVE  TasksMatchRunner'
  BY <1>12 DEF AexitReturns, LeaveOrBackOff
<1>13. ASSUME RunnerCancelled
      PROVE  TasksMatchRunner'
  BY <1>13 DEF RunnerCancelled, CancelMatchesRunner
<1>14. ASSUME ReceiveEnds
      PROVE  TasksMatchRunner'
  BY <1>14 DEF ReceiveEnds
<1>15. ASSUME ReconcileWakes
      PROVE  TasksMatchRunner'
  <2>1. CASE stopping
    BY <1>15, <2>1 DEF ReconcileWakes
  <2>2. CASE ~stopping
    BY <1>15, <2>2, WakeEffect DEF ReconcileWakes
  <2> QED BY <2>1, <2>2
<1>16. ASSUME SendReturns
      PROVE  TasksMatchRunner'
  <2>1. CASE conn # "open"
    BY <1>16, <2>1 DEF SendReturns
  <2>2. CASE conn = "open"
    BY <1>16, <2>2, SendEffect DEF SendReturns
  <2> QED BY <2>1, <2>2
<1>17. ASSUME WatchdogQuits
      PROVE  TasksMatchRunner'
  BY <1>17 DEF WatchdogQuits
<1>18. ASSUME WatchdogExpires
      PROVE  TasksMatchRunner'
  BY <1>18 DEF WatchdogExpires, Shut
<1>19. ASSUME WatchdogCloses
      PROVE  TasksMatchRunner'
  BY <1>19 DEF WatchdogCloses
<1>20. ASSUME StopCancels
      PROVE  TasksMatchRunner'
  BY <1>20 DEF StopCancels, CancelRunner
<1>21. ASSUME StopReturns
      PROVE  TasksMatchRunner'
  BY <1>21 DEF StopReturns
<1>22. ASSUME ConnLost
      PROVE  TasksMatchRunner'
  BY <1>22 DEF ConnLost, Shut
<1>23. ASSUME ServerApplies
      PROVE  TasksMatchRunner'
  BY <1>23 DEF ServerApplies
<1>24. ASSUME Tick
      PROVE  TasksMatchRunner'
  BY <1>24 DEF Tick
<1>25. ASSUME NEW kind \in FrameKinds, ReceiveFrame(kind)
      PROVE  TasksMatchRunner'
  BY <1>25 DEF ReceiveFrame
<1> QED
  BY <1>1, <1>2, <1>3, <1>4, <1>5, <1>6, <1>7, <1>8, <1>9, <1>10, <1>11,
     <1>12, <1>13, <1>14, <1>15, <1>16, <1>17, <1>18, <1>19, <1>20, <1>21,
     <1>22, <1>23, <1>24, <1>25
  DEF Next, DemandStep, OwnStep, RunnerStep, ReconcileStep, WatchdogStep, StopStep,
      EnvStep

(* Every step keeps a cancellation where it can be.                        *)
LEMMA CancelStep == SessionInv /\ [Next]_ingestVars => CancelMatchesRunner'
<1> SUFFICES ASSUME SessionInv, [Next]_ingestVars PROVE CancelMatchesRunner'
  OBVIOUS
<1> USE DEF SessionInv, CancelMatchesRunner, TypeOK, TasksMatchRunner, HasWs, ingestVars, demandVars, reconVars, taskVars, runnerVars, stopVars, netVars
<1>1. CASE UNCHANGED ingestVars
  BY <1>1
<1>2. ASSUME NEW ts \in SUBSET Topics, OnFirstSubscriber(ts)
      PROVE  CancelMatchesRunner'
  BY <1>2 DEF OnFirstSubscriber
<1>3. ASSUME NEW ts \in SUBSET Topics, OnLastUnsubscriber(ts)
      PROVE  CancelMatchesRunner'
  BY <1>3 DEF OnLastUnsubscriber
<1>4. ASSUME Start
      PROVE  CancelMatchesRunner'
  BY <1>4 DEF Start
<1>5. ASSUME StopBegins
      PROVE  CancelMatchesRunner'
  BY <1>5 DEF StopBegins, CancelRunner, Shut, HasWs
<1>6. ASSUME RunBegins
      PROVE  CancelMatchesRunner'
  BY <1>6 DEF RunBegins, EnsureUpstreamRegistered
<1>7. ASSUME ConnectSucceeds
      PROVE  CancelMatchesRunner'
  BY <1>7 DEF ConnectSucceeds, MarkConnected, SessionForgetsActive, Lesser
<1>8. ASSUME ConnectFails
      PROVE  CancelMatchesRunner'
  BY <1>8 DEF ConnectFails, LeaveOrBackOff
<1>9. ASSUME BackoffEnds
      PROVE  CancelMatchesRunner'
  BY <1>9 DEF BackoffEnds, NextBackoff, Lesser
<1>10. ASSUME SessionEnds
      PROVE  CancelMatchesRunner'
  BY <1>10 DEF SessionEnds
<1>11. ASSUME JoinReturns
      PROVE  CancelMatchesRunner'
  BY <1>11 DEF JoinReturns, Shut
<1>12. ASSUME AexitReturns
      PROVE  CancelMatchesRunner'
  BY <1>12 DEF AexitReturns, LeaveOrBackOff
<1>13. ASSUME RunnerCancelled
      PROVE  CancelMatchesRunner'
  BY <1>13 DEF RunnerCancelled
<1>14. ASSUME ReceiveEnds
      PROVE  CancelMatchesRunner'
  BY <1>14 DEF ReceiveEnds
<1>15. ASSUME ReconcileWakes
      PROVE  CancelMatchesRunner'
  BY <1>15 DEF ReconcileWakes
<1>16. ASSUME SendReturns
      PROVE  CancelMatchesRunner'
  BY <1>16 DEF SendReturns
<1>17. ASSUME WatchdogQuits
      PROVE  CancelMatchesRunner'
  BY <1>17 DEF WatchdogQuits
<1>18. ASSUME WatchdogExpires
      PROVE  CancelMatchesRunner'
  BY <1>18 DEF WatchdogExpires, Shut
<1>19. ASSUME WatchdogCloses
      PROVE  CancelMatchesRunner'
  BY <1>19 DEF WatchdogCloses
<1>20. ASSUME StopCancels
      PROVE  CancelMatchesRunner'
  BY <1>20 DEF StopCancels, CancelRunner
<1>21. ASSUME StopReturns
      PROVE  CancelMatchesRunner'
  BY <1>21 DEF StopReturns
<1>22. ASSUME ConnLost
      PROVE  CancelMatchesRunner'
  BY <1>22 DEF ConnLost, Shut
<1>23. ASSUME ServerApplies
      PROVE  CancelMatchesRunner'
  BY <1>23 DEF ServerApplies
<1>24. ASSUME Tick
      PROVE  CancelMatchesRunner'
  BY <1>24 DEF Tick
<1>25. ASSUME NEW kind \in FrameKinds, ReceiveFrame(kind)
      PROVE  CancelMatchesRunner'
  BY <1>25 DEF ReceiveFrame
<1> QED
  BY <1>1, <1>2, <1>3, <1>4, <1>5, <1>6, <1>7, <1>8, <1>9, <1>10, <1>11,
     <1>12, <1>13, <1>14, <1>15, <1>16, <1>17, <1>18, <1>19, <1>20, <1>21,
     <1>22, <1>23, <1>24, <1>25
  DEF Next, DemandStep, OwnStep, RunnerStep, ReconcileStep, WatchdogStep, StopStep,
      EnvStep

(* Every step keeps the run loop in agreement with stop().                 *)
LEMMA StopperStep == IInv /\ [Next]_ingestVars => StopMatchesRunner'
<1> SUFFICES ASSUME IInv, [Next]_ingestVars PROVE StopMatchesRunner'
  OBVIOUS
<1> USE DEF IInv, SessionInv, CancelMatchesRunner, TypeOK, StopMatchesRunner, QuietAfterStop, HasWs, ingestVars, demandVars, reconVars, taskVars, runnerVars, stopVars, netVars
<1>1. CASE UNCHANGED ingestVars
  BY <1>1
<1>2. ASSUME NEW ts \in SUBSET Topics, OnFirstSubscriber(ts)
      PROVE  StopMatchesRunner'
  BY <1>2 DEF OnFirstSubscriber
<1>3. ASSUME NEW ts \in SUBSET Topics, OnLastUnsubscriber(ts)
      PROVE  StopMatchesRunner'
  BY <1>3 DEF OnLastUnsubscriber
<1>4. ASSUME Start
      PROVE  StopMatchesRunner'
  BY <1>4 DEF Start
<1>5. ASSUME StopBegins
      PROVE  StopMatchesRunner'
  BY <1>5 DEF StopBegins, CancelRunner, Shut, HasWs
<1>6. ASSUME RunBegins
      PROVE  StopMatchesRunner'
  BY <1>6 DEF RunBegins, EnsureUpstreamRegistered
<1>7. ASSUME ConnectSucceeds
      PROVE  StopMatchesRunner'
  BY <1>7 DEF ConnectSucceeds, MarkConnected, SessionForgetsActive, Lesser
<1>8. ASSUME ConnectFails
      PROVE  StopMatchesRunner'
  BY <1>8 DEF ConnectFails, LeaveOrBackOff
<1>9. ASSUME BackoffEnds
      PROVE  StopMatchesRunner'
  BY <1>9 DEF BackoffEnds, NextBackoff, Lesser
<1>10. ASSUME SessionEnds
      PROVE  StopMatchesRunner'
  BY <1>10 DEF SessionEnds
<1>11. ASSUME JoinReturns
      PROVE  StopMatchesRunner'
  BY <1>11 DEF JoinReturns, Shut
<1>12. ASSUME AexitReturns
      PROVE  StopMatchesRunner'
  BY <1>12 DEF AexitReturns, LeaveOrBackOff
<1>13. ASSUME RunnerCancelled
      PROVE  StopMatchesRunner'
  BY <1>13 DEF RunnerCancelled
<1>14. ASSUME ReceiveEnds
      PROVE  StopMatchesRunner'
  BY <1>14 DEF ReceiveEnds
<1>15. ASSUME ReconcileWakes
      PROVE  StopMatchesRunner'
  BY <1>15 DEF ReconcileWakes
<1>16. ASSUME SendReturns
      PROVE  StopMatchesRunner'
  BY <1>16 DEF SendReturns
<1>17. ASSUME WatchdogQuits
      PROVE  StopMatchesRunner'
  BY <1>17 DEF WatchdogQuits
<1>18. ASSUME WatchdogExpires
      PROVE  StopMatchesRunner'
  BY <1>18 DEF WatchdogExpires, Shut
<1>19. ASSUME WatchdogCloses
      PROVE  StopMatchesRunner'
  BY <1>19 DEF WatchdogCloses
<1>20. ASSUME StopCancels
      PROVE  StopMatchesRunner'
  BY <1>20 DEF StopCancels, CancelRunner
<1>21. ASSUME StopReturns
      PROVE  StopMatchesRunner'
  BY <1>21 DEF StopReturns
<1>22. ASSUME ConnLost
      PROVE  StopMatchesRunner'
  BY <1>22 DEF ConnLost, Shut
<1>23. ASSUME ServerApplies
      PROVE  StopMatchesRunner'
  BY <1>23 DEF ServerApplies
<1>24. ASSUME Tick
      PROVE  StopMatchesRunner'
  BY <1>24 DEF Tick
<1>25. ASSUME NEW kind \in FrameKinds, ReceiveFrame(kind)
      PROVE  StopMatchesRunner'
  BY <1>25 DEF ReceiveFrame
<1> QED
  BY <1>1, <1>2, <1>3, <1>4, <1>5, <1>6, <1>7, <1>8, <1>9, <1>10, <1>11,
     <1>12, <1>13, <1>14, <1>15, <1>16, <1>17, <1>18, <1>19, <1>20, <1>21,
     <1>22, <1>23, <1>24, <1>25
  DEF Next, DemandStep, OwnStep, RunnerStep, ReconcileStep, WatchdogStep, StopStep,
      EnvStep

(* Every step keeps the promise that no wakeup is lost: a step that changes*)
(* the demand raises the event, and a pass that begins plans for the demand*)
(* it reads; the steps of a pass carry the plan out without changing it.   *)
LEMMA WakeupStep == SessionInv /\ [Next]_ingestVars => NoLostWakeup'
<1> SUFFICES ASSUME SessionInv, [Next]_ingestVars PROVE NoLostWakeup'
  OBVIOUS
<1> USE DEF SessionInv, TypeOK, TasksMatchRunner, NoLostWakeup, Planned, ingestVars, demandVars, reconVars, taskVars, runnerVars, stopVars, netVars
<1>1. CASE UNCHANGED ingestVars
  BY <1>1
<1>2. ASSUME NEW ts \in SUBSET Topics, OnFirstSubscriber(ts)
      PROVE  NoLostWakeup'
  BY <1>2 DEF OnFirstSubscriber
<1>3. ASSUME NEW ts \in SUBSET Topics, OnLastUnsubscriber(ts)
      PROVE  NoLostWakeup'
  BY <1>3 DEF OnLastUnsubscriber
<1>4. ASSUME Start
      PROVE  NoLostWakeup'
  BY <1>4 DEF Start
<1>5. ASSUME StopBegins
      PROVE  NoLostWakeup'
  BY <1>5 DEF StopBegins, CancelRunner, Shut, HasWs
<1>6. ASSUME RunBegins
      PROVE  NoLostWakeup'
  BY <1>6 DEF RunBegins, EnsureUpstreamRegistered
<1>7. ASSUME ConnectSucceeds
      PROVE  NoLostWakeup'
  BY <1>7 DEF ConnectSucceeds, MarkConnected, SessionForgetsActive, Lesser
<1>8. ASSUME ConnectFails
      PROVE  NoLostWakeup'
  BY <1>8 DEF ConnectFails, LeaveOrBackOff
<1>9. ASSUME BackoffEnds
      PROVE  NoLostWakeup'
  BY <1>9 DEF BackoffEnds, NextBackoff, Lesser
<1>10. ASSUME SessionEnds
      PROVE  NoLostWakeup'
  BY <1>10 DEF SessionEnds
<1>11. ASSUME JoinReturns
      PROVE  NoLostWakeup'
  BY <1>11 DEF JoinReturns, Shut
<1>12. ASSUME AexitReturns
      PROVE  NoLostWakeup'
  BY <1>12 DEF AexitReturns, LeaveOrBackOff
<1>13. ASSUME RunnerCancelled
      PROVE  NoLostWakeup'
  BY <1>13 DEF RunnerCancelled
<1>14. ASSUME ReceiveEnds
      PROVE  NoLostWakeup'
  BY <1>14 DEF ReceiveEnds
<1>15. ASSUME ReconcileWakes
      PROVE  NoLostWakeup'
  <2>1. CASE stopping
    BY <1>15, <2>1 DEF ReconcileWakes
  <2>2. CASE ~stopping
    BY <1>15, <2>2, WakeEffect DEF ReconcileWakes
  <2> QED BY <2>1, <2>2
<1>16. ASSUME SendReturns
      PROVE  NoLostWakeup'
  <2>1. CASE conn # "open"
    BY <1>16, <2>1 DEF SendReturns
  <2>2. CASE conn = "open"
    BY <1>16, <2>2, SendEffect DEF SendReturns
  <2> QED BY <2>1, <2>2
<1>17. ASSUME WatchdogQuits
      PROVE  NoLostWakeup'
  BY <1>17 DEF WatchdogQuits
<1>18. ASSUME WatchdogExpires
      PROVE  NoLostWakeup'
  BY <1>18 DEF WatchdogExpires, Shut
<1>19. ASSUME WatchdogCloses
      PROVE  NoLostWakeup'
  BY <1>19 DEF WatchdogCloses
<1>20. ASSUME StopCancels
      PROVE  NoLostWakeup'
  BY <1>20 DEF StopCancels, CancelRunner
<1>21. ASSUME StopReturns
      PROVE  NoLostWakeup'
  BY <1>21 DEF StopReturns
<1>22. ASSUME ConnLost
      PROVE  NoLostWakeup'
  BY <1>22 DEF ConnLost, Shut
<1>23. ASSUME ServerApplies
      PROVE  NoLostWakeup'
  BY <1>23 DEF ServerApplies
<1>24. ASSUME Tick
      PROVE  NoLostWakeup'
  BY <1>24 DEF Tick
<1>25. ASSUME NEW kind \in FrameKinds, ReceiveFrame(kind)
      PROVE  NoLostWakeup'
  BY <1>25 DEF ReceiveFrame
<1> QED
  BY <1>1, <1>2, <1>3, <1>4, <1>5, <1>6, <1>7, <1>8, <1>9, <1>10, <1>11,
     <1>12, <1>13, <1>14, <1>15, <1>16, <1>17, <1>18, <1>19, <1>20, <1>21,
     <1>22, <1>23, <1>24, <1>25
  DEF Next, DemandStep, OwnStep, RunnerStep, ReconcileStep, WatchdogStep, StopStep,
      EnvStep

(* Every step keeps the beliefs true: a frame is added to the wire and to  *)
(* what is being sent together, and the connection loses none of them.     *)
LEMMA BeliefStep == SessionInv /\ [Next]_ingestVars => BeliefMatchesExchange'
<1> SUFFICES ASSUME SessionInv, [Next]_ingestVars PROVE BeliefMatchesExchange'
  OBVIOUS
<1> USE DEF SessionInv, TypeOK, BeliefMatchesExchange, ingestVars, demandVars, reconVars, taskVars, runnerVars, stopVars, netVars
<1>1. CASE UNCHANGED ingestVars
  BY <1>1 DEF WillServe
<1>2. ASSUME NEW ts \in SUBSET Topics, OnFirstSubscriber(ts)
      PROVE  BeliefMatchesExchange'
  BY <1>2 DEF OnFirstSubscriber, WillServe
<1>3. ASSUME NEW ts \in SUBSET Topics, OnLastUnsubscriber(ts)
      PROVE  BeliefMatchesExchange'
  BY <1>3 DEF OnLastUnsubscriber, WillServe
<1>4. ASSUME Start
      PROVE  BeliefMatchesExchange'
  BY <1>4 DEF Start, WillServe
<1>5. ASSUME StopBegins
      PROVE  BeliefMatchesExchange'
  BY <1>5 DEF StopBegins, CancelRunner, Shut, HasWs, WillServe
<1>6. ASSUME RunBegins
      PROVE  BeliefMatchesExchange'
  BY <1>6 DEF RunBegins, EnsureUpstreamRegistered, WillServe
<1>7. ASSUME ConnectSucceeds
      PROVE  BeliefMatchesExchange'
  <2>1. wire' = <<>> /\ serverSubs' = {} /\ active' = {} /\ sending' = NoFrame
    BY <1>7 DEF ConnectSucceeds, MarkConnected, SessionForgetsActive, TasksMatchRunner
  <2>2. WillServe' = {}
    BY <2>1 DEF WillServe
  <2> QED BY <2>1, <2>2 DEF Applied, NoFrame
<1>8. ASSUME ConnectFails
      PROVE  BeliefMatchesExchange'
  BY <1>8 DEF ConnectFails, LeaveOrBackOff, WillServe
<1>9. ASSUME BackoffEnds
      PROVE  BeliefMatchesExchange'
  BY <1>9 DEF BackoffEnds, NextBackoff, Lesser, WillServe
<1>10. ASSUME SessionEnds
      PROVE  BeliefMatchesExchange'
  BY <1>10 DEF SessionEnds, WillServe
<1>11. ASSUME JoinReturns
      PROVE  BeliefMatchesExchange'
  BY <1>11 DEF JoinReturns, Shut, WillServe
<1>12. ASSUME AexitReturns
      PROVE  BeliefMatchesExchange'
  BY <1>12 DEF AexitReturns, LeaveOrBackOff, WillServe
<1>13. ASSUME RunnerCancelled
      PROVE  BeliefMatchesExchange'
  BY <1>13 DEF RunnerCancelled, WillServe
<1>14. ASSUME ReceiveEnds
      PROVE  BeliefMatchesExchange'
  BY <1>14 DEF ReceiveEnds, WillServe
<1>15. ASSUME ReconcileWakes
      PROVE  BeliefMatchesExchange'
  <2>1. CASE stopping
    BY <1>15, <2>1 DEF ReconcileWakes, WillServe
  <2>2. CASE ~stopping /\ conn = "open"
    <3>1. reconcile' # "done" /\ serverSubs' = serverSubs /\ active' = active
      BY <1>15, <2>2, WakeEffect DEF ReconcileWakes
    <3>2. sending = NoFrame
      BY <1>15 DEF ReconcileWakes, TasksMatchRunner
    <3>3. WillServe = active \cap Traded
      BY <1>15, <2>2, <3>2 DEF ReconcileWakes, Applied, NoFrame
    <3>4. CASE sending' = NoFrame /\ wire' = wire
      BY <1>15, <3>1, <3>3, <3>4 DEF ReconcileWakes, WillServe, Applied, NoFrame
    <3>5. CASE sending' \in Frames /\ wire' = Append(wire, sending')
      <4>1. WillServe' = Applied(WillServe, sending') \cap Traded
        BY <3>1, <3>5, WireAppend
      <4>2. Applied(WillServe, sending') \cap Traded = Applied(active', sending') \cap Traded
        BY <3>1, <3>3 DEF Applied
      <4> QED BY <4>1, <4>2
    <3> QED BY <2>2, <1>15, <3>1, <3>4, <3>5, WakeEffect
  <2>3. CASE ~stopping /\ conn # "open"
    BY <1>15, <2>3 DEF ReconcileWakes
  <2> QED BY <2>1, <2>2, <2>3
<1>16. ASSUME SendReturns
      PROVE  BeliefMatchesExchange'
  <2>1. CASE conn # "open"
    BY <1>16, <2>1 DEF SendReturns
  <2>2. CASE conn = "open"
    <3>1. serverSubs' = serverSubs /\ active' = Applied(active, sending)
      BY <1>16, <2>2, SendEffect DEF SendReturns
    <3>2. WillServe = Applied(active, sending) \cap Traded
      BY <1>16, <2>2 DEF SendReturns
    <3>3. CASE sending' = NoFrame /\ wire' = wire
      <4>1. WillServe' = WillServe
        BY <3>1, <3>3 DEF WillServe
      <4>2. Applied(active', NoFrame) = active'
        BY DEF Applied, NoFrame
      <4> QED BY <3>1, <3>2, <3>3, <4>1, <4>2
    <3>4. CASE sending' \in Frames /\ wire' = Append(wire, sending')
      <4>1. WillServe' = Applied(WillServe, sending') \cap Traded
        BY <3>1, <3>4, WireAppend
      <4>2. Applied(WillServe, sending') \cap Traded = Applied(active', sending') \cap Traded
        BY <3>1, <3>2 DEF Applied
      <4> QED BY <4>1, <4>2
    <3> QED BY <2>2, <1>16, <3>3, <3>4, SendEffect
  <2> QED BY <2>1, <2>2
<1>17. ASSUME WatchdogQuits
      PROVE  BeliefMatchesExchange'
  BY <1>17 DEF WatchdogQuits, WillServe
<1>18. ASSUME WatchdogExpires
      PROVE  BeliefMatchesExchange'
  BY <1>18 DEF WatchdogExpires, Shut, WillServe
<1>19. ASSUME WatchdogCloses
      PROVE  BeliefMatchesExchange'
  BY <1>19 DEF WatchdogCloses, WillServe
<1>20. ASSUME StopCancels
      PROVE  BeliefMatchesExchange'
  BY <1>20 DEF StopCancels, CancelRunner, WillServe
<1>21. ASSUME StopReturns
      PROVE  BeliefMatchesExchange'
  BY <1>21 DEF StopReturns, WillServe
<1>22. ASSUME ConnLost
      PROVE  BeliefMatchesExchange'
  BY <1>22 DEF ConnLost, Shut, WillServe
<1>23. ASSUME ServerApplies
      PROVE  BeliefMatchesExchange'
  <2>1. WillServe' = WillServe
    BY <1>23, WireTail DEF ServerApplies
  <2> QED BY <1>23, <2>1 DEF ServerApplies
<1>24. ASSUME Tick
      PROVE  BeliefMatchesExchange'
  BY <1>24 DEF Tick, WillServe
<1>25. ASSUME NEW kind \in FrameKinds, ReceiveFrame(kind)
      PROVE  BeliefMatchesExchange'
  BY <1>25 DEF ReceiveFrame, WillServe
<1> QED
  BY <1>1, <1>2, <1>3, <1>4, <1>5, <1>6, <1>7, <1>8, <1>9, <1>10, <1>11,
     <1>12, <1>13, <1>14, <1>15, <1>16, <1>17, <1>18, <1>19, <1>20, <1>21,
     <1>22, <1>23, <1>24, <1>25
  DEF Next, DemandStep, OwnStep, RunnerStep, ReconcileStep, WatchdogStep, StopStep,
      EnvStep

(* Every step keeps the report of a resting reconcile loop true.           *)
LEMMA ReportStep == SessionInv /\ [Next]_ingestVars => ReportMatchesBelief'
<1> SUFFICES ASSUME SessionInv, [Next]_ingestVars PROVE ReportMatchesBelief'
  OBVIOUS
<1> USE DEF SessionInv, ReportMatchesBelief, ingestVars, demandVars, reconVars, taskVars,
            runnerVars, stopVars, netVars
<1>1. CASE UNCHANGED ingestVars
  BY <1>1
<1>2. ASSUME NEW ts \in SUBSET Topics, OnFirstSubscriber(ts)
      PROVE  ReportMatchesBelief'
  BY <1>2 DEF OnFirstSubscriber
<1>3. ASSUME NEW ts \in SUBSET Topics, OnLastUnsubscriber(ts)
      PROVE  ReportMatchesBelief'
  BY <1>3 DEF OnLastUnsubscriber
<1>4. ASSUME Start
      PROVE  ReportMatchesBelief'
  BY <1>4 DEF Start
<1>5. ASSUME StopBegins
      PROVE  ReportMatchesBelief'
  BY <1>5 DEF StopBegins, CancelRunner, Shut, HasWs
<1>6. ASSUME RunBegins
      PROVE  ReportMatchesBelief'
  BY <1>6 DEF RunBegins, EnsureUpstreamRegistered
<1>7. ASSUME ConnectSucceeds
      PROVE  ReportMatchesBelief'
  BY <1>7 DEF ConnectSucceeds, MarkConnected, SessionForgetsActive, Lesser
<1>8. ASSUME ConnectFails
      PROVE  ReportMatchesBelief'
  BY <1>8 DEF ConnectFails, LeaveOrBackOff
<1>9. ASSUME BackoffEnds
      PROVE  ReportMatchesBelief'
  BY <1>9 DEF BackoffEnds, NextBackoff, Lesser
<1>10. ASSUME SessionEnds
      PROVE  ReportMatchesBelief'
  BY <1>10 DEF SessionEnds
<1>11. ASSUME JoinReturns
      PROVE  ReportMatchesBelief'
  BY <1>11 DEF JoinReturns, Shut
<1>12. ASSUME AexitReturns
      PROVE  ReportMatchesBelief'
  BY <1>12 DEF AexitReturns, LeaveOrBackOff
<1>13. ASSUME RunnerCancelled
      PROVE  ReportMatchesBelief'
  BY <1>13 DEF RunnerCancelled
<1>14. ASSUME ReceiveEnds
      PROVE  ReportMatchesBelief'
  BY <1>14 DEF ReceiveEnds
<1>15. ASSUME ReconcileWakes
      PROVE  ReportMatchesBelief'
  <2>1. CASE stopping
    BY <1>15, <2>1 DEF ReconcileWakes
  <2>2. CASE ~stopping
    BY <1>15, <2>2, WakeEffect
  <2> QED BY <2>1, <2>2
<1>16. ASSUME SendReturns
      PROVE  ReportMatchesBelief'
  <2>1. CASE conn = "open"
    BY <1>16, <2>1, SendEffect
  <2>2. CASE conn # "open"
    BY <1>16, <2>2 DEF SendReturns
  <2> QED BY <2>1, <2>2
<1>17. ASSUME WatchdogQuits
      PROVE  ReportMatchesBelief'
  BY <1>17 DEF WatchdogQuits
<1>18. ASSUME WatchdogExpires
      PROVE  ReportMatchesBelief'
  BY <1>18 DEF WatchdogExpires, Shut
<1>19. ASSUME WatchdogCloses
      PROVE  ReportMatchesBelief'
  BY <1>19 DEF WatchdogCloses
<1>20. ASSUME StopCancels
      PROVE  ReportMatchesBelief'
  BY <1>20 DEF StopCancels, CancelRunner
<1>21. ASSUME StopReturns
      PROVE  ReportMatchesBelief'
  BY <1>21 DEF StopReturns
<1>22. ASSUME ConnLost
      PROVE  ReportMatchesBelief'
  BY <1>22 DEF ConnLost, Shut
<1>23. ASSUME ServerApplies
      PROVE  ReportMatchesBelief'
  BY <1>23 DEF ServerApplies
<1>24. ASSUME Tick
      PROVE  ReportMatchesBelief'
  BY <1>24 DEF Tick
<1>25. ASSUME NEW kind \in FrameKinds, ReceiveFrame(kind)
      PROVE  ReportMatchesBelief'
  BY <1>25 DEF ReceiveFrame
<1> QED
  BY <1>1, <1>2, <1>3, <1>4, <1>5, <1>6, <1>7, <1>8, <1>9, <1>10, <1>11,
     <1>12, <1>13, <1>14, <1>15, <1>16, <1>17, <1>18, <1>19, <1>20, <1>21,
     <1>22, <1>23, <1>24, <1>25
  DEF Next, DemandStep, OwnStep, RunnerStep, ReconcileStep, WatchdogStep, StopStep,
      EnvStep

(* Every step keeps a stopped ingest quiet.                                *)
LEMMA QuietStep == IInv /\ [Next]_ingestVars => QuietAfterStop'
<1> SUFFICES ASSUME IInv, [Next]_ingestVars PROVE QuietAfterStop'
  OBVIOUS
<1> USE DEF IInv, SessionInv, CancelMatchesRunner, TypeOK, TasksMatchRunner, StopMatchesRunner, QuietAfterStop, HasWs, ingestVars, demandVars, reconVars, taskVars, runnerVars, stopVars, netVars
<1>1. CASE UNCHANGED ingestVars
  BY <1>1
<1>2. ASSUME NEW ts \in SUBSET Topics, OnFirstSubscriber(ts)
      PROVE  QuietAfterStop'
  BY <1>2 DEF OnFirstSubscriber
<1>3. ASSUME NEW ts \in SUBSET Topics, OnLastUnsubscriber(ts)
      PROVE  QuietAfterStop'
  BY <1>3 DEF OnLastUnsubscriber
<1>4. ASSUME Start
      PROVE  QuietAfterStop'
  BY <1>4 DEF Start
<1>5. ASSUME StopBegins
      PROVE  QuietAfterStop'
  BY <1>5 DEF StopBegins, CancelRunner, Shut, HasWs
<1>6. ASSUME RunBegins
      PROVE  QuietAfterStop'
  BY <1>6 DEF RunBegins, EnsureUpstreamRegistered
<1>7. ASSUME ConnectSucceeds
      PROVE  QuietAfterStop'
  BY <1>7 DEF ConnectSucceeds, MarkConnected, SessionForgetsActive, Lesser
<1>8. ASSUME ConnectFails
      PROVE  QuietAfterStop'
  BY <1>8 DEF ConnectFails, LeaveOrBackOff
<1>9. ASSUME BackoffEnds
      PROVE  QuietAfterStop'
  BY <1>9 DEF BackoffEnds, NextBackoff, Lesser
<1>10. ASSUME SessionEnds
      PROVE  QuietAfterStop'
  BY <1>10 DEF SessionEnds
<1>11. ASSUME JoinReturns
      PROVE  QuietAfterStop'
  BY <1>11 DEF JoinReturns, Shut
<1>12. ASSUME AexitReturns
      PROVE  QuietAfterStop'
  BY <1>12 DEF AexitReturns, LeaveOrBackOff
<1>13. ASSUME RunnerCancelled
      PROVE  QuietAfterStop'
  BY <1>13 DEF RunnerCancelled
<1>14. ASSUME ReceiveEnds
      PROVE  QuietAfterStop'
  BY <1>14 DEF ReceiveEnds
<1>15. ASSUME ReconcileWakes
      PROVE  QuietAfterStop'
  BY <1>15 DEF ReconcileWakes
<1>16. ASSUME SendReturns
      PROVE  QuietAfterStop'
  BY <1>16 DEF SendReturns
<1>17. ASSUME WatchdogQuits
      PROVE  QuietAfterStop'
  BY <1>17 DEF WatchdogQuits
<1>18. ASSUME WatchdogExpires
      PROVE  QuietAfterStop'
  BY <1>18 DEF WatchdogExpires, Shut
<1>19. ASSUME WatchdogCloses
      PROVE  QuietAfterStop'
  BY <1>19 DEF WatchdogCloses
<1>20. ASSUME StopCancels
      PROVE  QuietAfterStop'
  BY <1>20 DEF StopCancels, CancelRunner
<1>21. ASSUME StopReturns
      PROVE  QuietAfterStop'
  BY <1>21 DEF StopReturns
<1>22. ASSUME ConnLost
      PROVE  QuietAfterStop'
  BY <1>22 DEF ConnLost, Shut
<1>23. ASSUME ServerApplies
      PROVE  QuietAfterStop'
  BY <1>23 DEF ServerApplies
<1>24. ASSUME Tick
      PROVE  QuietAfterStop'
  BY <1>24 DEF Tick
<1>25. ASSUME NEW kind \in FrameKinds, ReceiveFrame(kind)
      PROVE  QuietAfterStop'
  BY <1>25 DEF ReceiveFrame
<1> QED
  BY <1>1, <1>2, <1>3, <1>4, <1>5, <1>6, <1>7, <1>8, <1>9, <1>10, <1>11,
     <1>12, <1>13, <1>14, <1>15, <1>16, <1>17, <1>18, <1>19, <1>20, <1>21,
     <1>22, <1>23, <1>24, <1>25
  DEF Next, DemandStep, OwnStep, RunnerStep, ReconcileStep, WatchdogStep, StopStep,
      EnvStep

(* Every step keeps the reported state in agreement with the session.      *)
LEMMA ConnectedStep == IInv /\ [Next]_ingestVars => ConnectedMeansSession'
<1> SUFFICES ASSUME IInv, [Next]_ingestVars PROVE ConnectedMeansSession'
  OBVIOUS
<1> USE DEF IInv, SessionInv, CancelMatchesRunner, TypeOK, ConnectedMeansSession, HasWs, ingestVars, demandVars, reconVars, taskVars, runnerVars, stopVars, netVars
<1>1. CASE UNCHANGED ingestVars
  BY <1>1
<1>2. ASSUME NEW ts \in SUBSET Topics, OnFirstSubscriber(ts)
      PROVE  ConnectedMeansSession'
  BY <1>2 DEF OnFirstSubscriber
<1>3. ASSUME NEW ts \in SUBSET Topics, OnLastUnsubscriber(ts)
      PROVE  ConnectedMeansSession'
  BY <1>3 DEF OnLastUnsubscriber
<1>4. ASSUME Start
      PROVE  ConnectedMeansSession'
  BY <1>4 DEF Start
<1>5. ASSUME StopBegins
      PROVE  ConnectedMeansSession'
  BY <1>5 DEF StopBegins, CancelRunner, Shut, HasWs
<1>6. ASSUME RunBegins
      PROVE  ConnectedMeansSession'
  BY <1>6 DEF RunBegins, EnsureUpstreamRegistered
<1>7. ASSUME ConnectSucceeds
      PROVE  ConnectedMeansSession'
  BY <1>7 DEF ConnectSucceeds, MarkConnected, SessionForgetsActive, Lesser
<1>8. ASSUME ConnectFails
      PROVE  ConnectedMeansSession'
  BY <1>8 DEF ConnectFails, LeaveOrBackOff
<1>9. ASSUME BackoffEnds
      PROVE  ConnectedMeansSession'
  BY <1>9 DEF BackoffEnds, NextBackoff, Lesser
<1>10. ASSUME SessionEnds
      PROVE  ConnectedMeansSession'
  BY <1>10 DEF SessionEnds
<1>11. ASSUME JoinReturns
      PROVE  ConnectedMeansSession'
  BY <1>11 DEF JoinReturns, Shut
<1>12. ASSUME AexitReturns
      PROVE  ConnectedMeansSession'
  BY <1>12 DEF AexitReturns, LeaveOrBackOff
<1>13. ASSUME RunnerCancelled
      PROVE  ConnectedMeansSession'
  BY <1>13 DEF RunnerCancelled
<1>14. ASSUME ReceiveEnds
      PROVE  ConnectedMeansSession'
  BY <1>14 DEF ReceiveEnds
<1>15. ASSUME ReconcileWakes
      PROVE  ConnectedMeansSession'
  BY <1>15 DEF ReconcileWakes
<1>16. ASSUME SendReturns
      PROVE  ConnectedMeansSession'
  BY <1>16 DEF SendReturns
<1>17. ASSUME WatchdogQuits
      PROVE  ConnectedMeansSession'
  BY <1>17 DEF WatchdogQuits
<1>18. ASSUME WatchdogExpires
      PROVE  ConnectedMeansSession'
  BY <1>18 DEF WatchdogExpires, Shut
<1>19. ASSUME WatchdogCloses
      PROVE  ConnectedMeansSession'
  BY <1>19 DEF WatchdogCloses
<1>20. ASSUME StopCancels
      PROVE  ConnectedMeansSession'
  BY <1>20 DEF StopCancels, CancelRunner
<1>21. ASSUME StopReturns
      PROVE  ConnectedMeansSession'
  BY <1>21 DEF StopReturns
<1>22. ASSUME ConnLost
      PROVE  ConnectedMeansSession'
  BY <1>22 DEF ConnLost, Shut
<1>23. ASSUME ServerApplies
      PROVE  ConnectedMeansSession'
  BY <1>23 DEF ServerApplies
<1>24. ASSUME Tick
      PROVE  ConnectedMeansSession'
  BY <1>24 DEF Tick
<1>25. ASSUME NEW kind \in FrameKinds, ReceiveFrame(kind)
      PROVE  ConnectedMeansSession'
  BY <1>25 DEF ReceiveFrame
<1> QED
  BY <1>1, <1>2, <1>3, <1>4, <1>5, <1>6, <1>7, <1>8, <1>9, <1>10, <1>11,
     <1>12, <1>13, <1>14, <1>15, <1>16, <1>17, <1>18, <1>19, <1>20, <1>21,
     <1>22, <1>23, <1>24, <1>25
  DEF Next, DemandStep, OwnStep, RunnerStep, ReconcileStep, WatchdogStep, StopStep,
      EnvStep

-----------------------------------------------------------------------------
(* The initial states satisfy the inductive invariant.                     *)
LEMMA InitIInv == Init => IInv
<1> SUFFICES ASSUME Init PROVE IInv
  OBVIOUS
<1>1. NothingToDo \in [add : SUBSET InScope, remove : SUBSET InScope]
  BY DEF NothingToDo
<1>2. TypeOK
  <2>1. /\ age \in 0..HeartbeatTimeout + 1 /\ backoff \in InitialBackoff..MaxBackoff
        /\ reconnects \in 0..MaxReconnects /\ starts \in 0..MaxStarts
    BY IngestAssumption DEF Init
  <2>2. wire \in Seq(Frames) /\ sending \in Frames \cup {NoFrame}
    BY DEF Init
  <2>3. /\ desired \subseteq InScope /\ active \subseteq InScope
        /\ upTopics \subseteq InScope /\ serverSubs \subseteq Traded
    BY DEF Init
  <2> QED BY <1>1, <2>1, <2>2, <2>3 DEF Init, TypeOK
<1>3. TasksMatchRunner
  BY DEF Init, TasksMatchRunner, HasWs, NothingToDo
<1> QED
  BY <1>2, <1>3
  DEF Init, IInv, SessionInv, StopMatchesRunner, CancelMatchesRunner, NoLostWakeup,
      BeliefMatchesExchange, ReportMatchesBelief, QuietAfterStop, ConnectedMeansSession

(* What a session rests on does not depend on why the run loop ends.       *)
LEMMA SessionStep == SessionInv /\ [Next]_ingestVars => SessionInv'
  BY TypeStep, TasksStep, CancelStep, WakeupStep, BeliefStep, ReportStep DEF SessionInv

(* The inductive invariant holds in every reachable state.  NoLostWakeup   *)
(* needs the shape of the plan (todo's two halves are disjoint, nothing is *)
(* planned outside a pass), BeliefMatchesExchange that nothing is being    *)
(* sent outside a pass, and QuietAfterStop where the run loop can be while *)
(* stop() waits for it.                                                    *)
THEOREM IngestInductive == Spec => []IInv
<1>1. IInv /\ [Next]_ingestVars => IInv'
  BY SessionStep, StopperStep, QuietStep, ConnectedStep DEF IInv
<1> QED BY <1>1, InitIInv, PTL DEF Spec

(* Type correctness of the ingest.                                         *)
THEOREM IngestTypeOK == Spec => []TypeOK
<1>1. IInv => TypeOK
  BY DEF IInv, SessionInv
<1> QED BY <1>1, IngestInductive, PTL

(* coinbase.py:371-376: no change of demand goes unnoticed by the          *)
(* reconcile loop, however it falls between the steps of a pass.           *)
THEOREM IngestNoLostWakeup == Spec => []NoLostWakeup
<1>1. IInv => NoLostWakeup
  BY DEF IInv, SessionInv
<1> QED BY <1>1, IngestInductive, PTL

(* coinbase.py:154-156: _active_upstream is what the exchange will send,   *)
(* as far as it trades it.                                                 *)
THEOREM IngestBeliefMatchesExchange == Spec => []BeliefMatchesExchange
<1>1. IInv => BeliefMatchesExchange
  BY DEF IInv, SessionInv
<1> QED BY <1>1, IngestInductive, PTL

(* coinbase.py:232-259: nothing of the ingest survives a stop().           *)
THEOREM IngestQuietAfterStop == Spec => []QuietAfterStop
<1>1. IInv => QuietAfterStop
  BY DEF IInv
<1> QED BY <1>1, IngestInductive, PTL

(* coinbase.py:273-302: "connected" is never reported without a session.   *)
THEOREM IngestConnectedMeansSession == Spec => []ConnectedMeansSession
<1>1. IInv => ConnectedMeansSession
  BY DEF IInv
<1> QED BY <1>1, IngestInductive, PTL
=============================================================================
