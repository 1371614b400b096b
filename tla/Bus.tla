-------------------------------- MODULE Bus ---------------------------------
(***************************************************************************)
(* bus.py: InMemoryBus and its Subscriptions.  Each subscription object is *)
(* read by one coroutine, as every user of the bus does; get() suspends    *)
(* only on an empty queue, and is then "parked" until a message is put or  *)
(* its owner cancels it.  Everything else runs without suspending and is   *)
(* one step.                                                               *)
(***************************************************************************)
EXTENDS Naturals, Sequences

CONSTANTS
  Subs,        \* subscription objects, each of them created once
  Topics,
  MaxQueue,    \* maxsize of a subscription's asyncio.Queue
  MaxPublish   \* bound: messages published in a behaviour

ASSUME BusAssumption == MaxQueue \in Nat \ {0} /\ MaxPublish \in Nat

VARIABLES
  phase,      \* phase[s]: not yet created, open, or closed (_closed)
  topicsOf,   \* topicsOf[s]: Subscription._topics
  byTopic,    \* InMemoryBus._by_topic: topic -> subscriptions, empty ones pruned
  queue,      \* queue[s]: Subscription._queue
  dropped,    \* dropped[s]: Subscription.dropped_messages
  reader,     \* reader[s]: where the coroutine reading s is
  published   \* history: number of messages published

busVars == <<phase, topicsOf, byTopic, queue, dropped, reader, published>>

Open == {s \in Subs : phase[s] = "open"}

HoldersOf(t) == IF t \in DOMAIN byTopic THEN byTopic[t] ELSE {}

Init ==
  /\ phase = [s \in Subs |-> "new"]
  /\ topicsOf = [s \in Subs |-> {}]
  /\ byTopic = [t \in {} |-> {}]
  /\ queue = [s \in Subs |-> <<>>]
  /\ dropped = [s \in Subs |-> 0]
  /\ reader = [s \in Subs |-> "idle"]
  /\ published = 0

-----------------------------------------------------------------------------
(* The index with s entered under, or taken from, the topics ts.           *)
Enter(s, ts) ==
  [t \in DOMAIN byTopic \cup ts |->
     IF t \in ts THEN HoldersOf(t) \cup {s} ELSE byTopic[t]]

\* Empty holder sets stay in the index.
LeaveEmpty(s, ts) ==
  [t \in DOMAIN byTopic |-> IF t \in ts THEN byTopic[t] \ {s} ELSE byTopic[t]]

Leave(s, ts) ==
  LET kept == {t \in DOMAIN byTopic : t \notin ts \/ byTopic[t] \ {s} # {}}
  IN  [t \in kept |-> IF t \in ts THEN byTopic[t] \ {s} ELSE byTopic[t]]

Subscribe(s, ts) ==
  /\ phase[s] = "new"
  /\ phase' = [phase EXCEPT ![s] = "open"]
  /\ topicsOf' = [topicsOf EXCEPT ![s] = ts]
  /\ byTopic' = Enter(s, ts)
  /\ UNCHANGED <<queue, dropped, reader, published>>

\* A subscription closed without leaving the index.
UnsubscribeStaysIndexed(s) ==
  /\ phase[s] = "open"
  /\ phase' = [phase EXCEPT ![s] = "closed"]
  /\ UNCHANGED <<topicsOf, byTopic, queue, dropped, reader, published>>

\* _topics and the buffered messages stay; a parked reader is not woken.
Unsubscribe(s) ==
  /\ phase[s] = "open"
  /\ phase' = [phase EXCEPT ![s] = "closed"]
  /\ byTopic' = Leave(s, topicsOf[s])
  /\ UNCHANGED <<topicsOf, queue, dropped, reader, published>>

\* On a closed subscription add_topic raises and changes nothing.
AddTopic(s, t) ==
  /\ phase[s] = "open"
  /\ t \notin topicsOf[s]
  /\ topicsOf' = [topicsOf EXCEPT ![s] = @ \cup {t}]
  /\ byTopic' = Enter(s, {t})
  /\ UNCHANGED <<phase, queue, dropped, reader, published>>

RemoveTopic(s, t) ==
  /\ phase[s] = "open"
  /\ t \in topicsOf[s]
  /\ topicsOf' = [topicsOf EXCEPT ![s] = @ \ {t}]
  /\ byTopic' = Leave(s, {t})
  /\ UNCHANGED <<phase, queue, dropped, reader, published>>

-----------------------------------------------------------------------------
\* Drop-newest: a full queue refuses the message that arrives.
DeliverDropsNewest(s, m) == IF Len(queue[s]) < MaxQueue THEN Append(queue[s], m)
                            ELSE queue[s]

\* A queue without a limit: nothing is ever refused or dropped.
DeliverUnbounded(s, m) == Append(queue[s], m)

\* _deliver: on a full queue the oldest message makes room for the new one.
Deliver(s, m) == IF Len(queue[s]) < MaxQueue THEN Append(queue[s], m)
                 ELSE Append(Tail(queue[s]), m)

Publish(t) ==
  LET m == [topic |-> t, id |-> published + 1]
  IN  /\ published < MaxPublish
      /\ published' = published + 1
      /\ queue' = [s \in Subs |-> IF s \in HoldersOf(t) THEN Deliver(s, m) ELSE queue[s]]
      /\ dropped' = [s \in Subs |->
                       IF s \in HoldersOf(t) /\ Len(queue[s]) = MaxQueue
                       THEN dropped[s] + 1 ELSE dropped[s]]
      /\ UNCHANGED <<phase, topicsOf, byTopic, reader>>

-----------------------------------------------------------------------------
(* Subscription.get, as "async for" calls it.                              *)

\* A message is buffered: get returns it, at once or after being woken.
GetReturns(s) ==
  /\ phase[s] # "new"
  /\ reader[s] \in {"idle", "parked"}
  /\ queue[s] # <<>>
  /\ queue' = [queue EXCEPT ![s] = Tail(@)]
  /\ reader' = [reader EXCEPT ![s] = "idle"]
  /\ UNCHANGED <<phase, topicsOf, byTopic, dropped, published>>

\* The closed flag is not looked at: the reader parks on an empty queue.
GetParksAlways(s) ==
  /\ phase[s] # "new"
  /\ reader[s] = "idle"
  /\ queue[s] = <<>>
  /\ reader' = [reader EXCEPT ![s] = "parked"]
  /\ UNCHANGED <<phase, topicsOf, byTopic, queue, dropped, published>>

GetParks(s) ==
  /\ phase[s] = "open"
  /\ reader[s] = "idle"
  /\ queue[s] = <<>>
  /\ reader' = [reader EXCEPT ![s] = "parked"]
  /\ UNCHANGED <<phase, topicsOf, byTopic, queue, dropped, published>>

\* Closed and drained: SubscriptionClosedError, which ends the "async for".
GetRaisesClosed(s) ==
  /\ phase[s] = "closed"
  /\ reader[s] = "idle"
  /\ queue[s] = <<>>
  /\ reader' = [reader EXCEPT ![s] = "done"]
  /\ UNCHANGED <<phase, topicsOf, byTopic, queue, dropped, published>>

\* The reader's owner cancels it where it is suspended.
CancelReader(s) ==
  /\ reader[s] = "parked"
  /\ reader' = [reader EXCEPT ![s] = "done"]
  /\ UNCHANGED <<phase, topicsOf, byTopic, queue, dropped, published>>

ReaderStep(s) == GetReturns(s) \/ GetParks(s) \/ GetRaisesClosed(s)

Next ==
  \/ \E s \in Subs :
       \/ \E ts \in SUBSET Topics : Subscribe(s, ts)
       \/ Unsubscribe(s)
       \/ \E t \in Topics : AddTopic(s, t) \/ RemoveTopic(s, t)
       \/ ReaderStep(s)
       \/ CancelReader(s)
  \/ \E t \in Topics : Publish(t)

Spec == Init /\ [][Next]_busVars

(* The event loop runs every reader that is not suspended.                 *)
FairSpec == Spec /\ \A s \in Subs : WF_busVars(ReaderStep(s))

-----------------------------------------------------------------------------
(* Type invariant: queues hold messages and stay within their limit.       *)
TypeOK ==
  /\ phase \in [Subs -> {"new", "open", "closed"}]
  /\ topicsOf \in [Subs -> SUBSET Topics]
  /\ DOMAIN byTopic \subseteq Topics
  /\ byTopic \in [DOMAIN byTopic -> SUBSET Subs]
  /\ queue \in [Subs -> Seq([topic : Topics, id : 1..MaxPublish])]
  /\ \A s \in Subs : Len(queue[s]) <= MaxQueue
  /\ dropped \in [Subs -> 0..MaxPublish]
  /\ reader \in [Subs -> {"idle", "parked", "done"}]
  /\ published \in 0..MaxPublish

(* The index is the inverse of the open subscriptions' topic sets, with no *)
(* empty entry: no closed subscription lingers in it, none open is missed. *)
IndexExact ==
  /\ DOMAIN byTopic = {t \in Topics : \E s \in Open : t \in topicsOf[s]}
  /\ \A t \in DOMAIN byTopic : byTopic[t] = {s \in Open : t \in topicsOf[s]}

(* The bus keeps the promise of PubSub: routing by the index is routing by *)
(* interest, whatever slow or closed peers do.                             *)
Promise == INSTANCE PubSub WITH
  Capacity <- MaxQueue,
  interest <- [s \in Subs |-> IF s \in Open THEN topicsOf[s] ELSE {}],
  inbox <- queue,
  lost <- dropped
KeepsPromise == Promise!Spec

(* A reader that is not suspended when its subscription is closed reads    *)
(* what is buffered and then stops (test_bus.py:326).                      *)
ClosedReaderDrains ==
  \A s \in Subs : phase[s] = "closed" /\ reader[s] = "idle" ~> reader[s] = "done"
=============================================================================
