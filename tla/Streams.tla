------------------------------ MODULE Streams -------------------------------
(***************************************************************************)
(* server/mcp_server.py, tool_stream_topic, beside the drain loop of       *)
(* snapshot.py: the calls that sample a topic for a while, through the     *)
(* registry, and the snapshot store, which reads the same messages from    *)
(* the bus without being a consumer and tracks the topics consumers hold.  *)
(* The bus is used through its promise, PubSub; the store is one of its    *)
(* subscriptions, named "store", and each call has another.                *)
(***************************************************************************)
EXTENDS Integers, Sequences, FiniteSets, Functions

CONSTANTS
  Calls,       \* calls of stream_topic; each has a fresh consumer id
  Topics,
  Products,
  ProductOf,   \* ProductOf[t]: the product_id of topic t
  Capacity,    \* queue size of a subscription
  HardMax,     \* HARD_MAX_MESSAGES
  MaxPublish   \* bound: messages published in a behaviour

ASSUME StreamsAssumption ==
  /\ Capacity \in Nat \ {0} /\ HardMax \in Nat \ {0} /\ MaxPublish \in Nat
  /\ ProductOf \in [Topics -> Products]
  /\ "store" \notin Calls

VARIABLES
  consumers, topics, refcount, balance,   \* the registry
  tracked,   \* the topics of the store's subscription
  inbox,     \* inbox[s]: the queue of subscription s
  lost,      \* lost[s]: its dropped_messages
  log,       \* history: the topics of the messages published, oldest first
  call,      \* call[c]: new, streaming, returned or cancelled
  cap,       \* cap[c]: cap_messages
  since,     \* history: how many messages were published when c registered
  got,       \* got[c]: collected, as positions in log
  cache      \* cache[p]: the newest message applied to p's snapshot, 0 for none

Subs == Calls \cup {"store"}

Registry == INSTANCE Registry WITH Consumers <- Calls
Bus == INSTANCE PubSub WITH
  interest <- [s \in Subs |-> IF s = "store" THEN tracked ELSE topics[s]],
  published <- Len(log)

registryVars == <<consumers, topics, refcount, balance>>
callVars == <<call, cap, since, got>>
streamsVars == <<registryVars, tracked, inbox, lost, log, callVars, cache>>

Lesser(m, n) == IF m < n THEN m ELSE n

Init ==
  /\ Registry!Init
  /\ tracked = {}
  /\ inbox = [s \in Subs |-> <<>>]
  /\ lost = [s \in Subs |-> 0]
  /\ log = <<>>
  /\ call = [c \in Calls |-> "new"]
  /\ cap = [c \in Calls |-> 0]
  /\ since = [c \in Calls |-> 0]
  /\ got = [c \in Calls |-> <<>>]
  /\ cache = [p \in Products |-> 0]

-----------------------------------------------------------------------------
(* The ingest publishes.  The store's drain loop is run often enough for   *)
(* its queue of 4096 never to be full: the receive loop suspends long      *)
(* before it has published that many messages.                             *)
StoreKeepsUp == Len(inbox["store"]) < Capacity

Publish(t) ==
  /\ Len(log) < MaxPublish /\ StoreKeepsUp
  /\ log' = Append(log, t)
  /\ UNCHANGED <<registryVars, tracked, callVars, cache>>
  /\ Bus!Publish(t)

-----------------------------------------------------------------------------
(* tool_stream_topic.  Arguments that are refused change nothing.          *)

\* The limits are not enforced.
Unclamped(n) == n

Clamped(n) == Lesser(n, HardMax)

\* register_consumer, with the callbacks of _build_core.
StreamBegins(c, t, n) ==
  /\ call[c] = "new"
  /\ call' = [call EXCEPT ![c] = "streaming"]
  /\ cap' = [cap EXCEPT ![c] = Clamped(n)]
  /\ since' = [since EXCEPT ![c] = Len(log)]
  /\ Registry!RegisterConsumer(c, {t})
  /\ tracked' = tracked \cup Registry!FirstHeld({t})
  /\ UNCHANGED <<inbox, lost, log, got, cache>>

\* A message that arrives as the deadline passes may be taken and forgotten.
CollectOrForget(c) ==
  /\ call[c] = "streaming" /\ Len(got[c]) < cap[c]
  /\ UNCHANGED <<registryVars, tracked, log, call, cap, since, cache>>
  /\ Bus!Read(c)
  /\ got' \in {got, [got EXCEPT ![c] = Append(@, Head(inbox[c]).id)]}

\* wait_for(sub.get()) returns a message.
Collect(c) ==
  /\ call[c] = "streaming" /\ Len(got[c]) < cap[c]
  /\ UNCHANGED <<registryVars, tracked, log, call, cap, since, cache>>
  /\ Bus!Read(c)
  /\ got' = [got EXCEPT ![c] = Append(@, Head(inbox[c]).id)]

\* unregister_consumer, with the callbacks; unread messages go with the
\* subscription.
Release(c) ==
  /\ Registry!UnregisterConsumer(c)
  /\ tracked' = tracked \ Registry!LastHeld(c, topics[c])
  /\ inbox' = [inbox EXCEPT ![c] = <<>>]

\* All that was asked for has been collected, or the deadline has passed,
\* which it may do whatever is buffered.
StreamReturns(c) ==
  /\ call[c] = "streaming"
  /\ call' = [call EXCEPT ![c] = "returned"]
  /\ Release(c)
  /\ UNCHANGED <<lost, log, cap, since, got, cache>>

\* The cancellation skips the clean-up.
StreamAbandoned(c) ==
  /\ call[c] = "streaming" /\ Len(got[c]) < cap[c] /\ inbox[c] = <<>>
  /\ call' = [call EXCEPT ![c] = "cancelled"]
  /\ UNCHANGED <<registryVars, tracked, inbox, lost, log, cap, since, got, cache>>

\* The client gives the call up, or the server stops, while it waits for a
\* message; the one that is just being put stays in the queue.
StreamCancelled(c) ==
  /\ call[c] = "streaming" /\ Len(got[c]) < cap[c]
  /\ call' = [call EXCEPT ![c] = "cancelled"]
  /\ Release(c)
  /\ UNCHANGED <<lost, log, cap, since, got, cache>>

-----------------------------------------------------------------------------
(* The snapshot store.                                                     *)

\* Only messages of topics still tracked are applied.
DrainTracked ==
  /\ UNCHANGED <<registryVars, tracked, log, callVars>>
  /\ Bus!Read("store")
  /\ LET m == Head(inbox["store"])
     IN  cache' = IF m.topic \in tracked
                  THEN [cache EXCEPT ![ProductOf[m.topic]] = m.id] ELSE cache

\* _drain takes a message and applies it, tracked or not any more.
Drain ==
  /\ UNCHANGED <<registryVars, tracked, log, callVars>>
  /\ Bus!Read("store")
  /\ LET m == Head(inbox["store"])
     IN  cache' = [cache EXCEPT ![ProductOf[m.topic]] = m.id]

-----------------------------------------------------------------------------
Next ==
  \/ \E t \in Topics : Publish(t)
  \/ \E c \in Calls :
       \/ \E t \in Topics, n \in 1..HardMax + 1 : StreamBegins(c, t, n)
       \/ Collect(c) \/ StreamReturns(c) \/ StreamCancelled(c)
  \/ Drain

Spec == Init /\ [][Next]_streamsVars

(* The event loop runs the drain task when it has something to read.       *)
FairSpec == Spec /\ WF_streamsVars(Drain)

-----------------------------------------------------------------------------
(* Type invariant.                                                         *)
TypeOK ==
  /\ tracked \subseteq Topics
  /\ log \in Seq(Topics) /\ Len(log) <= MaxPublish
  /\ \A s \in Subs : Len(inbox[s]) <= Capacity
  /\ lost \in [Subs -> 0..MaxPublish] /\ lost["store"] = 0
  /\ call \in [Calls -> {"new", "streaming", "returned", "cancelled"}]
  /\ cap \in [Calls -> 0..HardMax]
  /\ since \in [Calls -> 0..MaxPublish]
  /\ \A c \in Calls : Len(got[c]) <= cap[c] /\ Range(got[c]) \subseteq 1..Len(log)
  /\ cache \in [Products -> 0..MaxPublish]

Buffered(s) == [i \in DOMAIN inbox[s] |-> inbox[s][i].id]

(* What a call returns is a faithful sample (mcp_server.py:350-362): of    *)
(* the messages of its topic since it registered, each is collected,       *)
(* buffered or counted as dropped, in order and none twice, however the    *)
(* deadline, the publisher and the other calls interleave.                 *)
StreamComplete ==
  \A c \in Calls : call[c] = "streaming" =>
    LET sent == {i \in since[c] + 1..Len(log) : log[i] \in topics[c]}
        have == got[c] \o Buffered(c)
    IN  /\ Range(have) \subseteq sent
        /\ \A i, j \in DOMAIN have : i < j => have[i] < have[j]
        /\ Cardinality(sent) = Len(have) + lost[c]

(* A call that is over, whichever way, leaves nothing behind, and the      *)
(* store sees a topic exactly while a consumer wants it (snapshot.py:20).  *)
CallsLeaveNothing ==
  /\ consumers = {c \in Calls : call[c] = "streaming"}
  /\ Registry!CallbacksBalanced
  /\ tracked = UNION {topics[c] : c \in consumers}

(* Whoever has seen a message in a stream never finds the store to have    *)
(* missed it: it is applied or about to be, or a newer one of its product  *)
(* has been, even if the stream ended and its topic is untracked since.    *)
SnapshotNotBehind ==
  \A c \in Calls : \A i \in Range(got[c]) :
    i \in Range(Buffered("store")) \/ cache[ProductOf[log[i]]] >= i

(* Streaming a topic warms the cache (worked_examples.md:278): a product   *)
(* of which a call collected a message has a snapshot at least as new.     *)
StreamWarmsCache ==
  \A c \in Calls : \A i \in 1..MaxPublish :
    i \in Range(got[c]) ~> i <= Len(log) /\ cache[ProductOf[log[i]]] >= i
=============================================================================
