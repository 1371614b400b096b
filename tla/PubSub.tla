------------------------------- MODULE PubSub -------------------------------
(***************************************************************************)
(* What bus.py promises its users, with neither the topic index nor the    *)
(* asyncio queues it is built from: a message reaches every subscription   *)
(* interested in its topic at that moment and no other, in the order of    *)
(* publication; what is lost is the oldest unread message of a             *)
(* subscription with Capacity unread messages, and every loss is counted.  *)
(***************************************************************************)
EXTENDS Naturals, Sequences

CONSTANTS Subs, Topics, Capacity

VARIABLES interest,   \* interest[s]: the topics s is subscribed to
          inbox,      \* inbox[s]: messages for s, oldest first, not yet read
          lost,       \* lost[s]: how many messages s has lost
          published   \* number of messages published so far

pubSubVars == <<interest, inbox, lost, published>>

Init ==
  /\ interest = [s \in Subs |-> {}]
  /\ inbox = [s \in Subs |-> <<>>]
  /\ lost = [s \in Subs |-> 0]
  /\ published = 0

ChangeInterest(s, ts) ==
  /\ interest' = [interest EXCEPT ![s] = ts]
  /\ UNCHANGED <<inbox, lost, published>>

Publish(t) ==
  LET m == [topic |-> t, id |-> published + 1]
      To == {s \in Subs : t \in interest[s]}
      Full == {s \in To : Len(inbox[s]) >= Capacity}
  IN  /\ published' = published + 1
      /\ inbox' = [s \in Subs |->
                     IF s \in Full THEN Append(Tail(inbox[s]), m)
                     ELSE IF s \in To THEN Append(inbox[s], m)
                     ELSE inbox[s]]
      /\ lost' = [s \in Subs |-> IF s \in Full THEN lost[s] + 1 ELSE lost[s]]
      /\ UNCHANGED interest

Read(s) ==
  /\ inbox[s] # <<>>
  /\ inbox' = [inbox EXCEPT ![s] = Tail(@)]
  /\ UNCHANGED <<interest, lost, published>>

Next ==
  \/ \E s \in Subs : Read(s) \/ \E ts \in SUBSET Topics : ChangeInterest(s, ts)
  \/ \E t \in Topics : Publish(t)

Spec == Init /\ [][Next]_pubSubVars
=============================================================================
