--------------------------- MODULE IngestHistory ----------------------------
(***************************************************************************)
(* Ingest with a history variable, for statements that its comments make   *)
(* about the past of a state.                                              *)
(***************************************************************************)
EXTENDS Ingest

VARIABLE
  waited     \* ticks in this session without a frame although one is wanted

historyVars == <<ingestVars, waited>>

HistoryInit == Init /\ waited = 0

HistoryNext ==
  /\ Next
  /\ waited' = IF age' = 0 \/ desired = {} \/ desired' = {} THEN 0
               ELSE IF age' > age THEN waited + 1 ELSE waited

HistorySpec == HistoryInit /\ [][HistoryNext]_historyVars

(* A feed is given up as stale only after HeartbeatTimeout of waiting for  *)
(* frames somebody wants: coinbase.py:442 "Only enforce after we've seen   *)
(* at least one frame OR we've been actively expecting frames (i.e.        *)
(* desired is non-empty)".                                                 *)
StaleOnlyAfterWaiting ==
  [][watchdog = "on" /\ watchdog' = "closing" => waited > HeartbeatTimeout]_historyVars

(* One bad frame does not end the session: coinbase.py:53.                 *)
BadFrameSurvived ==
  [][\A kind \in FrameKinds : ReceiveFrame(kind) => receive' = "on"]_historyVars
=============================================================================
