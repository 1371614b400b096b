------------------------------ MODULE MCIngest ------------------------------
(* Ingest with two channels: t1 and t2 share one, t3 has its own, and t4   *)
(* belongs to another venue.                                               *)
EXTENDS Ingest

MCChannelOf == [t \in Topics |-> IF t = "t3" THEN "ch2" ELSE "ch1"]
=============================================================================
