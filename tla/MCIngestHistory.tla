-------------------------- MODULE MCIngestHistory ---------------------------
(* IngestHistory with one channel for every topic.                         *)
EXTENDS IngestHistory

MCChannelOf == [t \in Topics |-> "ch1"]
=============================================================================
