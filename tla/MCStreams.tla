----------------------------- MODULE MCStreams ------------------------------
(* Streams with two topics of one product.                                 *)
EXTENDS Streams

MCProductOf == [t \in Topics |-> "btc"]
=============================================================================
