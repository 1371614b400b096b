------------------------------- MODULE MCHub --------------------------------
\* Values for TLC.
EXTENDS Hub

MCChannelOf == [t \in Topics |-> "ch1"]
=============================================================================
