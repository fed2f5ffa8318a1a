------------------------- MODULE MCSynchroTraceGen -------------------------
(* Model-checking instance of SynchroTraceGen: two threads, three bytes, *)
(* a 3-value EID counter and a short input stream.                       *)
EXTENDS SynchroTraceGen

MCThreads == {1, 2}
MCAddrs == {0, 1, 2}
MCSyncAddrs == {10}
=============================================================================
