---------------------------- MODULE MCReadCache ----------------------------
EXTENDS ReadCache, TLC
CONSTANTS uhf, c1, c2

MCCap == <<"c", 600>>

\* The live history, and two windows that share a bucket; of a read-only
\* session, the capped window
MCRequests ==
  {[kind |-> "history", band |-> uhf, window |-> w, limit |-> 1] :
     w \in {<<"h", 24>>, <<"s", 2, 4>>, <<"s", 3, 5>>}}

Symmetry == Permutations(Clients)
=============================================================================
