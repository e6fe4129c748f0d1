------------------------------ MODULE MCDynSec ------------------------------
EXTENDS DynSec
CONSTANTS alice, demo, viewers, team, s1, k1, toAlice, toTeam, toLink, l1

\* Read and write on a folder to a user, read on a scanner to a group and to
\* a link
MCGrantOf ==
  toAlice :> [who |-> alice, scope |-> k1, permission |-> "rw"] @@
  toTeam  :> [who |-> team,  scope |-> s1, permission |-> "r"] @@
  toLink  :> [who |-> Token, scope |-> s1, permission |-> "r"]
=============================================================================
