---------------------------- MODULE MCOtlpGateway ----------------------------
(***************************************************************************)
(* OtlpGateway with one key, two tokens and two gateways for TLC.  Either  *)
(* both are on Redis or only g1 is: which of two is on it does not matter, *)
(* and gateways with caches of their own meet in nothing but the rows,     *)
(* whether the other's cache is in Redis or in memory.                     *)
(***************************************************************************)
EXTENDS OtlpGateway, TLC

CONSTANTS k1, o1, g1, g2

ScopeOfKeys == k1 :> o1

MCInit == Init /\ g1 \in shared

MCSpec == MCInit /\ [][Next]_vars /\ Fairness
=============================================================================
