------------------------------ MODULE MCWsPool ------------------------------
(* WsPool for TLC: see README.md for the bounds.                           *)
EXTENDS WsPool, TLC

Symmetry == Permutations(Ws)

=============================================================================
