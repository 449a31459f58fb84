-------------------------- MODULE MCTrayLifecycle --------------------------
(* Four threads: one whose clients stay, one that takes over, the one that *)
(* takes over from it and the one that could not.  Two restarts at once.   *)
EXTENDS TrayLifecycle
CONSTANTS c1, c2
MCController == {c1, c2}
=============================================================================
