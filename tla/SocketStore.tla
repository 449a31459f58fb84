----------------------------- MODULE SocketStore -----------------------------
(***************************************************************************)
(* What a connection pool promises: each key has a store of at most        *)
(* PoolSize sockets; a socket is lent to one client at a time and never    *)
(* while it is in a store; sockets a store no longer wants are dropped.    *)
(* How and when the stores are refilled is left open.                      *)
(***************************************************************************)
EXTENDS Integers, FiniteSets

CONSTANTS Key, Ws, PoolSize

VARIABLES store,  \* the sockets in the store of each key
          lent    \* the sockets clients have

vars == <<store, lent>>

Init == store = [k \in Key |-> {}] /\ lent = {}

Deposit(k, w) ==
    /\ w \notin lent
    /\ \A other \in Key : w \notin store[other]
    /\ Cardinality(store[k]) < PoolSize
    /\ store' = [store EXCEPT ![k] = @ \cup {w}]
    /\ UNCHANGED lent

\* A client is given w, and the sockets found unusable on the way are dropped.
Lend(k, w, dropped) ==
    /\ w \in store[k]
    /\ dropped \subseteq store[k] \ {w}
    /\ store' = [store EXCEPT ![k] = @ \ (dropped \cup {w})]
    /\ lent' = lent \cup {w}

Drop(k) == store' = [store EXCEPT ![k] = {}] /\ UNCHANGED lent

Return(w) == w \in lent /\ lent' = lent \ {w} /\ UNCHANGED store

Next ==
    \/ \E k \in Key, w \in Ws : Deposit(k, w)
    \/ \E k \in Key, w \in Ws : \E dropped \in SUBSET store[k] : Lend(k, w, dropped)
    \/ \E k \in Key : Drop(k)
    \/ \E w \in Ws : Return(w)

Spec == Init /\ [][Next]_vars

=============================================================================
