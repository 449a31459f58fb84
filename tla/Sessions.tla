------------------------------ MODULE Sessions ------------------------------
(***************************************************************************)
(* A client's connection as a whole: its handshake and the relays without  *)
(* a WebSocket (Relay), and, where it is handed over to one, the bridge    *)
(* (Bridge), which is idle until then.                                     *)
(***************************************************************************)
EXTENDS Bridge, Relay

sessionVars == <<vars, relayVars>>

SessionTypeOK == TypeOK /\ RelayTypeOK

SessionInit == Init /\ RelayInit

Bridged(Step) == stage = "bridged" /\ Step /\ UNCHANGED relayVars

\* Only a client with fake TLS has records to end between.
CutHasRecords == clEnd' = "cut" => visit.visitor = "fake_TLS"

SessionNext ==
    \/ RelayNext /\ UNCHANGED vars
    \/ Bridged(Next) /\ CutHasRecords

SessionSpec ==
    /\ SessionInit /\ [][SessionNext]_sessionVars
    /\ RelayFairness
    /\ WF_sessionVars(Bridged(Up)) /\ WF_sessionVars(Bridged(Down)) /\ WF_sessionVars(Bridged(Main))

\* Over a WebSocket (ServerDataDelivered), to the masking site and to a data
\* centre (Relayed), what one side has sent reaches the other.
Delivered == ServerDataDelivered /\ Relayed

\* Every session ends once one of its sides has, over a WebSocket and without.
AllSessionsEnd == SessionEnds /\ RelayEnds

=============================================================================
