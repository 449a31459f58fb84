----------------------------- MODULE MCSessions -----------------------------
(* Over a WebSocket a client of up to three bytes in packets of two and a  *)
(* server of up to three frames: a rest can be held back at the end of the *)
(* stream, and a ping, data and CLOSE can all be on their way at once.     *)
(* Before and without one every kind of client, with fake TLS and without, *)
(* behind a load balancer and not; of those that come to a WebSocket only  *)
(* the ones with fake TLS are behind one.                                  *)
EXTENDS Sessions
MCVisitor == {"obfuscated", "fake_TLS", "probe", "junk"}
MCVisit ==
    {v \in [masking : BOOLEAN, proxied : BOOLEAN, visitor : MCVisitor] :
        v.visitor # "probe" => (v.proxied <=> v.masking)}
=============================================================================
