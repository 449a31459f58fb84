----------------------------- MODULE MCDomains -----------------------------
(* Two runs: the second may keep or leave the automatic choice while a     *)
(* fetch of the first is under way.  The payloads are a failed fetch, one  *)
(* too short to be taken and a good one that shares a domain with the      *)
(* built-in list; two clients run through the list at the same time.       *)
EXTENDS Domains
CONSTANTS d1, d2, d3, u1, h1, h2

MCDefault == {d1, d2}
MCUserLists == {{}, {u1}}
MCFetchable == {{}, {d3}, {d2, d3}}
MCHandler == {h1, h2}
=============================================================================
