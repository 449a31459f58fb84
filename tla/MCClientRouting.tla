--------------------------- MODULE MCClientRouting ---------------------------
(* ClientRouting for TLC: see README.md for the bounds.                    *)
EXTENDS ClientRouting

Symmetry == Permutations(Client) \cup Permutations(Worker)

=============================================================================
