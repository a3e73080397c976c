---------------------------- MODULE MC_KeyLinks ----------------------------
(***************************************************************************)
(* Two processes and two public keys with the same hash.                   *)
(***************************************************************************)
EXTENDS KeyLinks, TLC

Colliding == [p \in Pub |-> 1]
Symmetry == Permutations(Client) \cup Permutations(Pub)
==============================================================================
