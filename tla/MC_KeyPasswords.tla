--------------------------- MODULE MC_KeyPasswords ---------------------------
(***************************************************************************)
(* Databases with one or two keys each.                                    *)
(***************************************************************************)
EXTENDS KeyPasswords, TLC

CONSTANTS home, away, k1, k2

OneEach == [k \in Key |-> IF k = k1 THEN home ELSE away]
\* The clients are alike.
Clients == Permutations(Client)

==============================================================================
