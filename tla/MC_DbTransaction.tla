--------------------------- MODULE MC_DbTransaction ---------------------------
(***************************************************************************)
(* Two clients and two items: a key and a certificate, whose container is  *)
(* reloaded when keys change, too (db_x509super.cpp).                      *)
(***************************************************************************)
EXTENDS DbTransaction

MCTypeOf == [i \in Id |-> IF i = 1 THEN "key" ELSE "cert"]

MCReloadedBy == [t \in Type |-> IF t = "cert" THEN Type ELSE {t}]
CONSTANTS c1, c2

Levels(n1, n2) == [c \in Client |-> IF c = c1 THEN n1 ELSE n2]
Watched == Levels(2, 0)
Flat == Levels(1, 1)

==============================================================================
