-------------------------- MODULE MC_CaRevocations --------------------------
(***************************************************************************)
(* The instances of CaRevocations that TLC checks.                         *)
(***************************************************************************)
EXTENDS CaRevocations

\* Every serial may be typed once, or those of the certificates in the
\* database twice and the others only come with an imported CRL.
EachOnce == [s \in Serial |-> 1]
ChildTwice == [s \in Serial |-> IF s \in Child THEN 2 ELSE 0]

\* What follows a lost update is not explored: the properties that are about
\* calm say nothing of it any more.
NothingOverwritten == calm
=============================================================================
