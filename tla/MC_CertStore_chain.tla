-------------------------- MODULE MC_CertStore_chain --------------------------
(***************************************************************************)
(* The documents of MC_CertStore of which the properties of an ordinary    *)
(* hierarchy are asked.                                                    *)
(***************************************************************************)
EXTENDS MC_CertStore

\* They are documents the theorems of CertStore_orderly_proofs are about.
ASSUME ConventionalDocuments == Conventional
==============================================================================
