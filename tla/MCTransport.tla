----------------------------- MODULE MCTransport -----------------------------
(***************************************************************************)
(* The instances of Transport that TLC checks.                             *)
(***************************************************************************)
EXTENDS Transport, TLC

Symmetric == Permutations(Client)
==============================================================================
