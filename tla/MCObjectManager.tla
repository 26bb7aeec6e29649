--------------------------- MODULE MCObjectManager ---------------------------
(***************************************************************************)
(* The instances of ObjectManager that TLC checks.                         *)
(***************************************************************************)
EXTENDS ObjectManager, TLC

\* Everything a client can send, but for handles only the two that exist.
EveryRequest == AllRequests

Symmetric == Permutations(Thread) \cup Permutations(Address)
==============================================================================
