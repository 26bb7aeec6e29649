----------------------------- MODULE MCClientStub -----------------------------
(***************************************************************************)
(* The instances of ClientStub that TLC checks: c1 and c2 use calculators, *)
(* p1 sends and reads primitive data.                                      *)
(***************************************************************************)
EXTENDS ClientStub, TLC

CONSTANTS c1, c2, p1

\* The clients make the requests here.
NoOtherRequests == {}

ThreeRequests == [Client -> {3}]

Symmetric ==
  Permutations(Thread) \cup Permutations(Address) \cup Permutations(Value)
    \cup Permutations(Calculators)
==============================================================================
