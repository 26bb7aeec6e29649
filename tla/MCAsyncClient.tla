---------------------------- MODULE MCAsyncClient ----------------------------
(***************************************************************************)
(* The instance of AsyncClient that TLC checks.                            *)
(***************************************************************************)
EXTENDS AsyncClient

\* The clients make the requests here.
NoOtherRequests == {}

\* m requests of the user of calculators and n of the user of primitive data.
\* The shorter workloads of each also have a fault.
Workload(m, n) == [c \in Client |-> IF c \in Calculators THEN m ELSE n]
ShortWorkloads == {Workload(3, 0), Workload(1, 2)}
FewRequests == ShortWorkloads \cup {Workload(4, 0), Workload(2, 1), Workload(1, 3)}
OneFault == [w \in FewRequests |-> IF w \in ShortWorkloads THEN 1 ELSE 0]
NoFault == [w \in FewRequests |-> 0]
==============================================================================
