------------------------------- MODULE RPCCall -------------------------------
(***************************************************************************)
(* What ClientMessageHandler::SendRequest and the server promise each      *)
(* other about one remote call: it is executed at most once, not before it *)
(* is made and not after it has returned; it returns success only when it  *)
(* was executed, with its own response; and when the caller is told that   *)
(* the server did not respond it was not executed.  Only a call whose      *)
(* caller is gone may still be executed later.                             *)
(***************************************************************************)
EXTENDS Constants

CONSTANTS
  Client,    \* callers
  MaxCalls,  \* bound on the calls of one caller
  Abandoned  \* outcome of a call whose caller was killed

VARIABLES
  pending,    \* the callers that wait for SendRequest
  calls,      \* number of calls made, and so the name of the latest
  executions, \* how often ProcessRequest has run for a call
  abandoned,  \* calls whose caller was killed
  outcome,    \* what the latest finished call returned
  answer      \* the call whose response the latest success handed out

vars == <<pending, calls, executions, abandoned, outcome, answer>>

CallId == Client \X (1 .. MaxCalls)
Latest(c) == <<c, calls[c]>>

Init ==
  /\ pending = {}
  /\ calls = [c \in Client |-> 0]
  /\ executions = [i \in CallId |-> 0]
  /\ abandoned = {}
  /\ outcome = [c \in Client |-> ERROR_SUCCESS]
  /\ answer = [c \in Client |-> <<c, 0>>]

Issue(c) ==
  /\ c \notin pending
  /\ calls[c] < MaxCalls
  /\ pending' = pending \cup {c}
  /\ calls' = [calls EXCEPT ![c] = @ + 1]
  /\ UNCHANGED <<executions, abandoned, outcome, answer>>

Execute(i) ==
  /\ executions[i] = 0
  /\ i \in abandoned \/ (i[1] \in pending /\ i = Latest(i[1]))
  /\ executions' = [executions EXCEPT ![i] = 1]
  /\ UNCHANGED <<pending, calls, abandoned, outcome, answer>>

Succeed(c) ==
  /\ executions[Latest(c)] = 1
  /\ outcome' = [outcome EXCEPT ![c] = ERROR_SUCCESS]
  /\ answer' = [answer EXCEPT ![c] = Latest(c)]

Fail(c, error) ==
  /\ error = ERROR_SERVER_NO_RESPONSE => executions[Latest(c)] = 0
  /\ outcome' = [outcome EXCEPT ![c] = error]
  /\ UNCHANGED answer

Return(c) ==
  /\ c \in pending
  /\ pending' = pending \ {c}
  /\ Succeed(c) \/ \E e \in {ERROR_SERVER_NO_RESPONSE, ERROR_RECEIVE_FAILED} : Fail(c, e)
  /\ UNCHANGED <<calls, executions, abandoned>>

Abandon(c) ==
  /\ c \in pending
  /\ pending' = pending \ {c}
  /\ abandoned' = abandoned \cup {Latest(c)}
  /\ outcome' = [outcome EXCEPT ![c] = Abandoned]
  /\ UNCHANGED <<calls, executions, answer>>

Next ==
  \/ \E c \in Client : Issue(c) \/ Return(c) \/ Abandon(c)
  \/ \E i \in CallId : Execute(i)

Spec == Init /\ [][Next]_vars
==============================================================================
