---------------------------- MODULE TransportProofs ----------------------------
(***************************************************************************)
(* What Transport guarantees for every number of callers, calls and polls: *)
(* its safety invariants, and that it implements RPCCall.                  *)
(*                                                                         *)
(* IInv is the inductive invariant.  BaseInv is about the main thread and  *)
(* where the callers are; HandlerInv relates the threads and the instances *)
(* of the pipe; RequestInv follows a request from the caller that writes   *)
(* it to the thread that executes it.  Each layer is preserved by a step   *)
(* given the layers before it.                                             *)
(***************************************************************************)
EXTENDS Transport, TLAPS, FiniteSetTheorems

Running(h) == thread[h] \notin {"none", "ended"}

\* TypeOK with a name for every set, so that a step can be shown to keep the
\* type of a variable without the elements of the set.
MainState == {"create", "connect", "waiting", "spawn", "drop"}
InstanceState == {"none", "listening", "connected", "gone"}
ThreadState == {"none", "read", "process", "write", "flush", "ended"}
Message == CallId \cup {Nothing}
PcState == {"idle", "open", "wait", "write", "read"}
PipeState == Handler \cup {Nothing}
Poll == 0 .. MaxPolls
Size == Sizes \cup {"fits"}
CallNumber == 0 .. MaxCalls
Outcome == {ERROR_SUCCESS, ERROR_SEND_FAILED, ERROR_RECEIVE_FAILED,
            ERROR_SERVER_NO_RESPONSE, Abandoned}
Answer == Client \X CallNumber

Typed ==
  /\ main \in MainState
  /\ created \in 0 .. Cardinality(Handler)
  /\ allMessageHandlers \in Seq(Handler)
  /\ instance \in [Handler -> InstanceState]
  /\ thread \in [Handler -> ThreadState]
  /\ toServer \in [Handler -> Message]
  /\ toClient \in [Handler -> Message]
  /\ pc \in [Client -> PcState]
  /\ pipe \in [Client -> PipeState]
  /\ polls \in [Client -> Poll]
  /\ size \in [Client -> Size]
  /\ sent \in [Client -> BOOLEAN]
  /\ calls \in [Client -> CallNumber]
  /\ outcome \in [Client -> Outcome]
  /\ answer \in [Client -> Answer]
  /\ executions \in [CallId -> Nat]
  /\ abandoned \subseteq CallId

\* Where a caller is and what it has.
CallerInv ==
  /\ \A c \in Client : pipe[c] # Nothing <=> pc[c] \in {"write", "read"}
  /\ \A c \in Client : pc[c] # "idle" => calls[c] > 0

\* The handler the main thread works on is the newest and the last in the
\* vector.
MainInv ==
  main # "create" =>
    /\ created \in Handler /\ Len(allMessageHandlers) > 0
    /\ allMessageHandlers[Len(allMessageHandlers)] = created

BaseInv == Typed /\ CallerInv /\ MainInv

\* Handlers are used in the order of their numbers, and instances and threads
\* go together: the newest has no thread yet.
FreshInv ==
  /\ \A h \in Handler : h > created => instance[h] = "none" /\ thread[h] = "none"
  /\ main # "create" => thread[created] = "none"
ConnectedInv ==
  /\ main = "spawn" => instance[created] = "connected"
  /\ \A h \in Handler : Running(h) => instance[h] = "connected"
EmptyInv ==
  \A h \in Handler : instance[h] # "connected" => toServer[h] = Nothing /\ toClient[h] = Nothing
OwnPipeInv ==
  /\ \A c \in Client : pipe[c] # Nothing => instance[pipe[c]] \in {"connected", "gone"}
  /\ \A c, d \in Client : pipe[c] = pipe[d] /\ pipe[c] # Nothing => c = d
HandlerInv == FreshInv /\ ConnectedInv /\ EmptyInv /\ OwnPipeInv

\* What is in the pipe of a caller is its own.
OwnMessageInv ==
  \A c \in Client : pipe[c] # Nothing =>
    /\ toServer[pipe[c]] \in {Nothing, Latest(c)}
    /\ toClient[pipe[c]] \in {Nothing, Latest(c)}
    /\ toServer[pipe[c]] # Nothing => pc[c] = "read" /\ sent[c]

\* Calls are named in the order they are made.
OrderInv ==
  /\ \A i \in CallId : executions[i] > 0 => i[2] <= calls[i[1]]
  /\ \A h \in Handler : toServer[h] # Nothing => toServer[h][2] <= calls[toServer[h][1]]
  /\ \A i \in abandoned : i[2] <= calls[i[1]]
  /\ \A c \in Client : pc[c] # "idle" => Latest(c) \notin abandoned

\* A call that has not been written has left no trace.
NewCallInv ==
  \A c \in Client : pc[c] \in {"open", "wait", "write"} =>
    /\ executions[Latest(c)] = 0
    /\ \A h \in Handler : toServer[h] # Latest(c)

\* A message thread executes the request it has read, once.
ExecutedInv ==
  \A h \in Handler :
    /\ thread[h] \in {"process", "write", "flush"} => toServer[h] # Nothing
    /\ toServer[h] # Nothing =>
         executions[toServer[h]] = IF thread[h] \in {"write", "flush"} THEN 1 ELSE 0
    /\ toClient[h] # Nothing => thread[h] = "flush" /\ toClient[h] = toServer[h]
UniqueInv ==
  \A h, k \in Handler : toServer[h] = toServer[k] /\ toServer[h] # Nothing => h = k

\* Somebody waits for a request that has not been answered, or has been killed.
WaitedForInv ==
  \A h \in Handler :
    toServer[h] # Nothing /\ thread[h] # "flush" =>
      \/ toServer[h] \in abandoned
      \/ \E c \in Client : pipe[c] = h
RequestInv ==
  OwnMessageInv /\ OrderInv /\ NewCallInv /\ ExecutedInv /\ UniqueInv /\ WaitedForInv

\* A call that has been executed and whose response fits is on its way back.
ResponseInv ==
  \A c \in Client :
    pc[c] = "read" /\ size[c] = "fits" /\ executions[Latest(c)] > 0 =>
      LET h == pipe[c]
      IN \/ thread[h] = "write" /\ toServer[h] = Latest(c)
         \/ thread[h] = "flush" /\ toClient[h] = Latest(c)
AbandonedInv ==
  \A c \in Client : pc[c] = "idle" /\ Latest(c) \in abandoned => outcome[c] = Abandoned
IInv == BaseInv /\ HandlerInv /\ RequestInv
------------------------------------------------------------------------------
\* There are finitely many handlers, numbered from 1.
LEMMA HandlerFacts ==
  /\ Cardinality(Handler) \in Nat /\ Handler = 1 .. Cardinality(Handler)
  /\ Handler \subseteq Nat /\ Nothing \notin Handler
<1>1. Cardinality(Client) \in Nat
  BY TransportAssumption, FS_CardinalityType
<1> DEFINE n == Cardinality(Client) * MaxCalls + 1
<1>2. n \in Nat
  BY <1>1, TransportAssumption
<1>3. Handler = 1 .. n
  BY DEF Handler
<1> HIDE DEF n
<1>4. Cardinality(Handler) = n
  BY <1>2, <1>3, FS_Interval
<1> QED
  BY <1>2, <1>3, <1>4, NothingAssumption

\* Typed is TypeOK.
LEMMA TypedIsTypeOK == Typed <=> TypeOK
BY DEF Typed, TypeOK, MainState, InstanceState, ThreadState, Message, PcState, PipeState,
       Poll, Size, CallNumber, Outcome, Answer

\* The values that steps assign are of the types of Typed.
LEMMA ValueFacts ==
  /\ {"create", "connect", "waiting", "spawn", "drop"} \subseteq MainState
  /\ "none" \in InstanceState /\ "listening" \in InstanceState
  /\ "connected" \in InstanceState /\ "gone" \in InstanceState
  /\ "none" \in ThreadState /\ "read" \in ThreadState /\ "process" \in ThreadState
  /\ "write" \in ThreadState /\ "flush" \in ThreadState /\ "ended" \in ThreadState
  /\ Nothing \in Message /\ CallId \subseteq Message
  /\ "idle" \in PcState /\ "open" \in PcState /\ "wait" \in PcState
  /\ "write" \in PcState /\ "read" \in PcState
  /\ Nothing \in PipeState /\ Handler \subseteq PipeState
  /\ 0 \in Poll /\ Poll \subseteq Nat /\ Sizes \subseteq Size /\ "fits" \in Size
  /\ 0 \in CallNumber /\ CallNumber \subseteq Nat
  /\ ERROR_SUCCESS \in Outcome /\ ERROR_SEND_FAILED \in Outcome
  /\ ERROR_RECEIVE_FAILED \in Outcome /\ ERROR_SERVER_NO_RESPONSE \in Outcome
  /\ Abandoned \in Outcome
  /\ CallId \subseteq Answer
BY TransportAssumption
   DEF MainState, InstanceState, ThreadState, Message, PcState, PipeState, Poll, Size,
       CallNumber, Outcome, Answer, CallId

\* A function keeps its type.
LEMMA SetType ==
  ASSUME NEW S, NEW T, NEW f \in [S -> T], NEW x, NEW y \in T
  PROVE  Set(f, x, y) \in [S -> T]
BY DEF Set

\* A reset keeps the types of what it changes.
LEMMA ResetType ==
  ASSUME Typed, NEW h, Reset(h)
  PROVE  /\ instance' \in [Handler -> InstanceState]
         /\ toServer' \in [Handler -> Message]
         /\ toClient' \in [Handler -> Message]
BY SetType, ValueFacts DEF Reset, Typed

\* A thread goes to a known place.
LEMMA GotoType ==
  ASSUME Typed, NEW h, NEW label \in ThreadState, Goto(h, label)
  PROVE  thread' \in [Handler -> ThreadState]
BY SetType DEF Typed, Goto

\* The call a caller is in is one of CallId.
LEMMA LatestFacts ==
  ASSUME BaseInv, NEW c \in Client, pc[c] # "idle"
  PROVE  Latest(c) \in CallId
BY DEF BaseInv, Typed, CallerInv, CallNumber, Latest, CallId

\* BaseInv survives the steps of the main thread.
LEMMA MainPreserves ==
  ASSUME BaseInv, Main
  PROVE  BaseInv'
<1> USE DEF BaseInv
<1>1. CallerInv'
  BY DEF CallerInv, Main, Create, Connect, Connected, Drop, Spawn, callVars, history
<1>2. CASE Create
  <2>1. created' \in Handler /\ created' = created + 1
    BY <1>2, HandlerFacts DEF Typed, Create
  <2>2. Typed'
    <3>1. created' \in 0 .. Cardinality(Handler) /\ allMessageHandlers' \in Seq(Handler)
      BY <1>2, <2>1, HandlerFacts DEF Typed, Create
    <3>2. instance' \in [Handler -> InstanceState]
      BY <1>2, SetType, ValueFacts DEF Typed, Create
    <3> QED
      BY <1>2, <3>1, <3>2, ValueFacts DEF Typed, Create, callVars, history
  <2>3. MainInv'
    BY <1>2, <2>1 DEF Typed, MainInv, Create
  <2> QED
    BY <1>1, <2>2, <2>3
<1>3. CASE Connect \/ Connected
  <2>1. Typed'
    BY <1>3, ValueFacts DEF Typed, Connect, Connected, callVars, history
  <2>2. MainInv'
    BY <1>3 DEF MainInv, Connect, Connected
  <2> QED
    BY <1>1, <2>1, <2>2
<1>4. CASE Drop
  <2>1. allMessageHandlers' \in Seq(Handler)
    BY <1>4 DEF Typed, Drop
  <2>2. PICK h \in Handler : Reset(h)
    BY <1>4 DEF Typed, MainInv, Drop
  <2>3. Typed'
    BY <1>4, <2>1, <2>2, ResetType, ValueFacts DEF Typed, Drop, callVars, history
  <2>4. MainInv'
    BY <1>4 DEF MainInv, Drop
  <2> QED
    BY <1>1, <2>3, <2>4
<1>5. CASE Spawn
  <2>1. thread' \in [Handler -> ThreadState]
    BY <1>5, ValueFacts DEF Typed, Spawn, Set
  <2>2. /\ instance' \in [Handler -> InstanceState]
        /\ toServer' \in [Handler -> Message] /\ toClient' \in [Handler -> Message]
    BY <1>5, ResetType DEF Typed, Spawn
  <2>3. Typed'
    BY <1>5, <2>1, <2>2, ValueFacts DEF Typed, Spawn, callVars, history
  <2>4. MainInv'
    BY <1>5 DEF MainInv, Spawn
  <2> QED
    BY <1>1, <2>3, <2>4
<1> QED
  BY <1>2, <1>3, <1>4, <1>5 DEF Main

\* BaseInv survives the steps of a message thread.
LEMMA MessageThreadPreserves ==
  ASSUME BaseInv, NEW h \in Handler, MessageThread(h)
  PROVE  BaseInv'
<1> USE DEF BaseInv
<1>1. CallerInv' /\ MainInv'
  BY DEF CallerInv, MainInv, MessageThread, ServerRead, ProcessRequest, ServerWrite, Flush,
         mainVars, callVars, history
<1>2. thread' \in [Handler -> ThreadState]
  BY GotoType, ValueFacts
     DEF MessageThread, ServerRead, ProcessRequest, ServerWrite, Flush, EndThread
<1>3. /\ instance' \in [Handler -> InstanceState]
      /\ toServer' \in [Handler -> Message] /\ toClient' \in [Handler -> Message]
  <2>1. CASE EndThread(h)
    BY <2>1, ResetType DEF EndThread
  <2>2. CASE UNCHANGED <<instance, toServer, toClient>>
    BY <2>2 DEF Typed
  <2>3. CASE UNCHANGED <<instance, toServer>> /\ toClient' = Set(toClient, h, toServer[h])
    BY <2>3, SetType DEF Typed
  <2> QED
    BY <2>1, <2>2, <2>3 DEF MessageThread, ServerRead, ProcessRequest, ServerWrite, Flush
<1>4. executions' \in [CallId -> Nat]
  BY DEF Typed, MessageThread, ServerRead, ProcessRequest, ServerWrite, Flush, history
<1>5. UNCHANGED <<mainVars, callVars, abandoned>>
  BY DEF MessageThread, ServerRead, ProcessRequest, ServerWrite, Flush, history
<1>6. Typed'
  BY <1>2, <1>3, <1>4, <1>5 DEF Typed, mainVars, callVars
<1> QED
  BY <1>1, <1>6

\* A failed attempt to open the pipe keeps the types of what it changes.
LEMMA PollAgainType ==
  ASSUME Typed, NEW c \in Client, PollAgain(c)
  PROVE  /\ polls' \in [Client -> Poll] /\ pc' \in [Client -> PcState]
         /\ outcome' \in [Client -> Outcome]
<1>1. polls[c] + 1 \in Nat /\ polls'[c] = polls[c] + 1
  BY TransportAssumption DEF Typed, PollAgain, Set, Poll
<1>2. polls[c] + 1 \in Poll
  BY <1>1, TransportAssumption DEF PollAgain, Poll
<1>3. polls' \in [Client -> Poll]
  BY <1>2, SetType DEF Typed, PollAgain
<1>4. pc' \in [Client -> PcState] /\ outcome' \in [Client -> Outcome]
  BY ValueFacts DEF Typed, PollAgain, Return, Set
<1> QED
  BY <1>3, <1>4

\* BaseInv survives the steps of a caller.
LEMMA CallerPreserves ==
  ASSUME BaseInv, NEW c \in Client, Issue(c) \/ SendRequest(c) \/ Kill(c)
  PROVE  BaseInv'
<1> USE DEF BaseInv
<1>1. MainInv'
  BY DEF MainInv, Issue, SendRequest, Open, Wait, Write, Read, Kill, serverVars, mainVars
<1>2. CASE Issue(c)
  <2>1. Typed'
    <3>1. calls[c] + 1 \in CallNumber
      BY <1>2, TransportAssumption DEF Typed, Issue, CallNumber
    <3>2. calls' \in [Client -> CallNumber]
      BY <1>2, <3>1, SetType DEF Typed, Issue
    <3>3. pc' \in [Client -> PcState] /\ polls' \in [Client -> Poll]
      BY <1>2, SetType, ValueFacts DEF Typed, Issue
    <3>4. size' \in [Client -> Size]
      BY <1>2, ValueFacts DEF Typed, Issue, Set
    <3> QED
      BY <1>2, <3>2, <3>3, <3>4 DEF Typed, Issue, serverVars, history
  <2>2. CallerInv'
    BY <1>2, TransportAssumption DEF Typed, CallerInv, Issue, Set, CallNumber
  <2> QED
    BY <1>1, <2>1, <2>2
<1>3. CASE Open(c)
  <2>1. /\ polls' \in [Client -> Poll] /\ pc' \in [Client -> PcState]
        /\ outcome' \in [Client -> Outcome]
    BY <1>3, PollAgainType, ValueFacts DEF Typed, Open, Set
  <2>2. instance' \in [Handler -> InstanceState] /\ pipe' \in [Client -> PipeState]
    <3>1. CASE UNCHANGED <<instance, pipe>>
      BY <3>1 DEF Typed
    <3>2. ASSUME NEW h \in Listening, instance' = Set(instance, h, "connected"),
                 pipe' = Set(pipe, c, h)
          PROVE  instance' \in [Handler -> InstanceState] /\ pipe' \in [Client -> PipeState]
      <4>1. h \in PipeState
        BY ValueFacts DEF Listening
      <4> QED
        BY <3>2, <4>1, SetType, ValueFacts DEF Typed
    <3> QED
      BY <1>3, <3>1, <3>2 DEF Open
  <2>3. Typed'
    BY <1>3, <2>1, <2>2 DEF Typed, Open, mainVars, history
  <2>4. CallerInv'
    <3>1. CASE \E h \in Handler : pipe' = Set(pipe, c, h) /\ pc' = Set(pc, c, "write")
      BY <1>3, <3>1, HandlerFacts DEF Typed, CallerInv, Open, Set
    <3>2. CASE pipe' = pipe /\ \E l \in {"idle", "open", "wait"} : pc' = Set(pc, c, l)
      BY <1>3, <3>2 DEF Typed, CallerInv, Open, Set
    <3> QED
      BY <1>3, <3>1, <3>2 DEF Open, PollAgain, Return, Listening
  <2> QED
    BY <1>1, <2>3, <2>4
<1>4. CASE Wait(c)
  <2>1. /\ polls' \in [Client -> Poll] /\ pc' \in [Client -> PcState]
        /\ outcome' \in [Client -> Outcome]
    BY <1>4, PollAgainType, ValueFacts DEF Typed, Wait, Return, Set
  <2>2. Typed'
    BY <1>4, <2>1 DEF Typed, Wait, serverVars, history
  <2>3. PICK l \in {"idle", "open"} : pc' = Set(pc, c, l)
    BY <1>4 DEF Wait, PollAgain, Return
  <2>4. CallerInv'
    BY <1>4, <2>3 DEF Typed, CallerInv, Wait, Set
  <2> QED
    BY <1>1, <2>2, <2>4
<1>5. CASE Write(c)
  <2>1. Latest(c) \in Message
    BY <1>5, LatestFacts, ValueFacts DEF Write
  <2>2. /\ toServer' \in [Handler -> Message] /\ pc' \in [Client -> PcState]
        /\ sent' \in [Client -> BOOLEAN]
    BY <1>5, <2>1, SetType, ValueFacts DEF Typed, Write
  <2>3. Typed'
    BY <1>5, <2>2 DEF Typed, Write, serverVars, history
  <2>4. CallerInv'
    BY <1>5 DEF Typed, CallerInv, Write, Set
  <2> QED
    BY <1>1, <2>3, <2>4
<1>6. CASE Read(c)
  <2>1. pipe[c] \in Handler
    BY <1>6 DEF Typed, CallerInv, Read, PipeState
  <2>2. pc' \in [Client -> PcState] /\ outcome' \in [Client -> Outcome]
    BY <1>6, ValueFacts DEF Typed, Read, Return, Set
  <2>3. /\ pipe' \in [Client -> PipeState] /\ sent' \in [Client -> BOOLEAN]
        /\ toClient' \in [Handler -> Message]
    BY <1>6, ValueFacts DEF Typed, Read, Set
  <2>4. answer' \in [Client -> Answer]
    <3>1. CASE toClient[pipe[c]] # Nothing
      <4>1. toClient[pipe[c]] \in Answer
        BY <2>1, <3>1, ValueFacts DEF Typed, Message
      <4> QED
        BY <1>6, <4>1 DEF Typed, Read, Set
    <3> QED
      BY <1>6, <3>1 DEF Typed, Read
  <2>5. Typed'
    BY <1>6, <2>2, <2>3, <2>4 DEF Typed, Read, serverVars, history
  <2>6. CallerInv'
    BY <1>6 DEF Typed, CallerInv, Read, Return, Set
  <2> QED
    BY <1>1, <2>5, <2>6
<1>7. CASE Kill(c)
  <2>1. Latest(c) \in CallId
    BY <1>7, LatestFacts DEF Kill
  <2>2. /\ pc' \in [Client -> PcState] /\ outcome' \in [Client -> Outcome]
        /\ pipe' \in [Client -> PipeState] /\ sent' \in [Client -> BOOLEAN]
        /\ polls' \in [Client -> Poll]
    BY <1>7, SetType, ValueFacts DEF Typed, Kill, Return
  <2>3. Typed'
    BY <1>7, <2>1, <2>2 DEF Typed, Kill, serverVars
  <2>4. CallerInv'
    BY <1>7 DEF Typed, CallerInv, Kill, Return, Set
  <2> QED
    BY <1>1, <2>3, <2>4
<1> QED
  BY <1>2, <1>3, <1>4, <1>5, <1>6, <1>7 DEF SendRequest

\* BaseInv holds when the programs start.
LEMMA InitBaseInv ==
  ASSUME Init
  PROVE  BaseInv
<1>1. Typed
  BY HandlerFacts, ValueFacts DEF Typed, Answer, Init
<1>2. CallerInv /\ MainInv
  BY DEF CallerInv, MainInv, Init
<1> QED
  BY <1>1, <1>2 DEF BaseInv

\* Every variable keeps its type, a caller has a pipe open exactly while it
\* writes and reads, and main works on the last handler of the vector.
THEOREM BaseInvHolds == Spec => []BaseInv
<1>1. Init => BaseInv
  BY InitBaseInv
<1>2. BaseInv /\ [Next]_vars => BaseInv'
  <2>1. CASE UNCHANGED vars
    BY <2>1 DEF vars, serverVars, callVars, history, BaseInv, Typed, CallerInv, MainInv
  <2> QED
    BY <2>1, MainPreserves, MessageThreadPreserves, CallerPreserves DEF Next
<1> QED
  BY <1>1, <1>2, PTL DEF Spec

\* TypeOK (of Transport) for every number of callers, calls and polls.
THEOREM TypeCorrect == Spec => []TypeOK
<1>1. BaseInv => TypeOK
  BY TypedIsTypeOK DEF BaseInv
<1> QED
  BY <1>1, BaseInvHolds, PTL
------------------------------------------------------------------------------
\* Handlers beyond the newest are unused, and the one main works on has no
\* thread.
LEMMA FreshPreserved ==
  ASSUME BaseInv, FreshInv, Next
  PROVE  FreshInv'
<1> USE DEF BaseInv, FreshInv
<1>1. created \in Nat
  BY HandlerFacts DEF Typed
<1>2. CASE Create
  BY <1>1, <1>2, HandlerFacts DEF Typed, Create, Set
<1>3. CASE Connect \/ Connected
  BY <1>3 DEF Connect, Connected
<1>4. CASE Drop
  BY <1>1, <1>4, HandlerFacts DEF Typed, MainInv, Drop, Reset, Set
<1>5. CASE Spawn
  BY <1>1, <1>5, HandlerFacts DEF Typed, MainInv, Spawn, Reset, Set
<1>6. ASSUME NEW h \in Handler, MessageThread(h)
      PROVE  FreshInv'
  <2>1. thread[h] # "none" /\ UNCHANGED mainVars
    BY <1>6 DEF MessageThread, ServerRead, ProcessRequest, ServerWrite, Flush, At
  <2>2. \A k \in Handler : k # h => thread'[k] = thread[k] /\ instance'[k] = instance[k]
    BY <1>6 DEF Typed, MessageThread, ServerRead, ProcessRequest, ServerWrite, Flush, EndThread,
                Goto, Reset, Set
  <2>3. ~(h > created) /\ (main # "create" => h # created /\ created \in Handler)
    BY <2>1 DEF MainInv
  <2> QED
    BY <2>1, <2>2, <2>3 DEF mainVars
<1>7. ASSUME NEW c \in Client, Issue(c) \/ SendRequest(c) \/ Kill(c)
      PROVE  FreshInv'
  BY <1>7 DEF Typed, Issue, SendRequest, Open, Wait, Write, Read, Kill, Listening, Set,
              serverVars, mainVars
<1> QED
  BY <1>2, <1>3, <1>4, <1>5, <1>6, <1>7 DEF Next, Main

\* A running message thread has a client connected to its instance.
LEMMA ConnectedPreserved ==
  ASSUME BaseInv, FreshInv, ConnectedInv, Next
  PROVE  ConnectedInv'
<1> USE DEF BaseInv, ConnectedInv, Running
<1>1. CASE Create
  BY <1>1, HandlerFacts DEF Typed, FreshInv, Create, Set
<1>2. CASE Connect \/ Connected
  BY <1>2 DEF Connect, Connected
<1>3. CASE Drop
  BY <1>3 DEF Typed, MainInv, FreshInv, Drop, Reset, Set
<1>4. CASE Spawn
  BY <1>4 DEF Typed, MainInv, FreshInv, Spawn, Reset, Set
<1>5. ASSUME NEW h \in Handler, MessageThread(h)
      PROVE  ConnectedInv'
  <2>1. thread[h] # "none" /\ UNCHANGED mainVars
    BY <1>5 DEF MessageThread, ServerRead, ProcessRequest, ServerWrite, Flush, At
  <2>2. \A k \in Handler : k # h => thread'[k] = thread[k] /\ instance'[k] = instance[k]
    BY <1>5 DEF Typed, MessageThread, ServerRead, ProcessRequest, ServerWrite, Flush, EndThread,
                Goto, Reset, Set
  <2>3. thread'[h] = "ended" \/ (Running(h) /\ instance'[h] = instance[h])
    BY <1>5 DEF Typed, MessageThread, ServerRead, ProcessRequest, ServerWrite, Flush, EndThread,
                At, Goto, Set
  <2>4. main # "create" => h # created /\ created \in Handler
    BY <2>1 DEF MainInv, FreshInv
  <2> QED
    BY <2>1, <2>2, <2>3, <2>4 DEF mainVars
<1>6. ASSUME NEW c \in Client, Issue(c) \/ SendRequest(c) \/ Kill(c)
      PROVE  ConnectedInv'
  <2>1. UNCHANGED <<mainVars, thread>>
    BY <1>6 DEF Issue, SendRequest, Open, Wait, Write, Read, Kill, serverVars, mainVars
  <2>2. \A h \in Handler : instance[h] = "connected" => instance'[h] = "connected"
    BY <1>6 DEF Typed, Issue, SendRequest, Open, Wait, Write, Read, Kill, Set, serverVars
  <2> QED
    BY <2>1, <2>2 DEF MainInv, mainVars
<1> QED
  BY <1>1, <1>2, <1>3, <1>4, <1>5, <1>6 DEF Next, Main

\* Instances that are not connected hold no message.
LEMMA EmptyPreserved ==
  ASSUME BaseInv, FreshInv, ConnectedInv, EmptyInv, Next
  PROVE  EmptyInv'
<1> USE DEF BaseInv, EmptyInv
<1>1. CASE Create
  BY <1>1, HandlerFacts DEF Typed, FreshInv, Create, Set
<1>2. CASE Connect \/ Connected
  BY <1>2 DEF Connect, Connected
<1>3. CASE Drop
  BY <1>3 DEF Typed, MainInv, Drop, Reset, Set
<1>4. CASE Spawn
  BY <1>4 DEF Typed, MainInv, Spawn, Reset, Set
<1>5. ASSUME NEW h \in Handler, MessageThread(h)
      PROVE  EmptyInv'
  <2>1. instance[h] = "connected"
    BY <1>5 DEF ConnectedInv, Running, MessageThread, ServerRead, ProcessRequest, ServerWrite,
                Flush, At
  <2> QED
    BY <1>5, <2>1 DEF Typed, MessageThread, ServerRead, ProcessRequest, ServerWrite, Flush,
                      EndThread, Reset, Set
<1>6. ASSUME NEW c \in Client, Issue(c) \/ Open(c) \/ Wait(c) \/ Kill(c)
      PROVE  EmptyInv'
  BY <1>6 DEF Typed, Issue, Open, Wait, Kill, Listening, Set, serverVars
<1>7. ASSUME NEW c \in Client, Write(c) \/ Read(c)
      PROVE  EmptyInv'
  BY <1>7 DEF Typed, CallerInv, Write, Read, PipeState, Set, serverVars
<1> QED
  BY <1>1, <1>2, <1>3, <1>4, <1>5, <1>6, <1>7 DEF Next, Main, SendRequest

\* No two callers have the same instance open.
LEMMA OwnPipePreserved ==
  ASSUME BaseInv, FreshInv, OwnPipeInv, Next
  PROVE  OwnPipeInv'
<1> USE DEF BaseInv, OwnPipeInv
<1>0. \A c \in Client : pipe[c] \in Handler \/ pipe[c] = Nothing
  BY DEF Typed, PipeState
<1>1. CASE Create
  <2>1. created' \in Handler /\ instance[created'] = "none" /\ UNCHANGED pipe
    BY <1>1, HandlerFacts DEF Typed, FreshInv, Create, callVars
  <2> QED
    BY <1>0, <1>1, <2>1 DEF Typed, Create, Set
<1>2. CASE Connect \/ Connected
  BY <1>2 DEF Connect, Connected, callVars
<1>3. CASE Drop \/ Spawn
  BY <1>0, <1>3 DEF Typed, Drop, Spawn, Reset, Set, callVars
<1>4. ASSUME NEW h \in Handler, MessageThread(h)
      PROVE  OwnPipeInv'
  BY <1>0, <1>4 DEF Typed, MessageThread, ServerRead, ProcessRequest, ServerWrite, Flush,
                    EndThread, Reset, Set, callVars
<1>5. ASSUME NEW c \in Client, Open(c)
      PROVE  OwnPipeInv'
  <2>1. ASSUME NEW h \in Listening, instance' = Set(instance, h, "connected"),
               pipe' = Set(pipe, c, h)
        PROVE  OwnPipeInv'
    BY <1>0, <2>1, HandlerFacts DEF Typed, Listening, Set
  <2> QED
    BY <1>5, <2>1 DEF Open
<1>6. ASSUME NEW c \in Client, Issue(c) \/ Wait(c) \/ Write(c) \/ Read(c) \/ Kill(c)
      PROVE  OwnPipeInv'
  <2>1. UNCHANGED instance /\ \A d \in Client : pipe'[d] \in {pipe[d], Nothing}
    BY <1>6 DEF Typed, Issue, Wait, Write, Read, Kill, Set, serverVars
  <2> QED
    BY <2>1
<1> QED
  BY <1>1, <1>2, <1>3, <1>4, <1>5, <1>6 DEF Next, Main, SendRequest

\* The invariant of handlers, instances and pipes survives every step.
LEMMA HandlerInvPreserved ==
  ASSUME BaseInv, HandlerInv, Next
  PROVE  HandlerInv'
BY FreshPreserved, ConnectedPreserved, EmptyPreserved, OwnPipePreserved DEF HandlerInv

\* BaseInv survives every step.
LEMMA BaseInvPreserved ==
  ASSUME BaseInv, Next
  PROVE  BaseInv'
BY MainPreserves, MessageThreadPreserves, CallerPreserves DEF Next

\* Threads and instances go together: a running thread has a connected instance
\* (RPCServer.cpp:96-121), an instance that is not connected is empty, and no
\* two callers share one.
THEOREM HandlerInvHolds == Spec => [](BaseInv /\ HandlerInv)
<1>1. Init => BaseInv /\ HandlerInv
  BY InitBaseInv DEF Init, HandlerInv, FreshInv, ConnectedInv, EmptyInv, OwnPipeInv, Running
<1>2. BaseInv /\ HandlerInv /\ [Next]_vars => (BaseInv /\ HandlerInv)'
  <2>1. CASE UNCHANGED vars
    BY <2>1 DEF vars, serverVars, callVars, history, BaseInv, Typed, CallerInv, MainInv,
                HandlerInv, FreshInv, ConnectedInv, EmptyInv, OwnPipeInv, Running
  <2> QED
    BY <2>1, BaseInvPreserved, HandlerInvPreserved
<1> QED
  BY <1>1, <1>2, PTL DEF Spec

\* NoInstanceLeaks (of Transport): an instance that is not closed belongs to a
\* running thread, or is the one main works on.
THEOREM NoLeak == Spec => []NoInstanceLeaks
<1>1. Init => NoInstanceLeaks
  BY DEF Init, NoInstanceLeaks, Instances
<1>2. BaseInv /\ BaseInv' /\ NoInstanceLeaks /\ [Next]_vars => NoInstanceLeaks'
  <2> SUFFICES ASSUME BaseInv, NoInstanceLeaks, [Next]_vars, NEW h \in Handler,
                      instance'[h] \in {"listening", "connected"}
               PROVE  thread'[h] \notin {"none", "ended"} \/ (h = created' /\ main' # "create")
    BY DEF NoInstanceLeaks, Instances
  <2> USE DEF BaseInv, NoInstanceLeaks, Instances
  <2>1. CASE Create
    BY <2>1, HandlerFacts DEF Typed, Create, Set
  <2>2. CASE Connect \/ Connected
    BY <2>2 DEF Connect, Connected
  <2>3. CASE Drop
    BY <2>3 DEF Typed, MainInv, Drop, Reset, Set
  <2>4. CASE Spawn
    BY <2>4 DEF Typed, MainInv, Spawn, Reset, Set
  <2>5. ASSUME NEW k \in Handler, MessageThread(k)
        PROVE  thread'[h] \notin {"none", "ended"} \/ (h = created' /\ main' # "create")
    <3>1. UNCHANGED mainVars /\ thread[k] \notin {"none", "ended"}
      BY <2>5 DEF MessageThread, ServerRead, ProcessRequest, ServerWrite, Flush, At
    <3>2. h # k => thread'[h] = thread[h] /\ instance'[h] = instance[h]
      BY <2>5 DEF Typed, MessageThread, ServerRead, ProcessRequest, ServerWrite, Flush, EndThread,
                  Goto, Reset, Set
    <3>3. thread'[k] = "ended" => instance'[k] = "gone"
      BY <2>5 DEF Typed, MessageThread, ServerRead, ProcessRequest, ServerWrite, Flush, EndThread,
                  Goto, Reset, Set
    <3>4. thread'[k] # "none"
      BY <2>5 DEF Typed, MessageThread, ServerRead, ProcessRequest, ServerWrite, Flush, EndThread,
                  Goto, Set
    <3> QED
      BY <3>1, <3>2, <3>3, <3>4 DEF mainVars
  <2>6. ASSUME NEW c \in Client, Issue(c) \/ SendRequest(c) \/ Kill(c)
        PROVE  thread'[h] \notin {"none", "ended"} \/ (h = created' /\ main' # "create")
    <3>1. UNCHANGED <<mainVars, thread>>
      BY <2>6 DEF Issue, SendRequest, Open, Wait, Write, Read, Kill, serverVars, mainVars
    <3>2. instance[h] \in {"listening", "connected"}
      BY <2>6 DEF Typed, Issue, SendRequest, Open, Wait, Write, Read, Kill, Listening, Set,
                  serverVars
    <3> QED
      BY <3>1, <3>2 DEF mainVars
  <2>7. CASE UNCHANGED vars
    BY <2>7 DEF vars, serverVars
  <2> QED
    BY <2>1, <2>2, <2>3, <2>4, <2>5, <2>6, <2>7 DEF Next, Main
<1> QED
  BY <1>1, <1>2, BaseInvHolds, PTL DEF Spec

\* RunningHandlersAreKept (of Transport): the handler taken off the back of
\* m_allMessageHandlers never has a running thread.
THEOREM RunningKept == Spec => []RunningHandlersAreKept
<1>1. Init => RunningHandlersAreKept
  BY DEF Init, RunningHandlersAreKept
<1>2. /\ BaseInv /\ HandlerInv /\ RunningHandlersAreKept /\ [Next]_vars
      => RunningHandlersAreKept'
  <2> SUFFICES ASSUME BaseInv, FreshInv, RunningHandlersAreKept, [Next]_vars
               PROVE  RunningHandlersAreKept'
    BY DEF HandlerInv
  <2> USE DEF BaseInv, RunningHandlersAreKept
  <2>0. Len(allMessageHandlers) \in Nat /\ allMessageHandlers \in Seq(Handler)
    BY DEF Typed
  <2>1. CASE Create
    <3>1. /\ Len(allMessageHandlers') = Len(allMessageHandlers) + 1
          /\ \A i \in 1 .. Len(allMessageHandlers) :
                allMessageHandlers'[i] = allMessageHandlers[i]
      BY <2>0, <2>1, HandlerFacts DEF Typed, Create
    <3> QED
      BY <2>0, <2>1, <3>1 DEF Create
  <2>2. CASE Connect \/ Connected
    BY <2>2 DEF Connect, Connected
  <2>3. CASE Drop
    <3> DEFINE last == Len(allMessageHandlers)
    <3>1. thread[allMessageHandlers[last]] = "none" /\ UNCHANGED thread
      BY <2>3 DEF MainInv, FreshInv, Drop
    <3>2. /\ Len(allMessageHandlers') = last - 1
          /\ \A i \in 1 .. last - 1 : allMessageHandlers'[i] = allMessageHandlers[i]
      <4>1. allMessageHandlers' = SubSeq(allMessageHandlers, 1, last - 1) /\ last > 0
        BY <2>3 DEF Drop
      <4>2. last \in Nat /\ last - 1 \in Nat
        BY <2>0, <4>1
      <4> HIDE DEF last
      <4>3. last <= Len(allMessageHandlers)
        BY <4>2 DEF last
      <4> QED
        BY <2>0, <4>1, <4>2, <4>3
    <3> QED
      BY <2>0, <3>1, <3>2
  <2>4. CASE Spawn
    <3>1. \A h \in Handler : thread'[h] # thread[h] => h = created
      BY <2>4 DEF Typed, Spawn, Set
    <3> QED
      BY <2>0, <2>4, <3>1 DEF MainInv, Spawn
  <2>5. ASSUME NEW h \in Handler, MessageThread(h)
        PROVE  RunningHandlersAreKept'
    <3>1. /\ thread[h] \notin {"none", "ended"} /\ UNCHANGED allMessageHandlers
          /\ \A k \in Handler : k # h => thread'[k] = thread[k]
      BY <2>5 DEF Typed, MessageThread, ServerRead, ProcessRequest, ServerWrite, Flush,
                  EndThread, At, Goto, Set, mainVars
    <3> QED
      BY <3>1
  <2>6. ASSUME NEW c \in Client, Issue(c) \/ SendRequest(c) \/ Kill(c)
        PROVE  RunningHandlersAreKept'
    BY <2>6 DEF Issue, SendRequest, Open, Wait, Write, Read, Kill, serverVars, mainVars
  <2>7. CASE UNCHANGED vars
    BY <2>7 DEF vars, serverVars
  <2> QED
    BY <2>1, <2>2, <2>3, <2>4, <2>5, <2>6, <2>7 DEF Next, Main
<1> QED
  BY <1>1, <1>2, HandlerInvHolds, PTL DEF Spec
------------------------------------------------------------------------------
\* What the steps do to the messages, the threads and the history.

Unchanged(h) == toServer'[h] = toServer[h] /\ toClient'[h] = toClient[h] /\ thread'[h] = thread[h]

\* Main only touches handlers without a thread.
LEMMA MainEffect ==
  ASSUME BaseInv, FreshInv, Main
  PROVE  /\ UNCHANGED <<callVars, history>>
         /\ \A h \in Handler :
              \/ Unchanged(h)
              \/ /\ thread[h] = "none" /\ thread'[h] \in {"none", "read"}
                 /\ toServer'[h] \in {toServer[h], Nothing}
                 /\ toClient'[h] \in {toClient[h], Nothing}
<1> USE DEF BaseInv, Unchanged
<1>1. UNCHANGED <<callVars, history>>
  BY DEF Main, Create, Connect, Connected, Drop, Spawn
<1>2. CASE Create \/ Connect \/ Connected
  BY <1>1, <1>2 DEF Create, Connect, Connected
<1>3. CASE Drop
  BY <1>1, <1>3 DEF Typed, MainInv, FreshInv, Drop, Reset, Set
<1>4. CASE Spawn
  BY <1>1, <1>4 DEF Typed, MainInv, FreshInv, Spawn, Reset, Set
<1> QED
  BY <1>2, <1>3, <1>4 DEF Main

\* Main writes no request.
LEMMA MainEffectOnRequests ==
  ASSUME BaseInv, FreshInv, Main
  PROVE  /\ UNCHANGED <<callVars, history>>
         /\ \A h \in Handler : toServer'[h] \in {toServer[h], Nothing}
BY MainEffect DEF Unchanged

\* A message thread ends, takes a request, executes it or answers it.
Ends(h) == thread'[h] = "ended" /\ toServer'[h] = Nothing /\ toClient'[h] = Nothing
Takes(h) ==
  /\ thread[h] = "read" /\ toServer[h] # Nothing /\ thread'[h] = "process"
  /\ toServer'[h] = toServer[h] /\ toClient'[h] = toClient[h]
Executes(h) ==
  /\ thread[h] = "process" /\ thread'[h] = "write"
  /\ toServer'[h] = toServer[h] /\ toClient'[h] = toClient[h]
Answers(h) ==
  /\ thread[h] = "write" /\ thread'[h] = "flush"
  /\ toServer'[h] = toServer[h] /\ toClient'[h] = toServer[h]

\* What a step of a message thread does to its own handler; it touches no other.
LEMMA MessageThreadEffect ==
  ASSUME BaseInv, NEW h \in Handler, MessageThread(h)
  PROVE  /\ UNCHANGED <<callVars, abandoned>>
         /\ \A k \in Handler \ {h} : Unchanged(k)
         /\ \/ UNCHANGED executions /\ (Ends(h) \/ Takes(h) \/ Answers(h))
            \/ ProcessRequest(h) /\ Executes(h)
<1> USE DEF BaseInv, Unchanged
<1>1. CASE EndThread(h) /\ ~ProcessRequest(h)
  BY <1>1 DEF Typed, MessageThread, ServerRead, ServerWrite, Flush, EndThread, Goto, Reset, Set,
              Ends, history
<1>2. CASE ServerRead(h) /\ ~EndThread(h)
  BY <1>2 DEF Typed, ServerRead, At, Goto, Set, Takes, history
<1>3. CASE ProcessRequest(h)
  BY <1>3 DEF Typed, ProcessRequest, At, Goto, Set, Executes
<1>4. CASE ServerWrite(h) /\ ~EndThread(h)
  BY <1>4 DEF Typed, ServerWrite, At, Goto, Set, Answers, history
<1> QED
  BY <1>1, <1>2, <1>3, <1>4 DEF MessageThread, Flush

\* A caller moves without a message, opens an instance, writes its request, or
\* closes its pipe.
Moves(c) ==
  /\ pc[c] \in {"open", "wait"} /\ pc'[c] \in {"idle", "open", "wait"}
  /\ UNCHANGED <<toServer, toClient, pipe, sent, abandoned, calls>>
Opens(c) ==
  /\ pc[c] = "open" /\ pc'[c] = "write"
  /\ \E h \in Listening : pipe'[c] = h
  /\ UNCHANGED <<toServer, toClient, sent, abandoned, calls>>
Writes(c) ==
  /\ pc[c] = "write" /\ pc'[c] = "read" /\ pipe[c] \in Handler
  /\ UNCHANGED <<toClient, pipe, abandoned, calls>>
  /\ \A h \in Handler : h # pipe[c] => toServer'[h] = toServer[h]
  /\ \/ sent'[c] /\ toServer'[pipe[c]] = Latest(c)
     \/ toServer'[pipe[c]] = toServer[pipe[c]]
Closes(c) ==
  /\ pc[c] # "idle" /\ pc'[c] = "idle" /\ pipe'[c] = Nothing
  /\ UNCHANGED <<toServer, calls>>
  /\ \A h \in Handler : toClient'[h] \in {toClient[h], Nothing}
  /\ \/ /\ pipe[c] \in Handler /\ UNCHANGED abandoned
        /\ toClient[pipe[c]] # Nothing \/ instance[pipe[c]] = "gone"
     \/ abandoned' = abandoned \cup {Latest(c)}

\* What a step of a caller does; it touches no other caller.
LEMMA CallerEffect ==
  ASSUME BaseInv, NEW c \in Client, SendRequest(c) \/ Kill(c)
  PROVE  /\ UNCHANGED <<thread, executions, size>>
         /\ \A d \in Client \ {c} :
              pc'[d] = pc[d] /\ pipe'[d] = pipe[d] /\ sent'[d] = sent[d] /\ outcome'[d] = outcome[d]
         /\ Moves(c) \/ Opens(c) \/ Writes(c) \/ Closes(c)
<1> USE DEF BaseInv
<1>1. CASE Open(c)
  BY <1>1 DEF Typed, Open, PollAgain, Return, Set, Moves, Opens, history
<1>2. CASE Wait(c)
  BY <1>2 DEF Typed, Wait, PollAgain, Return, Set, Moves, history, serverVars
<1>3. CASE Write(c)
  <2>1. pipe[c] \in Handler
    BY <1>3 DEF Typed, CallerInv, Write, PipeState
  <2> QED
    BY <1>3, <2>1 DEF Typed, Write, Set, Writes, history, serverVars
<1>4. CASE Read(c)
  <2>1. pipe[c] \in Handler
    BY <1>4 DEF Typed, CallerInv, Read, PipeState
  <2> QED
    BY <1>4, <2>1 DEF Typed, Read, Return, Set, Closes, history, serverVars
<1>5. CASE Kill(c)
  BY <1>5 DEF Typed, Kill, Return, Set, Closes, serverVars
<1> QED
  BY <1>1, <1>2, <1>3, <1>4, <1>5 DEF SendRequest

\* A new call gets the next number.
LEMMA IssueEffect ==
  ASSUME BaseInv, NEW c \in Client, Issue(c)
  PROVE  /\ UNCHANGED <<serverVars, toServer, toClient, pipe, sent, outcome, history>>
         /\ \A d \in Client \ {c} :
              pc'[d] = pc[d] /\ Latest(d)' = Latest(d) /\ calls'[d] = calls[d] /\ size'[d] = size[d]
         /\ pc[c] = "idle" /\ pc'[c] = "open" /\ pipe[c] = Nothing
         /\ calls'[c] = calls[c] + 1 /\ calls[c] \in Nat
<1> USE DEF BaseInv
<1>1. calls[c] \in Nat
  BY ValueFacts DEF Typed
<1> QED
  BY <1>1 DEF Typed, CallerInv, Issue, Set, Latest
------------------------------------------------------------------------------
\* The messages in the pipe of a caller are those of its call.
LEMMA OwnMessagePreserved ==
  ASSUME BaseInv, HandlerInv, OwnMessageInv, Next
  PROVE  OwnMessageInv'
<1> USE DEF BaseInv, HandlerInv, OwnMessageInv
<1>0. \A c \in Client : pipe[c] # Nothing => pipe[c] \in Handler
  BY DEF Typed, PipeState
<1>1. CASE Main
  BY <1>0, <1>1, MainEffect DEF Unchanged, callVars, Latest
<1>2. ASSUME NEW h \in Handler, MessageThread(h)
      PROVE  OwnMessageInv'
  BY <1>0, <1>2, MessageThreadEffect
     DEF Unchanged, Ends, Takes, Executes, Answers, callVars, Latest
<1>3. ASSUME NEW c \in Client, SendRequest(c) \/ Kill(c)
      PROVE  OwnMessageInv'
  <2>1. UNCHANGED calls /\ \A d \in Client : Latest(d)' = Latest(d)
    BY <1>3, CallerEffect DEF Moves, Opens, Writes, Closes, Latest
  <2>2. CASE Moves(c)
    BY <1>3, <2>1, <2>2, CallerEffect DEF Moves, CallerInv
  <2>3. CASE Opens(c)
    BY <1>0, <1>3, <2>1, <2>3, CallerEffect DEF Opens, Listening, EmptyInv
  <2>4. CASE Writes(c)
    BY <1>0, <1>3, <2>1, <2>4, CallerEffect DEF Writes, OwnPipeInv
  <2>5. CASE Closes(c)
    BY <1>0, <1>3, <2>1, <2>5, CallerEffect DEF Closes
  <2> QED
    BY <1>3, <2>2, <2>3, <2>4, <2>5, CallerEffect
<1>4. ASSUME NEW c \in Client, Issue(c)
      PROVE  OwnMessageInv'
  BY <1>4, IssueEffect
<1> QED
  BY <1>1, <1>2, <1>3, <1>4 DEF Next

\* Messages and history name calls that have been made.
LEMMA CallIdFacts ==
  ASSUME BaseInv
  PROVE  /\ \A i \in CallId : i[1] \in Client /\ i[2] \in Nat /\ i = <<i[1], i[2]>>
         /\ \A c \in Client : Latest(c)[1] = c /\ Latest(c)[2] = calls[c] /\ calls[c] \in Nat
         /\ \A h \in Handler : toServer[h] # Nothing => toServer[h] \in CallId
         /\ \A c \in Client : pc[c] # "idle" => Latest(c) \in CallId
<1>1. \A i \in CallId : i[1] \in Client /\ i[2] \in Nat /\ i = <<i[1], i[2]>>
  BY TransportAssumption DEF CallId
<1>2. \A c \in Client : Latest(c)[1] = c /\ Latest(c)[2] = calls[c] /\ calls[c] \in Nat
  BY ValueFacts DEF BaseInv, Typed, Latest
<1>3. \A h \in Handler : toServer[h] # Nothing => toServer[h] \in CallId
  BY DEF BaseInv, Typed, Message
<1> QED
  BY <1>1, <1>2, <1>3, LatestFacts

\* The latest call of a caller that has made one is in CallId.
LEMMA CallNumberFacts ==
  ASSUME BaseInv, NEW c \in Client, calls[c] > 0
  PROVE  Latest(c) \in CallId
BY TransportAssumption DEF BaseInv, Typed, CallNumber, Latest, CallId

\* Calls are numbered in the order they are made.
LEMMA OrderPreserved ==
  ASSUME BaseInv, FreshInv, OrderInv, Next
  PROVE  OrderInv'
<1> USE DEF OrderInv
<1>0. abandoned \subseteq CallId /\ executions \in [CallId -> Nat]
  BY DEF BaseInv, Typed
<1>1. CASE Main
  <2>1. /\ UNCHANGED <<callVars, history>>
        /\ \A h \in Handler : toServer'[h] \in {toServer[h], Nothing}
    BY <1>1, MainEffectOnRequests
  <2> QED
    BY <2>1 DEF callVars, history, Latest
<1>2. ASSUME NEW h \in Handler, MessageThread(h)
      PROVE  OrderInv'
  <2>1. /\ UNCHANGED <<callVars, abandoned>>
        /\ \A k \in Handler : toServer'[k] \in {toServer[k], Nothing}
    BY <1>2, MessageThreadEffect DEF Unchanged, Ends, Takes, Executes, Answers
  <2>2. \A i \in CallId : executions'[i] > 0 => i[2] <= calls[i[1]]
    <3>1. CASE UNCHANGED executions
      BY <3>1
    <3>2. CASE ProcessRequest(h)
      BY <1>0, <3>2, NothingAssumption DEF ProcessRequest
    <3> QED
      BY <1>2, <3>1, <3>2, MessageThreadEffect
  <2> QED
    BY <2>1, <2>2 DEF callVars, Latest
<1>3. ASSUME NEW c \in Client, SendRequest(c) \/ Kill(c)
      PROVE  OrderInv'
  <2>1. UNCHANGED <<calls, executions>> /\ \A d \in Client : Latest(d)' = Latest(d)
    BY <1>3, CallerEffect DEF Moves, Opens, Writes, Closes, Latest
  <2>2. \A d \in Client : pc'[d] # "idle" => pc[d] # "idle"
    BY <1>3, CallerEffect DEF Moves, Opens, Writes, Closes
  <2>3. CASE Moves(c) \/ Opens(c)
    BY <2>1, <2>2, <2>3 DEF Moves, Opens
  <2>4. CASE Writes(c)
    BY <2>1, <2>2, <2>4, CallIdFacts DEF Writes
  <2>5. CASE Closes(c)
    <3>1. \A d \in Client : pc'[d] # "idle" => d # c
      BY <2>5 DEF Closes
    <3>2. \A d \in Client : d # c => Latest(d) # Latest(c)
      BY CallIdFacts
    <3> QED
      BY <2>1, <2>2, <2>5, <3>1, <3>2, CallIdFacts DEF Closes
  <2> QED
    BY <1>3, <2>3, <2>4, <2>5, CallerEffect
<1>4. ASSUME NEW c \in Client, Issue(c)
      PROVE  OrderInv'
  <2>1. UNCHANGED <<toServer, executions, abandoned>>
    BY <1>4, IssueEffect DEF history
  <2>2. \A d \in Client : calls[d] <= calls'[d] /\ calls[d] \in Nat /\ calls'[d] \in Nat
    BY <1>4, IssueEffect, CallIdFacts
  <2>3. \A i \in CallId : i[2] <= calls[i[1]] => i[2] <= calls'[i[1]]
    BY <2>2, CallIdFacts
  <2>4. Latest(c)' \notin abandoned
    <3>1. Latest(c)' = <<c, calls[c] + 1>>
      BY <1>4, IssueEffect DEF Latest
    <3> QED
      BY <1>0, <1>4, <3>1, IssueEffect, CallIdFacts
  <2>5. \A d \in Client : pc'[d] # "idle" => Latest(d)' \notin abandoned
    BY <1>4, <2>4, IssueEffect
  <2> QED
    BY <1>0, <2>1, <2>3, <2>5, CallIdFacts
<1> QED
  BY <1>1, <1>2, <1>3, <1>4 DEF Next

\* A call whose request has not been written has not been executed.
LEMMA NewCallPreserved ==
  ASSUME BaseInv, FreshInv, OrderInv, NewCallInv, Next
  PROVE  NewCallInv'
<1> USE DEF NewCallInv
<1>0. executions \in [CallId -> Nat]
  BY DEF BaseInv, Typed
<1>1. CASE Main
  <2>1. /\ UNCHANGED <<callVars, history>>
        /\ \A h \in Handler : toServer'[h] \in {toServer[h], Nothing}
    BY <1>1, MainEffectOnRequests
  <2> QED
    BY <2>1, CallIdFacts, NothingAssumption DEF callVars, history, Latest
<1>2. ASSUME NEW h \in Handler, MessageThread(h)
      PROVE  NewCallInv'
  <2>1. /\ UNCHANGED <<callVars, abandoned>>
        /\ \A k \in Handler : toServer'[k] \in {toServer[k], Nothing}
    BY <1>2, MessageThreadEffect DEF Unchanged, Ends, Takes, Executes, Answers
  <2>2. \A i \in CallId : i # toServer[h] => executions'[i] = executions[i]
    BY <1>0, <1>2, MessageThreadEffect DEF ProcessRequest
  <2> QED
    BY <1>2, <2>1, <2>2, CallIdFacts, NothingAssumption DEF callVars, Latest
<1>3. ASSUME NEW c \in Client, SendRequest(c) \/ Kill(c)
      PROVE  NewCallInv'
  <2>1. UNCHANGED <<calls, executions>> /\ \A d \in Client : Latest(d)' = Latest(d)
    BY <1>3, CallerEffect DEF Moves, Opens, Writes, Closes, Latest
  <2>2. \A d \in Client :
          pc'[d] \in {"open", "wait", "write"} => pc[d] \in {"open", "wait", "write"}
    BY <1>3, CallerEffect DEF Moves, Opens, Writes, Closes
  <2>3. CASE UNCHANGED toServer
    BY <2>1, <2>2, <2>3
  <2>4. CASE Writes(c)
    BY <1>3, <2>1, <2>2, <2>4, CallerEffect, CallIdFacts DEF Writes
  <2> QED
    BY <1>3, <2>3, <2>4, CallerEffect DEF Moves, Opens, Closes
<1>4. ASSUME NEW c \in Client, Issue(c)
      PROVE  NewCallInv'
  <2>1. UNCHANGED <<toServer, executions>>
    BY <1>4, IssueEffect DEF history
  <2>2. Latest(c)' = <<c, calls[c] + 1>> /\ Latest(c)' \in CallId
    <3>1. calls' \in [Client -> 0 .. MaxCalls]
      BY <1>4, CallerPreserves DEF BaseInv, Typed, CallNumber
    <3>2. calls'[c] = calls[c] + 1 /\ calls[c] \in Nat
      BY <1>4, IssueEffect
    <3>3. calls[c] + 1 \in 1 .. MaxCalls
      BY <3>1, <3>2, TransportAssumption
    <3> QED
      BY <3>2, <3>3 DEF Latest, CallId
  <2>3. executions[Latest(c)'] = 0 /\ \A h \in Handler : toServer[h] # Latest(c)'
    <3> DEFINE new == <<c, calls[c] + 1>>
    <3>1. ~(new[2] <= calls[new[1]])
      BY CallIdFacts
    <3>2. new \in CallId
      BY <2>2
    <3> HIDE DEF new
    <3>3. ~(executions[new] > 0) /\ executions[new] \in Nat
      BY <1>0, <3>1, <3>2 DEF OrderInv
    <3>4. \A h \in Handler : toServer[h] # new
      BY <3>1, <3>2, NothingAssumption DEF OrderInv
    <3> QED
      BY <2>2, <3>3, <3>4 DEF new
  <2> QED
    BY <1>4, <2>1, <2>3, IssueEffect
<1> QED
  BY <1>1, <1>2, <1>3, <1>4 DEF Next

\* Every request is in one pipe only.
LEMMA UniquePreserved ==
  ASSUME BaseInv, FreshInv, NewCallInv, UniqueInv, Next
  PROVE  UniqueInv'
<1> USE DEF UniqueInv
<1>1. CASE \A h \in Handler : toServer'[h] \in {toServer[h], Nothing}
  BY <1>1
<1>2. CASE Main
  BY <1>1, <1>2, MainEffectOnRequests
<1>3. ASSUME NEW h \in Handler, MessageThread(h)
      PROVE  UniqueInv'
  BY <1>1, <1>3, MessageThreadEffect DEF Unchanged, Ends, Takes, Executes, Answers
<1>4. ASSUME NEW c \in Client, SendRequest(c) \/ Kill(c)
      PROVE  UniqueInv'
  <2>1. CASE UNCHANGED toServer
    BY <1>1, <2>1
  <2>2. CASE Writes(c)
    BY <2>2 DEF Writes, NewCallInv
  <2> QED
    BY <1>4, <2>1, <2>2, CallerEffect DEF Moves, Opens, Closes
<1>5. ASSUME NEW c \in Client, Issue(c)
      PROVE  UniqueInv'
  BY <1>1, <1>5, IssueEffect
<1> QED
  BY <1>2, <1>3, <1>4, <1>5 DEF Next

\* A request is executed once, by the thread that has read it.
LEMMA ExecutedPreserved ==
  ASSUME BaseInv, HandlerInv, RequestInv, Next
  PROVE  ExecutedInv'
<1> USE DEF RequestInv, HandlerInv, ExecutedInv
<1>0. executions \in [CallId -> Nat]
  BY DEF BaseInv, Typed
<1>1. CASE Main
  BY <1>1, MainEffect DEF Unchanged, history
<1>2. ASSUME NEW h \in Handler, MessageThread(h)
      PROVE  ExecutedInv'
  <2>1. CASE UNCHANGED executions /\ (Ends(h) \/ Takes(h) \/ Answers(h))
    BY <1>2, <2>1, MessageThreadEffect DEF Unchanged, Ends, Takes, Answers
  <2>2. CASE ProcessRequest(h) /\ Executes(h)
    <3>1. toServer[h] \in CallId /\ executions[toServer[h]] = 0
      BY <2>2, CallIdFacts DEF Executes
    <3>2. executions'[toServer[h]] = 1
      BY <1>0, <2>2, <3>1 DEF ProcessRequest
    <3>3. \A k \in Handler \ {h} :
             toServer[k] # Nothing => executions'[toServer[k]] = executions[toServer[k]]
      BY <1>0, <2>2, <3>1, CallIdFacts DEF ProcessRequest, UniqueInv
    <3> QED
      BY <1>2, <2>2, <3>2, <3>3, MessageThreadEffect DEF Unchanged, Executes
  <2> QED
    BY <1>2, <2>1, <2>2, MessageThreadEffect
<1>3. ASSUME NEW c \in Client, SendRequest(c) \/ Kill(c)
      PROVE  ExecutedInv'
  <2>1. UNCHANGED <<thread, executions>>
    BY <1>3, CallerEffect
  <2>2. CASE UNCHANGED toServer /\ \A h \in Handler : toClient'[h] \in {toClient[h], Nothing}
    BY <2>1, <2>2
  <2>3. CASE Writes(c)
    <3>1. toServer[pipe[c]] = Nothing /\ executions[Latest(c)] = 0
      BY <2>3, HandlerFacts DEF Writes, OwnMessageInv, NewCallInv
    <3> QED
      BY <2>1, <2>3, <3>1 DEF Writes
  <2> QED
    BY <1>3, <2>2, <2>3, CallerEffect DEF Moves, Opens, Closes
<1>4. ASSUME NEW c \in Client, Issue(c)
      PROVE  ExecutedInv'
  BY <1>4, IssueEffect DEF history, serverVars
<1> QED
  BY <1>1, <1>2, <1>3, <1>4 DEF Next

\* A caller stays until its request is answered, or is killed.
LEMMA WaitedForPreserved ==
  ASSUME BaseInv, HandlerInv, RequestInv, Next
  PROVE  WaitedForInv'
<1> USE DEF RequestInv, HandlerInv, WaitedForInv
<1>1. CASE Main
  BY <1>1, MainEffect DEF Unchanged, history, callVars, ExecutedInv
<1>2. ASSUME NEW h \in Handler, MessageThread(h)
      PROVE  WaitedForInv'
  BY <1>2, MessageThreadEffect DEF Unchanged, Ends, Takes, Executes, Answers, callVars
<1>3. ASSUME NEW c \in Client, SendRequest(c) \/ Kill(c)
      PROVE  WaitedForInv'
  <2>1. UNCHANGED <<thread, executions>>
    BY <1>3, CallerEffect
  <2>2. CASE Moves(c)
    BY <2>1, <2>2 DEF Moves
  <2>3. CASE Opens(c)
    <3>1. pipe[c] = Nothing
      BY <2>3 DEF Opens, BaseInv, CallerInv
    <3>2. \A h \in Handler : (\E d \in Client : pipe[d] = h) => \E d \in Client : pipe'[d] = h
      BY <1>3, <3>1, CallerEffect, NothingAssumption
    <3> QED
      BY <2>1, <2>3, <3>2 DEF Opens
  <2>4. CASE Writes(c)
    BY <2>1, <2>4 DEF Writes
  <2>5. CASE Closes(c)
    <3>1. \A h \in Handler : toServer[h] # Nothing /\ thread[h] # "flush" /\ pipe[c] = h
                             => toServer[h] \in abandoned'
      BY <2>5, HandlerFacts DEF Closes, OwnMessageInv, EmptyInv, ExecutedInv
    <3>2. \A h \in Handler : (\E d \in Client \ {c} : pipe[d] = h) => \E d \in Client : pipe'[d] = h
      BY <1>3, CallerEffect
    <3>3. abandoned \subseteq abandoned' /\ UNCHANGED toServer
      BY <2>5 DEF Closes
    <3> QED
      BY <2>1, <3>1, <3>2, <3>3
  <2> QED
    BY <1>3, <2>2, <2>3, <2>4, <2>5, CallerEffect
<1>4. ASSUME NEW c \in Client, Issue(c)
      PROVE  WaitedForInv'
  BY <1>4, IssueEffect DEF history, serverVars
<1> QED
  BY <1>1, <1>2, <1>3, <1>4 DEF Next

\* The invariant of the requests survives every step.
LEMMA RequestInvPreserved ==
  ASSUME BaseInv, HandlerInv, RequestInv, Next
  PROVE  RequestInv'
BY OwnMessagePreserved, OrderPreserved, NewCallPreserved, UniquePreserved, ExecutedPreserved,
   WaitedForPreserved DEF RequestInv, HandlerInv

\* The inductive invariant: a request is in one pipe, is executed once by the
\* thread of that pipe, and its caller waits for it or was killed.
THEOREM IInvHolds == Spec => []IInv
<1>1. Init => IInv
  <2> SUFFICES ASSUME Init PROVE IInv
    OBVIOUS
  <2>1. HandlerInv
    BY DEF Init, HandlerInv, FreshInv, ConnectedInv, EmptyInv, OwnPipeInv, Running
  <2>2. RequestInv
    BY DEF Init, RequestInv, OwnMessageInv, OrderInv, NewCallInv, ExecutedInv, UniqueInv,
           WaitedForInv
  <2> QED
    BY <2>1, <2>2, InitBaseInv DEF IInv
<1>2. IInv /\ [Next]_vars => IInv'
  <2>1. CASE UNCHANGED vars
    BY <2>1 DEF vars, serverVars, callVars, history, IInv, BaseInv, Typed, CallerInv, MainInv,
                HandlerInv, FreshInv, ConnectedInv, EmptyInv, OwnPipeInv, Running, RequestInv,
                OwnMessageInv, OrderInv, NewCallInv, ExecutedInv, UniqueInv, WaitedForInv, Latest
  <2> QED
    BY <2>1, BaseInvPreserved, HandlerInvPreserved, RequestInvPreserved DEF IInv
<1> QED
  BY <1>1, <1>2, PTL DEF Spec
------------------------------------------------------------------------------
Pending == {c \in Client : pc[c] # "idle"}

\* The error codes are the same in both modules.
LEMMA ErrorFacts ==
  /\ Call!ERROR_SUCCESS = ERROR_SUCCESS
  /\ Call!ERROR_RECEIVE_FAILED = ERROR_RECEIVE_FAILED
  /\ Call!ERROR_SERVER_NO_RESPONSE = ERROR_SERVER_NO_RESPONSE
  /\ ERROR_RECEIVE_FAILED # ERROR_SERVER_NO_RESPONSE
BY DEF ERROR_SUCCESS, ERROR_RECEIVE_FAILED, ERROR_SERVER_NO_RESPONSE, Call!ERROR_SUCCESS,
       Call!ERROR_RECEIVE_FAILED, Call!ERROR_SERVER_NO_RESPONSE

\* A step that changes neither who waits nor what has been executed.
LEMMA StutterStep ==
  ASSUME UNCHANGED <<Pending, calls, executions, abandoned, outcome, answer>>
  PROVE  UNCHANGED Call!vars
BY DEF Pending, Call!vars

\* Who waits, before and after a step of a caller.
LEMMA PendingFacts ==
  ASSUME Typed, NEW c \in Client
  PROVE  /\ \A l \in {"open", "wait", "write", "read"} :
              pc[c] # "idle" /\ pc' = Set(pc, c, l) => Pending' = Pending
         /\ pc' = Set(pc, c, "idle") => Pending' = Pending \ {c}
BY DEF Typed, Pending, Set

\* A call that returns.
LEMMA ReturnStep ==
  ASSUME Typed, NEW c \in Client, pc[c] # "idle",
         NEW e \in {ERROR_SERVER_NO_RESPONSE, ERROR_RECEIVE_FAILED}, Return(c, e),
         e = ERROR_SERVER_NO_RESPONSE => executions[Latest(c)] = 0,
         UNCHANGED <<calls, executions, abandoned, answer>>
  PROVE  Call!Return(c)
<1>1. Call!Fail(c, e)
  BY ErrorFacts DEF Call!Fail, Return, Set, Call!Latest, Latest
<1>2. c \in Pending /\ Pending' = Pending \ {c}
  BY PendingFacts DEF Pending, Return
<1> QED
  BY <1>1, <1>2, ErrorFacts DEF Call!Return, Pending

\* ImplementsRPCCall: every step of the threads, the pipe and the callers is a
\* step of RPCCall or changes nothing of it.
THEOREM RefinesRPCCall == Spec => ImplementsRPCCall
<1>1. Init => Call!Init
  BY ErrorFacts DEF Init, Call!Init, CallId, Call!CallId
<1>2. IInv /\ [Next]_vars => [Call!Next]_(Call!vars)
  <2> SUFFICES ASSUME IInv, [Next]_vars
               PROVE  Call!Next \/ UNCHANGED Call!vars
    OBVIOUS
  <2> USE DEF IInv
  <2>1. CASE Main
    BY <2>1, MainEffect, StutterStep DEF HandlerInv, callVars, history, Pending
  <2>2. ASSUME NEW h \in Handler, MessageThread(h)
        PROVE  Call!Next \/ UNCHANGED Call!vars
    <3>1. UNCHANGED <<callVars, abandoned>>
      BY <2>2, MessageThreadEffect
    <3>2. CASE UNCHANGED executions
      BY <3>1, <3>2, StutterStep DEF callVars, Pending
    <3>3. CASE ProcessRequest(h)
      <4> DEFINE i == toServer[h]
      <4>1. i \in CallId /\ executions[i] = 0 /\ thread[h] = "process"
        BY <3>3, CallIdFacts DEF ProcessRequest, At, RequestInv, ExecutedInv
      <4>2. executions' = [executions EXCEPT ![i] = 1]
        BY <3>3, <4>1 DEF ProcessRequest, BaseInv, Typed
      <4>3. i \in abandoned \/ (i[1] \in Pending /\ i = Latest(i[1]))
        <5>1. CASE i \in abandoned
          BY <5>1
        <5>2. ASSUME NEW c \in Client, pipe[c] = h
              PROVE  i[1] \in Pending /\ i = Latest(i[1])
          <6>1. i = Latest(c) /\ pc[c] = "read"
            BY <4>1, <5>2, HandlerFacts, NothingAssumption DEF RequestInv, OwnMessageInv
          <6>2. Latest(c)[1] = c
            BY CallIdFacts
          <6> QED
            BY <6>1, <6>2 DEF Pending
        <5> QED
          BY <4>1, <5>1, <5>2, NothingAssumption DEF RequestInv, WaitedForInv
      <4>4. UNCHANGED Pending
        BY <3>1 DEF Pending, callVars
      <4> HIDE DEF i
      <4>5. Call!Execute(i)
        BY <3>1, <4>1, <4>2, <4>3, <4>4 DEF Call!Execute, Call!Latest, Latest, Pending, callVars
      <4> QED
        BY <4>1, <4>5 DEF Call!Next, Call!CallId, CallId
    <3> QED
      BY <2>2, <3>2, <3>3, MessageThreadEffect
  <2>3. ASSUME NEW c \in Client, Issue(c)
        PROVE  Call!Next \/ UNCHANGED Call!vars
    <3>1. c \notin Pending /\ Pending' = Pending \cup {c}
      BY <2>3 DEF BaseInv, Typed, Issue, Pending, Set
    <3>2. Call!Issue(c)
      BY <2>3, <3>1 DEF Issue, Call!Issue, Pending, Set, history
    <3> QED
      BY <3>2 DEF Call!Next
  <2>4. ASSUME NEW c \in Client, Open(c) \/ Wait(c)
        PROVE  Call!Next \/ UNCHANGED Call!vars
    <3>1. /\ executions[Latest(c)] = 0 /\ pc[c] # "idle"
          /\ UNCHANGED <<calls, executions, abandoned, answer>>
      BY <2>4 DEF Open, Wait, RequestInv, NewCallInv, history
    <3>2. CASE Return(c, ERROR_SERVER_NO_RESPONSE)
      BY <3>1, <3>2, ReturnStep DEF BaseInv, Call!Next
    <3>3. CASE UNCHANGED outcome /\ \E l \in {"open", "wait", "write"} : pc' = Set(pc, c, l)
      BY <3>1, <3>3, PendingFacts, StutterStep DEF BaseInv
    <3> QED
      BY <2>4, <3>2, <3>3 DEF Open, Wait, PollAgain
  <2>5. ASSUME NEW c \in Client, Write(c)
        PROVE  Call!Next \/ UNCHANGED Call!vars
    BY <2>5, PendingFacts, StutterStep DEF Write, history, BaseInv
  <2>6. ASSUME NEW c \in Client, Read(c)
        PROVE  Call!Next \/ UNCHANGED Call!vars
    <3>0. /\ pc[c] # "idle" /\ pipe[c] \in Handler
          /\ UNCHANGED <<calls, executions, abandoned>>
      BY <2>6 DEF Read, BaseInv, Typed, CallerInv, PipeState, history
    <3>1. CASE Return(c, ERROR_RECEIVE_FAILED) /\ UNCHANGED answer
      BY <3>0, <3>1, ErrorFacts, ReturnStep DEF BaseInv, Call!Next
    <3>2. CASE toClient[pipe[c]] # Nothing
      <4>1. /\ sent[c] /\ toClient[pipe[c]] = Latest(c)
            /\ executions[Latest(c)] = 1
        BY <3>0, <3>2, HandlerFacts DEF RequestInv, OwnMessageInv, ExecutedInv
      <4>2. CASE Return(c, ERROR_SUCCESS) /\ answer' = Set(answer, c, Latest(c))
        <5>1. c \in Pending /\ Pending' = Pending \ {c}
          BY <3>0, <4>2, PendingFacts DEF Return, Pending, BaseInv
        <5>2. Call!Succeed(c)
          BY <4>1, <4>2, ErrorFacts DEF Call!Succeed, Return, Set, Call!Latest, Latest
        <5> QED
          BY <3>0, <5>1, <5>2 DEF Call!Return, Call!Next, Pending
      <4> QED
        BY <2>6, <3>1, <4>1, <4>2 DEF Read
    <3> QED
      BY <2>6, <3>1, <3>2 DEF Read
  <2>7. ASSUME NEW c \in Client, Kill(c)
        PROVE  Call!Next \/ UNCHANGED Call!vars
    <3>1. c \in Pending /\ Pending' = Pending \ {c}
      BY <2>7, PendingFacts DEF Kill, Return, Pending, BaseInv
    <3>2. Call!Abandon(c)
      BY <2>7, <3>1 DEF Kill, Return, Set, Call!Abandon, Call!Latest, Latest, Pending
    <3> QED
      BY <3>2 DEF Call!Next
  <2>8. CASE UNCHANGED vars
    BY <2>8, StutterStep DEF vars, callVars, history, Pending
  <2> QED
    BY <2>1, <2>2, <2>3, <2>4, <2>5, <2>6, <2>7, <2>8 DEF Next, SendRequest
<1> QED
  BY <1>1, <1>2, IInvHolds, PTL DEF Spec, ImplementsRPCCall, Call!Spec
------------------------------------------------------------------------------
SuccessInv == ResponseInv /\ AbandonedInv /\ ExecutedCallSucceeds

\* The thread that executes a call still has its caller at the other end, or
\* the caller was killed.
LEMMA ExecuteFacts ==
  ASSUME IInv, NEW h \in Handler, ProcessRequest(h), NEW c \in Client, toServer[h] = Latest(c)
  PROVE  \/ Latest(c) \in abandoned
         \/ pc[c] = "read" /\ pipe[c] = h
<1>1. thread[h] = "process" /\ toServer[h] # Nothing
  BY DEF IInv, RequestInv, ExecutedInv, ProcessRequest, At
<1>2. ASSUME NEW d \in Client, pipe[d] = h
      PROVE  pc[c] = "read" /\ pipe[c] = h
  <2>1. pc[d] = "read" /\ Latest(d) = Latest(c)
    BY <1>1, <1>2, HandlerFacts DEF IInv, RequestInv, OwnMessageInv
  <2>2. d = c
    BY <2>1 DEF Latest
  <2> QED
    BY <1>2, <2>1, <2>2
<1> QED
  BY <1>1, <1>2 DEF IInv, RequestInv, WaitedForInv

\* The response of a call that has been executed is not lost.
LEMMA ResponsePreserved ==
  ASSUME IInv, IInv', ResponseInv, Next
  PROVE  ResponseInv'
<1> USE DEF IInv, ResponseInv
<1>0. executions \in [CallId -> Nat] /\ \A c \in Client : pc[c] = "read" => pipe[c] \in Handler
  BY DEF BaseInv, Typed, CallerInv, PipeState
<1>1. CASE Main
  <2>1. UNCHANGED <<callVars, history>> /\ \A c \in Client : Latest(c)' = Latest(c)
    BY <1>1, MainEffect DEF HandlerInv, callVars, Latest
  <2>2. \A h \in Handler : thread[h] # "none" => Unchanged(h)
    BY <1>1, MainEffect DEF HandlerInv
  <2> QED
    BY <1>0, <2>1, <2>2 DEF callVars, history, Unchanged
<1>2. ASSUME NEW h \in Handler, MessageThread(h)
      PROVE  ResponseInv'
  <2> SUFFICES ASSUME NEW c \in Client, pc'[c] = "read", size'[c] = "fits",
                      executions'[Latest(c)'] > 0
               PROVE  \/ thread'[pipe'[c]] = "write" /\ toServer'[pipe'[c]] = Latest(c)'
                      \/ thread'[pipe'[c]] = "flush" /\ toClient'[pipe'[c]] = Latest(c)'
    OBVIOUS
  <2>1. /\ UNCHANGED <<pc, size, pipe>> /\ Latest(c)' = Latest(c) /\ Latest(c) \in CallId
        /\ \A k \in Handler : k # h => Unchanged(k)
    BY <1>2, MessageThreadEffect, CallIdFacts DEF callVars, Latest
  <2>2. CASE executions[Latest(c)] = 0
    <3>1. ProcessRequest(h) /\ Executes(h) /\ toServer[h] = Latest(c)
      BY <1>0, <1>2, <2>1, <2>2, MessageThreadEffect DEF ProcessRequest
    <3>2. pipe[c] = h
      BY <2>1, <3>1, ExecuteFacts DEF RequestInv, OrderInv
    <3> QED
      BY <2>1, <3>1, <3>2 DEF Executes
  <2>3. CASE executions[Latest(c)] > 0
    <3>1. CASE pipe[c] # h
      BY <1>0, <2>1, <2>3, <3>1 DEF Unchanged
    <3>2. CASE pipe[c] = h /\ thread[h] = "write" /\ toServer[h] = Latest(c)
      <4>1. ServerWrite(h) /\ ResponsePasses(h)
        BY <1>2, <2>1, <3>2 DEF MessageThread, ServerRead, ProcessRequest, ServerWrite, Flush, At,
                                ResponsePasses
      <4> QED
        BY <2>1, <3>2, <4>1 DEF ServerWrite, Goto, Set, BaseInv, Typed
    <3>3. CASE pipe[c] = h /\ thread[h] = "flush" /\ toClient[h] = Latest(c)
      BY <1>2, <2>1, <3>3, NothingAssumption
         DEF MessageThread, ServerRead, ProcessRequest, ServerWrite, Flush, At, HasClient
    <3> QED
      BY <2>1, <2>3, <3>1, <3>2, <3>3
  <2> QED
    BY <1>0, <2>1, <2>2, <2>3
<1>3. ASSUME NEW c \in Client, SendRequest(c) \/ Kill(c)
      PROVE  ResponseInv'
  <2>1. UNCHANGED <<thread, executions, size, calls>> /\ \A d \in Client : Latest(d)' = Latest(d)
    BY <1>3, CallerEffect DEF Moves, Opens, Writes, Closes, Latest
  <2>2. ASSUME NEW d \in Client \ {c}, pc[d] = "read", executions[Latest(d)] > 0, size[d] = "fits"
        PROVE  \/ thread[pipe[d]] = "write" /\ toServer'[pipe[d]] = Latest(d)
               \/ thread[pipe[d]] = "flush" /\ toClient'[pipe[d]] = Latest(d)
    <3>1. pipe[d] \in Handler /\ pipe[d] # pipe[c]
      BY <1>0, <2>2, HandlerFacts DEF HandlerInv, OwnPipeInv
    <3>2. toServer'[pipe[d]] = toServer[pipe[d]] /\ toClient'[pipe[d]] = toClient[pipe[d]]
      BY <1>3, <3>1 DEF SendRequest, Open, Wait, Write, Read, Kill, Set, BaseInv, Typed
    <3> QED
      BY <2>2, <3>2
  <2>3. pc'[c] = "read" => executions[Latest(c)] = 0
    BY <1>3, CallerEffect DEF Moves, Opens, Writes, Closes, RequestInv, NewCallInv
  <2> QED
    BY <1>3, <2>1, <2>2, <2>3, CallerEffect
<1>4. ASSUME NEW c \in Client, Issue(c)
      PROVE  ResponseInv'
  BY <1>4, IssueEffect DEF history, serverVars
<1> QED
  BY <1>1, <1>2, <1>3, <1>4 DEF Next

\* What a caller is told about a call that has been executed or whose caller was
\* killed.
LEMMA OutcomePreserved ==
  ASSUME IInv, IInv', SuccessInv, Next
  PROVE  (AbandonedInv /\ ExecutedCallSucceeds)'
<1> USE DEF IInv, SuccessInv, AbandonedInv, ExecutedCallSucceeds
<1>0. executions \in [CallId -> Nat]
  BY DEF BaseInv, Typed
<1>1. CASE Main
  BY <1>1, MainEffect DEF HandlerInv, callVars, history, Latest
<1>2. ASSUME NEW h \in Handler, MessageThread(h)
      PROVE  (AbandonedInv /\ ExecutedCallSucceeds)'
  <2>1. UNCHANGED <<callVars, abandoned>> /\ \A c \in Client : Latest(c)' = Latest(c)
    BY <1>2, MessageThreadEffect DEF callVars, Latest
  <2>2. ASSUME NEW c \in Client, pc[c] = "idle", calls[c] > 0, executions'[Latest(c)] > 0,
               size[c] = "fits"
        PROVE  outcome[c] \in {ERROR_SUCCESS, Abandoned}
    <3>1. Latest(c) \in CallId
      BY <2>2, CallNumberFacts
    <3>2. CASE executions[Latest(c)] > 0
      BY <2>2, <3>2
    <3>3. CASE executions[Latest(c)] = 0
      <4>1. ProcessRequest(h) /\ toServer[h] = Latest(c)
        BY <1>0, <1>2, <2>2, <3>1, <3>3, MessageThreadEffect DEF ProcessRequest
      <4> QED
        BY <2>2, <4>1, ExecuteFacts
    <3> QED
      BY <1>0, <3>1, <3>2, <3>3
  <2> QED
    BY <2>1, <2>2 DEF callVars
<1>3. ASSUME NEW c \in Client, Open(c) \/ Wait(c)
      PROVE  (AbandonedInv /\ ExecutedCallSucceeds)'
  <2>1. /\ executions[Latest(c)] = 0 /\ Latest(c) \notin abandoned
        /\ UNCHANGED <<executions, abandoned, calls, size>>
        /\ \A d \in Client : Latest(d)' = Latest(d)
    BY <1>3 DEF Open, Wait, history, RequestInv, NewCallInv, OrderInv, Latest
  <2> QED
    BY <1>3, <2>1, CallerEffect DEF SendRequest
<1>4. ASSUME NEW c \in Client, Write(c)
      PROVE  (AbandonedInv /\ ExecutedCallSucceeds)'
  BY <1>4 DEF Write, Set, BaseInv, Typed, history, Latest
<1>5. ASSUME NEW c \in Client, Read(c)
      PROVE  (AbandonedInv /\ ExecutedCallSucceeds)'
  <2>1. /\ pc[c] = "read" /\ pipe[c] \in Handler /\ Latest(c) \notin abandoned
        /\ UNCHANGED <<executions, abandoned, calls, size>>
        /\ \A d \in Client : Latest(d)' = Latest(d)
    BY <1>5 DEF Read, history, RequestInv, OrderInv, Latest, BaseInv, Typed, CallerInv, PipeState
  <2>2. executions[Latest(c)] > 0 /\ size[c] = "fits" => outcome'[c] = ERROR_SUCCESS
    <3>1. CASE toClient[pipe[c]] # Nothing
      <4>1. sent[c] /\ instance[pipe[c]] = "connected"
        BY <2>1, <3>1, HandlerFacts
           DEF HandlerInv, EmptyInv, RequestInv, OwnMessageInv, ExecutedInv
      <4> QED
        BY <1>5, <4>1 DEF Read, Return, Set, BaseInv, Typed
    <3>2. ASSUME instance[pipe[c]] = "gone", executions[Latest(c)] > 0, size[c] = "fits"
          PROVE  FALSE
      <4>1. thread[pipe[c]] \in {"write", "flush"}
        BY <2>1, <3>2 DEF ResponseInv
      <4> QED
        BY <2>1, <3>2, <4>1 DEF HandlerInv, ConnectedInv, Running
    <3> QED
      BY <1>5, <3>1, <3>2 DEF Read
  <2> QED
    BY <1>5, <2>1, <2>2, CallerEffect DEF SendRequest
<1>6. ASSUME NEW c \in Client, Kill(c)
      PROVE  (AbandonedInv /\ ExecutedCallSucceeds)'
  <2>1. /\ outcome'[c] = Abandoned /\ abandoned' = abandoned \cup {Latest(c)}
        /\ UNCHANGED <<executions, calls, size>> /\ \A d \in Client : Latest(d)' = Latest(d)
    BY <1>6 DEF Kill, Return, Set, BaseInv, Typed, Latest
  <2>2. \A d \in Client : d # c => Latest(d) # Latest(c)
    BY DEF Latest
  <2> QED
    BY <1>6, <2>1, <2>2, CallerEffect
<1>7. ASSUME NEW c \in Client, Issue(c)
      PROVE  (AbandonedInv /\ ExecutedCallSucceeds)'
  BY <1>7, IssueEffect DEF history
<1> QED
  BY <1>1, <1>2, <1>3, <1>4, <1>5, <1>6, <1>7 DEF Next, SendRequest

\* ExecutedCallSucceeds (of Transport): the caller of a call that was executed
\* and whose response fits is told so, unless it was killed.
THEOREM ExecutedSucceeds == Spec => []ExecutedCallSucceeds
<1>1. Init => SuccessInv
  BY DEF Init, SuccessInv, ResponseInv, AbandonedInv, ExecutedCallSucceeds
<1>2. IInv /\ IInv' /\ SuccessInv /\ [Next]_vars => SuccessInv'
  <2>1. CASE UNCHANGED vars
    BY <2>1 DEF vars, serverVars, callVars, history, SuccessInv, ResponseInv, AbandonedInv,
                ExecutedCallSucceeds, Latest
  <2> QED
    BY <2>1, ResponsePreserved, OutcomePreserved DEF SuccessInv
<1>3. SuccessInv => ExecutedCallSucceeds
  BY DEF SuccessInv
<1> QED
  BY <1>1, <1>2, <1>3, IInvHolds, PTL DEF Spec

==============================================================================
