------------------------ MODULE ServerShutdownCallProofs ------------------------
(***************************************************************************)
(* What a caller is told while the server stops, for every number of       *)
(* callers and calls: a call is executed at most once, one that was not    *)
(* answered by any server not at all, and one that succeeded hands out its *)
(* own response (OutcomesHold of ServerShutdown).                          *)
(*                                                                         *)
(* The inductive invariant has three layers on top of IInv of              *)
(* ServerShutdownProofs.  BaseInv types the variables and says where the   *)
(* callers and the threads are.  HandleInv is about the instances of the   *)
(* pipe and the handles to them.  CallInv follows a call from the caller   *)
(* that writes it to the thread that executes it and back.  Each layer is  *)
(* preserved by a step given the layers before it.                         *)
(***************************************************************************)
EXTENDS ServerShutdownProofs

\* ShutdownTypeOK with a name for every set, and the types of the callers.
MainState == Resetting \cup {"create", "push", "pipe", "connect", "waiting", "assign",
                             "drop", "sleep", "ended", "killed"}
InstanceState == {"none", "listening", "connected", "gone"}
ThreadState == Resetting \cup {"none", "read", "reading", "process", "locked", "write",
                               "flush", "flushing", "ended", "killed"}
StopState == Resetting \cup {"running", "enter", "visit", "fakeClose", "wait", "waitMain",
                             "returned", "destroyed", "exited"}
Message == CallId \cup {Nothing}
HandlerOrNone == Handler \cup {Nothing}
PcState == {"idle", "open", "wait", "write", "read"}

ServerTyped ==
  /\ main \in MainState /\ stop \in StopState /\ exitEvent \in BOOLEAN
  /\ csAllObjects \in HandlerOrNone
  /\ m_pipe \subseteq Handler /\ m_messageThreadHandle \subseteq Handler
  /\ closed \subseteq m_pipe /\ recycled \subseteq Handler
  /\ recycled # {} => created \in Handler
ThreadTyped ==
  /\ thread \in [Handler -> ThreadState]
  /\ request \in [Handler -> Message]
  /\ using \in [Handler -> HandlerOrNone]
  /\ executions \in [CallId -> Nat]
PipeTyped ==
  /\ instance \in [Handler -> InstanceState]
  /\ toServer \in [Handler -> Message] /\ toClient \in [Handler -> Message]
CallerTyped ==
  /\ pc \in [Client -> PcState]
  /\ pipe \in [Client -> HandlerOrNone]
  /\ calls \in [Client -> 0 .. MaxCalls]
  /\ DOMAIN sent = Client /\ DOMAIN outcome = Client /\ DOMAIN answer = Client

\* The rest of what a caller has, which no other part of the invariant needs.
Poll == 0 .. MaxPolls
Size == Sizes \cup {"fits"}
Outcome == {ERROR_SUCCESS, ERROR_SEND_FAILED, ERROR_RECEIVE_FAILED, ERROR_SERVER_NO_RESPONSE}
Answer == Client \X (0 .. MaxCalls)
DetailTyped ==
  /\ polls \in [Client -> Poll] /\ size \in [Client -> Size] /\ sent \in [Client -> BOOLEAN]
  /\ outcome \in [Client -> Outcome] /\ answer \in [Client -> Answer]
  /\ abandoned \subseteq CallId

\* Where a caller is and what it has; only Stop uses the fake client.
CallerInv ==
  /\ pc[Fake] = "idle" /\ calls[Fake] = 0
  /\ \A c \in Client : c # Fake => (pipe[c] # Nothing <=> pc[c] \in {"write", "read"})
  /\ \A c \in Client : pc[c] # "idle" => calls[c] > 0

\* A message thread has a request from the moment it has read it.
ThreadInv ==
  \A h \in Handler :
    /\ request[h] # Nothing <=> thread[h] \in {"process", "locked", "write", "flush", "flushing"}
    /\ thread[h] = "reading" => using[h] # Nothing

BaseInv == IInv /\ ServerTyped /\ ThreadTyped /\ PipeTyped /\ CallerTyped /\ CallerInv /\ ThreadInv
------------------------------------------------------------------------------
\* The handlers whose pipe has been created.
Made == {h \in Handler : h < created \/ (h = created /\ main # "pipe")}

\* An instance is created once and opened by one client, and only then gets its
\* thread; one that is not connected is empty.
MadeInv ==
  /\ m_pipe \subseteq Made /\ Instances \subseteq Made
  /\ \A c \in Client : pipe[c] # Nothing =>
       pipe[c] \in Made /\ instance[pipe[c]] \in {"connected", "gone"}
  /\ \A h \in Handler : thread[h] # "none" => instance[h] \in {"connected", "gone"}
OwnPipeInv == \A c, d \in Client : pipe[c] = pipe[d] /\ pipe[c] # Nothing => c = d
EmptyInv ==
  \A h \in Handler : instance[h] # "connected" => toServer[h] = Nothing /\ toClient[h] = Nothing

\* Main can still create a pipe.
MayCreate == ~exitEvent \/ main \in {"push", "pipe"}

\* Before Stop, only the thread that closes a handle can find it closed, and it
\* does not use it any more: the newest pipe may get its value, and no harm is
\* done.
ClosedInv ==
  /\ ~exitEvent => \A h \in closed : thread[h] = "null" \/ (main = "null" /\ h = created)
  /\ \A h \in recycled : h < created
  /\ MayCreate => \A h \in recycled : thread[h] \in {"null", "ended", "killed"}
HandleInv == MadeInv /\ OwnPipeInv /\ EmptyInv /\ ClosedInv

\* The newest pipe has been created while handles were closed, and there will be
\* no newer one.
Reused == ~MayCreate /\ recycled # {}
------------------------------------------------------------------------------
\* A call that has not been written, or was not answered, has left no trace.
Unwritten(c) ==
  \/ pc[c] \in {"open", "wait", "write"}
  \/ pc[c] = "idle" /\ calls[c] > 0 /\ outcome[c] = ERROR_SERVER_NO_RESPONSE
NoTrace(i) ==
  /\ executions[i] = 0
  /\ \A h \in Handler : toServer[h] # i /\ request[h] # i
NewCallInv == \A c \in Client : Unwritten(c) => NoTrace(Latest(c))

\* Calls are named in the order they are made.
OrderInv == \A i \in CallId : ~NoTrace(i) => i[2] <= calls[i[1]]

\* A request is in one place, and is executed there once.
Executed == {h \in Handler : thread[h] \in {"write", "flush", "flushing"}}
RequestInv ==
  /\ \A i \in CallId : executions[i] <= 1
  /\ \A h \in Handler : toServer[h] # Nothing => executions[toServer[h]] = 0
  /\ \A h \in Handler : request[h] # Nothing =>
       executions[request[h]] = IF h \in Executed THEN 1 ELSE 0
  /\ \A h \in Handler : toClient[h] # Nothing => executions[toClient[h]] = 1
PlaceInv ==
  /\ \A h, k \in Handler : toServer[h] = toServer[k] /\ toServer[h] # Nothing => h = k
  /\ \A h, k \in Handler : request[h] = request[k] /\ request[h] # Nothing => h = k
  /\ \A h, k \in Handler : toServer[h] = request[k] => toServer[h] = Nothing

\* What is in the pipe of a caller, or has been read from it, is its own; the
\* request in any case, the response while no thread uses a reused handle.
OwnInv ==
  /\ \A c \in Client : pipe[c] # Nothing => toServer[pipe[c]] \in {Nothing, Latest(c)}
  /\ ~Reused => \A c \in Client : pipe[c] # Nothing =>
       /\ toClient[pipe[c]] \in {Nothing, Latest(c)}
       /\ request[pipe[c]] \in {Nothing, Latest(c)}
  /\ ~Reused => \A h \in Handler : using[h] \in {Nothing, h}

\* A caller that has succeeded got its own response.
AnswerInv ==
  ~Reused => \A c \in Client :
    pc[c] = "idle" /\ calls[c] > 0 /\ outcome[c] = ERROR_SUCCESS =>
      answer[c] = Latest(c) /\ executions[Latest(c)] = 1
CallInv == NewCallInv /\ OrderInv /\ RequestInv /\ PlaceInv /\ OwnInv /\ AnswerInv
------------------------------------------------------------------------------
\* The types of BaseInv and DetailTyped are those of ShutdownTypeOK.
LEMMA BaseInvIsTyped == BaseInv /\ DetailTyped => ShutdownTypeOK
<1> SUFFICES ASSUME BaseInv, DetailTyped
             PROVE  ShutdownTypeOK
  OBVIOUS
<1>1. /\ polls \in [Client -> 0 .. MaxPolls] /\ size \in [Client -> Sizes \cup {"fits"}]
      /\ sent \in [Client -> BOOLEAN] /\ answer \in [Client -> Client \X (0 .. MaxCalls)]
      /\ outcome \in [Client -> { ERROR_SUCCESS, ERROR_SEND_FAILED, ERROR_RECEIVE_FAILED,
                                  ERROR_SERVER_NO_RESPONSE }]
      /\ abandoned \subseteq CallId
  BY DEF DetailTyped, Poll, Size, Outcome, Answer
<1> QED
  BY <1>1 DEF BaseInv, IInv, ShapeInv, ServerTyped, ThreadTyped, PipeTyped, CallerTyped,
       ShutdownTypeOK, MainState, InstanceState, ThreadState, StopState, Message, HandlerOrNone,
       PcState

\* The values that steps assign are of the types.
LEMMA ValueFacts ==
  /\ "none" \in InstanceState /\ "listening" \in InstanceState
  /\ "connected" \in InstanceState /\ "gone" \in InstanceState
  /\ Nothing \in Message /\ CallId \subseteq Message
  /\ Nothing \in HandlerOrNone /\ Handler \subseteq HandlerOrNone
  /\ Nothing \notin Handler /\ Nothing \notin CallId
  /\ Resetting \subseteq ThreadState /\ Resetting \subseteq MainState
  /\ Resetting \subseteq StopState
BY NothingAssumption
   DEF InstanceState, Message, HandlerOrNone, ThreadState, MainState, StopState

\* A function keeps its type, and all its values but one.
LEMMA SetType ==
  ASSUME NEW S, NEW T, NEW f \in [S -> T], NEW x, NEW y \in T
  PROVE  /\ Set(f, x, y) \in [S -> T]
         /\ \A z \in S : Set(f, x, y)[z] = IF z = x THEN y ELSE f[z]
BY DEF Set

\* A handle stands for an instance or for none.
LEMMA DenotesType ==
  ASSUME ServerTyped, NEW h \in Handler, NEW k \in Denotes(h)
  PROVE  k \in HandlerOrNone
BY DEF ServerTyped, Denotes, HandlerOrNone

\* What a step does to an instance that it resets, and to one it leaves alone.
Keeps(k) ==
  /\ instance'[k] = instance[k]
  /\ toServer'[k] \in {toServer[k], Nothing} /\ toClient'[k] \in {toClient[k], Nothing}
Ends(k) == instance'[k] = "gone" /\ toServer'[k] = Nothing /\ toClient'[k] = Nothing
PipesOnlyEnd == PipeTyped' /\ \A k \in Handler : Keeps(k) \/ Ends(k)

LEMMA VanishEffect ==
  ASSUME PipeTyped, NEW k, Vanish(k)
  PROVE  PipesOnlyEnd
<1>1. PipeTyped'
  BY SetType, ValueFacts DEF PipeTyped, Vanish
<1>2. \A j \in Handler : Keeps(j) \/ Ends(j)
  BY DEF PipeTyped, Vanish, Keeps, Ends, Set
<1> QED
  BY <1>1, <1>2 DEF PipesOnlyEnd

\* Nothing happens to the pipes.
LEMMA PipesSame ==
  ASSUME PipeTyped, UNCHANGED pipeVars
  PROVE  PipesOnlyEnd
BY DEF PipeTyped, pipeVars, PipesOnlyEnd, Keeps

\* NamedPipe::Reset closes and clears handles and instances, no more.
LEMMA ResetEffect ==
  ASSUME ServerTyped, PipeTyped, NEW label, NEW h, NamedPipeReset(label, h)
  PROVE  /\ PipesOnlyEnd /\ UNCHANGED recycled
         /\ m_pipe' \subseteq m_pipe /\ closed' \subseteq m_pipe'
         /\ closed' \subseteq closed \cup {h}
         /\ AfterReset(label, h, "close") \in Resetting
<1>1. PipesOnlyEnd
  BY VanishEffect, PipesSame DEF NamedPipeReset
<1> QED
  BY <1>1 DEF ServerTyped, NamedPipeReset, handleVars, AfterReset, Resetting
------------------------------------------------------------------------------
\* The first invariant survives a step of main.
LEMMA MainBase ==
  ASSUME BaseInv, MainServerThread
  PROVE  BaseInv'
<1> USE DEF BaseInv
<1>1. IInv'
  BY MainPreserves
<1>2. UNCHANGED <<stop, exitEvent, callVars, history, csAllObjects, request, using>>
  BY DEF MainServerThread, TestExit, Push, CreatePipe, StartConnect, EndConnect, AssignHandle,
         ResetUnserved, PopBack, DestroyHandler, stopVars, threadVars
<1>3. CallerTyped' /\ CallerInv'
  BY <1>2 DEF CallerTyped, CallerInv, callVars
<1>4. ServerTyped'
  <2>1. main' \in MainState
    BY DEF MainServerThread, TestExit, Push, CreatePipe, StartConnect, EndConnect,
           AssignHandle, ResetUnserved, PopBack, DestroyHandler, AfterReset, Resetting, MainState
  <2>2. CASE Push
    BY <1>2, <2>1, <2>2, MainEffect DEF IInv, ServerTyped, Push, handleVars, threadVars, Adds,
        TakesOff, Starts, Stores, MovesOn
  <2>3. CASE CreatePipe
    BY <1>2, <2>1, <2>3 DEF IInv, MainInv, HasHandler, ServerTyped, CreatePipe, threadVars,
        bookkeeping
  <2>4. CASE AssignHandle
    BY <1>2, <2>1, <2>4 DEF IInv, MainInv, HasHandler, ServerTyped, AssignHandle, handleVars,
        bookkeeping
  <2>5. CASE ResetUnserved
    BY <1>2, <2>1, <2>5, ResetEffect DEF ServerTyped, ResetUnserved, threadVars, bookkeeping
  <2>6. CASE TestExit \/ StartConnect \/ EndConnect \/ PopBack \/ DestroyHandler
    BY <1>2, <2>1, <2>6 DEF ServerTyped, TestExit, StartConnect, EndConnect, PopBack,
        DestroyHandler, handleVars, threadVars, bookkeeping
  <2> QED
    BY <2>2, <2>3, <2>4, <2>5, <2>6 DEF MainServerThread
<1>5. PipeTyped'
  <2>1. CASE CreatePipe
    BY <2>1, SetType, ValueFacts DEF PipeTyped, CreatePipe
  <2>2. CASE ResetUnserved \/ DestroyHandler
    BY <2>2, ResetEffect, VanishEffect DEF ResetUnserved, DestroyHandler, PipesOnlyEnd
  <2>3. CASE instance' = Set(instance, created, "listening") /\ UNCHANGED <<toServer, toClient>>
    BY <2>3, SetType, ValueFacts DEF PipeTyped
  <2> QED
    BY <2>1, <2>2, <2>3 DEF PipeTyped, pipeVars, MainServerThread, TestExit, Push, StartConnect,
        EndConnect, AssignHandle, PopBack
<1>6. ThreadTyped' /\ ThreadInv'
  <2>1. CASE UNCHANGED thread
    BY <1>2, <2>1 DEF ThreadTyped, ThreadInv, history
  <2>2. CASE main = "waiting" /\ thread' = Set(thread, created, "read")
    <3>1. thread[created] = "none" /\ created \in Handler
      BY <2>2 DEF IInv, MainInv, HasHandler
    <3>2. thread' \in [Handler -> ThreadState]
      <4>1. "read" \in ThreadState
        BY DEF ThreadState
      <4> QED
        BY <2>2, <4>1, SetType DEF ThreadTyped
    <3>3. \A h \in Handler : thread'[h] = IF h = created THEN "read" ELSE thread[h]
      BY <2>2 DEF Set, ThreadTyped
    <3>4. ThreadTyped'
      BY <1>2, <3>2 DEF ThreadTyped, history
    <3>5. ThreadInv'
      BY <1>2, <3>1, <3>3 DEF ThreadInv
    <3> QED
      BY <3>4, <3>5
  <2> QED
    BY <2>1, <2>2 DEF MainServerThread, TestExit, Push, CreatePipe, StartConnect, EndConnect,
        AssignHandle, ResetUnserved, PopBack, DestroyHandler, threadVars
<1> QED
  BY <1>1, <1>3, <1>4, <1>5, <1>6
------------------------------------------------------------------------------
\* What a message thread does, apart from HandleReset: it takes a request from
\* an instance, enters the critical section, executes, answers, waits on an
\* instance, or gives up.
Reads(h, k) ==
  /\ thread[h] \in {"read", "reading"}
  /\ k \in Handler /\ k \in Denotes(h) \cup {using[h]} /\ toServer[k] # Nothing
  /\ thread' = Set(thread, h, "process")
  /\ request' = Set(request, h, toServer[k]) /\ toServer' = Set(toServer, k, Nothing)
  /\ using' \in {using, Set(using, h, Nothing)}
  /\ UNCHANGED <<instance, toClient, executions>>
Enters(h) ==
  /\ thread[h] = "process"
  /\ thread' = Set(thread, h, "locked")
  /\ UNCHANGED <<pipeVars, request, using, executions>>
Executes(h) ==
  /\ thread[h] = "locked"
  /\ executions' = [executions EXCEPT ![request[h]] = @ + 1]
  /\ thread' = Set(thread, h, "write")
  /\ UNCHANGED <<pipeVars, request, using>>
Responds(h, k) ==
  /\ thread[h] = "write"
  /\ k \in Denotes(h) \cap Served
  /\ toClient' = Set(toClient, k, request[h])
  /\ thread' = Set(thread, h, "flush")
  /\ UNCHANGED <<instance, toServer, request, using, executions>>
Waits(h, k) ==
  /\ k \in Denotes(h) \cap Served
  /\ using' = Set(using, h, k)
  /\ \/ thread[h] = "read" /\ thread' = Set(thread, h, "reading")
     \/ thread[h] = "flush" /\ thread' = Set(thread, h, "flushing")
  /\ UNCHANGED <<pipeVars, request, executions>>
GivesUp(h) ==
  /\ thread[h] \in {"read", "reading", "write", "flush", "flushing"}
  /\ thread' = Set(thread, h, "disconnect")
  /\ request' = Set(request, h, Nothing)
  /\ using' \in {using, Set(using, h, Nothing)}
  /\ UNCHANGED <<pipeVars, executions>>
ThreadStep(h) ==
  \/ Enters(h) \/ Executes(h) \/ GivesUp(h)
  \/ \E k \in Handler : Reads(h, k) \/ Responds(h, k) \/ Waits(h, k)

\* A change of one thread keeps the types of the threads.
LEMMA ThreadSet ==
  ASSUME ThreadTyped, NEW h \in Handler
  PROVE  /\ \A label \in ThreadState :
              /\ Set(thread, h, label) \in [Handler -> ThreadState]
              /\ \A k \in Handler : Set(thread, h, label)[k] = IF k = h THEN label ELSE thread[k]
         /\ \A m \in Message :
              /\ Set(request, h, m) \in [Handler -> Message]
              /\ \A k \in Handler : Set(request, h, m)[k] = IF k = h THEN m ELSE request[k]
         /\ \A m \in HandlerOrNone :
              /\ Set(using, h, m) \in [Handler -> HandlerOrNone]
              /\ \A k \in Handler : Set(using, h, m)[k] = IF k = h THEN m ELSE using[k]
BY DEF ThreadTyped, Set

\* A message put into an instance, or taken from it, keeps the types of both.
LEMMA PipeSet ==
  ASSUME PipeTyped, NEW k \in Handler, NEW m \in Message
  PROVE  /\ Set(toServer, k, m) \in [Handler -> Message]
         /\ Set(toClient, k, m) \in [Handler -> Message]
         /\ \A j \in Handler : /\ Set(toServer, k, m)[j] = IF j = k THEN m ELSE toServer[j]
                              /\ Set(toClient, k, m)[j] = IF j = k THEN m ELSE toClient[j]
BY DEF PipeTyped, Set

LEMMA ThreadEffect ==
  ASSUME BaseInv, NEW h \in Handler, ProcessMessageThread(h)
  PROVE  /\ UNCHANGED <<mainVars, m_messageThreadHandle, stopVars, callVars, abandoned>>
         /\ csAllObjects' \in HandlerOrNone
         /\ HandleReset(h) \/ (UNCHANGED handleVars /\ ThreadStep(h))
<1> USE DEF BaseInv
<1>1. UNCHANGED <<mainVars, m_messageThreadHandle, stopVars, callVars, abandoned>>
  BY DEF ProcessMessageThread
<1>2. CASE HandleReset(h)
  BY <1>1, <1>2 DEF HandleReset, ServerTyped
<1>3. ASSUME UNCHANGED handleVars,
             \/ HandleRead(h) \/ EndRead(h) \/ EnterAllObjects(h) \/ Execute(h)
             \/ HandleWrite(h) \/ HandleFlush(h) \/ EndFlush(h)
      PROVE  csAllObjects' \in HandlerOrNone /\ ThreadStep(h)
  <2>1. csAllObjects' \in HandlerOrNone
    BY <1>3, ValueFacts
       DEF ServerTyped, HandleRead, EndRead, EnterAllObjects, Execute, HandleWrite, HandleFlush,
           EndFlush, HandlerOrNone
  <2> SUFFICES ThreadStep(h)
    BY <2>1
  <2>2. \A k \in Denotes(h) : k \in Handler \/ k = Nothing
    BY DenotesType DEF HandlerOrNone
  <2>3. CASE HandleRead(h)
    <3>1. PICK k \in Denotes(h) : HandleRead(h)!2!(k)
      BY <2>3 DEF HandleRead
    <3> QED
      BY <2>2, <2>3, <3>1
         DEF HandleRead, At, Goto, Fail, pipeVars, Served, ThreadStep, Reads, Waits, GivesUp
  <2>4. CASE EndRead(h)
    <3>1. using[h] \in Handler
      BY <2>4 DEF EndRead, At, ThreadInv, ThreadTyped, HandlerOrNone
    <3> QED
      BY <2>4, <3>1 DEF EndRead, At, Goto, Fail, pipeVars, ThreadStep, Reads, GivesUp
  <2>5. CASE EnterAllObjects(h)
    BY <2>5 DEF EnterAllObjects, At, Goto, ThreadStep, Enters
  <2>6. CASE Execute(h)
    BY <2>6 DEF Execute, At, Goto, ThreadStep, Executes
  <2>7. CASE HandleWrite(h)
    <3>1. PICK k \in Denotes(h) : HandleWrite(h)!2!(k)
      BY <2>7 DEF HandleWrite
    <3> QED
      BY <2>2, <2>7, <3>1
         DEF HandleWrite, At, Goto, Fail, pipeVars, Served, ThreadStep, Responds, GivesUp
  <2>8. CASE HandleFlush(h)
    <3>1. PICK k \in Denotes(h) : HandleFlush(h)!2!(k)
      BY <2>8 DEF HandleFlush
    <3> QED
      BY <2>2, <2>8, <3>1
         DEF HandleFlush, At, Goto, Fail, pipeVars, Served, ThreadStep, Waits, GivesUp
  <2>9. CASE EndFlush(h)
    BY <2>9 DEF EndFlush, At, Goto, Fail, pipeVars, ThreadStep, GivesUp
  <2> QED
    BY <1>3, <2>3, <2>4, <2>5, <2>6, <2>7, <2>8, <2>9
<1> QED
  BY <1>1, <1>2, <1>3 DEF ProcessMessageThread

\* The first invariant survives a step of a message thread.
LEMMA ThreadBase ==
  ASSUME BaseInv, NEW h \in Handler, ProcessMessageThread(h)
  PROVE  BaseInv'
<1> USE DEF BaseInv
<1>0. /\ UNCHANGED <<mainVars, m_messageThreadHandle, stopVars, callVars, abandoned>>
      /\ csAllObjects' \in HandlerOrNone
      /\ HandleReset(h) \/ (UNCHANGED handleVars /\ ThreadStep(h))
  BY ThreadEffect
<1>1. IInv'
  BY OthersPreserve
<1>2. CallerTyped' /\ CallerInv'
  BY <1>0 DEF CallerTyped, CallerInv, callVars
<1>3. {"process", "locked", "write", "flush", "flushing", "reading", "disconnect", "close",
       "null", "ended"} \subseteq ThreadState
  BY DEF ThreadState, Resetting
<1>4. CASE HandleReset(h)
  <2> DEFINE label == AfterReset(thread[h], h, "ended")
  <2>1. /\ UNCHANGED <<request, using, csAllObjects, executions>>
        /\ NamedPipeReset(thread[h], h)
        /\ thread[h] \in Resetting /\ thread' = Set(thread, h, label)
    BY <1>4 DEF HandleReset, Goto
  <2>2. /\ PipesOnlyEnd /\ UNCHANGED recycled /\ m_pipe' \subseteq m_pipe
        /\ closed' \subseteq m_pipe'
    BY <2>1, ResetEffect
  <2>3. label \in {"close", "null", "ended"}
    BY <2>1 DEF AfterReset, Resetting
  <2> HIDE DEF label
  <2>4. /\ thread' \in [Handler -> ThreadState]
        /\ \A k \in Handler : thread'[k] = IF k = h THEN label ELSE thread[k]
    BY <1>3, <2>1, <2>3, ThreadSet
  <2>5. ServerTyped'
    BY <1>0, <2>1, <2>2 DEF ServerTyped, mainVars, stopVars
  <2>6. ThreadTyped' /\ PipeTyped'
    BY <2>1, <2>2, <2>4 DEF ThreadTyped, PipesOnlyEnd
  <2>7. ThreadInv'
    BY <2>1, <2>3, <2>4 DEF ThreadInv, Resetting
  <2> QED
    BY <1>1, <1>2, <2>5, <2>6, <2>7
<1>5. ASSUME UNCHANGED handleVars, ThreadStep(h)
      PROVE  BaseInv'
  <2>1. ServerTyped'
    BY <1>0, <1>5 DEF ServerTyped, mainVars, stopVars, handleVars
  <2>2. /\ thread' \in [Handler -> ThreadState]
        /\ \A k \in Handler : k # h => thread'[k] = thread[k]
    <3>1. PICK label \in ThreadState : thread' = Set(thread, h, label)
      BY <1>3, <1>5 DEF ThreadStep, Reads, Enters, Executes, Responds, Waits, GivesUp
    <3> QED
      BY <3>1, ThreadSet
  <2>3. /\ request' \in [Handler -> Message] /\ using' \in [Handler -> HandlerOrNone]
        /\ \A k \in Handler : k # h => request'[k] = request[k] /\ using'[k] = using[k]
    <3>1. \A k \in Handler : toServer[k] \in Message
      BY DEF PipeTyped
    <3>2. request' = request \/ \E m \in Message : request' = Set(request, h, m)
      BY <1>5, <3>1, ValueFacts
         DEF ThreadStep, Reads, Enters, Executes, Responds, Waits, GivesUp
    <3>3. using' = using \/ \E m \in HandlerOrNone : using' = Set(using, h, m)
      BY <1>5, ValueFacts
         DEF ThreadStep, Reads, Enters, Executes, Responds, Waits, GivesUp
    <3>4. request' \in [Handler -> Message] /\ \A k \in Handler : k # h => request'[k] = request[k]
      BY <3>2 DEF ThreadTyped, Set
    <3>5. using' \in [Handler -> HandlerOrNone] /\ \A k \in Handler : k # h => using'[k] = using[k]
      BY <3>3 DEF ThreadTyped, Set
    <3> QED
      BY <3>4, <3>5
  <2>4. executions' \in [CallId -> Nat]
    BY <1>5 DEF ThreadTyped, ThreadStep, Reads, Enters, Executes, Responds, Waits, GivesUp
  <2>5. PipeTyped'
    <3>1. CASE UNCHANGED pipeVars
      BY <3>1 DEF PipeTyped, pipeVars
    <3>2. ASSUME NEW k \in Handler, Reads(h, k) \/ Responds(h, k)
          PROVE  PipeTyped'
      <4>1. request[h] \in Message
        BY DEF ThreadTyped
      <4> QED
        BY <3>2, <4>1, ValueFacts DEF PipeTyped, Reads, Responds, Set
    <3> QED
      BY <1>5, <3>1, <3>2 DEF ThreadStep, Enters, Executes, Waits, GivesUp
  <2>6. ThreadInv'
    <3>1. /\ request'[h] # Nothing <=>
             thread'[h] \in {"process", "locked", "write", "flush", "flushing"}
          /\ thread'[h] = "reading" => using'[h] # Nothing
      BY <1>5, ValueFacts
         DEF ThreadInv, ThreadTyped, ThreadStep, Reads, Enters, Executes, Responds, Waits, GivesUp,
             Set
    <3> QED
      BY <2>2, <2>3, <3>1 DEF ThreadInv
  <2> QED
    BY <1>1, <1>2, <2>1, <2>2, <2>3, <2>4, <2>5, <2>6 DEF ThreadTyped
<1> QED
  BY <1>0, <1>4, <1>5
------------------------------------------------------------------------------
\* What Stop does to the threads and the pipes: it ends some of both, or opens
\* and closes an instance as the fake client.
ThreadsOnlyEnd ==
  /\ ThreadTyped'
  /\ \A h \in Handler :
       \/ thread'[h] = thread[h] /\ request'[h] = request[h] /\ using'[h] \in {using[h], Nothing}
          /\ (thread[h] = "reading" => using'[h] = using[h])
       \/ Running(h) /\ thread'[h] = "killed" /\ request'[h] = Nothing /\ using'[h] = Nothing
Opens(c, k) ==
  /\ k \in Listening
  /\ instance' = Set(instance, k, "connected")
  /\ pipe' = Set(pipe, c, k)
  /\ UNCHANGED pipeFrame
StopMoves ==
  \/ PipesOnlyEnd /\ pipe' \in {pipe, Set(pipe, Fake, Nothing)}
  \/ UNCHANGED threadFrame /\ \E k \in Handler : Opens(Fake, k)

\* The handler Stop visits is one of the vector.
LEMMA VisitedType ==
  ASSUME IInv, StopOwnsHandlers
  PROVE  Visited \in Handler
BY DEF IInv, ShapeInv, LoopInv, Visited

LEMMA StopThreads ==
  ASSUME BaseInv, Stop
  PROVE  ThreadsOnlyEnd
<1> USE DEF BaseInv
<1>1. CASE UNCHANGED <<thread, request, using, executions>>
  BY <1>1 DEF ThreadTyped, ThreadsOnlyEnd
<1>2. ASSUME NEW h \in Handler, TerminateThread(h), UNCHANGED executions, Running(h)
      PROVE  ThreadsOnlyEnd
  <2>1. "killed" \in ThreadState
    BY DEF ThreadState
  <2>2. ThreadTyped'
    BY <1>2, <2>1, ValueFacts DEF ThreadTyped, TerminateThread, Set
  <2> QED
    BY <1>2, <2>2 DEF ThreadTyped, TerminateThread, ThreadsOnlyEnd, Set
<1>3. CASE WaitVisited
  <2>1. Visited \in Handler
    BY <1>3, VisitedType DEF WaitVisited, StopOwnsHandlers
  <2> QED
    BY <1>1, <1>2, <1>3, <2>1
       DEF WaitVisited, WaitAndTerminateThread, threadFrame, Stop, history
<1>4. CASE ExitProcess
  <2>1. /\ thread' = [h \in Handler |-> IF Running(h) THEN "killed" ELSE thread[h]]
        /\ using' = [h \in Handler |-> Nothing] /\ request' = [h \in Handler |-> Nothing]
        /\ UNCHANGED executions
    BY <1>4 DEF ExitProcess, Stop, history
  <2>2. "killed" \in ThreadState
    BY DEF ThreadState
  <2>3. ThreadTyped'
    BY <2>1, <2>2, ValueFacts DEF ThreadTyped
  <2>4. \A h \in Handler : ~Running(h) => request[h] = Nothing /\ thread[h] # "reading"
    BY DEF ThreadInv, Running
  <2> QED
    BY <2>1, <2>3, <2>4 DEF ThreadsOnlyEnd
<1> QED
  BY <1>1, <1>3, <1>4 DEF Stop, EnterLoop, Visit, CloseFake, ResetVisited, WaitMain, Destruct,
      threadFrame, history

LEMMA StopPipes ==
  ASSUME BaseInv, Stop
  PROVE  StopMoves
<1> USE DEF BaseInv
<1>1. CASE EnterLoop \/ CloseFake \/ WaitVisited \/ WaitMain
  BY <1>1, PipesSame DEF EnterLoop, CloseFake, WaitVisited, WaitMain, StopMoves
<1>2. CASE Visit
  <2>1. CASE UNCHANGED <<instance, pipe>>
    BY <1>2, <2>1, PipesSame DEF Visit, pipeFrame, pipeVars, StopMoves
  <2> QED
    BY <1>2, <2>1 DEF Visit, StopMoves, Opens, Listening
<1>3. CASE ResetVisited
  BY <1>3, ResetEffect DEF ResetVisited, StopMoves
<1>4. CASE Destruct \/ ExitProcess
  <2>1. UNCHANGED pipe
    BY <1>4 DEF Destruct, ExitProcess
  <2>2. PipeTyped'
    BY <1>4, ValueFacts DEF PipeTyped, Destruct, ExitProcess
  <2>3. \A h \in Handler : Keeps(h) \/ Ends(h)
    BY <1>4 DEF Destruct, ExitProcess, Keeps, Ends
  <2> QED
    BY <2>1, <2>2, <2>3 DEF StopMoves, PipesOnlyEnd
<1> QED
  BY <1>1, <1>2, <1>3, <1>4 DEF Stop
\* The first invariant survives a step of Stop, and SetEvent.
LEMMA StopBase ==
  ASSUME BaseInv, Stop
  PROVE  BaseInv'
<1> USE DEF BaseInv
<1>0. /\ UNCHANGED <<callFrame, exitEvent, created, allMessageHandlers, recycled>>
      /\ UNCHANGED <<m_messageThreadHandle, csAllObjects>>
  BY DEF Stop, EnterLoop, Visit, CloseFake, ResetVisited, WaitVisited, WaitMain, Destruct,
         ExitProcess, handleVars, NamedPipeReset, mainFrame, bookkeeping
<1>1. IInv'
  BY StopPreserves
<1>2. ServerTyped'
  <2>1. main' \in MainState
    BY StopEffect DEF IInv, ServerTyped, MainState
  <2>2. stop' \in StopState
    BY DEF Stop, EnterLoop, Visit, CloseFake, ResetVisited, WaitVisited, WaitMain, Destruct,
           ExitProcess, AfterReset, Resetting, StopState
  <2>3. m_pipe' \subseteq m_pipe /\ closed' \subseteq m_pipe'
    <3>1. CASE ResetVisited
      BY <3>1, ResetEffect DEF ResetVisited
    <3> QED
      BY <3>1 DEF ServerTyped, Stop, EnterLoop, Visit, CloseFake, WaitVisited, WaitMain, Destruct,
           ExitProcess, handleVars
  <2> QED
    BY <1>0, <2>1, <2>2, <2>3 DEF ServerTyped
<1>3. ThreadTyped' /\ ThreadInv'
  BY StopThreads DEF ThreadsOnlyEnd, ThreadInv, Running
<1>4. /\ PipeTyped' /\ pipe' \in [Client -> HandlerOrNone]
      /\ \A c \in Client : c # Fake => pipe'[c] = pipe[c]
  <2>1. StopMoves
    BY StopPipes
  <2>2. CASE PipesOnlyEnd /\ pipe' \in {pipe, Set(pipe, Fake, Nothing)}
    BY <2>2, ValueFacts DEF PipesOnlyEnd, CallerTyped, Set
  <2>3. ASSUME NEW k \in Handler, Opens(Fake, k)
        PROVE  <1>4
    BY <2>3, ValueFacts DEF Opens, pipeFrame, PipeTyped, CallerTyped, Set
  <2> QED
    BY <2>1, <2>2, <2>3 DEF StopMoves
<1>5. CallerTyped' /\ CallerInv'
  BY <1>0, <1>4 DEF CallerTyped, CallerInv, callFrame
<1> QED
  BY <1>1, <1>2, <1>3, <1>4, <1>5

LEMMA RequestStopBase ==
  ASSUME BaseInv, RequestStop
  PROVE  BaseInv'
<1> USE DEF BaseInv
<1>1. IInv'
  BY OthersPreserve
<1>2. /\ UNCHANGED <<pipe, pipeVars, handleVars, threadFrame, mainFrame, callFrame, history>>
      /\ stop' \in StopState /\ exitEvent' \in BOOLEAN
  BY DEF RequestStop, BeginStop, StopState
<1>3. ServerTyped' /\ PipeTyped' /\ ThreadTyped' /\ ThreadInv'
  BY <1>2 DEF ServerTyped, PipeTyped, ThreadTyped, ThreadInv, pipeVars, handleVars, threadFrame,
      mainFrame, history
<1>4. CallerTyped' /\ CallerInv'
  BY <1>2 DEF CallerTyped, CallerInv, callFrame
<1> QED
  BY <1>1, <1>3, <1>4
------------------------------------------------------------------------------
\* What a caller does: it issues a call, opens an instance, goes on or gives up
\* without one, writes its request, and takes a response or learns that the
\* instance has ended.
Issues(c) ==
  /\ pc[c] = "idle" /\ calls[c] < MaxCalls
  /\ pc' = Set(pc, c, "open") /\ calls' = Set(calls, c, calls[c] + 1)
  /\ UNCHANGED <<pipeVars, pipe, outcome, answer>>
GetsInstance(c, k) ==
  /\ pc[c] = "open"
  /\ Opens(c, k)
  /\ pc' = Set(pc, c, "write")
  /\ UNCHANGED <<calls, outcome, answer>>
GetsNone(c) ==
  /\ pc[c] \in {"open", "wait"}
  /\ \/ pc' \in {Set(pc, c, "open"), Set(pc, c, "wait")} /\ UNCHANGED outcome
     \/ pc' = Set(pc, c, "idle") /\ outcome' = Set(outcome, c, ERROR_SERVER_NO_RESPONSE)
  /\ UNCHANGED <<pipeVars, pipe, calls, answer>>
Writes(c) ==
  /\ pc[c] = "write" /\ pc' = Set(pc, c, "read")
  /\ \/ instance[pipe[c]] = "connected" /\ toServer' = Set(toServer, pipe[c], Latest(c))
     \/ UNCHANGED toServer
  /\ UNCHANGED <<instance, toClient, pipe, calls, outcome, answer>>
Receives(c) ==
  /\ pc[c] = "read" /\ pc' = Set(pc, c, "idle") /\ pipe' = Set(pipe, c, Nothing)
  /\ \/ /\ toClient[pipe[c]] # Nothing
        /\ toClient' = Set(toClient, pipe[c], Nothing)
        /\ \/ outcome' = Set(outcome, c, ERROR_SUCCESS) /\ answer' = Set(answer, c, toClient[pipe[c]])
           \/ outcome' = Set(outcome, c, ERROR_SEND_FAILED) /\ UNCHANGED answer
     \/ outcome' = Set(outcome, c, ERROR_RECEIVE_FAILED) /\ UNCHANGED <<toClient, answer>>
  /\ UNCHANGED <<instance, toServer, calls>>
CallerStep(c) ==
  \/ Issues(c) \/ GetsNone(c) \/ Writes(c) \/ Receives(c)
  \/ \E k \in Handler : GetsInstance(c, k)

LEMMA CallerStepEffect ==
  ASSUME BaseInv, NEW c \in Client, Caller(c)
  PROVE  /\ c # Fake /\ CallerStep(c)
         /\ DOMAIN sent' = Client
         /\ UNCHANGED <<mainVars, stopVars, handleVars, m_messageThreadHandle, csAllObjects>>
         /\ UNCHANGED <<thread, request, using, executions>>
<1> USE DEF BaseInv
<1>1. /\ c # Fake
      /\ UNCHANGED <<mainVars, stopVars, handleVars, m_messageThreadHandle, csAllObjects>>
      /\ UNCHANGED <<thread, request, using, executions>>
  BY DEF Caller, Issue, SendRequest, Open, Wait, Write, Read, serverVars, mainVars, history
<1>2. DOMAIN sent' = Client
  BY DEF Caller, Issue, SendRequest, Open, Wait, Write, Read, CallerTyped, Set
<1> SUFFICES CallerStep(c)
  BY <1>1, <1>2
<1>3. CASE Issue(c)
  BY <1>3 DEF Issue, serverVars, pipeVars, CallerStep, Issues
<1>4. CASE Open(c)
  <2>1. ASSUME UNCHANGED <<instance, pipe>>,
               PollAgain(c) \/ (pc' = Set(pc, c, "wait") /\ UNCHANGED outcome)
        PROVE  CallerStep(c)
    BY <1>4, <2>1 DEF Open, PollAgain, Return, pipeVars, CallerStep, GetsNone
  <2>2. ASSUME NEW k \in Listening, instance' = Set(instance, k, "connected"),
               pipe' = Set(pipe, c, k), pc' = Set(pc, c, "write"), UNCHANGED outcome
        PROVE  CallerStep(c)
    <3>1. k \in Handler
      BY DEF Listening
    <3> QED
      BY <1>4, <2>2, <3>1 DEF Open, pipeFrame, CallerStep, GetsInstance, Opens
  <2> QED
    BY <1>1, <1>2, <1>4, <2>1, <2>2 DEF Open
<1>5. CASE Wait(c)
  BY <1>5 DEF Wait, PollAgain, Return, serverVars, pipeVars, CallerStep, GetsNone
<1>6. CASE Write(c)
  BY <1>6 DEF Write, serverVars, CallerStep, Writes
<1>7. CASE Read(c)
  BY <1>7 DEF Read, Return, serverVars, CallerStep, Receives
<1> QED
  BY <1>3, <1>4, <1>5, <1>6, <1>7 DEF Caller, SendRequest

\* The call a caller is in is one of CallId.
LEMMA LatestFacts ==
  ASSUME BaseInv, NEW c \in Client, calls[c] > 0
  PROVE  Latest(c) \in CallId
BY DEF BaseInv, CallerTyped, Latest, CallId

\* A step of a caller changes only what is its own.
LEMMA CallerOwn ==
  ASSUME BaseInv, NEW c \in Client, CallerStep(c)
  PROVE  \A d \in Client \ {c} :
           /\ pc'[d] = pc[d] /\ pipe'[d] = pipe[d] /\ calls'[d] = calls[d]
           /\ outcome'[d] = outcome[d] /\ answer'[d] = answer[d]
BY DEF BaseInv, CallerTyped, CallerStep, Issues, GetsInstance, Opens, GetsNone, Writes, Receives,
       Set

\* The first invariant survives a step of a caller.
LEMMA CallerBase ==
  ASSUME BaseInv, NEW c \in Client, Caller(c)
  PROVE  BaseInv'
<1> USE DEF BaseInv
<1>0. /\ c # Fake /\ CallerStep(c) /\ DOMAIN sent' = Client
      /\ UNCHANGED <<mainVars, stopVars, handleVars, m_messageThreadHandle, csAllObjects>>
      /\ UNCHANGED <<thread, request, using, executions>>
  BY CallerStepEffect
<1>1. IInv'
  BY OthersPreserve
<1>2. ServerTyped' /\ ThreadTyped' /\ ThreadInv'
  BY <1>0 DEF ServerTyped, ThreadTyped, ThreadInv, mainVars, stopVars, handleVars
<1>3. PipeTyped'
  <2>1. CASE UNCHANGED pipeVars
    BY <2>1 DEF PipeTyped, pipeVars
  <2>2. ASSUME NEW k \in Handler, Opens(c, k)
        PROVE  PipeTyped'
    BY <2>2, ValueFacts DEF Opens, pipeFrame, PipeTyped, Set
  <2>3. CASE Writes(c)
    <3>1. Latest(c) \in Message
      BY <2>3, LatestFacts, ValueFacts DEF CallerInv, Writes
    <3> QED
      BY <2>3, <3>1 DEF Writes, PipeTyped, Set
  <2>4. CASE Receives(c)
    BY <2>4, ValueFacts DEF Receives, PipeTyped, Set
  <2> QED
    BY <1>0, <2>1, <2>2, <2>3, <2>4 DEF CallerStep, Issues, GetsNone, GetsInstance
<1>4. CallerTyped'
  <2>1. pc' \in [Client -> PcState]
    BY <1>0 DEF CallerTyped, PcState, CallerStep, Issues, GetsInstance, GetsNone, Writes, Receives, Set
  <2>2. pipe' \in [Client -> HandlerOrNone]
    BY <1>0, ValueFacts DEF CallerTyped, CallerStep, Issues, GetsInstance, Opens, GetsNone, Writes,
        Receives, Set
  <2>3. calls' \in [Client -> 0 .. MaxCalls]
    <3>1. CASE Issues(c)
      <4>1. calls[c] + 1 \in 0 .. MaxCalls
        BY <3>1, TransportAssumption DEF CallerTyped, Issues
      <4> QED
        BY <3>1, <4>1 DEF CallerTyped, Issues, Set
    <3> QED
      BY <1>0, <3>1 DEF CallerTyped, CallerStep, GetsInstance, GetsNone, Writes, Receives
  <2>4. DOMAIN outcome' = Client /\ DOMAIN answer' = Client
    BY <1>0 DEF CallerTyped, CallerStep, Issues, GetsInstance, GetsNone, Writes, Receives, Set
  <2> QED
    BY <1>0, <2>1, <2>2, <2>3, <2>4 DEF CallerTyped
<1>5. CallerInv'
  <2>1. \A d \in Client \ {c} : pc'[d] = pc[d] /\ pipe'[d] = pipe[d] /\ calls'[d] = calls[d]
    BY <1>0, CallerOwn
  <2>2. /\ pipe'[c] # Nothing <=> pc'[c] \in {"write", "read"}
        /\ pc'[c] # "idle" => calls'[c] > 0
    BY <1>0, ValueFacts, TransportAssumption
       DEF CallerTyped, CallerInv, CallerStep, Issues, GetsInstance, Opens, GetsNone, Writes,
           Receives, Set
  <2> QED
    BY <1>0, <2>1, <2>2, FakeAssumption DEF CallerInv
<1> QED
  BY <1>1, <1>2, <1>3, <1>4, <1>5
\* The first invariant holds when the programs start.
LEMMA InitBase ==
  ASSUME ShutdownInit
  PROVE  BaseInv
<1>1. IInv
  BY InitIInv
<1>2. ServerTyped /\ ThreadTyped /\ PipeTyped
  BY ValueFacts DEF ShutdownInit, Init, ServerTyped, ThreadTyped, PipeTyped, MainState, StopState,
      ThreadState
<1>3. CallerTyped /\ CallerInv /\ ThreadInv
  BY ValueFacts, TransportAssumption, FakeAssumption
     DEF ShutdownInit, Init, CallerTyped, CallerInv, ThreadInv, PcState
<1> QED
  BY <1>1, <1>2, <1>3 DEF BaseInv

\* A step that changes nothing.
LEMMA StutterBase ==
  ASSUME BaseInv, UNCHANGED shutdownVars
  PROVE  BaseInv'
<1> USE DEF BaseInv, shutdownVars, vars, serverVars, callVars, history, stopVars, handleVars
<1>1. IInv'
  BY DEF IInv, ShapeInv, MainInv, RunningInv, LoopInv, Running, StopOwnsHandlers
<1>2. ServerTyped' /\ ThreadTyped' /\ PipeTyped' /\ CallerTyped' /\ CallerInv' /\ ThreadInv'
  BY DEF ServerTyped, ThreadTyped, PipeTyped, CallerTyped, CallerInv, ThreadInv
<1> QED
  BY <1>1, <1>2

LEMMA BasePreserved ==
  ASSUME BaseInv, [ShutdownNext]_shutdownVars
  PROVE  BaseInv'
BY MainBase, ThreadBase, StopBase, RequestStopBase, CallerBase, StutterBase DEF ShutdownNext

\* Every variable keeps its type, callers and message threads have what they
\* need where they are, and main and Stop work on handlers of the vector.
THEOREM BaseHolds == ShutdownSpec => []BaseInv
<1>1. ShutdownInit => BaseInv
  BY InitBase
<1>2. BaseInv /\ [ShutdownNext]_shutdownVars => BaseInv'
  BY BasePreserved
<1> QED
  BY <1>1, <1>2, PTL DEF ShutdownSpec

\* A failed attempt to open the pipe keeps the types of what it changes.
LEMMA PollAgainType ==
  ASSUME DetailTyped, NEW c \in Client, PollAgain(c)
  PROVE  polls' \in [Client -> Poll] /\ outcome' \in [Client -> Outcome]
<1>1. polls[c] + 1 \in Nat /\ polls'[c] = polls[c] + 1
  BY TransportAssumption DEF DetailTyped, PollAgain, Set, Poll
<1>2. polls[c] + 1 \in Poll
  BY <1>1, TransportAssumption DEF PollAgain, Poll
<1>3. polls' \in [Client -> Poll]
  BY <1>2 DEF DetailTyped, PollAgain, Set
<1>4. outcome' \in [Client -> Outcome]
  BY DEF DetailTyped, PollAgain, Return, Set, Outcome
<1> QED
  BY <1>3, <1>4

\* A caller keeps the types of its details.
LEMMA CallerDetail ==
  ASSUME BaseInv, DetailTyped, NEW c \in Client, Caller(c)
  PROVE  DetailTyped'
<1>1. abandoned' \subseteq CallId
  BY DEF Caller, Issue, SendRequest, Open, Wait, Write, Read, history, DetailTyped
<1>2. CASE Issue(c)
  <2>1. polls' \in [Client -> Poll]
    BY <1>2, TransportAssumption DEF DetailTyped, Issue, Poll, Set
  <2>2. size' \in [Client -> Size]
    BY <1>2 DEF DetailTyped, Issue, Size, Set
  <2> QED
    BY <1>1, <1>2, <2>1, <2>2 DEF DetailTyped, Issue
<1>3. CASE Open(c) \/ Wait(c)
  <2>1. 0 \in Poll /\ ERROR_SERVER_NO_RESPONSE \in Outcome
    BY TransportAssumption DEF Poll, Outcome
  <2>2. polls' \in [Client -> Poll] /\ outcome' \in [Client -> Outcome]
    BY <1>3, <2>1, PollAgainType DEF DetailTyped, Open, Wait, Return, Set
  <2> QED
    BY <1>1, <1>3, <2>2 DEF DetailTyped, Open, Wait
<1>4. CASE Write(c)
  <2>1. PICK ok \in BOOLEAN : sent' = Set(sent, c, ok)
    BY <1>4 DEF Write
  <2>2. sent' \in [Client -> BOOLEAN]
    BY <2>1, SetType DEF DetailTyped
  <2> QED
    BY <1>1, <1>4, <2>2 DEF DetailTyped, Write
<1>5. CASE Read(c)
  <2>1. pipe[c] \in Handler
    BY <1>5, FakeAssumption DEF Read, Caller, BaseInv, CallerTyped, CallerInv, HandlerOrNone
  <2>2. outcome' \in [Client -> Outcome] /\ sent' \in [Client -> BOOLEAN]
    BY <1>5 DEF DetailTyped, Read, Return, Set, Outcome
  <2>3. answer' \in [Client -> Answer]
    <3>1. CASE toClient[pipe[c]] # Nothing
      <4>1. toClient[pipe[c]] \in Client \X (1 .. MaxCalls)
        BY <2>1, <3>1 DEF BaseInv, PipeTyped, Message, CallId
      <4>2. toClient[pipe[c]] \in Answer
        BY <4>1, TransportAssumption DEF Answer
      <4> QED
        BY <1>5, <4>2 DEF DetailTyped, Read, Set
    <3> QED
      BY <1>5, <3>1 DEF DetailTyped, Read
  <2> QED
    BY <1>1, <1>5, <2>2, <2>3 DEF DetailTyped, Read
<1> QED
  BY <1>2, <1>3, <1>4, <1>5 DEF Caller, SendRequest

\* Nobody else touches the details of a caller.
LEMMA DetailPreserved ==
  ASSUME BaseInv, DetailTyped, [ShutdownNext]_shutdownVars
  PROVE  DetailTyped'
<1>1. ASSUME NEW c \in Client, Caller(c)
      PROVE  DetailTyped'
  BY <1>1, CallerDetail
<1>2. CASE UNCHANGED <<polls, size, sent, outcome, answer, abandoned>>
  BY <1>2 DEF DetailTyped
<1>3. ASSUME NEW h \in Handler, ProcessMessageThread(h)
      PROVE  UNCHANGED <<polls, size, sent, outcome, answer, abandoned>>
  BY <1>3 DEF ProcessMessageThread, callVars
<1>4. CASE MainServerThread \/ Stop \/ RequestStop \/ UNCHANGED shutdownVars
  BY <1>2, <1>4 DEF MainServerThread, Stop, RequestStop, callFrame, callVars, history, shutdownVars, vars
<1> QED
  BY <1>1, <1>2, <1>3, <1>4 DEF ShutdownNext

LEMMA InitDetail ==
  ASSUME ShutdownInit
  PROVE  DetailTyped
BY TransportAssumption DEF ShutdownInit, Init, DetailTyped, Poll, Size, Outcome, Answer

\* ShutdownTypeOK (of ServerShutdown) for every number of callers, calls and
\* polls.
THEOREM ShutdownTypesCorrect == ShutdownSpec => []ShutdownTypeOK
<1>1. ShutdownInit => DetailTyped
  BY InitDetail
<1>2. BaseInv /\ DetailTyped /\ [ShutdownNext]_shutdownVars => DetailTyped'
  BY DetailPreserved
<1>3. BaseInv /\ DetailTyped => ShutdownTypeOK
  BY BaseInvIsTyped
<1> QED
  BY <1>1, <1>2, <1>3, BaseHolds, PTL DEF ShutdownSpec
------------------------------------------------------------------------------
\* The second layer.  Handlers are numbered in the order they are created.
LEMMA CreatedFacts ==
  ASSUME BaseInv
  PROVE  created \in Nat /\ Handler \subseteq Nat
BY HandlerFacts DEF BaseInv, IInv, ShapeInv

\* Instances that end, clients that leave and threads that start where a client
\* is connected.
LEMMA PipesEndPreserve ==
  ASSUME BaseInv, MadeInv, OwnPipeInv, EmptyInv, PipesOnlyEnd,
         Made \subseteq Made', m_pipe' \subseteq m_pipe,
         \A c \in Client : pipe'[c] \in {pipe[c], Nothing},
         \A h \in Handler : thread'[h] # "none" => thread[h] # "none" \/ instance[h] = "connected"
  PROVE  MadeInv' /\ OwnPipeInv' /\ EmptyInv'
<1>1. \A h \in Handler :
        /\ h \in Instances' => h \in Instances
        /\ instance[h] \in {"connected", "gone"} => instance'[h] \in {"connected", "gone"}
        /\ instance'[h] = instance[h] \/ Ends(h)
  BY DEF PipesOnlyEnd, Keeps, Ends, Instances
<1>2. \A c \in Client : pipe'[c] # Nothing => pipe'[c] = pipe[c]
  OBVIOUS
<1>3. Made \subseteq Handler /\ Instances' \subseteq Handler
  BY DEF Made, Instances
<1>4. MadeInv'
  <2>1. m_pipe' \subseteq Made' /\ Instances' \subseteq Made'
    BY <1>1, <1>3 DEF MadeInv
  <2>2. \A c \in Client : pipe'[c] # Nothing =>
          pipe'[c] \in Made' /\ instance'[pipe'[c]] \in {"connected", "gone"}
    BY <1>1, <1>2, <1>3 DEF MadeInv
  <2>3. \A h \in Handler : thread'[h] # "none" => instance'[h] \in {"connected", "gone"}
    BY <1>1 DEF MadeInv
  <2> QED
    BY <2>1, <2>2, <2>3 DEF MadeInv
<1>5. OwnPipeInv'
  BY <1>2 DEF OwnPipeInv
<1>6. EmptyInv'
  BY <1>1 DEF EmptyInv, PipesOnlyEnd, Keeps, Ends
<1> QED
  BY <1>4, <1>5, <1>6

\* A client opens an instance that listens.
LEMMA OpensPreserve ==
  ASSUME BaseInv, MadeInv, OwnPipeInv, EmptyInv, NEW c \in Client, NEW k \in Handler, Opens(c, k),
         Made \subseteq Made', m_pipe' \subseteq m_pipe, UNCHANGED thread
  PROVE  MadeInv' /\ OwnPipeInv' /\ EmptyInv'
<1>1. /\ \A h \in Handler : instance'[h] = IF h = k THEN "connected" ELSE instance[h]
      /\ \A d \in Client : pipe'[d] = IF d = c THEN k ELSE pipe[d]
      /\ instance[k] = "listening" /\ UNCHANGED <<toServer, toClient>>
  BY DEF BaseInv, PipeTyped, CallerTyped, Opens, Set, Listening, pipeFrame
<1>2. \A d \in Client : pipe[d] # k /\ (pipe[d] = Nothing \/ pipe[d] \in Handler)
  BY <1>1, ValueFacts DEF BaseInv, CallerTyped, HandlerOrNone, MadeInv
<1>3. k \in Instances /\ Instances' = Instances /\ k # Nothing
  BY <1>1, ValueFacts DEF Instances
<1>4. MadeInv'
  <2>1. m_pipe' \subseteq Made' /\ Instances' \subseteq Made'
    BY <1>3 DEF MadeInv
  <2>2. \A d \in Client : pipe'[d] # Nothing =>
          pipe'[d] \in Made' /\ instance'[pipe'[d]] \in {"connected", "gone"}
    BY <1>1, <1>2, <1>3 DEF MadeInv
  <2>3. \A h \in Handler : thread'[h] # "none" => instance'[h] \in {"connected", "gone"}
    BY <1>1 DEF MadeInv
  <2> QED
    BY <2>1, <2>2, <2>3 DEF MadeInv
<1>5. OwnPipeInv'
  BY <1>1, <1>2 DEF OwnPipeInv
<1>6. EmptyInv'
  BY <1>1 DEF EmptyInv
<1> QED
  BY <1>4, <1>5, <1>6

\* A message is put into an instance that is connected.
LEMMA MessagePreserves ==
  ASSUME BaseInv, MadeInv, OwnPipeInv, EmptyInv, NEW k, instance[k] = "connected",
         \A h \in Handler \ {k} : toServer'[h] = toServer[h] /\ toClient'[h] = toClient[h],
         UNCHANGED <<instance, pipe, m_pipe>>, Made \subseteq Made',
         \A h \in Handler : thread'[h] # "none" => thread[h] # "none"
  PROVE  MadeInv' /\ OwnPipeInv' /\ EmptyInv'
<1>1. Instances' = Instances
  BY DEF Instances
<1> QED
  BY <1>1 DEF MadeInv, OwnPipeInv, EmptyInv
\* Only Push and CreatePipe change what is made.
LEMMA MadeGrows ==
  ASSUME BaseInv, UNCHANGED created, main' = "pipe" => main = "pipe"
  PROVE  Made \subseteq Made'
BY CreatedFacts DEF Made

LEMMA MainHandles ==
  ASSUME BaseInv, HandleInv, MainServerThread
  PROVE  MadeInv' /\ OwnPipeInv' /\ EmptyInv'
<1> USE DEF HandleInv
<1>0. UNCHANGED pipe /\ m_pipe \subseteq Handler
  BY DEF MainServerThread, callVars, BaseInv, ServerTyped
<1>1. CASE Push
  <2>1. /\ main = "push" /\ main' = "pipe" /\ created' = created + 1
        /\ UNCHANGED <<pipeVars, m_pipe, thread>>
    BY <1>1 DEF Push, handleVars, threadVars
  <2>2. Made' = Made
    BY <2>1, CreatedFacts DEF Made
  <2> QED
    BY <1>0, <2>1, <2>2, PipesEndPreserve, PipesSame DEF BaseInv
<1>2. CASE CreatePipe
  <2>1. /\ main = "pipe" /\ main' = "connect" /\ UNCHANGED <<created, toServer, toClient, thread>>
        /\ m_pipe' = m_pipe \cup {created} /\ created \in Handler
        /\ \A h \in Handler : instance'[h] = IF h = created THEN "listening" ELSE instance[h]
    BY <1>2 DEF CreatePipe, bookkeeping, threadVars, BaseInv, PipeTyped, Set, IInv, MainInv,
        HasHandler
  <2>2. Made' = Made \cup {created} /\ created \notin Made
    BY <2>1, CreatedFacts DEF Made
  <2>3. Instances' = Instances \cup {created}
    BY <2>1 DEF Instances
  <2>4. thread[created] = "none" /\ instance[created] # "connected"
    BY <2>1, <2>2 DEF BaseInv, IInv, MainInv, HasHandler, MadeInv, Instances
  <2>5. MadeInv'
    BY <1>0, <2>1, <2>2, <2>3, <2>4 DEF MadeInv, Made
  <2>6. OwnPipeInv' /\ EmptyInv'
    BY <1>0, <2>1, <2>4 DEF OwnPipeInv, EmptyInv
  <2> QED
    BY <2>5, <2>6
<1>3. CASE ResetUnserved \/ DestroyHandler
  <2>1. PipesOnlyEnd /\ m_pipe' \subseteq m_pipe /\ UNCHANGED <<created, thread>> /\ main' # "pipe"
    BY <1>3, ResetEffect, VanishEffect
       DEF BaseInv, ResetUnserved, DestroyHandler, bookkeeping, threadVars, AfterReset
  <2> QED
    BY <1>0, <2>1, MadeGrows, PipesEndPreserve
<1>4. CASE TestExit \/ (StartConnect /\ UNCHANGED pipeVars) \/ EndConnect \/ AssignHandle \/ PopBack
  <2>1. UNCHANGED <<pipeVars, m_pipe, created>> /\ main' # "pipe"
    BY <1>4 DEF TestExit, StartConnect, EndConnect, AssignHandle, PopBack, handleVars, bookkeeping
  <2>2. \A h \in Handler : thread'[h] # "none" => thread[h] # "none" \/ instance[h] = "connected"
    BY <1>4 DEF TestExit, StartConnect, EndConnect, AssignHandle, PopBack, threadVars, Set, BaseInv,
        ThreadTyped
  <2>3. PipesOnlyEnd
    BY <2>1, PipesSame DEF BaseInv
  <2> QED
    BY <1>0, <2>1, <2>2, <2>3, MadeGrows, PipesEndPreserve
<1>5. CASE StartConnect /\ Disconnected /\ instance' = Set(instance, created, "listening")
  <2>0. main = "connect" /\ created \in Handler /\ thread[created] = "none"
    BY <1>5 DEF StartConnect, BaseInv, IInv, MainInv, HasHandler
  <2>a. instance'[created] = "listening"
    BY <1>5, <2>0 DEF BaseInv, PipeTyped, Set
  <2>1. /\ \A c \in Client : pipe[c] # created
        /\ created \in Handler /\ thread[created] = "none" /\ instance[created] = "gone"
        /\ UNCHANGED <<toServer, toClient, created, m_pipe, thread>> /\ main' # "pipe"
    BY <1>5, <2>0, <2>a
       DEF StartConnect, Disconnected, HasClient, handleVars, bookkeeping, threadVars, pipeVars
  <2>2. \A h \in Handler : instance'[h] = IF h = created THEN "listening" ELSE instance[h]
    BY <1>5, <2>1 DEF BaseInv, PipeTyped, Set
  <2>3. Made \subseteq Made' /\ created \in Made
    BY <1>0, <1>5, <2>1, MadeGrows DEF StartConnect, Made
  <2>4. Instances' \subseteq Instances \cup {created}
    BY <2>2 DEF Instances
  <2>5. MadeInv'
    <3>1. m_pipe' \subseteq Made' /\ Instances' \subseteq Made'
      BY <2>1, <2>3, <2>4 DEF MadeInv
    <3>2. \A c \in Client : pipe'[c] # Nothing =>
            pipe'[c] \in Made' /\ instance'[pipe'[c]] \in {"connected", "gone"}
      BY <1>0, <2>1, <2>2, <2>3 DEF MadeInv, Made
    <3>3. \A h \in Handler : thread'[h] # "none" => instance'[h] \in {"connected", "gone"}
      BY <2>1, <2>2 DEF MadeInv
    <3> QED
      BY <3>1, <3>2, <3>3 DEF MadeInv
  <2>6. OwnPipeInv' /\ EmptyInv'
    BY <1>0, <2>1, <2>2 DEF OwnPipeInv, EmptyInv
  <2> QED
    BY <2>5, <2>6
<1> QED
  BY <1>1, <1>2, <1>3, <1>4, <1>5 DEF MainServerThread, StartConnect

LEMMA ThreadHandles ==
  ASSUME BaseInv, HandleInv, NEW h \in Handler, ProcessMessageThread(h)
  PROVE  MadeInv' /\ OwnPipeInv' /\ EmptyInv'
<1> USE DEF HandleInv
<1>1. /\ UNCHANGED <<mainVars, callVars>>
      /\ HandleReset(h) \/ (UNCHANGED handleVars /\ ThreadStep(h))
  BY ThreadEffect
<1>2. Made \subseteq Made' /\ UNCHANGED pipe
  BY <1>1, MadeGrows DEF mainVars, callVars
<1>3. \A k \in Handler : thread'[k] # "none" => thread[k] # "none"
  BY MessageThreadEffect DEF BaseInv, IInv, Running
<1>4. ASSUME PipesOnlyEnd, m_pipe' \subseteq m_pipe
      PROVE  MadeInv' /\ OwnPipeInv' /\ EmptyInv'
  BY <1>2, <1>3, <1>4, PipesEndPreserve
<1>5. CASE HandleReset(h)
  <2>1. NamedPipeReset(thread[h], h)
    BY <1>5 DEF HandleReset
  <2> QED
    BY <1>4, <2>1, ResetEffect DEF BaseInv
<1>6. ASSUME UNCHANGED handleVars, ThreadStep(h)
      PROVE  MadeInv' /\ OwnPipeInv' /\ EmptyInv'
  <2>1. UNCHANGED m_pipe /\ PipeTyped'
    BY <1>6, ThreadBase DEF handleVars, BaseInv
  <2>2. CASE UNCHANGED pipeVars
    BY <1>4, <2>1, <2>2, PipesSame DEF BaseInv
  <2>3. ASSUME NEW k \in Handler, Reads(h, k)
        PROVE  MadeInv' /\ OwnPipeInv' /\ EmptyInv'
    <3>1. PipesOnlyEnd
      BY <2>1, <2>3 DEF Reads, PipesOnlyEnd, Keeps, Set, BaseInv, PipeTyped
    <3> QED
      BY <1>4, <2>1, <3>1
  <2>4. ASSUME NEW k \in Handler, Responds(h, k)
        PROVE  MadeInv' /\ OwnPipeInv' /\ EmptyInv'
    <3>1. /\ instance[k] = "connected" /\ UNCHANGED <<instance, toServer>>
          /\ \A j \in Handler \ {k} : toClient'[j] = toClient[j]
      BY <2>4 DEF Responds, Served, Set, BaseInv, PipeTyped
    <3> QED
      BY <1>2, <1>3, <2>1, <3>1, MessagePreserves
  <2> QED
    BY <1>6, <2>2, <2>3, <2>4 DEF ThreadStep, Enters, Executes, Waits, GivesUp
<1> QED
  BY <1>1, <1>5, <1>6

LEMMA StopHandles ==
  ASSUME BaseInv, HandleInv, Stop
  PROVE  MadeInv' /\ OwnPipeInv' /\ EmptyInv'
<1> USE DEF HandleInv
<1>1. UNCHANGED created /\ (main' = "pipe" => main = "pipe")
  BY StopEffect DEF BaseInv, IInv
<1>2. Made \subseteq Made'
  BY <1>1, MadeGrows
<1>3. m_pipe' \subseteq m_pipe
  <2>1. CASE ResetVisited
    BY <2>1, ResetEffect DEF ResetVisited, BaseInv
  <2> QED
    BY <2>1 DEF Stop, EnterLoop, Visit, CloseFake, WaitVisited, WaitMain, Destruct, ExitProcess,
        handleVars
<1>4. \A h \in Handler : thread'[h] # "none" => thread[h] # "none"
  BY StopThreads DEF ThreadsOnlyEnd, Running
<1>5. CASE PipesOnlyEnd /\ pipe' \in {pipe, Set(pipe, Fake, Nothing)}
  <2>1. \A c \in Client : pipe'[c] \in {pipe[c], Nothing}
    BY <1>5 DEF BaseInv, CallerTyped, Set
  <2> QED
    BY <1>2, <1>3, <1>4, <1>5, <2>1, PipesEndPreserve
<1>6. ASSUME NEW k \in Handler, Opens(Fake, k), UNCHANGED threadFrame
      PROVE  MadeInv' /\ OwnPipeInv' /\ EmptyInv'
  BY <1>2, <1>3, <1>6, OpensPreserve, FakeAssumption DEF threadFrame
<1> QED
  BY <1>5, <1>6, StopPipes DEF StopMoves

LEMMA CallerHandles ==
  ASSUME BaseInv, HandleInv, NEW c \in Client, Caller(c)
  PROVE  MadeInv' /\ OwnPipeInv' /\ EmptyInv'
<1> USE DEF HandleInv
<1>1. CallerStep(c) /\ UNCHANGED <<mainVars, handleVars, thread>>
  BY CallerStepEffect
<1>2. Made \subseteq Made' /\ UNCHANGED <<m_pipe, thread>> /\ PipeTyped'
  BY <1>1, MadeGrows, CallerBase DEF mainVars, handleVars, BaseInv
<1>3. CASE UNCHANGED <<pipeVars, pipe>>
  BY <1>2, <1>3, PipesSame, PipesEndPreserve DEF BaseInv
<1>4. ASSUME NEW k \in Handler, GetsInstance(c, k)
      PROVE  MadeInv' /\ OwnPipeInv' /\ EmptyInv'
  BY <1>2, <1>4, OpensPreserve DEF GetsInstance
<1>5. CASE Writes(c) /\ ~UNCHANGED toServer
  BY <1>2, <1>5, MessagePreserves DEF Writes, BaseInv, PipeTyped, Set
<1>6. CASE Receives(c)
  <2>1. PipesOnlyEnd
    BY <1>2, <1>6 DEF Receives, PipesOnlyEnd, Keeps, BaseInv, PipeTyped, Set
  <2>2. \A d \in Client : pipe'[d] \in {pipe[d], Nothing}
    BY <1>6 DEF Receives, BaseInv, CallerTyped, Set
  <2> QED
    BY <1>2, <2>1, <2>2, PipesEndPreserve
<1> QED
  BY <1>1, <1>3, <1>4, <1>5, <1>6 DEF CallerStep, Issues, GetsNone, Writes, pipeVars

\* What NamedPipe::Reset does to the handles, step by step.
LEMMA ResetHandles ==
  ASSUME NEW label \in Resetting, NEW h, NamedPipeReset(label, h)
  PROVE  /\ UNCHANGED recycled
         /\ \/ label = "disconnect" /\ UNCHANGED closed
            \/ label = "close" /\ h \in m_pipe /\ closed' = closed \cup {h}
            \/ label = "close" /\ h \notin m_pipe /\ UNCHANGED closed
            \/ label = "null" /\ closed' = closed \ {h}
BY DEF NamedPipeReset, handleVars, Resetting

LEMMA MainCloses ==
  ASSUME BaseInv, HandleInv, MainServerThread
  PROVE  ClosedInv'
<1> USE DEF HandleInv, ClosedInv
<1>0. UNCHANGED <<exitEvent, stop>> /\ created \in Nat
  BY CreatedFacts DEF MainServerThread, stopVars
<1>1. CASE Push
  <2>1. /\ main = "push" /\ main' = "pipe" /\ created' = created + 1
        /\ UNCHANGED <<closed, recycled, thread>> /\ recycled \subseteq Handler
    BY <1>1 DEF Push, handleVars, threadVars, BaseInv, ServerTyped
  <2> QED
    BY <1>0, <2>1, CreatedFacts DEF MayCreate
<1>2. CASE CreatePipe
  <2>1. /\ main = "pipe" /\ main' = "connect" /\ UNCHANGED <<created, thread, closed>>
        /\ recycled' = closed
    BY <1>2 DEF CreatePipe, bookkeeping, threadVars
  <2>2. \A h \in closed : h < created
    BY <2>1 DEF BaseInv, ServerTyped, MadeInv, Made
  <2> QED
    BY <1>0, <2>1, <2>2 DEF MayCreate
<1>3. CASE EndConnect
  <2>1. /\ main = "waiting" /\ main' \in {"assign", "disconnect"}
        /\ UNCHANGED <<created, closed, recycled>>
        /\ thread[created] = "none"
        /\ \A h \in Handler : h # created => thread'[h] = thread[h]
    BY <1>3 DEF EndConnect, bookkeeping, handleVars, Set, BaseInv, ThreadTyped, IInv, MainInv,
        HasHandler
  <2>2. closed \subseteq Handler /\ recycled \subseteq Handler
    BY DEF BaseInv, ServerTyped
  <2>3. MayCreate' => MayCreate
    BY <1>0, <2>1 DEF MayCreate
  <2>4. ~exitEvent => created \notin closed
    BY <2>1
  <2>5. created \notin recycled
    BY <1>0
  <2> QED
    BY <1>0, <2>1, <2>2, <2>3, <2>4, <2>5
<1>4. CASE ResetUnserved
  <2>1. /\ main \in Resetting /\ NamedPipeReset(main, created) /\ UNCHANGED <<created, thread>>
        /\ main' = AfterReset(main, created, "create")
    BY <1>4 DEF ResetUnserved, bookkeeping, threadVars
  <2>2. MayCreate' => MayCreate
    BY <1>0, <2>1 DEF MayCreate, AfterReset
  <2>3. ~exitEvent => \A h \in closed' : thread[h] = "null" \/ (main' = "null" /\ h = created)
    BY <2>1, ResetHandles DEF AfterReset, Resetting
  <2> QED
    BY <1>0, <2>1, <2>2, <2>3, ResetHandles
<1>5. CASE TestExit \/ StartConnect \/ AssignHandle \/ PopBack \/ DestroyHandler
  <2>1. UNCHANGED <<created, recycled, thread>> /\ closed' \subseteq closed
    BY <1>5 DEF TestExit, StartConnect, AssignHandle, PopBack, DestroyHandler, handleVars,
        bookkeeping, threadVars
  <2>2. main # "null" /\ (main' \in {"push", "pipe"} => ~exitEvent)
    BY <1>5 DEF TestExit, StartConnect, AssignHandle, PopBack, DestroyHandler
  <2> QED
    BY <1>0, <2>1, <2>2 DEF MayCreate
<1> QED
  BY <1>1, <1>2, <1>3, <1>4, <1>5 DEF MainServerThread

LEMMA ThreadCloses ==
  ASSUME BaseInv, HandleInv, NEW h \in Handler, ProcessMessageThread(h)
  PROVE  ClosedInv'
<1> USE DEF HandleInv, ClosedInv
<1>1. /\ UNCHANGED <<mainVars, stopVars>>
      /\ HandleReset(h) \/ (UNCHANGED handleVars /\ ThreadStep(h))
  BY ThreadEffect
<1>2. UNCHANGED <<exitEvent, main, created>> /\ (MayCreate' <=> MayCreate)
  BY <1>1 DEF mainVars, stopVars, MayCreate
<1>3. /\ \A k \in Handler : k # h => thread'[k] = thread[k]
      /\ closed \subseteq Handler /\ recycled \subseteq Handler
      /\ thread[h] # "none"
  BY MessageThreadEffect DEF BaseInv, IInv, ServerTyped, Running
<1>4. main = "null" => h # created
  BY <1>3 DEF BaseInv, IInv, MainInv, HasHandler, Resetting
<1>5. CASE HandleReset(h)
  <2>1. /\ thread[h] \in Resetting /\ NamedPipeReset(thread[h], h)
        /\ thread'[h] = AfterReset(thread[h], h, "ended")
    BY <1>5 DEF HandleReset, Goto, Set, BaseInv, ThreadTyped
  <2>2. UNCHANGED recycled
    BY <2>1, ResetHandles
  <2>3. ~exitEvent => \A k \in closed' : thread'[k] = "null" \/ (main = "null" /\ k = created)
    BY <1>2, <1>3, <1>4, <2>1, ResetHandles DEF AfterReset, Resetting
  <2>4. MayCreate => \A k \in recycled : thread'[k] \in {"null", "ended", "killed"}
    BY <1>3, <2>1 DEF AfterReset, Resetting
  <2> QED
    BY <1>2, <2>2, <2>3, <2>4
<1>6. CASE UNCHANGED handleVars /\ ThreadStep(h)
  <2>1. thread[h] \notin {"null", "ended", "killed"} /\ UNCHANGED <<closed, recycled>>
    BY <1>6 DEF handleVars, ThreadStep, Reads, Enters, Executes, Responds, Waits, GivesUp
  <2> QED
    BY <1>2, <1>3, <1>4, <2>1
<1> QED
  BY <1>1, <1>5, <1>6

LEMMA StopCloses ==
  ASSUME BaseInv, HandleInv, Stop
  PROVE  ClosedInv'
<1> USE DEF HandleInv, ClosedInv
<1>1. exitEvent /\ UNCHANGED <<exitEvent, created>>
  <2>1. stop # "running"
    BY DEF Stop, EnterLoop, Visit, CloseFake, ResetVisited, WaitVisited, WaitMain, Destruct,
        ExitProcess, Resetting
  <2> QED
    BY <2>1, StopEffect DEF BaseInv, IInv, LoopInv
<1>2. UNCHANGED recycled /\ recycled \subseteq Handler
  BY DEF Stop, EnterLoop, Visit, CloseFake, ResetVisited, WaitVisited, WaitMain, Destruct,
      ExitProcess, handleVars, NamedPipeReset, BaseInv, ServerTyped
<1>3. MayCreate' => MayCreate
  BY <1>1, StopEffect DEF MayCreate, BaseInv, IInv
<1>4. \A h \in recycled : thread'[h] \in {thread[h], "killed"}
  BY <1>2, StopThreads DEF ThreadsOnlyEnd
<1> QED
  BY <1>1, <1>2, <1>3, <1>4

LEMMA OthersClose ==
  ASSUME BaseInv, HandleInv, RequestStop \/ \E c \in Client : Caller(c)
  PROVE  ClosedInv'
<1> USE DEF HandleInv, ClosedInv
<1>1. /\ UNCHANGED <<main, created, thread, closed, recycled>>
      /\ exitEvent' \/ UNCHANGED exitEvent
  BY CallerStepEffect DEF RequestStop, BeginStop, mainVars, stopVars, handleVars, mainFrame,
      threadFrame
<1>2. MayCreate' => MayCreate
  BY <1>1 DEF MayCreate
<1> QED
  BY <1>1, <1>2

\* The second layer survives every step.
LEMMA HandlePreserved ==
  ASSUME BaseInv, HandleInv, [ShutdownNext]_shutdownVars
  PROVE  HandleInv'
<1>1. CASE MainServerThread
  BY <1>1, MainHandles, MainCloses DEF HandleInv
<1>2. ASSUME NEW h \in Handler, ProcessMessageThread(h)
      PROVE  HandleInv'
  BY <1>2, ThreadHandles, ThreadCloses DEF HandleInv
<1>3. CASE Stop
  BY <1>3, StopHandles, StopCloses DEF HandleInv
<1>4. CASE RequestStop
  <2>1. UNCHANGED <<main, created, thread, m_pipe, pipe, pipeVars>>
    BY <1>4 DEF RequestStop, BeginStop, mainFrame, threadFrame, handleVars
  <2>2. MadeInv' /\ OwnPipeInv' /\ EmptyInv'
    BY <2>1, MadeGrows, PipesSame, PipesEndPreserve DEF BaseInv, HandleInv
  <2> QED
    BY <1>4, <2>2, OthersClose DEF HandleInv
<1>5. ASSUME NEW c \in Client, Caller(c)
      PROVE  HandleInv'
  BY <1>5, CallerHandles, OthersClose DEF HandleInv
<1>6. CASE UNCHANGED shutdownVars
  BY <1>6 DEF shutdownVars, vars, serverVars, callVars, stopVars, handleVars, HandleInv, MadeInv,
      Made, Instances, OwnPipeInv, EmptyInv, ClosedInv, MayCreate
<1> QED
  BY <1>1, <1>2, <1>3, <1>4, <1>5, <1>6 DEF ShutdownNext
------------------------------------------------------------------------------
\* The third layer.  A reused handle stays one.
LEMMA ReusedStays ==
  ASSUME BaseInv, Reused, [ShutdownNext]_shutdownVars
  PROVE  Reused'
<1> USE DEF Reused, MayCreate
<1>1. CASE MainServerThread
  <2>1. UNCHANGED exitEvent /\ main' \notin {"push", "pipe"} /\ UNCHANGED recycled
    BY <1>1 DEF MainServerThread, TestExit, Push, CreatePipe, StartConnect, EndConnect,
        AssignHandle, ResetUnserved, PopBack, DestroyHandler, handleVars, NamedPipeReset,
        AfterReset, stopVars
  <2> QED
    BY <2>1
<1>2. ASSUME NEW h \in Handler, ProcessMessageThread(h)
      PROVE  Reused'
  BY <1>2, ThreadEffect, ResetEffect
     DEF HandleReset, mainVars, stopVars, handleVars, BaseInv
<1>3. CASE Stop
  <2>1. UNCHANGED recycled
    BY <1>3 DEF Stop, EnterLoop, Visit, CloseFake, ResetVisited, WaitVisited, WaitMain, Destruct,
        ExitProcess, handleVars, NamedPipeReset
  <2> QED
    BY <1>3, <2>1, StopEffect DEF BaseInv, IInv
<1>4. CASE RequestStop
  BY <1>4 DEF RequestStop, BeginStop, handleVars, mainFrame
<1>5. ASSUME NEW c \in Client, Caller(c)
      PROVE  Reused'
  BY <1>5, CallerStepEffect DEF mainVars, stopVars, handleVars
<1>6. CASE UNCHANGED shutdownVars
  BY <1>6 DEF shutdownVars, vars, serverVars, stopVars, handleVars
<1> QED
  BY <1>1, <1>2, <1>3, <1>4, <1>5, <1>6 DEF ShutdownNext

\* A thread that uses its handle uses its own instance, unless a handle is
\* reused.
LEMMA DenotesOwn ==
  ASSUME BaseInv, HandleInv, ~Reused, NEW h \in Handler,
         thread[h] \notin {"null", "ended", "killed"}, NEW k \in Denotes(h), k # Nothing
  PROVE  k = h
BY DEF HandleInv, ClosedInv, Reused, Denotes

\* The call of a caller that is in one, or has made one, has a name.
LEMMA UnwrittenFacts ==
  ASSUME BaseInv, NEW c \in Client, Unwritten(c)
  PROVE  Latest(c) \in CallId /\ calls[c] > 0
BY LatestFacts DEF BaseInv, CallerInv, Unwritten

\* Messages disappear, and nothing else happens to the calls.
Quiet ==
  /\ UNCHANGED <<pc, calls, outcome, answer, executions>>
  /\ \A c \in Client : pipe'[c] \in {pipe[c], Nothing}
  /\ \A h \in Handler :
       /\ toServer'[h] \in {toServer[h], Nothing} /\ toClient'[h] \in {toClient[h], Nothing}
       /\ request'[h] \in {request[h], Nothing} /\ using'[h] \in {using[h], Nothing}
       /\ request'[h] # Nothing => (h \in Executed' <=> h \in Executed)

LEMMA QuietPreserves ==
  ASSUME BaseInv, CallInv, Quiet, Reused => Reused'
  PROVE  CallInv'
<1> USE DEF CallInv
<1>1. \A i \in CallId : NoTrace(i) => NoTrace(i)'
  BY ValueFacts DEF NoTrace, Quiet
<1>2. \A c \in Client : Latest(c)' = Latest(c) /\ (Unwritten(c)' <=> Unwritten(c))
  BY DEF Quiet, Latest, Unwritten
<1>3. NewCallInv'
  <2> SUFFICES ASSUME NEW c \in Client, Unwritten(c)'
               PROVE  NoTrace(Latest(c))'
    BY DEF NewCallInv
  <2>1. NoTrace(Latest(c)) /\ Latest(c) \in CallId
    BY <1>2, UnwrittenFacts DEF NewCallInv
  <2>2. \A h \in Handler : toServer'[h] # Latest(c) /\ request'[h] # Latest(c)
    BY <2>1, ValueFacts DEF NoTrace, Quiet
  <2> QED
    BY <1>2, <2>1, <2>2 DEF NoTrace, Quiet
<1>4. OrderInv'
  BY <1>1 DEF OrderInv, Quiet
<1>5. RequestInv'
  BY DEF RequestInv, Quiet
<1>6. PlaceInv'
  BY DEF PlaceInv, Quiet
<1>7. OwnInv'
  BY <1>2, ValueFacts DEF OwnInv, Quiet, BaseInv, CallerTyped, HandlerOrNone
<1>8. AnswerInv'
  BY <1>2 DEF AnswerInv, Quiet
<1> QED
  BY <1>3, <1>4, <1>5, <1>6, <1>7, <1>8
\* Which of the steps of main and Stop are quiet.
LEMMA MainCalls ==
  ASSUME BaseInv, HandleInv, CallInv, MainServerThread, Reused => Reused'
  PROVE  CallInv'
<1>1. UNCHANGED <<pc, calls, outcome, answer, executions, pipe, request, using>>
  BY DEF MainServerThread, TestExit, Push, CreatePipe, StartConnect, EndConnect, AssignHandle,
         ResetUnserved, PopBack, DestroyHandler, callVars, history, threadVars
<1>2. \A h \in Handler :
        toServer'[h] \in {toServer[h], Nothing} /\ toClient'[h] \in {toClient[h], Nothing}
  <2>1. CASE ResetUnserved \/ DestroyHandler
    BY <2>1, ResetEffect, VanishEffect
       DEF BaseInv, ResetUnserved, DestroyHandler, PipesOnlyEnd, Keeps, Ends
  <2> QED
    BY <2>1 DEF MainServerThread, TestExit, Push, CreatePipe, StartConnect, EndConnect,
        AssignHandle, PopBack, pipeVars
<1>3. \A h \in Handler : request[h] # Nothing => thread'[h] = thread[h]
  <2>1. CASE EndConnect
    <3>1. request[created] = Nothing
      BY <2>1 DEF EndConnect, BaseInv, IInv, MainInv, HasHandler, ThreadInv
    <3>2. \A h \in Handler : h # created => thread'[h] = thread[h]
      BY <2>1 DEF EndConnect, BaseInv, ThreadTyped, Set
    <3> QED
      BY <3>1, <3>2
  <2> QED
    BY <2>1 DEF MainServerThread, TestExit, Push, CreatePipe, StartConnect, AssignHandle,
        ResetUnserved, PopBack, DestroyHandler, threadVars
<1>4. Quiet
  BY <1>1, <1>2, <1>3 DEF Quiet, Executed
<1> QED
  BY <1>4, QuietPreserves

LEMMA StopCalls ==
  ASSUME BaseInv, HandleInv, CallInv, Stop, Reused => Reused'
  PROVE  CallInv'
<1>1. UNCHANGED <<pc, calls, outcome, answer, executions>>
  BY DEF Stop, callFrame, history
<1>2. \A h \in Handler :
        /\ request'[h] \in {request[h], Nothing} /\ using'[h] \in {using[h], Nothing}
        /\ request'[h] # Nothing => (h \in Executed' <=> h \in Executed)
  BY StopThreads DEF ThreadsOnlyEnd, Executed
<1>3. CASE PipesOnlyEnd /\ pipe' \in {pipe, Set(pipe, Fake, Nothing)}
  <2>1. Quiet
    BY <1>1, <1>2, <1>3 DEF PipesOnlyEnd, Keeps, Ends, Quiet, BaseInv, CallerTyped, Set
  <2> QED
    BY <2>1, QuietPreserves
<1>4. ASSUME NEW k \in Handler, Opens(Fake, k), UNCHANGED threadFrame
      PROVE  CallInv'
  <2>1. /\ toServer[k] = Nothing /\ toClient[k] = Nothing /\ request[k] = Nothing
        /\ \A c \in Client : pipe'[c] = IF c = Fake THEN k ELSE pipe[c]
        /\ UNCHANGED <<toServer, toClient, request, using, thread>>
    BY <1>4 DEF Opens, Listening, pipeFrame, threadFrame, Set, HandleInv, EmptyInv, MadeInv,
        BaseInv, ThreadInv, CallerTyped
  <2>2. NewCallInv' /\ OrderInv'
    BY <1>1, <2>1 DEF CallInv, NewCallInv, OrderInv, NoTrace, Unwritten, Latest
  <2>3. RequestInv' /\ PlaceInv'
    BY <1>1, <2>1 DEF CallInv, RequestInv, PlaceInv, Executed
  <2>4. OwnInv' /\ AnswerInv'
    BY <1>1, <2>1 DEF CallInv, OwnInv, AnswerInv, Latest
  <2> QED
    BY <2>2, <2>3, <2>4 DEF CallInv
<1> QED
  BY <1>3, <1>4, StopPipes DEF StopMoves

\* A message thread takes its request from an instance.
LEMMA ReadsCalls ==
  ASSUME BaseInv, HandleInv, CallInv, NEW h \in Handler, NEW k \in Handler, Reads(h, k),
         UNCHANGED callVars, Reused => Reused'
  PROVE  CallInv'
<1> USE DEF CallInv
<1>1. /\ request[h] = Nothing /\ toServer[k] # Nothing /\ toServer[k] \in CallId
      /\ \A g \in Handler : request'[g] = IF g = h THEN toServer[k] ELSE request[g]
      /\ \A j \in Handler : toServer'[j] = IF j = k THEN Nothing ELSE toServer[j]
      /\ \A g \in Handler : g \in Executed' <=> g \in Executed
      /\ UNCHANGED <<toClient, executions, calls, pc, outcome, answer, pipe>>
      /\ \A g \in Handler : using'[g] \in {using[g], Nothing}
  BY DEF Reads, BaseInv, ThreadInv, ThreadTyped, PipeTyped, Message, Set, Executed, callVars
<1>2. NewCallInv'
  <2> SUFFICES ASSUME NEW c \in Client, Unwritten(c)
               PROVE  NoTrace(Latest(c))'
    BY <1>1 DEF NewCallInv, Unwritten
  <2>1. Latest(c) \in CallId /\ NoTrace(Latest(c))
    BY UnwrittenFacts DEF NewCallInv
  <2> QED
    BY <1>1, <2>1, ValueFacts DEF NoTrace, Latest
<1>3. OrderInv'
  BY <1>1, ValueFacts DEF OrderInv, NoTrace
<1>4. RequestInv'
  <2>1. h \notin Executed'
    BY DEF Reads, Executed, Set, BaseInv, ThreadTyped
  <2> QED
    BY <1>1, <2>1 DEF RequestInv
<1>5. PlaceInv'
  BY <1>1 DEF PlaceInv
<1>6. OwnInv'
  <2>1. ~Reused => k = h
    <3>1. k \in Denotes(h) \/ k = using[h]
      BY DEF Reads
    <3>2. thread[h] \notin {"null", "ended", "killed"} /\ k # Nothing
      BY ValueFacts DEF Reads
    <3> QED
      BY <3>1, <3>2, DenotesOwn DEF OwnInv
  <2> QED
    BY <1>1, <2>1 DEF OwnInv, Latest, BaseInv, CallerTyped, HandlerOrNone
<1>7. AnswerInv'
  BY <1>1 DEF AnswerInv, Latest
<1> QED
  BY <1>2, <1>3, <1>4, <1>5, <1>6, <1>7

\* ProcessRequest.
LEMMA ExecutesCalls ==
  ASSUME BaseInv, HandleInv, CallInv, NEW h \in Handler, Executes(h),
         UNCHANGED callVars, Reused => Reused'
  PROVE  CallInv'
<1> USE DEF CallInv
<1> DEFINE i == request[h]
<1>1. /\ i # Nothing /\ i \in CallId /\ executions[i] = 0
      /\ \A j \in CallId : executions'[j] = IF j = i THEN 1 ELSE executions[j]
      /\ UNCHANGED <<toServer, toClient, request, using, calls, pc, outcome, answer, pipe>>
      /\ \A g \in Handler : g \in Executed' <=> g \in Executed \/ g = h
  <2>1. i # Nothing /\ i \in CallId /\ h \notin Executed
    BY DEF Executes, BaseInv, ThreadInv, ThreadTyped, Message, Executed
  <2>2. executions[i] = 0
    BY <2>1 DEF RequestInv
  <2>3. \A j \in CallId : executions'[j] = IF j = i THEN 1 ELSE executions[j]
    BY <2>1, <2>2 DEF Executes, BaseInv, ThreadTyped
  <2>4. \A g \in Handler : g \in Executed' <=> g \in Executed \/ g = h
    BY DEF Executes, Executed, Set, BaseInv, ThreadTyped
  <2> QED
    BY <2>1, <2>2, <2>3, <2>4 DEF Executes, pipeVars, callVars
<1> HIDE DEF i
<1>2. NewCallInv'
  <2> SUFFICES ASSUME NEW c \in Client, Unwritten(c)
               PROVE  NoTrace(Latest(c))'
    BY <1>1 DEF NewCallInv, Unwritten
  <2>1. Latest(c) \in CallId /\ NoTrace(Latest(c))
    BY UnwrittenFacts DEF NewCallInv
  <2> QED
    BY <1>1, <2>1 DEF NoTrace, Latest, i
<1>3. OrderInv'
  BY <1>1 DEF OrderInv, NoTrace, i
<1>4. RequestInv'
  <2>1. \A k \in Handler :
          /\ toServer[k] \in Message /\ toClient[k] \in Message /\ request[k] \in Message
          /\ toServer[k] # i /\ (request[k] = i => k = h)
    BY <1>1 DEF PlaceInv, i, BaseInv, PipeTyped, ThreadTyped
  <2> QED
    BY <1>1, <2>1 DEF RequestInv, Message, i
<1>5. PlaceInv' /\ OwnInv'
  BY <1>1 DEF PlaceInv, OwnInv, Latest
<1>6. AnswerInv'
  <2> SUFFICES ASSUME ~Reused', NEW c \in Client, pc[c] = "idle", calls[c] > 0,
                      outcome[c] = ERROR_SUCCESS
               PROVE  answer[c] = Latest(c) /\ executions'[Latest(c)] = 1
    BY <1>1 DEF AnswerInv, Latest
  <2>1. Latest(c) \in CallId
    BY LatestFacts
  <2> QED
    BY <1>1, <2>1 DEF AnswerInv
<1> QED
  BY <1>2, <1>3, <1>4, <1>5, <1>6

\* SendResponseToClient.
LEMMA RespondsCalls ==
  ASSUME BaseInv, HandleInv, CallInv, NEW h \in Handler, NEW k \in Handler, Responds(h, k),
         UNCHANGED callVars, Reused => Reused'
  PROVE  CallInv'
<1> USE DEF CallInv
<1>1. /\ request[h] # Nothing /\ executions[request[h]] = 1
      /\ \A j \in Handler : toClient'[j] = IF j = k THEN request[h] ELSE toClient[j]
      /\ \A g \in Handler : g \in Executed' <=> g \in Executed
      /\ UNCHANGED <<toServer, request, using, executions, calls, pc, outcome, answer, pipe>>
  <2>1. request[h] # Nothing /\ h \in Executed
    BY DEF Responds, BaseInv, ThreadInv, Executed
  <2>2. executions[request[h]] = 1
    BY <2>1 DEF RequestInv
  <2> QED
    BY <2>1, <2>2 DEF Responds, Executed, BaseInv, ThreadTyped, PipeTyped, Set, callVars
<1>2. NewCallInv' /\ OrderInv' /\ PlaceInv' /\ AnswerInv'
  BY <1>1 DEF NewCallInv, OrderInv, PlaceInv, AnswerInv, NoTrace, Unwritten, Latest
<1>3. RequestInv'
  BY <1>1 DEF RequestInv
<1>4. OwnInv'
  <2>1. ~Reused => k = h
    BY DenotesOwn, ValueFacts DEF Responds
  <2> QED
    BY <1>1, <2>1 DEF OwnInv, Latest, BaseInv, CallerTyped, HandlerOrNone
<1> QED
  BY <1>2, <1>3, <1>4

LEMMA ThreadCalls ==
  ASSUME BaseInv, HandleInv, CallInv, NEW h \in Handler, ProcessMessageThread(h), Reused => Reused'
  PROVE  CallInv'
<1>1. UNCHANGED callVars /\ (HandleReset(h) \/ ThreadStep(h))
  BY ThreadEffect
<1>2. CASE HandleReset(h)
  <2>1. PipesOnlyEnd /\ UNCHANGED <<request, using, executions>>
    BY <1>2, ResetEffect DEF HandleReset, BaseInv
  <2>2. \A g \in Handler : request[g] # Nothing => thread'[g] = thread[g]
    BY <1>2 DEF HandleReset, Goto, Set, BaseInv, ThreadTyped, ThreadInv, Resetting
  <2>3. Quiet
    BY <1>1, <2>1, <2>2 DEF Quiet, callVars, PipesOnlyEnd, Keeps, Ends, Executed
  <2> QED
    BY <2>3, QuietPreserves
<1>3. CASE Enters(h) \/ GivesUp(h)
  <2>1. /\ \A g \in Handler : g # h => thread'[g] = thread[g] /\ request'[g] = request[g]
        /\ \A g \in Handler : using'[g] \in {using[g], Nothing}
        /\ request'[h] \in {request[h], Nothing}
        /\ request'[h] # Nothing => (h \in Executed' <=> h \in Executed)
        /\ UNCHANGED <<toServer, toClient, executions>>
    BY <1>3 DEF Enters, GivesUp, Set, BaseInv, ThreadTyped, Executed, pipeVars
  <2>2. Quiet
    BY <1>1, <2>1 DEF Quiet, callVars, Executed
  <2> QED
    BY <2>2, QuietPreserves
<1>4. CASE Executes(h)
  BY <1>1, <1>4, ExecutesCalls
<1>5. ASSUME NEW k \in Handler, Reads(h, k) \/ Responds(h, k)
      PROVE  CallInv'
  BY <1>1, <1>5, ReadsCalls, RespondsCalls
<1>6. ASSUME NEW k \in Handler, Waits(h, k)
      PROVE  CallInv'
  <2>1. /\ \A g \in Handler : g \in Executed' <=> g \in Executed
        /\ \A g \in Handler : using'[g] = IF g = h THEN k ELSE using[g]
        /\ UNCHANGED <<toServer, toClient, request, executions, calls, pc, outcome, answer, pipe>>
    BY <1>1, <1>6 DEF Waits, Executed, Set, BaseInv, ThreadTyped, pipeVars, callVars
  <2>2. NewCallInv' /\ OrderInv' /\ PlaceInv' /\ AnswerInv' /\ RequestInv'
    BY <2>1 DEF CallInv, NewCallInv, OrderInv, PlaceInv, AnswerInv, RequestInv, NoTrace, Unwritten,
        Latest
  <2>3. OwnInv'
    <3>1. ~Reused => k = h
      BY <1>6, DenotesOwn, ValueFacts DEF Waits
    <3> QED
      BY <2>1, <3>1 DEF CallInv, OwnInv, Latest
  <2> QED
    BY <2>2, <2>3 DEF CallInv
<1> QED
  BY <1>1, <1>2, <1>3, <1>4, <1>5, <1>6 DEF ThreadStep
------------------------------------------------------------------------------
\* What the steps of a caller leave alone, and what they need to know of it.
CallerFrame(c) ==
  /\ c # Fake
  /\ UNCHANGED <<thread, request, using, executions>>
  /\ \A d \in Client \ {c} :
       /\ pc'[d] = pc[d] /\ pipe'[d] = pipe[d] /\ calls'[d] = calls[d]
       /\ outcome'[d] = outcome[d] /\ answer'[d] = answer[d]

LEMMA CallerFrameFacts ==
  ASSUME BaseInv, NEW c \in Client, Caller(c)
  PROVE  CallerStep(c) /\ CallerFrame(c)
BY CallerStepEffect, CallerOwn DEF CallerFrame

\* The call of one caller is not that of another.
LEMMA LatestDiffer ==
  ASSUME NEW c, NEW d, c # d
  PROVE  Latest(c) # Latest(d)
BY DEF Latest

\* A caller goes to a new call.
LEMMA IssuesCalls ==
  ASSUME BaseInv, HandleInv, CallInv, NEW c \in Client, Issues(c), CallerFrame(c), Reused => Reused'
  PROVE  CallInv'
<1> USE DEF CallInv
<1>1. /\ calls[c] \in Nat /\ calls'[c] = calls[c] + 1 /\ pc[c] = "idle" /\ pc'[c] = "open"
      /\ calls'[c] \in 1 .. MaxCalls /\ pipe[c] = Nothing
      /\ UNCHANGED <<toServer, toClient, pipe, outcome, answer>>
      /\ Executed' = Executed
  BY TransportAssumption
     DEF Issues, CallerFrame, BaseInv, CallerTyped, CallerInv, Set, pipeVars, Executed
<1>2. \A d \in Client \ {c} : Latest(d)' = Latest(d) /\ (Unwritten(d)' <=> Unwritten(d))
  BY <1>1 DEF CallerFrame, Latest, Unwritten
<1>3. \A i \in CallId : NoTrace(i)' <=> NoTrace(i)
  BY <1>1 DEF NoTrace, CallerFrame
<1>4. OrderInv'
  <2> SUFFICES ASSUME NEW i \in CallId, ~NoTrace(i)'
               PROVE  i[2] <= calls'[i[1]]
    BY DEF OrderInv
  <2>1. i[1] \in Client /\ i[2] \in Nat /\ i[2] <= calls[i[1]]
    BY <1>3 DEF OrderInv, CallId
  <2> QED
    BY <1>1, <2>1 DEF CallerFrame
<1>5. NewCallInv'
  <2> SUFFICES ASSUME NEW d \in Client, Unwritten(d)'
               PROVE  NoTrace(Latest(d))'
    BY DEF NewCallInv
  <2>1. CASE d = c
    <3>1. PICK i \in CallId : i = <<c, calls[c] + 1>>
      BY <1>1 DEF CallId
    <3>2. Latest(c)' = i /\ ~(i[2] <= calls[i[1]])
      BY <1>1, <3>1 DEF Latest
    <3>3. NoTrace(i)'
      BY <1>3, <3>1, <3>2 DEF OrderInv
    <3>4. /\ executions'[i] = 0
          /\ \A h \in Handler : toServer'[h] # i /\ request'[h] # i
      BY <3>3 DEF NoTrace
    <3> QED
      BY <2>1, <3>2, <3>4 DEF NoTrace
  <2>2. CASE d # c
    <3>1. NoTrace(Latest(d)) /\ Latest(d)' = Latest(d)
      BY <1>2, <2>2 DEF NewCallInv
    <3> QED
      BY <1>1, <3>1 DEF NoTrace, CallerFrame
  <2> QED
    BY <2>1, <2>2
<1>6. RequestInv' /\ PlaceInv'
  BY <1>1 DEF RequestInv, PlaceInv, CallerFrame
<1>7. OwnInv'
  BY <1>1, <1>2 DEF OwnInv, CallerFrame
<1>8. AnswerInv'
  BY <1>1, <1>2 DEF AnswerInv, CallerFrame
<1> QED
  BY <1>4, <1>5, <1>6, <1>7, <1>8

\* A caller opens an instance, or does not find one.
LEMMA OpenCalls ==
  ASSUME BaseInv, HandleInv, CallInv, NEW c \in Client, CallerFrame(c), Reused => Reused',
         GetsNone(c) \/ \E k \in Handler : GetsInstance(c, k)
  PROVE  CallInv'
<1> USE DEF CallInv
<1>1. /\ UNCHANGED <<toServer, toClient, calls, answer>> /\ Executed' = Executed
      /\ \A d \in Client : Latest(d)' = Latest(d)
  BY DEF GetsNone, GetsInstance, Opens, pipeFrame, pipeVars, CallerFrame, Executed, Latest
<1>2. \A d \in Client : Unwritten(d)' => Unwritten(d)
  <2>1. Unwritten(c)
    BY DEF GetsNone, GetsInstance, Unwritten
  <2>2. \A d \in Client \ {c} : Unwritten(d)' <=> Unwritten(d)
    BY <1>1 DEF CallerFrame, Unwritten
  <2> QED
    BY <2>1, <2>2
<1>3. NewCallInv' /\ OrderInv'
  BY <1>1, <1>2 DEF NewCallInv, OrderInv, NoTrace, CallerFrame
<1>4. RequestInv' /\ PlaceInv'
  BY <1>1 DEF RequestInv, PlaceInv, CallerFrame
<1>5. OwnInv'
  <2>1. CASE UNCHANGED pipe
    BY <1>1, <2>1 DEF OwnInv, CallerFrame
  <2>2. ASSUME NEW k \in Handler, GetsInstance(c, k)
        PROVE  OwnInv'
    <3>1. pipe'[c] = k /\ toServer[k] = Nothing /\ toClient[k] = Nothing /\ request[k] = Nothing
      BY <2>2 DEF GetsInstance, Opens, Listening, Set, HandleInv, EmptyInv, MadeInv,
          BaseInv, ThreadInv, CallerTyped
    <3> QED
      BY <1>1, <3>1 DEF OwnInv, CallerFrame
  <2> QED
    BY <2>1, <2>2 DEF GetsNone
<1>6. AnswerInv'
  <2>1. pc'[c] = "idle" => outcome'[c] # ERROR_SUCCESS
    BY DEF GetsNone, GetsInstance, Set, BaseInv, CallerTyped, ERROR_SUCCESS,
        ERROR_SERVER_NO_RESPONSE
  <2> QED
    BY <1>1, <2>1 DEF AnswerInv, CallerFrame
<1> QED
  BY <1>3, <1>4, <1>5, <1>6

\* A caller writes its request.
LEMMA WritesCalls ==
  ASSUME BaseInv, HandleInv, CallInv, NEW c \in Client, Writes(c), CallerFrame(c), Reused => Reused'
  PROVE  CallInv'
<1> USE DEF CallInv
<1>1. /\ UNCHANGED <<toClient, pipe, calls, outcome, answer>> /\ Executed' = Executed
      /\ \A d \in Client : Latest(d)' = Latest(d)
      /\ pc[c] = "write" /\ pc'[c] = "read"
  BY DEF Writes, CallerFrame, Executed, Latest, BaseInv, CallerTyped, Set
<1>2. Unwritten(c) /\ NoTrace(Latest(c)) /\ Latest(c) \in CallId /\ calls[c] > 0
  BY <1>1, UnwrittenFacts DEF NewCallInv, Unwritten
<1>3. \A d \in Client : Unwritten(d)' => Unwritten(d) /\ d # c
  BY <1>1 DEF Unwritten, CallerFrame
<1>4. AnswerInv'
  BY <1>1 DEF AnswerInv, CallerFrame
<1>5. CASE UNCHANGED toServer
  <2>1. NewCallInv' /\ OrderInv' /\ RequestInv' /\ PlaceInv' /\ OwnInv'
    BY <1>1, <1>3, <1>5 DEF NewCallInv, OrderInv, NoTrace, RequestInv, PlaceInv, OwnInv, CallerFrame
  <2> QED
    BY <1>4, <2>1
<1>6. CASE toServer' = Set(toServer, pipe[c], Latest(c))
  <2> DEFINE k == pipe[c]
             i == Latest(c)
  <2>1. k \in Handler /\ k # Nothing
    BY <1>1 DEF BaseInv, CallerTyped, CallerInv, CallerFrame, HandlerOrNone
  <2>2. \A h \in Handler : toServer'[h] = IF h = k THEN i ELSE toServer[h]
    BY <1>6, <2>1 DEF BaseInv, PipeTyped, Set
  <2>3. /\ executions[i] = 0 /\ \A h \in Handler : toServer[h] # i /\ request[h] # i
        /\ i \in CallId /\ i[1] = c /\ i[2] = calls[c] /\ calls[c] \in Nat
    BY <1>2 DEF NoTrace, Latest, BaseInv, CallerTyped
  <2>4. NewCallInv'
    <3> SUFFICES ASSUME NEW d \in Client, Unwritten(d)'
                 PROVE  NoTrace(Latest(d))'
      BY DEF NewCallInv
    <3>1. NoTrace(Latest(d)) /\ Latest(d) # i /\ Latest(d)' = Latest(d)
      BY <1>1, <1>3, LatestDiffer DEF NewCallInv
    <3> HIDE DEF i, k
    <3> QED
      BY <2>2, <3>1 DEF NoTrace, CallerFrame
  <2>5. OrderInv'
    <3> HIDE DEF i, k
    <3>1. \A j \in CallId : ~NoTrace(j)' => ~NoTrace(j) \/ j = i
      BY <2>2 DEF NoTrace, CallerFrame
    <3> QED
      BY <1>1, <2>3, <3>1 DEF OrderInv
  <2>6. RequestInv' /\ PlaceInv'
    <3> HIDE DEF i, k
    <3>1. RequestInv'
      BY <1>1, <2>2, <2>3 DEF RequestInv, CallerFrame
    <3>2. PlaceInv'
      BY <1>1, <2>2, <2>3 DEF PlaceInv, CallerFrame
    <3> QED
      BY <3>1, <3>2
  <2>7. OwnInv'
    <3>1. \A d \in Client : pipe[d] = k => d = c
      BY <2>1 DEF HandleInv, OwnPipeInv
    <3>2. \A d \in Client : pipe[d] # Nothing => pipe[d] \in Handler
      BY DEF BaseInv, CallerTyped, HandlerOrNone
    <3>3. \A d \in Client : pipe[d] # Nothing => toServer'[pipe[d]] \in {Nothing, Latest(d)}
      BY <2>2, <3>1, <3>2 DEF OwnInv
    <3> QED
      BY <1>1, <3>3 DEF OwnInv, CallerFrame
  <2> QED
    BY <1>4, <2>4, <2>5, <2>6, <2>7
<1> QED
  BY <1>5, <1>6 DEF Writes

\* A caller takes what it finds in its instance.
LEMMA ReceivesCalls ==
  ASSUME BaseInv, HandleInv, CallInv, NEW c \in Client, Receives(c), CallerFrame(c),
         Reused => Reused'
  PROVE  CallInv'
<1> USE DEF CallInv
<1>1. /\ UNCHANGED <<toServer, calls>> /\ Executed' = Executed
      /\ \A d \in Client : Latest(d)' = Latest(d)
      /\ pc[c] = "read" /\ pc'[c] = "idle" /\ pipe'[c] = Nothing
      /\ \A h \in Handler : toClient'[h] \in {toClient[h], Nothing}
  BY DEF Receives, CallerFrame, Executed, Latest, BaseInv, CallerTyped, PipeTyped, Set
<1>2. /\ outcome'[c] # ERROR_SERVER_NO_RESPONSE
      /\ outcome'[c] = ERROR_SUCCESS => answer'[c] = toClient[pipe[c]] /\ toClient[pipe[c]] # Nothing
  BY DEF Receives, BaseInv, CallerTyped, Set, ERROR_SERVER_NO_RESPONSE, ERROR_SUCCESS,
      ERROR_SEND_FAILED, ERROR_RECEIVE_FAILED
<1>3. \A d \in Client : Unwritten(d)' => Unwritten(d)
  BY <1>1, <1>2 DEF Unwritten, CallerFrame
<1>4. NewCallInv' /\ OrderInv'
  BY <1>1, <1>3 DEF NewCallInv, OrderInv, NoTrace, CallerFrame
<1>5. RequestInv' /\ PlaceInv'
  BY <1>1 DEF RequestInv, PlaceInv, CallerFrame
<1>6. OwnInv'
  BY <1>1 DEF OwnInv, CallerFrame, BaseInv, CallerTyped, HandlerOrNone
<1>7. AnswerInv'
  <2>1. pipe[c] \in Handler /\ pipe[c] # Nothing
    BY <1>1 DEF BaseInv, CallerTyped, CallerInv, CallerFrame, HandlerOrNone
  <2>2. ~Reused /\ outcome'[c] = ERROR_SUCCESS =>
          answer'[c] = Latest(c) /\ executions[Latest(c)] = 1
    BY <1>2, <2>1 DEF OwnInv, RequestInv
  <2> QED
    BY <1>1, <2>2 DEF AnswerInv, CallerFrame
<1> QED
  BY <1>4, <1>5, <1>6, <1>7
\* The third layer survives every step.
LEMMA CallsPreserved ==
  ASSUME BaseInv, HandleInv, CallInv, [ShutdownNext]_shutdownVars
  PROVE  CallInv'
<1>1. Reused => Reused'
  BY ReusedStays
<1>2. CASE MainServerThread
  BY <1>1, <1>2, MainCalls
<1>3. ASSUME NEW h \in Handler, ProcessMessageThread(h)
      PROVE  CallInv'
  BY <1>1, <1>3, ThreadCalls
<1>4. CASE Stop
  BY <1>1, <1>4, StopCalls
<1>5. CASE RequestStop \/ UNCHANGED shutdownVars
  <2>1. UNCHANGED <<pc, calls, outcome, answer, executions, pipe, toServer, toClient, thread,
                    request, using>>
    BY <1>5 DEF RequestStop, BeginStop, callFrame, history, pipeVars, threadFrame, shutdownVars,
        vars, serverVars, callVars
  <2>2. Quiet
    BY <2>1 DEF Quiet, Executed
  <2> QED
    BY <1>1, <2>2, QuietPreserves
<1>6. ASSUME NEW c \in Client, Caller(c)
      PROVE  CallInv'
  <2>1. CallerStep(c) /\ CallerFrame(c)
    BY <1>6, CallerFrameFacts
  <2> QED
    BY <1>1, <2>1, IssuesCalls, OpenCalls, WritesCalls, ReceivesCalls DEF CallerStep
<1> QED
  BY <1>2, <1>3, <1>4, <1>5, <1>6 DEF ShutdownNext

\* The second and the third layer hold when the programs start.
LEMMA InitHandlesAndCalls ==
  ASSUME ShutdownInit
  PROVE  HandleInv /\ CallInv
<1>1. HandleInv
  BY DEF ShutdownInit, Init, HandleInv, MadeInv, Instances, OwnPipeInv, EmptyInv, ClosedInv
<1>2. NewCallInv /\ OrderInv /\ RequestInv /\ PlaceInv
  BY NothingAssumption
     DEF ShutdownInit, Init, NewCallInv, Unwritten, NoTrace, OrderInv, RequestInv, PlaceInv
<1>3. OwnInv /\ AnswerInv
  BY DEF ShutdownInit, Init, OwnInv, AnswerInv
<1> QED
  BY <1>1, <1>2, <1>3 DEF CallInv

\* A request is in one place until it is executed, once; the pipe of a caller
\* holds only its own messages, unless the newest pipe has got the value of a
\* handle that is still in use (ServerMessageHandler.cpp:37-65, 103-123;
\* NamedPipe.cpp:171-180).
THEOREM CallInvHolds == ShutdownSpec => [](BaseInv /\ HandleInv /\ CallInv)
<1>1. ShutdownInit => BaseInv /\ HandleInv /\ CallInv
  BY InitBase, InitHandlesAndCalls
<1>2. /\ BaseInv /\ HandleInv /\ CallInv /\ [ShutdownNext]_shutdownVars
      => (BaseInv /\ HandleInv /\ CallInv)'
  BY BasePreserved, HandlePreserved, CallsPreserved
<1> QED
  BY <1>1, <1>2, PTL DEF ShutdownSpec

\* OutcomesHold (of ServerShutdown): what a caller is told stays true when the
\* server stops under it.
THEOREM OutcomesAreTrue == ShutdownSpec => []OutcomesHold
<1>1. BaseInv /\ HandleInv /\ CallInv => OutcomesHold
  <2> SUFFICES ASSUME BaseInv, CallInv
               PROVE  OutcomesHold
    OBVIOUS
  <2>1. \A i \in CallId : executions[i] <= 1
    BY DEF CallInv, RequestInv
  <2>2. ASSUME NEW c \in Client, pc[c] = "idle", calls[c] > 0,
               outcome[c] = ERROR_SUCCESS, ~HandleIsReused
        PROVE  answer[c] = Latest(c) /\ executions[Latest(c)] = 1
    BY <2>2 DEF CallInv, AnswerInv, Reused, MayCreate, HandleIsReused
  <2>3. ASSUME NEW c \in Client, pc[c] = "idle", calls[c] > 0,
               outcome[c] = ERROR_SERVER_NO_RESPONSE
        PROVE  executions[Latest(c)] = 0
    BY <2>3 DEF CallInv, NewCallInv, Unwritten, NoTrace
  <2> QED
    BY <2>1, <2>2, <2>3 DEF OutcomesHold
<1> QED
  BY <1>1, CallInvHolds, PTL
==============================================================================
