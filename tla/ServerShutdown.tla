---------------------------- MODULE ServerShutdown ----------------------------
(***************************************************************************)
(* RPCServer::Stop against the main thread, the message threads and their  *)
(* callers.  The callers and the pipe are those of Transport; the server   *)
(* is modelled anew, in the steps another thread can come between: the     *)
(* test of the exit event, push_back, CreateNamedPipe, ConnectNamedPipe,   *)
(* CreateThread, and NamedPipe::Reset, which a message thread and Stop may *)
(* run on one NamedPipe at the same time.                                  *)
(*                                                                         *)
(* A pipe handle is opened for synchronous use, so that a call on it waits *)
(* for the call another thread has under way (Busy).  The sleeps and       *)
(* timeouts of 100 ms and 500 ms take any time; a thread that is waited    *)
(* for may be terminated whenever it has not ended.                        *)
(***************************************************************************)
EXTENDS Transport

CONSTANT Fake  \* the fakeClient of ServerMessageHandler::Stop
ASSUME FakeAssumption == Fake \in Client

VARIABLES
  exitEvent,              \* m_exitEvent is set
  stop,                   \* where RPCServer::Stop is, and main() after it
  index, totalHandlers,   \* its loop
  m_pipe,                 \* handlers whose m_pipe is not NULL
  m_messageThreadHandle,  \* handlers whose m_messageThreadHandle is not NULL
  csAllObjects,           \* owner of ObjectManager::m_csAllObjects
  request,                \* the message a message thread has read
  using,                  \* the instance a message thread waits on
  closed,                 \* handlers whose m_pipe has been closed and is not NULL yet
  recycled                \* those that were so when the newest pipe was created,
                          \* which may have got the value of their handle

stopVars == <<exitEvent, stop, index, totalHandlers>>
threadVars == <<thread, m_messageThreadHandle, csAllObjects, request, using>>
handleVars == <<m_pipe, closed, recycled>>
pipeVars == <<instance, toServer, toClient>>
shutdownVars ==
  <<vars, stopVars, handleVars, m_messageThreadHandle, csAllObjects, request, using>>

ShutdownInit ==
  /\ Init
  /\ exitEvent = FALSE /\ stop = "running" /\ index = 1 /\ totalHandlers = 0
  /\ m_pipe = {} /\ m_messageThreadHandle = {}
  /\ csAllObjects = Nothing
  /\ request = [h \in Handler |-> Nothing]
  /\ using = [h \in Handler |-> Nothing]
  /\ closed = {} /\ recycled = {}

\* A thread is inside a call on an instance.
Busy(k) ==
  /\ k # Nothing
  /\ (main = "waiting" /\ k = created) \/ \E h \in Handler : using[h] = k

\* What the value of m_pipe of h stands for: its own instance; when that has
\* been closed, nothing, or the instance that has got the same value since; and
\* nothing when it is NULL.
Denotes(h) ==
  IF h \notin m_pipe THEN {Nothing}
  ELSE IF h \notin closed THEN {h}
  ELSE {Nothing} \cup {k \in {created} : h \in recycled}

Vanish(k) ==
  /\ instance' = IF k = Nothing THEN instance ELSE Set(instance, k, "gone")
  /\ toServer' = IF k = Nothing THEN toServer ELSE Set(toServer, k, Nothing)
  /\ toClient' = IF k = Nothing THEN toClient ELSE Set(toClient, k, Nothing)
------------------------------------------------------------------------------
\* NamedPipe::Reset of the pipe of h, in the steps another thread can come
\* between: DisconnectNamedPipe, CloseHandle, and m_pipe = NULL.  The thread it
\* runs on is at the label of the step.

Resetting == {"disconnect", "close", "null"}
AfterReset(label, h, end) ==
  CASE label = "disconnect" -> "close"
    [] label = "close" /\ h \in m_pipe -> "null"
    [] OTHER -> end

\* Fault: m_pipe is set to NULL before its handle is closed.
ResetNullFirst(label, h) ==
  \/ /\ label \in {"disconnect", "close"}
     /\ \E k \in Denotes(h) : ~Busy(k) /\ Vanish(k)
     /\ m_pipe' = IF label = "close" THEN m_pipe \ {h} ELSE m_pipe
     /\ closed' = IF label = "close" THEN closed \cup {h} ELSE closed
     /\ UNCHANGED recycled
  \/ /\ label = "null"
     /\ closed' = closed \ {h}
     /\ UNCHANGED <<pipeVars, m_pipe, recycled>>

NamedPipeReset(label, h) ==
  \/ /\ label = "disconnect"
     /\ \E k \in Denotes(h) : ~Busy(k) /\ Vanish(k)
     /\ UNCHANGED handleVars
  \/ /\ label = "close" /\ h \in m_pipe
     /\ \E k \in Denotes(h) : ~Busy(k) /\ Vanish(k)
     /\ closed' = closed \cup {h}
     /\ UNCHANGED <<m_pipe, recycled>>
  \/ /\ label = "close" /\ h \notin m_pipe
     /\ UNCHANGED <<pipeVars, handleVars>>
  \/ /\ label = "null"
     /\ m_pipe' = m_pipe \ {h}
     /\ closed' = closed \ {h}
     /\ UNCHANGED <<pipeVars, recycled>>
------------------------------------------------------------------------------
\* MainServerThread.

\* Stop is inside m_csAllMessageHandlers.
StopOwnsHandlers == stop \in Resetting \cup {"visit", "fakeClose", "wait"}

bookkeeping == <<created, allMessageHandlers>>

\* The loop ends when the exit event is set.
TestExit ==
  /\ main = "create"
  /\ main' = IF exitEvent THEN "ended" ELSE "push"
  /\ UNCHANGED <<bookkeeping, pipeVars, handleVars, threadVars>>

\* A new handler, and push_back under m_csAllMessageHandlers.
Push ==
  /\ main = "push" /\ ~StopOwnsHandlers
  /\ created < Cardinality(Handler)
  /\ created' = created + 1
  /\ allMessageHandlers' = Append(allMessageHandlers, created')
  /\ main' = "pipe"
  /\ UNCHANGED <<pipeVars, handleVars, threadVars>>

\* NamedPipe::Create.  The new handle can have the value of one that is closed.
CreatePipe ==
  /\ main = "pipe"
  /\ instance' = Set(instance, created, "listening")
  /\ m_pipe' = m_pipe \cup {created}
  /\ recycled' = closed
  /\ main' = "connect"
  /\ UNCHANGED <<bookkeeping, toServer, toClient, closed, threadVars>>

\* An instance that Stop has disconnected and not closed yet can listen again.
\* When the newest pipe has got the value of a closed handle, it may have been
\* closed under that value.
Disconnected == instance[created] = "gone" /\ created \in m_pipe \ closed

\* NamedPipe::Connect waits, or returns FALSE: there is a client already, or
\* Stop has closed the pipe.  A client from before the disconnection can only
\* fail, and is given the time to.
StartConnect ==
  /\ main = "connect"
  /\ \/ /\ instance[created] = "listening" /\ created \in m_pipe
        /\ main' = "waiting"
        /\ UNCHANGED pipeVars
     \/ /\ Disconnected /\ ~HasClient(created)
        /\ instance' = Set(instance, created, "listening")
        /\ main' = "waiting"
        /\ UNCHANGED <<toServer, toClient>>
     \/ /\ instance[created] # "listening" \/ created \notin m_pipe
        /\ Disconnected => recycled # {}
        /\ main' = "drop"
        /\ UNCHANGED pipeVars
  /\ UNCHANGED <<bookkeeping, handleVars, threadVars>>

\* A client has connected, and HandleMessage calls CreateThread: the thread runs
\* before its handle has been stored.  Without a thread the pipe is reset.
EndConnect ==
  /\ main = "waiting" /\ instance[created] = "connected"
  /\ \/ /\ thread' = Set(thread, created, "read")
        /\ main' = "assign"
     \/ /\ CreateThreadFails
        /\ main' = "disconnect"
        /\ UNCHANGED thread
  /\ UNCHANGED <<bookkeeping, pipeVars, handleVars, m_messageThreadHandle,
                 csAllObjects, request, using>>

AssignHandle ==
  /\ main = "assign"
  /\ m_messageThreadHandle' = m_messageThreadHandle \cup {created}
  /\ main' = "create"
  /\ UNCHANGED <<bookkeeping, pipeVars, handleVars, thread, csAllObjects, request, using>>

ResetUnserved ==
  /\ main \in Resetting
  /\ NamedPipeReset(main, created)
  /\ main' = AfterReset(main, created, "create")
  /\ UNCHANGED <<bookkeeping, threadVars>>

\* WaitForMessage has failed: pop_back, under m_csAllMessageHandlers.
PopBack ==
  /\ main = "drop" /\ ~StopOwnsHandlers
  /\ allMessageHandlers' = SubSeq(allMessageHandlers, 1, Len(allMessageHandlers) - 1)
  /\ main' = "sleep"
  /\ UNCHANGED <<created, pipeVars, handleVars, threadVars>>

\* The handler is destroyed when Sleep is over, and its pipe closed.
DestroyHandler ==
  /\ main = "sleep"
  /\ \E k \in Denotes(created) : ~Busy(k) /\ Vanish(k)
  /\ m_pipe' = m_pipe \ {created}
  /\ closed' = closed \ {created}
  /\ main' = "create"
  /\ UNCHANGED <<bookkeeping, recycled, threadVars>>

MainServerThread ==
  /\ \/ TestExit \/ Push \/ CreatePipe \/ StartConnect \/ EndConnect
     \/ AssignHandle \/ ResetUnserved \/ PopBack \/ DestroyHandler
  /\ UNCHANGED <<stopVars, callVars, history>>
------------------------------------------------------------------------------
\* A message thread.  It reads m_pipe before each call.

\* HandleRequest is over; ProcessMessageThread resets the pipe.
Fail(h) == Goto(h, "disconnect") /\ request' = Set(request, h, Nothing)
Served == {k \in Handler : instance[k] = "connected" /\ HasClient(k)}

HandleRead(h) ==
  /\ At(h, "read")
  /\ \E k \in Denotes(h) :
       /\ ~Busy(k)
       /\ \/ /\ k # Nothing /\ instance[k] = "connected" /\ toServer[k] # Nothing
             /\ request' = Set(request, h, toServer[k])
             /\ toServer' = Set(toServer, k, Nothing)
             /\ Goto(h, "process")
             /\ UNCHANGED using
          \/ /\ k \notin Served /\ (k \in Handler => toServer[k] = Nothing)
             /\ Fail(h)
             /\ UNCHANGED <<toServer, using>>
          \/ /\ k \in Served /\ toServer[k] = Nothing
             /\ Goto(h, "reading")
             /\ using' = Set(using, h, k)
             /\ UNCHANGED <<request, toServer>>
  /\ UNCHANGED <<instance, toClient, csAllObjects, executions>>

\* ReadFile returns.
EndRead(h) ==
  /\ At(h, "reading")
  /\ LET k == using[h]
     IN \/ /\ toServer[k] # Nothing
           /\ request' = Set(request, h, toServer[k])
           /\ toServer' = Set(toServer, k, Nothing)
           /\ Goto(h, "process")
        \/ /\ toServer[k] = Nothing /\ k \notin Served
           /\ Fail(h)
           /\ UNCHANGED toServer
  /\ using' = Set(using, h, Nothing)
  /\ UNCHANGED <<instance, toClient, csAllObjects, executions>>

EnterAllObjects(h) ==
  /\ At(h, "process")
  /\ csAllObjects = Nothing
  /\ csAllObjects' = h
  /\ Goto(h, "locked")
  /\ UNCHANGED <<pipeVars, request, using, executions>>

\* Fault: ProcessRequest returns inside its critical section.
ExecuteInside(h) ==
  /\ At(h, "locked")
  /\ executions' = [executions EXCEPT ![request[h]] = @ + 1]
  /\ Goto(h, "write")
  /\ UNCHANGED <<pipeVars, request, using, csAllObjects>>

\* ProcessRequest, in its critical section.
Execute(h) ==
  /\ At(h, "locked")
  /\ executions' = [executions EXCEPT ![request[h]] = @ + 1]
  /\ csAllObjects' = Nothing
  /\ Goto(h, "write")
  /\ UNCHANGED <<pipeVars, request, using>>

HandleWrite(h) ==
  /\ At(h, "write")
  /\ \E k \in Denotes(h) :
       /\ ~Busy(k)
       /\ \/ /\ k \in Served /\ ResponsePasses(k)
             /\ toClient' = Set(toClient, k, request[h])
             /\ Goto(h, "flush")
             /\ UNCHANGED request
          \/ /\ ~(k \in Served /\ ResponsePasses(k))
             /\ Fail(h)
             /\ UNCHANGED toClient
  /\ UNCHANGED <<instance, toServer, using, csAllObjects, executions>>

\* FlushFileBuffers waits for the client to read, or fails.
HandleFlush(h) ==
  /\ At(h, "flush")
  /\ \E k \in Denotes(h) :
       /\ ~Busy(k)
       /\ \/ /\ k \in Served => toClient[k] = Nothing
             /\ Fail(h)
             /\ UNCHANGED using
          \/ /\ k \in Served /\ toClient[k] # Nothing
             /\ Goto(h, "flushing")
             /\ using' = Set(using, h, k)
             /\ UNCHANGED request
  /\ UNCHANGED <<pipeVars, csAllObjects, executions>>

EndFlush(h) ==
  /\ At(h, "flushing")
  /\ using[h] \in Served => toClient[using[h]] = Nothing
  /\ Fail(h)
  /\ using' = Set(using, h, Nothing)
  /\ UNCHANGED <<pipeVars, csAllObjects, executions>>

HandleReset(h) ==
  /\ thread[h] \in Resetting
  /\ NamedPipeReset(thread[h], h)
  /\ Goto(h, AfterReset(thread[h], h, "ended"))
  /\ UNCHANGED <<request, using, csAllObjects, executions>>

ProcessMessageThread(h) ==
  /\ \/ UNCHANGED handleVars /\ (\/ HandleRead(h) \/ EndRead(h) \/ EnterAllObjects(h)
                                 \/ Execute(h) \/ HandleWrite(h) \/ HandleFlush(h) \/ EndFlush(h))
     \/ HandleReset(h)
  /\ UNCHANGED <<mainVars, m_messageThreadHandle, stopVars, callVars, abandoned>>
------------------------------------------------------------------------------
\* RPCServer::Stop, on the thread of main(), and the end of the process.

Visited == allMessageHandlers[index]
pipeFrame == <<toServer, toClient>>
mainFrame == <<main, created, allMessageHandlers, m_messageThreadHandle, csAllObjects>>
threadFrame == <<thread, using, request>>

\* main() has read "q"; SetEvent.
BeginStop ==
  /\ stop = "running"
  /\ stop' = "enter"
  /\ exitEvent' = TRUE
  /\ UNCHANGED <<index, totalHandlers, pipe, pipeVars, handleVars, threadFrame, mainFrame>>

\* EnterCriticalSection and size().
EnterLoop ==
  /\ stop = "enter"
  /\ totalHandlers' = Len(allMessageHandlers)
  /\ stop' = IF totalHandlers' = 0 THEN "waitMain" ELSE "visit"
  /\ UNCHANGED <<exitEvent, index, pipe, pipeVars, handleVars, threadFrame, mainFrame>>

\* ServerMessageHandler::Stop.  Without a thread a client is faked; it gets
\* whichever instance listens, or none.
Visit ==
  /\ stop = "visit"
  /\ IF Visited \notin m_messageThreadHandle /\ Listening # {}
     THEN \E k \in Listening :
            /\ instance' = Set(instance, k, "connected")
            /\ pipe' = Set(pipe, Fake, k)
            /\ stop' = "fakeClose"
     ELSE stop' = "disconnect" /\ UNCHANGED <<instance, pipe>>
  /\ UNCHANGED <<exitEvent, index, totalHandlers, pipeFrame, handleVars, threadFrame, mainFrame>>

CloseFake ==
  /\ stop = "fakeClose"
  /\ pipe' = Set(pipe, Fake, Nothing)
  /\ stop' = "disconnect"
  /\ UNCHANGED <<exitEvent, index, totalHandlers, pipeVars, handleVars, threadFrame, mainFrame>>

ResetVisited ==
  /\ stop \in Resetting
  /\ NamedPipeReset(stop, Visited)
  /\ stop' = AfterReset(stop, Visited, "wait")
  /\ UNCHANGED <<exitEvent, index, totalHandlers, pipe, threadFrame, mainFrame>>

Running(h) == thread[h] \notin {"none", "ended", "killed"}

TerminateThread(h) ==
  /\ thread' = Set(thread, h, "killed")
  /\ using' = Set(using, h, Nothing)
  /\ request' = Set(request, h, Nothing)

\* Fault: a thread that has not ended in time is left alone.
WaitOnce(h) == UNCHANGED threadFrame

\* A thread that does not end in time is terminated, wherever it is.
WaitAndTerminateThread(h) ==
  IF h \in m_messageThreadHandle /\ Running(h) THEN TerminateThread(h) ELSE UNCHANGED threadFrame

\* Sleep, the wait, and the step of the loop.
WaitVisited ==
  /\ stop = "wait"
  /\ WaitAndTerminateThread(Visited)
  /\ \/ /\ index < totalHandlers
        /\ stop' = "visit"
        /\ index' = index + 1
        /\ UNCHANGED totalHandlers
     \/ /\ index = totalHandlers
        /\ stop' = "waitMain"
        /\ index' = 1 /\ totalHandlers' = 0
  /\ UNCHANGED <<exitEvent, pipe, pipeVars, handleVars, mainFrame>>

\* Fault: the main thread is waited for until it ends.
WaitForMain ==
  /\ stop = "waitMain" /\ main = "ended"
  /\ stop' = "returned"
  /\ UNCHANGED <<main, exitEvent, index, totalHandlers, pipe, pipeVars, handleVars, threadFrame,
                 bookkeeping, m_messageThreadHandle, csAllObjects>>

\* The main thread has ended, or is terminated.
WaitMain ==
  /\ stop = "waitMain"
  /\ main' = IF main = "ended" THEN main ELSE "killed"
  /\ stop' = "returned"
  /\ UNCHANGED <<exitEvent, index, totalHandlers, pipe, pipeVars, handleVars, threadFrame,
                 bookkeeping, m_messageThreadHandle, csAllObjects>>

\* ~RPCServer destroys the handlers: Stop has reset the pipes of all but the
\* newest.  (~ObjectManager, which comes before, only touches objects.)
Destruct ==
  /\ stop = "returned"
  /\ LET open == {h \in m_pipe : \E i \in DOMAIN allMessageHandlers : allMessageHandlers[i] = h}
     IN /\ \A h \in open : ~Busy(h)
        /\ instance' = [h \in Handler |-> IF h \in open THEN "gone" ELSE instance[h]]
        /\ toServer' = [h \in Handler |-> IF h \in open THEN Nothing ELSE toServer[h]]
        /\ toClient' = [h \in Handler |-> IF h \in open THEN Nothing ELSE toClient[h]]
        /\ m_pipe' = m_pipe \ open
        /\ closed' = closed \ open
  /\ stop' = "destroyed"
  /\ UNCHANGED <<exitEvent, index, totalHandlers, pipe, recycled, threadFrame, mainFrame>>

\* The process ends: the system ends its threads and closes its pipes.
ExitProcess ==
  /\ stop = "destroyed"
  /\ instance' = [h \in Handler |-> IF h \in Instances THEN "gone" ELSE instance[h]]
  /\ toServer' = [h \in Handler |-> Nothing]
  /\ toClient' = [h \in Handler |-> Nothing]
  /\ thread' = [h \in Handler |-> IF Running(h) THEN "killed" ELSE thread[h]]
  /\ using' = [h \in Handler |-> Nothing]
  /\ request' = [h \in Handler |-> Nothing]
  /\ stop' = "exited"
  /\ UNCHANGED <<exitEvent, index, totalHandlers, pipe, handleVars, mainFrame>>

callFrame == <<pc, polls, size, sent, calls, outcome, answer>>
Stop ==
  /\ \/ EnterLoop \/ Visit \/ CloseFake \/ ResetVisited \/ WaitVisited
     \/ WaitMain \/ Destruct \/ ExitProcess
  /\ UNCHANGED <<callFrame, history>>

RequestStop == BeginStop /\ UNCHANGED <<callFrame, history>>
------------------------------------------------------------------------------
Caller(c) ==
  /\ c # Fake
  /\ Issue(c) \/ SendRequest(c)
  /\ UNCHANGED <<stopVars, handleVars, m_messageThreadHandle, csAllObjects, request, using>>
CallerContinues(c) ==
  /\ c # Fake
  /\ SendRequest(c)
  /\ UNCHANGED <<stopVars, handleVars, m_messageThreadHandle, csAllObjects, request, using>>

ShutdownNext ==
  \/ MainServerThread
  \/ \E h \in Handler : ProcessMessageThread(h)
  \/ RequestStop
  \/ Stop
  \/ \E c \in Client : Caller(c)

ShutdownSpec == ShutdownInit /\ [][ShutdownNext]_shutdownVars

\* Every thread runs.  Nobody has to stop the server, to call it or to be killed.
FairShutdown ==
  /\ ShutdownSpec
  /\ WF_shutdownVars(MainServerThread) /\ WF_shutdownVars(Stop)
  /\ \A h \in Handler : WF_shutdownVars(ProcessMessageThread(h))
  /\ \A c \in Client : WF_shutdownVars(CallerContinues(c))
------------------------------------------------------------------------------
\* Every variable has a value of its type.
ShutdownTypeOK ==
  /\ main \in Resetting \cup { "create", "push", "pipe", "connect", "waiting", "assign",
                               "drop", "sleep", "ended", "killed" }
  /\ created \in 0 .. Cardinality(Handler)
  /\ allMessageHandlers \in Seq(Handler)
  /\ instance \in [Handler -> {"none", "listening", "connected", "gone"}]
  /\ thread \in [Handler -> Resetting \cup { "none", "read", "reading", "process", "locked",
                                             "write", "flush", "flushing", "ended", "killed" }]
  /\ toServer \in [Handler -> CallId \cup {Nothing}]
  /\ toClient \in [Handler -> CallId \cup {Nothing}]
  /\ pc \in [Client -> {"idle", "open", "wait", "write", "read"}]
  /\ pipe \in [Client -> Handler \cup {Nothing}]
  /\ polls \in [Client -> 0 .. MaxPolls]
  /\ size \in [Client -> Sizes \cup {"fits"}]
  /\ sent \in [Client -> BOOLEAN]
  /\ calls \in [Client -> 0 .. MaxCalls]
  /\ outcome \in [Client -> { ERROR_SUCCESS, ERROR_SEND_FAILED, ERROR_RECEIVE_FAILED,
                               ERROR_SERVER_NO_RESPONSE }]
  /\ answer \in [Client -> Client \X (0 .. MaxCalls)]
  /\ executions \in [CallId -> Nat]
  /\ abandoned \subseteq CallId
  /\ exitEvent \in BOOLEAN
  /\ stop \in Resetting \cup { "running", "enter", "visit", "fakeClose", "wait", "waitMain",
                               "returned", "destroyed", "exited" }
  /\ index \in Nat \ {0} /\ totalHandlers \in Nat
  /\ m_pipe \subseteq Handler /\ m_messageThreadHandle \subseteq Handler
  /\ csAllObjects \in Handler \cup {Nothing}
  /\ request \in [Handler -> CallId \cup {Nothing}]
  /\ using \in [Handler -> Handler \cup {Nothing}]
  /\ closed \subseteq m_pipe /\ recycled \subseteq Handler

Returned == {"returned", "destroyed", "exited"}

\* Stop ends the thread of every handler it finds; only a handler the main
\* thread was busy with can still have a thread when Stop returns, and that is
\* the newest one (RPCServer.cpp:73-84).
OnlyNewestThreadSurvives ==
  stop \in Returned => \A h \in Handler : Running(h) => h = created

\* What a caller is told stays true when the server stops under it: no call is
\* executed twice, one that is reported as unanswered by any server is not
\* executed at all, and one that succeeds was executed and hands out its own
\* response.  A call that has failed to receive may still be executed.  The
\* exception is a message thread that uses its handle between Stop's CloseHandle
\* and m_pipe = NULL, when the newest pipe has got the value of the handle: its
\* response then goes to the caller of that pipe (NamedPipe.cpp:176-178).
HandleIsReused == exitEvent /\ recycled # {}
OutcomesHold ==
  /\ \A i \in CallId : executions[i] <= 1
  /\ \A c \in Client :
       pc[c] = "idle" /\ calls[c] > 0 =>
         /\ outcome[c] = ERROR_SUCCESS /\ ~HandleIsReused => answer[c] = Latest(c) /\ executions[Latest(c)] = 1
         /\ outcome[c] = ERROR_SERVER_NO_RESPONSE => executions[Latest(c)] = 0

\* Stop waits in DisconnectNamedPipe for a client to connect: the main thread
\* has created the pipe and entered ConnectNamedPipe after Stop had found
\* nothing for its fake client to open (ServerMessageHandler.cpp:106-117).
WaitsForConnect == stop \in {"disconnect", "close"} /\ main = "waiting" /\ Visited = created

\* A server that is stopped exits, whatever its threads are at, unless it hangs
\* in the one way above, or a handle is reused.
StopReturns ==
  stop = "enter" ~> (stop = "exited" \/ []WaitsForConnect \/ HandleIsReused)

\* A call returns to its caller, also when the server stops in the middle of it
\* or exits; with the same exception.
CallsReturn == \A c \in Client : pc[c] # "idle" ~> (pc[c] = "idle" \/ HandleIsReused)
------------------------------------------------------------------------------
\* A claim of the source that the code does not meet.

\* RPCServer.cpp:71: "Wait for the message handlers to exit."
StopEndsThreads == stop \in Returned => \A h \in Handler : ~Running(h)
==============================================================================
