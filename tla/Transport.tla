------------------------------ MODULE Transport ------------------------------
(***************************************************************************)
(* One remote call over the named pipe: the main thread of RPCServer, the  *)
(* message threads of its ServerMessageHandlers, the callers in            *)
(* ClientMessageHandler::SendRequest, and the pipe (NamedPipe) with the    *)
(* kernel behind it.                                                       *)
(*                                                                         *)
(* Each handler owns one instance of the pipe and, later, one thread, so   *)
(* one number names all three.  An instance listens from CreateNamedPipe   *)
(* on: a client can open it before the server is in ConnectNamedPipe.      *)
(***************************************************************************)
EXTENDS Constants, FiniteSets, Sequences

CONSTANTS
  Client,            \* callers
  MaxCalls,          \* bound on the calls of one caller
  MaxPolls,          \* MAX_NUMBER_OF_TIMES_TO_POLL
  Sizes,             \* the sizes of messages that occur
  CreateThreadFails, \* may HandleMessage fail to create a thread?
  Nothing,           \* no message in the pipe, no handler
  Abandoned          \* outcome of a call whose caller was killed

\* fits: request and response have fewer than PIPE_BUFFER_SIZE characters;
\* grows: the request has, its response has not; long: the request has not.
ASSUME TransportAssumption ==
  /\ Sizes \subseteq {"fits", "grows", "long"}
  /\ CreateThreadFails \in BOOLEAN
  /\ MaxCalls \in Nat \ {0} /\ MaxPolls \in Nat \ {0}
  /\ IsFiniteSet(Client)

VARIABLES
  main,                \* where MainServerThread is
  created,             \* number of handlers so far; the last is main's
  allMessageHandlers,  \* m_allMessageHandlers
  instance,            \* the server's end of the pipe of a handler
  thread,              \* where the message thread of a handler is
  toServer, toClient,  \* the message in each direction of an instance
  pc,                  \* where a caller is in SendRequest
  pipe,                \* the instance a caller has open, or Nothing
  polls,               \* failed OpenWithWaitOnBusy of the call
  size,                \* size of the request of the call
  sent,                \* FALSE: errorCode is ERROR_SEND_FAILED
  calls,               \* number of calls of a caller
  outcome, answer,     \* what SendRequest returned, and whose response
  executions,          \* history: ProcessRequest per call
  abandoned            \* history: calls whose caller was killed

serverVars == <<main, created, allMessageHandlers, instance, thread>>
callVars == <<pc, pipe, polls, size, sent, calls, outcome, answer>>
history == <<executions, abandoned>>
vars == <<serverVars, toServer, toClient, callVars, history>>

\* Every handler but the last has had a caller.
Handler == 1 .. (Cardinality(Client) * MaxCalls + 1)
CallId == Client \X (1 .. MaxCalls)
Latest(c) == <<c, calls[c]>>

ASSUME NothingAssumption == Nothing \notin Handler /\ Nothing \notin CallId

Init ==
  /\ main = "create" /\ created = 0 /\ allMessageHandlers = <<>>
  /\ instance = [h \in Handler |-> "none"]
  /\ thread = [h \in Handler |-> "none"]
  /\ toServer = [h \in Handler |-> Nothing]
  /\ toClient = [h \in Handler |-> Nothing]
  /\ pc = [c \in Client |-> "idle"]
  /\ pipe = [c \in Client |-> Nothing]
  /\ polls = [c \in Client |-> 0]
  /\ size = [c \in Client |-> "fits"]
  /\ sent = [c \in Client |-> FALSE]
  /\ calls = [c \in Client |-> 0]
  /\ outcome = [c \in Client |-> ERROR_SUCCESS]
  /\ answer = [c \in Client |-> <<c, 0>>]
  /\ executions = [i \in CallId |-> 0]
  /\ abandoned = {}

Set(f, x, y) == [f EXCEPT ![x] = y]
HasClient(h) == \E c \in Client : pipe[c] = h
Listening == {h \in Handler : instance[h] = "listening"}
Instances == {h \in Handler : instance[h] \in {"listening", "connected"}}
------------------------------------------------------------------------------
\* The main thread of the server.

\* A new handler, push_back and NamedPipe::Create.
Create ==
  /\ main = "create"
  /\ created < Cardinality(Handler)
  /\ created' = created + 1
  /\ allMessageHandlers' = Append(allMessageHandlers, created')
  /\ instance' = Set(instance, created', "listening")
  /\ main' = "connect"
  /\ UNCHANGED <<thread, toServer, toClient, callVars, history>>

\* ConnectNamedPipe waits for a client, or returns FALSE for one that is there.
Connect ==
  /\ main = "connect"
  /\ main' = IF instance[created] = "listening" THEN "waiting" ELSE "drop"
  /\ UNCHANGED <<created, allMessageHandlers, instance, thread, toServer, toClient,
                 callVars, history>>

Connected ==
  /\ main = "waiting" /\ instance[created] = "connected"
  /\ main' = "spawn"
  /\ UNCHANGED <<created, allMessageHandlers, instance, thread, toServer, toClient,
                 callVars, history>>

\* NamedPipe::Reset disconnects, which discards what nobody has read.
Reset(h) ==
  /\ instance' = Set(instance, h, "gone")
  /\ toServer' = Set(toServer, h, Nothing)
  /\ toClient' = Set(toClient, h, Nothing)

\* Fault: the handler at the front is taken for the one that has failed.
DropFront ==
  /\ main = "drop"
  /\ Len(allMessageHandlers) > 0
  /\ Reset(allMessageHandlers[1])
  /\ allMessageHandlers' = Tail(allMessageHandlers)
  /\ main' = "create"
  /\ UNCHANGED <<created, thread, callVars, history>>

\* WaitForMessage has failed: pop_back, which destroys the handler at the back
\* and so closes its pipe.
Drop ==
  /\ main = "drop"
  /\ Len(allMessageHandlers) > 0
  /\ LET last == Len(allMessageHandlers)
     IN /\ Reset(allMessageHandlers[last])
        /\ allMessageHandlers' = SubSeq(allMessageHandlers, 1, last - 1)
  /\ main' = "create"
  /\ UNCHANGED <<created, thread, callVars, history>>

\* HandleMessage; without a thread it resets the pipe and keeps the handler.
Spawn ==
  /\ main = "spawn"
  /\ main' = "create"
  /\ \/ /\ thread' = Set(thread, created, "read")
        /\ UNCHANGED <<instance, toServer, toClient>>
     \/ /\ CreateThreadFails
        /\ Reset(created)
        /\ UNCHANGED thread
  /\ UNCHANGED <<created, allMessageHandlers, callVars, history>>

Main == Create \/ Connect \/ Connected \/ Drop \/ Spawn
------------------------------------------------------------------------------
\* A message thread: HandleRequest, SendResponseToClient, Reset.

At(h, label) == thread[h] = label
Goto(h, label) == thread' = Set(thread, h, label)
mainVars == <<main, created, allMessageHandlers>>

\* Fault: the thread ends and leaves its instance connected.
EndThreadConnected(h) == Goto(h, "ended") /\ UNCHANGED <<instance, toServer, toClient>>

\* HandleRequest returns, and ProcessMessageThread resets the pipe.
EndThread(h) == Goto(h, "ended") /\ Reset(h)

\* Read fails when the client is gone without a message.
ServerRead(h) ==
  /\ At(h, "read")
  /\ \/ /\ toServer[h] # Nothing
        /\ Goto(h, "process")
        /\ UNCHANGED <<instance, toServer, toClient>>
     \/ /\ toServer[h] = Nothing /\ ~HasClient(h)
        /\ EndThread(h)
  /\ UNCHANGED <<mainVars, callVars, history>>

ProcessRequest(h) ==
  /\ At(h, "process")
  /\ Goto(h, "write")
  /\ executions' = [executions EXCEPT ![toServer[h]] = @ + 1]
  /\ UNCHANGED <<mainVars, instance, toServer, toClient, callVars, abandoned>>

\* Write fails when the client is gone or the response is too long.
ResponsePasses(h) == \E c \in Client : pipe[c] = h /\ size[c] = "fits"
ServerWrite(h) ==
  /\ At(h, "write")
  /\ \/ /\ ResponsePasses(h)
        /\ toClient' = Set(toClient, h, toServer[h])
        /\ Goto(h, "flush")
        /\ UNCHANGED <<instance, toServer>>
     \/ /\ ~ResponsePasses(h)
        /\ EndThread(h)
  /\ UNCHANGED <<mainVars, callVars, history>>

\* Fault: nothing waits for the client before the pipe is reset.
NoFlush(h) ==
  /\ At(h, "flush")
  /\ EndThread(h)
  /\ UNCHANGED <<mainVars, callVars, history>>

\* FlushFileBuffers waits until the client has read everything, or is gone.
Flush(h) ==
  /\ At(h, "flush")
  /\ toClient[h] = Nothing \/ ~HasClient(h)
  /\ EndThread(h)
  /\ UNCHANGED <<mainVars, callVars, history>>

MessageThread(h) == ServerRead(h) \/ ProcessRequest(h) \/ ServerWrite(h) \/ Flush(h)
------------------------------------------------------------------------------
\* A caller in SendRequest.

Issue(c) ==
  /\ pc[c] = "idle" /\ calls[c] < MaxCalls
  /\ pc' = Set(pc, c, "open")
  /\ calls' = Set(calls, c, calls[c] + 1)
  /\ \E s \in Sizes : size' = Set(size, c, s)
  /\ polls' = Set(polls, c, 0)
  /\ UNCHANGED <<serverVars, toServer, toClient, pipe, sent, outcome, answer, history>>

Return(c, error) ==
  /\ pc' = Set(pc, c, "idle")
  /\ outcome' = Set(outcome, c, error)

\* Fault: one attempt too many.
PollOnceMore(c) ==
  /\ polls' = Set(polls, c, polls[c] + 1)
  /\ \/ polls'[c] <= MaxPolls /\ pc' = Set(pc, c, "open") /\ UNCHANGED outcome
     \/ polls'[c] > MaxPolls /\ Return(c, ERROR_SERVER_NO_RESPONSE)

\* OpenWithWaitOnBusy has returned FALSE.
PollAgain(c) ==
  /\ polls' = Set(polls, c, polls[c] + 1)
  /\ \/ polls'[c] < MaxPolls /\ pc' = Set(pc, c, "open") /\ UNCHANGED outcome
     \/ polls'[c] = MaxPolls /\ Return(c, ERROR_SERVER_NO_RESPONSE)

\* CreateFile: opens a listening instance, reports ERROR_PIPE_BUSY when there
\* are others, and ERROR_FILE_NOT_FOUND when there are none.
Open(c) ==
  /\ pc[c] = "open"
  /\ \/ \E h \in Listening :
          /\ instance' = Set(instance, h, "connected")
          /\ pipe' = Set(pipe, c, h)
          /\ pc' = Set(pc, c, "write")
          /\ polls' = Set(polls, c, 0)
          /\ UNCHANGED outcome
     \/ /\ Listening = {} /\ Instances # {}
        /\ pc' = Set(pc, c, "wait")
        /\ UNCHANGED <<instance, pipe, polls, outcome>>
     \/ /\ Instances = {}
        /\ PollAgain(c)
        /\ UNCHANGED <<instance, pipe>>
  /\ UNCHANGED <<mainVars, thread, toServer, toClient, size, sent, calls, answer, history>>

\* WaitNamedPipe: an instance listens, and OpenWithWaitOnBusy returns TRUE
\* without having opened it; or the time is over.
Wait(c) ==
  /\ pc[c] = "wait"
  /\ \/ Listening # {} /\ Return(c, ERROR_SERVER_NO_RESPONSE) /\ UNCHANGED polls
     \/ PollAgain(c)
  /\ UNCHANGED <<serverVars, toServer, toClient, pipe, size, sent, calls, answer, history>>

Write(c) ==
  /\ pc[c] = "write"
  /\ pc' = Set(pc, c, "read")
  /\ LET ok == size[c] # "long" /\ instance[pipe[c]] = "connected"
     IN /\ sent' = Set(sent, c, ok)
        /\ toServer' = IF ok THEN Set(toServer, pipe[c], Latest(c)) ELSE toServer
  /\ UNCHANGED <<serverVars, toClient, pipe, polls, size, calls, outcome, answer, history>>

\* Fault: a call whose response did not arrive is sent again.
ReadOrRetry(c) ==
  /\ pc[c] = "read"
  /\ \/ /\ toClient[pipe[c]] # Nothing
        /\ Return(c, ERROR_SUCCESS)
        /\ answer' = Set(answer, c, toClient[pipe[c]])
        /\ toClient' = Set(toClient, pipe[c], Nothing)
     \/ /\ instance[pipe[c]] = "gone"
        /\ pc' = Set(pc, c, "open")
        /\ UNCHANGED <<outcome, answer, toClient>>
  /\ pipe' = Set(pipe, c, Nothing)
  /\ sent' = Set(sent, c, FALSE)
  /\ UNCHANGED <<serverVars, toServer, polls, size, calls, history>>

\* Read waits for a message or for the server to disconnect, even when Write
\* has failed; then the pipe is closed.
Read(c) ==
  /\ pc[c] = "read"
  /\ \/ /\ toClient[pipe[c]] # Nothing
        /\ Return(c, IF sent[c] THEN ERROR_SUCCESS ELSE ERROR_SEND_FAILED)
        /\ answer' = IF sent[c] THEN Set(answer, c, toClient[pipe[c]]) ELSE answer
        /\ toClient' = Set(toClient, pipe[c], Nothing)
     \/ /\ instance[pipe[c]] = "gone"
        /\ Return(c, ERROR_RECEIVE_FAILED)
        /\ UNCHANGED <<answer, toClient>>
  /\ pipe' = Set(pipe, c, Nothing)
  /\ sent' = Set(sent, c, FALSE)
  /\ UNCHANGED <<serverVars, toServer, polls, size, calls, history>>

\* The program of the caller is killed; the system closes its end of the pipe.
Kill(c) ==
  /\ pc[c] # "idle"
  /\ Return(c, Abandoned)
  /\ pipe' = Set(pipe, c, Nothing)
  /\ polls' = Set(polls, c, 0)
  /\ sent' = Set(sent, c, FALSE)
  /\ abandoned' = abandoned \cup {Latest(c)}
  /\ UNCHANGED <<serverVars, toServer, toClient, size, calls, answer, executions>>

SendRequest(c) == Open(c) \/ Wait(c) \/ Write(c) \/ Read(c)

Next ==
  \/ Main
  \/ \E h \in Handler : MessageThread(h)
  \/ \E c \in Client : Issue(c) \/ SendRequest(c) \/ Kill(c)

Spec == Init /\ [][Next]_vars
\* Every thread of both programs runs.
FairSpec ==
  /\ Spec
  /\ WF_vars(Main)
  /\ \A h \in Handler : WF_vars(MessageThread(h))
  /\ \A c \in Client : WF_vars(SendRequest(c))
------------------------------------------------------------------------------
\* Every variable has a value of its type.
TypeOK ==
  /\ main \in {"create", "connect", "waiting", "spawn", "drop"}
  /\ created \in 0 .. Cardinality(Handler)
  /\ allMessageHandlers \in Seq(Handler)
  /\ instance \in [Handler -> {"none", "listening", "connected", "gone"}]
  /\ thread \in [Handler -> {"none", "read", "process", "write", "flush", "ended"}]
  /\ toServer \in [Handler -> CallId \cup {Nothing}]
  /\ toClient \in [Handler -> CallId \cup {Nothing}]
  /\ pc \in [Client -> {"idle", "open", "wait", "write", "read"}]
  /\ pipe \in [Client -> Handler \cup {Nothing}]
  /\ polls \in [Client -> 0 .. MaxPolls]
  /\ size \in [Client -> Sizes \cup {"fits"}]
  /\ sent \in [Client -> BOOLEAN]
  /\ calls \in [Client -> 0 .. MaxCalls]
  /\ outcome \in [Client -> {ERROR_SUCCESS, ERROR_SEND_FAILED, ERROR_RECEIVE_FAILED,
                             ERROR_SERVER_NO_RESPONSE, Abandoned}]
  /\ answer \in [Client -> Client \X (0 .. MaxCalls)]
  /\ executions \in [CallId -> Nat]
  /\ abandoned \subseteq CallId

\* A call is executed at most once and its outcome says what happened: the
\* threads, the pipe and the callers implement RPCCall.
Call == INSTANCE RPCCall WITH pending <- {c \in Client : pc[c] # "idle"}
ImplementsRPCCall == Call!Spec

\* m_allMessageHandlers holds every handler whose thread runs, for
\* RPCServer::Stop to wait for, though failed handlers are taken off its back
\* while others run (RPCServer.cpp:110-119).
RunningHandlersAreKept ==
  \A h \in Handler :
    thread[h] \notin {"none", "ended"} =>
      \E i \in 1 .. Len(allMessageHandlers) : allMessageHandlers[i] = h

\* A response that fits is read by its caller, who is still there: Flush keeps
\* Reset from discarding it (ServerMessageHandler.cpp:91-94, 58-60).
ExecutedCallSucceeds ==
  \A c \in Client :
    /\ pc[c] = "idle" /\ calls[c] > 0
    /\ executions[Latest(c)] > 0 /\ size[c] = "fits"
    => outcome[c] \in {ERROR_SUCCESS, Abandoned}

\* No instance of the pipe outlives its use: the one main works on, or that of
\* a running message thread, are the only ones that are not closed.
NoInstanceLeaks ==
  \A h \in Instances :
    \/ thread[h] \notin {"none", "ended"}
    \/ h = created /\ main # "create"

\* Every call returns.
EveryCallReturns == \A c \in Client : pc[c] # "idle" ~> pc[c] = "idle"
------------------------------------------------------------------------------
\* A claim of the documentation that the code does not meet.  Another one,
\* EveryCallReturns, fails as soon as a request is too long for the pipe.

\* README.md:16: "When a client connects, ServerMessageHandler spawns a separte
\* thread to exchange message with that client".
ConnectedClientGetsThread ==
  \A c \in Client : pc[c] = "read" /\ instance[pipe[c]] = "gone" => thread[pipe[c]] # "none"
==============================================================================
