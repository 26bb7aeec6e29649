------------------------------ MODULE AsyncClient ------------------------------
(***************************************************************************)
(* ClientStub with asynchronous calls, and programs that end while they    *)
(* are under way.  An asynchronous call runs SendRequest and then the      *)
(* callback on a thread of the client, which its ClientMessageHandler      *)
(* keeps; the RPCClient keeps the handlers and stops them when it is       *)
(* destroyed.  Users of calculators make synchronous calls and             *)
(* LongOperation(..., TRUE, ...); the others use SendPrimitivecDataAsync   *)
(* and GetPrimitiveDataAsync, as Client/Client.cpp does.                   *)
(*                                                                         *)
(* A client program can be killed, and the server can end and be started   *)
(* again, with an empty collection and the same addresses.                 *)
(***************************************************************************)
EXTENDS ClientStub

CONSTANTS
  MaxHandlers,  \* bound on the asynchronous calls of one RPCClient
  MaxFaults     \* bound on programs that end and threads that are not created,
                \* for each workload

ASSUME BoundsAssumption == MaxHandlers \in Nat /\ MaxFaults \in [Workloads -> Nat]

VARIABLES
  handlers,  \* m_asyncMessageHandlers
  stopped,   \* how many of them ~RPCClient has stopped
  closed,    \* ~RPCClient has closed the pipe of the next one
  output,    \* what the last callback was given for a result
  faults,    \* number of faults that may still happen
  stale      \* history: a handle was in use when the server ended

asyncVars == <<handlers, stopped, closed, output>>
faultVars == <<faults, stale>>
asyncAllVars == <<allVars, asyncVars, faultVars>>

AsyncInit ==
  /\ ClientInit
  /\ handlers = [c \in Client |-> <<>>]
  /\ stopped = [c \in Client |-> 0]
  /\ closed = [c \in Client |-> FALSE]
  /\ output = [c \in Client |-> EmptyArgument]
  /\ faults = MaxFaults[requests]
  /\ stale = FALSE

\* Handler i of c.  Its thread is in SendRequest, without the pipe ("open") or
\* waiting for the response ("read"), then in the callback, then no more.
Handlers(c) == DOMAIN handlers[c]
Gone == {"ended", "terminated", "noThread"}
SetHandler(c, i, h) == handlers' = [handlers EXCEPT ![c][i] = h]
NewHandler(label, r) ==
  [at |-> label, request |-> r, thread |-> NoThread, error |-> ERROR_SUCCESS, response |-> <<>>]

\* A server thread has its request from handler i of c, or from c itself.
ReadBy(t) == \E c \in Client : serving[c] = t \/ \E i \in Handlers(c) : handlers[c][i].thread = t
\* The handle of a new object in a response, if it is one.
Brought(m) == IF m # <<>> /\ Constructs(m) THEN {CreatedHandle(m)} ELSE {}
------------------------------------------------------------------------------
Fault == faults > 0 /\ faults' = faults - 1

\* RPCClient::Invoke with async TRUE: the handler is kept before its thread is
\* created, and stays when that fails.  ~RPCClient is not running yet.
InvokeAsync(c, r) ==
  /\ requests[c] > 0 /\ Len(handlers[c]) < MaxHandlers
  /\ requests' = Set(requests, c, requests[c] - 1)
  /\ \/ /\ handlers' = [handlers EXCEPT ![c] = Append(@, NewHandler("open", r))]
        /\ UNCHANGED faults
     \/ /\ handlers' = [handlers EXCEPT ![c] = Append(@, NewHandler("noThread", r))]
        /\ Fault
  /\ UNCHANGED <<vars, stale, phase, proxy, request, serving, sent, result, got, orphaned,
                 stopped, closed, output>>

\* LongOperation(..., TRUE, cb, ...)
LongOperationAsync(c) ==
  /\ c \in Calculators
  /\ phase[c] = "ready"
  /\ InvokeAsync(c, Request(proxy[c], LongOperationDispID, <<EmptyArgument, EmptyArgument>>))

\* SendPrimitivecDataAsync, once; then GetPrimitiveDataAsync with the handle the
\* callback has stored.
SendPrimitivecDataAsync(c) ==
  /\ c \notin Calculators
  /\ phase[c] = "out" /\ handlers[c] = <<>>
  /\ InvokeAsync(c, Request(NullHandle, eCreateIntDispId, <<sent[c]>>))
GetPrimitiveDataAsync(c) ==
  /\ c \notin Calculators
  /\ phase[c] = "ready"
  /\ InvokeAsync(c, Request(proxy[c], eCreateIntDispId, <<>>))
------------------------------------------------------------------------------
\* The thread of handler i: SendRequest, as ClientStub has it for other calls.
UnchangedByHandler == UNCHANGED <<clientVars, faultVars, stopped, closed, output>>

AsyncDeliver(c, i) ==
  LET h == handlers[c][i]
  IN /\ h.at = "open"
     /\ \E t \in Thread :
          /\ Receive(t, h.request)
          /\ SetHandler(c, i, [h EXCEPT !.at = "read", !.thread = t])
     /\ UnchangedByHandler

AsyncReturns(c, i, e, m) ==
  /\ SetHandler(c, i, [handlers[c][i] EXCEPT
       !.at = "callback", !.thread = NoThread, !.error = e, !.response = m])
  /\ UnchangedByHandler

\* Fault: the polls are not counted.
PollForever(c, i) ==
  /\ handlers[c][i].at = "open"
  /\ UNCHANGED asyncAllVars

AsyncNotServed(c, i) ==
  /\ handlers[c][i].at = "open"
  /\ \E e \in TransportError : AsyncReturns(c, i, e, <<>>)
  /\ UNCHANGED vars

\* Fault: the handlers share the Marshaller of the response.
AsyncAnsweredByAny(c, i) ==
  LET t == handlers[c][i].thread
  IN /\ handlers[c][i].at = "read" /\ At(t, "done")
     /\ \E u \in Thread : At(u, "done") /\ AsyncReturns(c, i, ERROR_SUCCESS, msg[u])
     /\ End(t)

AsyncAnswered(c, i) ==
  LET t == handlers[c][i].thread
  IN /\ handlers[c][i].at = "read" /\ At(t, "done")
     /\ AsyncReturns(c, i, ERROR_SUCCESS, msg[t])
     /\ End(t)

AsyncDisconnected(c, i) ==
  /\ handlers[c][i].at = "read" /\ ~alive
  /\ AsyncReturns(c, i, ERROR_RECEIVE_FAILED, <<>>)
  /\ UNCHANGED vars

\* Fault: the result is taken from the first position.
FirstFunctionParameter(m) == GetFunctionParameter(m, 1, EmptyArgument)

\* The rest of HandleAsyncRequest: the last parameter is the result, whatever
\* the error code in the response; without response it is T{}.
LastFunctionParameter(m) ==
  IF m = <<>> THEN EmptyArgument
  ELSE GetFunctionParameter(m, Len(m) - eDispIdPosition, EmptyArgument)

\* The callback of a creation stores the handle, which nobody will use when
\* the program is leaving.
Callback(c, i) ==
  LET h == handlers[c][i]
      o == LastFunctionParameter(h.response)
  IN /\ h.at = "callback"
     /\ SetHandler(c, i, [h EXCEPT !.at = "ended"])
     /\ \/ /\ ~IsGlobal(h.request)
           /\ output' = Set(output, c, o)
           /\ UNCHANGED <<proxy, phase, orphaned>>
        \/ /\ IsGlobal(h.request) /\ o # EmptyArgument /\ phase[c] = "out"
           /\ proxy' = Set(proxy, c, o)
           /\ phase' = Set(phase, c, "ready")
           /\ UNCHANGED <<orphaned, output>>
        \/ /\ IsGlobal(h.request) /\ (o = EmptyArgument \/ phase[c] # "out")
           /\ orphaned' = orphaned \cup Brought(h.response)
           /\ UNCHANGED <<proxy, phase, output>>
     /\ UNCHANGED <<vars, faultVars, request, serving, sent, result, got, requests,
                    stopped, closed>>

HandlerThread(c, i) ==
  \/ AsyncDeliver(c, i) \/ AsyncNotServed(c, i) \/ AsyncAnswered(c, i)
  \/ AsyncDisconnected(c, i) \/ Callback(c, i)
------------------------------------------------------------------------------
\* A user of primitive data leaves the scope of its RPCClient.  Its object, which
\* no function deletes, is nobody's from now on.
LeaveScope(c) ==
  /\ c \notin Calculators
  /\ phase[c] \in {"out", "ready"} /\ handlers[c] # <<>>
  /\ phase' = Set(phase, c, "finished")
  /\ proxy' = Set(proxy, c, NullHandle)
  /\ orphaned' = orphaned \cup ({proxy[c]} \ {NullHandle})
  /\ UNCHANGED <<vars, asyncVars, faultVars, request, serving, sent, result, got, requests>>

\* ~RPCClient is running: for a calculator, its ~ClientStub is over.
Destructing(c) ==
  /\ phase[c] = IF c \in Calculators THEN "out" ELSE "finished"
  /\ stopped[c] < Len(handlers[c])

\* ClientMessageHandler::Stop closes the pipe.  A read that is under way fails;
\* or Close waits for it, which is this step being taken later.
ClosePipe(c) ==
  LET i == stopped[c] + 1
      h == handlers[c][i]
  IN /\ Destructing(c) /\ ~closed[c]
     /\ closed' = Set(closed, c, TRUE)
     /\ IF h.at = "read"
        THEN SetHandler(c, i, [h EXCEPT
               !.at = "callback", !.thread = NoThread, !.error = ERROR_RECEIVE_FAILED])
        ELSE UNCHANGED handlers
     /\ UNCHANGED <<allVars, faultVars, stopped, output>>

\* Fault: the thread gets its 100 ms, and that is all.
WaitOnly(c) ==
  /\ Destructing(c) /\ closed[c]
  /\ stopped' = Set(stopped, c, stopped[c] + 1)
  /\ closed' = Set(closed, c, FALSE)
  /\ UNCHANGED <<allVars, faultVars, handlers, output>>

\* Fault: the wait has no limit, and takes place for a thread that was not created.
WaitInfinite(c) ==
  /\ Destructing(c) /\ closed[c]
  /\ handlers[c][stopped[c] + 1].at \in Gone \ {"noThread"}
  /\ stopped' = Set(stopped, c, stopped[c] + 1)
  /\ closed' = Set(closed, c, FALSE)
  /\ UNCHANGED <<allVars, faultVars, handlers, output>>

\* WaitAndTerminateThread: the thread may be anywhere when its time is over.
WaitAndTerminateThread(c) ==
  LET i == stopped[c] + 1
      h == handlers[c][i]
  IN /\ Destructing(c) /\ closed[c]
     /\ stopped' = Set(stopped, c, i)
     /\ closed' = Set(closed, c, FALSE)
     /\ IF h.at \in Gone
        THEN UNCHANGED <<handlers, orphaned>>
        ELSE /\ SetHandler(c, i, [h EXCEPT !.at = "terminated", !.thread = NoThread])
             /\ orphaned' = orphaned \cup Brought(h.response)
     /\ UNCHANGED <<vars, faultVars, phase, proxy, request, serving, sent, result, got,
                    requests, output>>

\* The next ClientStub<ICalculator> has no handlers.
CreateStub(c) ==
  /\ c \in Calculators
  /\ stopped[c] = Len(handlers[c])
  /\ Create(c)
  /\ handlers' = Set(handlers, c, <<>>)
  /\ stopped' = Set(stopped, c, 0)
  /\ UNCHANGED <<closed, output, faultVars>>
------------------------------------------------------------------------------
\* A response nobody waits for: Write or Flush fails, and the thread ends.
Discard(t) ==
  /\ At(t, "done") /\ ~ReadBy(t)
  /\ End(t)
  /\ orphaned' = orphaned \cup Brought(msg[t])
  /\ UNCHANGED <<phase, proxy, request, serving, sent, result, got, requests, asyncVars, faultVars>>

\* A deletion the server has read will be carried out.
Deleting(a) ==
  \E t \in Thread :
    pc[t] \in {"process", "enterDelete", "delete"} /\ IsDelete(msg[t]) /\ ObjectToDelete(msg[t]) = a

\* The program of c is ended from outside.
Kill(c) ==
  /\ phase[c] # "killed" /\ Fault
  /\ phase' = Set(phase, c, "killed")
  /\ proxy' = Set(proxy, c, NullHandle)
  /\ request' = Set(request, c, <<>>)
  /\ serving' = Set(serving, c, NoThread)
  /\ handlers' = Set(handlers, c, [i \in Handlers(c) |->
       [handlers[c][i] EXCEPT !.at = "terminated", !.thread = NoThread]])
  /\ orphaned' = orphaned
       \cup {a \in {proxy[c]} \ {NullHandle} : ~Deleting(a)}
       \cup UNION {Brought(handlers[c][i].response) : i \in {j \in Handlers(c) : handlers[c][j].at = "callback"}}
  /\ UNCHANGED <<vars, stale, sent, result, got, requests, stopped, closed, output>>

\* The server has ended with the request of a synchronous call: Read fails.
Disconnected(c) ==
  /\ ~alive
  /\ serving[c] # NoThread
  /\ Return(c, ERROR_RECEIVE_FAILED, <<>>)
  /\ UNCHANGED vars
Finishes(c) == Answered(c) \/ Disconnected(c)

\* The server program ends, and is started again when all have noticed.
Crash ==
  /\ alive /\ Fault
  /\ alive' = FALSE
  /\ UNCHANGED <<heap, allObjects, csOwner, pc, msg, stub, clientVars, asyncVars, stale>>
Restart ==
  /\ ~alive
  /\ \A t \in Thread : ~ReadBy(t)
  /\ heap' = [a \in Address |-> Free] /\ allObjects' = {}
  /\ csOwner' = NoThread
  /\ pc' = [t \in Thread |-> "idle"] /\ msg' = [t \in Thread |-> <<>>]
  /\ stub' = [t \in Thread |-> NullHandle]
  /\ alive' = TRUE
  /\ stale' = \/ stale
              \/ \E c \in Client :
                   \/ proxy[c] # NullHandle
                   \/ \E i \in Handlers(c) :
                        handlers[c][i].at = "open" /\ ~IsGlobal(handlers[c][i].request)
                   \/ \E i \in Handlers(c) : handlers[c][i].at = "callback"
  /\ orphaned' = {}
  /\ UNCHANGED <<phase, proxy, request, serving, sent, result, got, requests, asyncVars, faults>>

Synchronously(A) == A /\ UNCHANGED <<asyncVars, faultVars>>
Invokes(c) ==
  \/ CreateStub(c) \/ LongOperationAsync(c)
  \/ SendPrimitivecDataAsync(c) \/ GetPrimitiveDataAsync(c) \/ LeaveScope(c)
  \/ Synchronously(c \in Calculators /\ Call(c)) \/ Synchronously(Destroy(c))
Destructor(c) == ClosePipe(c) \/ WaitAndTerminateThread(c)
ServerThread(t) == Synchronously(Serve(t)) \/ Discard(t)

AsyncNext ==
  \/ \E c \in Client :
       \/ Invokes(c) \/ Destructor(c) \/ Kill(c)
       \/ Synchronously(Transfer(c)) \/ Synchronously(Finishes(c))
       \/ \E i \in Handlers(c) : HandlerThread(c, i)
  \/ \E t \in Thread : ServerThread(t)
  \/ Crash \/ Restart

AsyncSpec == AsyncInit /\ [][AsyncNext]_asyncAllVars

\* Threads run, and the pipe hands a request over or gives up.  Nobody has to
\* make a call, to end a program or to start it again.
FairAsync ==
  /\ AsyncSpec
  /\ \A c \in Client :
       /\ WF_asyncAllVars(Synchronously(Transfer(c)))
       /\ WF_asyncAllVars(Synchronously(Finishes(c)))
       /\ WF_asyncAllVars(Destructor(c))
       /\ \A i \in 1 .. MaxHandlers :
            WF_asyncAllVars(i \in Handlers(c) /\ HandlerThread(c, i))
  /\ \A t \in Thread : WF_asyncAllVars(ServerThread(t))
------------------------------------------------------------------------------
\* Every variable has a value of its type; a handler has a thread of the server
\* exactly while its own thread reads.
AsyncTypeOK ==
  /\ TypeOK
  /\ phase \in [Client -> {"out", "creating", "ready", "calling", "deleting", "finished", "killed"}]
  /\ proxy \in [Client -> Handle] /\ output \in [Client -> Argument]
  /\ request \in [Client -> Seq(Argument)] /\ serving \in [Client -> Thread \cup {NoThread}]
  /\ sent \in [Client \ Calculators -> Value] /\ requests \in [Client -> Nat]
  /\ result \in [Client -> ServerErrorCode \cup TransportError]
  /\ got \in [Client -> Argument]
  /\ orphaned \subseteq Address
  /\ DOMAIN handlers = Client /\ DOMAIN stopped = Client /\ DOMAIN closed = Client
  /\ \A c \in Client :
       /\ Handlers(c) = 1 .. Len(handlers[c])
       /\ stopped[c] \in 0 .. Len(handlers[c]) /\ closed[c] \in BOOLEAN
       /\ \A i \in Handlers(c) :
            LET h == handlers[c][i]
            IN /\ h.at \in Gone \cup {"open", "read", "callback"}
               /\ h.request \in Seq(Argument) /\ h.response \in Seq(Argument)
               /\ h.error \in {ERROR_SUCCESS} \cup TransportError
               /\ h.thread \in IF h.at = "read" THEN Thread ELSE {NoThread}
  /\ faults \in Nat /\ stale \in BOOLEAN

\* The handle of a client stands for its own object and for nobody else's, also
\* with calls in the background, clients that are killed and servers that are
\* started again; unless somebody carried a handle over to the next server,
\* whose addresses are the same (CalculatorClient.h:29, ObjectManager.cpp:116).
HandlesStandForOwnObjects == ~stale => ProxyOwnsObject /\ OwnershipIsExclusive

\* Unless a handle was carried over to the next server, a call somebody waits
\* for reaches a live object: only calls in the background can be overtaken by a
\* deletion (ObjectManager.cpp:78, CalculatorClient.h:36).
AwaitedCallsReachLiveObjects ==
  \A c \in Client :
    /\ ~stale /\ serving[c] # NoThread
    /\ pc[serving[c]] = "invoke"
    => heap[stub[serving[c]]] # Free

\* An object outlives its client only when nobody could be told its handle, its
\* client has been killed or has no function to delete it with, or the
\* deletion failed: no other interleaving leaves an object on the server.
ObjectsAreAccountedFor ==
  \A a \in Address :
    heap[a] # Free =>
      \/ a \in orphaned \/ Deleting(a)
      \/ \E c \in Client : Holds(c) /\ proxy[c] = a
      \/ \E t \in Thread :
           stub[t] = a /\ pc[t] \in {"enterInsert", "insert", "done"} /\ Constructs(msg[t])
      \/ \E c \in Client : \E i \in Handlers(c) :
           handlers[c][i].at = "callback" /\ a \in Brought(handlers[c][i].response)

\* A callback that is told of success is given the response to its own request,
\* though several handlers of a client and handlers of other clients are under
\* way: of a creation the handle of an object with the value that was sent, of a
\* read that value.  Excepted are servers whose predecessor's handles are still
\* used (ClientMessageHandler.h:103-130).
CallbackHearsItsAnswer ==
  \A c \in Client : \A i \in Handlers(c) :
    LET h == handlers[c][i]
        o == LastFunctionParameter(h.response)
    IN ~stale /\ h.at \in {"callback", "ended"} /\ h.error = ERROR_SUCCESS =>
         /\ GetObjectId(h.response) = GetObjectId(h.request)
         /\ GetDispId(h.response) = GetDispId(h.request)
         /\ c \notin Calculators /\ IsGlobal(h.request) =>
              o \in Address /\ (h.at = "callback" => heap[o] = sent[c])
         /\ c \notin Calculators /\ ~IsGlobal(h.request) => o = sent[c]

\* When ~RPCClient returns no thread of a handler is left: none of them uses its
\* freed handler or calls back (RPCClient.cpp:18-22, ClientMessageHandler.cpp:66).
CallbacksEndWithClient ==
  \A c \in Client : \A i \in 1 .. stopped[c] : handlers[c][i].at \in Gone

\* Every asynchronous call comes to its end, the callback included.
Running(c, i) == i \in Handlers(c) /\ handlers[c][i].at \notin Gone
AsyncCallsEnd == \A c \in Client : \A i \in 1 .. MaxHandlers : Running(c, i) ~> ~Running(c, i)

\* ~RPCClient returns.
DestructorReturns == \A c \in Client : Destructing(c) ~> ~Destructing(c)
------------------------------------------------------------------------------
\* Two claims of the documentation that the code does not meet.

\* ClientMessageHandler.h:11-14 leaves it to the client whether to make a call
\* asynchronously, "and server need not care" (ServerSurvives of ClientStub).

\* RPC.h:6-8 describes the first parameter of a callback as "Errorcode of the
\* remote operation - success or error code".
CallbackHearsTheOutcome ==
  \A c \in Client : \A i \in Handlers(c) :
    handlers[c][i].at = "ended" /\ handlers[c][i].error = ERROR_SUCCESS =>
      GetErrorCode(handlers[c][i].response) = ERROR_SUCCESS
==============================================================================
