------------------------------ MODULE ClientStub ------------------------------
(***************************************************************************)
(* Clients and the server together.  A client is the user of one           *)
(* ClientStub<ICalculator> at a time (Client/CalculatorClient.h: created,  *)
(* called, destroyed, perhaps constructed again) or a user of the          *)
(* primitive data functions of RPCClient (Common/include/RPCClient.h:      *)
(* SendPrimitiveData, then GetPrimitiveData).  Here all calls are          *)
(* synchronous; AsyncClient adds the others.                               *)
(*                                                                         *)
(* The pipe is a slot per client: a request is either handed to a message  *)
(* thread of the server or fails on its way.  In module Transport a call   *)
(* whose messages fit the pipe fails with ERROR_SERVER_NO_RESPONSE, when   *)
(* no instance of the pipe was to be had, and with ERROR_RECEIVE_FAILED,   *)
(* when the server dropped the instance: the client was early or got no    *)
(* thread.  A thread whose answer has been read has ended and is used      *)
(* again.                                                                  *)
(***************************************************************************)
EXTENDS ObjectManager

CONSTANTS
  Client,       \* client programs
  Calculators,  \* those that use ClientStub<ICalculator>
  Workloads     \* how many requests each client may make: bounds, one of which holds

ASSUME ClientAssumption ==
  /\ Calculators \subseteq Client /\ Workloads \subseteq [Client -> Nat]
  /\ Calculator \notin Value

VARIABLES
  phase,       \* where the client is in the life of its stub
  proxy,       \* m_remoteProxyObject, or the handle of the primitive object
  request,     \* the request of the call in progress, <<>> without one
  serving,     \* the thread that has read it, or NoThread
  sent,        \* the value given to SendPrimitiveData
  result,      \* what the last finished call returned
  got,         \* its out parameter
  requests,    \* number of requests it may still make
  orphaned     \* history: objects whose deletion failed

clientVars ==
  <<phase, proxy, request, serving, sent, result, got, requests, orphaned>>
allVars == <<vars, clientVars>>

ClientInit ==
  /\ Init
  /\ phase = [c \in Client |-> "out"]
  /\ proxy = [c \in Client |-> NullHandle]
  /\ request = [c \in Client |-> <<>>]
  /\ serving = [c \in Client |-> NoThread]
  /\ sent \in [Client \ Calculators -> Value]
  /\ result = [c \in Client |-> ERROR_SUCCESS]
  /\ got = [c \in Client |-> EmptyArgument]
  /\ requests \in Workloads
  /\ orphaned = {}

Set(f, c, x) == [f EXCEPT ![c] = x]
------------------------------------------------------------------------------
\* A client starts a call: GetWireFormat has been written, nobody has read it.
Start(c, label, r) ==
  /\ requests[c] > 0
  /\ requests' = Set(requests, c, requests[c] - 1)
  /\ phase' = Set(phase, c, label)
  /\ request' = Set(request, c, r)
  /\ UNCHANGED <<vars, proxy, serving, sent, result, got, orphaned>>

\* ClientStub(), or SendPrimitiveData.
Create(c) ==
  /\ phase[c] = "out"
  /\ Start(c, "creating",
           IF c \in Calculators
           THEN Request(NullHandle, eCreateCustomObjectDispId, <<Calculator>>)
           ELSE Request(NullHandle, eCreateIntDispId, <<sent[c]>>))

\* Add, ReverseName, LongOperation(..., FALSE, ...), or GetPrimitiveData.
MethodArguments == <<EmptyArgument, EmptyArgument, EmptyArgument>>
Call(c) ==
  /\ phase[c] = "ready"
  /\ \/ /\ c \in Calculators
        /\ \E d \in Methods : Start(c, "calling", Request(proxy[c], d, MethodArguments))
     \/ /\ c \notin Calculators
        /\ Start(c, "calling", Request(proxy[c], eCreateIntDispId, <<>>))

\* ~ClientStub.  A user of primitive data has no function to delete it with.
Destroy(c) ==
  /\ phase[c] = "ready"
  /\ c \in Calculators
  /\ Start(c, "deleting", Request(NullHandle, eDeleteDispId, <<proxy[c]>>))

\* A message thread reads the request.
Deliver(c) ==
  /\ request[c] # <<>> /\ serving[c] = NoThread
  /\ \E t \in Thread :
       /\ Receive(t, request[c])
       /\ serving' = Set(serving, c, t)
  /\ UNCHANGED <<phase, proxy, request, sent, result, got, requests, orphaned>>

\* A message thread has ended.
End(t) ==
  /\ pc' = Set(pc, t, "idle")
  /\ msg' = Set(msg, t, <<>>)
  /\ stub' = Set(stub, t, NullHandle)
  /\ UNCHANGED <<heap, allObjects, csOwner, alive>>

\* CreateRemoteInstance: no error and no null handle, or the constructor throws.
FinishCreate(c, error, m) ==
  /\ phase[c] = "creating"
  /\ \/ /\ error = ERROR_SUCCESS
        /\ CreatedHandle(m) # NullHandle
        /\ proxy' = Set(proxy, c, CreatedHandle(m))
        /\ phase' = Set(phase, c, "ready")
     \/ /\ error # ERROR_SUCCESS \/ CreatedHandle(m) = NullHandle
        /\ phase' = Set(phase, c, "out")
        /\ UNCHANGED proxy
  /\ UNCHANGED <<result, got, orphaned>>

FinishCall(c, error, m) ==
  /\ phase[c] = "calling"
  /\ result' = Set(result, c, error)
  /\ got' = IF error = ERROR_SUCCESS
            THEN Set(got, c, GetFunctionParameter(m, 1, got[c])) ELSE got
  /\ phase' = Set(phase, c, "ready")
  /\ UNCHANGED <<proxy, orphaned>>

\* Fault: the stub goes on with the handle of the deleted object.
FinishDestroyKeepsProxy(c, error) ==
  /\ phase[c] = "deleting"
  /\ phase' = Set(phase, c, "ready")
  /\ orphaned' = IF error = ERROR_SUCCESS THEN orphaned ELSE orphaned \cup {proxy[c]}
  /\ UNCHANGED <<proxy, result, got>>

\* The destructor only logs an error; the proxy is gone in any case.
FinishDestroy(c, error) ==
  /\ phase[c] = "deleting"
  /\ proxy' = Set(proxy, c, NullHandle)
  /\ phase' = Set(phase, c, "out")
  /\ orphaned' = IF error = ERROR_SUCCESS THEN orphaned ELSE orphaned \cup {proxy[c]}
  /\ UNCHANGED <<result, got>>

\* RPCClient::Invoke returns error, with the response m.
Return(c, error, m) ==
  /\ FinishCreate(c, error, m) \/ FinishCall(c, error, m) \/ FinishDestroy(c, error)
  /\ request' = Set(request, c, <<>>)
  /\ serving' = Set(serving, c, NoThread)
  /\ UNCHANGED <<sent, requests>>

\* The response arrives.
Answered(c) ==
  /\ serving[c] # NoThread
  /\ At(serving[c], "done")
  /\ Return(c, GetErrorCode(msg[serving[c]]), msg[serving[c]])
  /\ End(serving[c])

\* No instance of the pipe was to be had, or the server dropped the one the
\* client opened (an early client, NamedPipe.cpp:73; a refused thread,
\* ServerMessageHandler.cpp:45-48): no thread reads the request.
TransportError == {ERROR_SERVER_NO_RESPONSE, ERROR_RECEIVE_FAILED}
NotServed(c) ==
  /\ request[c] # <<>> /\ serving[c] = NoThread
  /\ \E e \in TransportError : Return(c, e, <<>>)
  /\ UNCHANGED vars

Transfer(c) == Deliver(c) \/ NotServed(c)
Serve(t) == Step(t) /\ UNCHANGED clientVars

SyncNext ==
  \/ \E c \in Client : Create(c) \/ Call(c) \/ Destroy(c) \/ Transfer(c) \/ Answered(c)
  \/ \E t \in Thread : Serve(t)

SyncSpec == ClientInit /\ [][SyncNext]_allVars
------------------------------------------------------------------------------
\* Every variable of the clients has a value of its type.
ClientTypeOK ==
  /\ TypeOK
  /\ phase \in [Client -> {"out", "creating", "ready", "calling", "deleting"}]
  /\ proxy \in [Client -> Handle]
  /\ request \in [Client -> {<<>>} \cup AllRequests]
  /\ serving \in [Client -> Thread \cup {NoThread}]
  /\ sent \in [Client \ Calculators -> Value]
  /\ result \in [Client -> ServerErrorCode \cup TransportError]
  /\ got \in [Client -> Argument]
  /\ requests \in [Client -> Nat]
  /\ orphaned \subseteq Address

OwnContent(c) == IF c \in Calculators THEN Calculator ELSE sent[c]

\* c has an object on the server: from the return of its creation until the
\* server deletes it.
Holds(c) ==
  \/ phase[c] \in {"ready", "calling"}
  \/ /\ phase[c] = "deleting"
     /\ serving[c] # NoThread => pc[serving[c]] \in {"process", "enterDelete", "delete"}

\* The object behind the handle of a client is registered and is the one the
\* client created, though addresses are used again and the collection keeps
\* the handles of deleted objects.
ProxyOwnsObject ==
  \A c \in Client :
    Holds(c) => proxy[c] \in allObjects /\ heap[proxy[c]] = OwnContent(c)

\* No two clients hold the same object, so that no destructor deletes the
\* object of another client.
OwnershipIsExclusive ==
  \A c, d \in Client : Holds(c) /\ Holds(d) /\ proxy[c] = proxy[d] => c = d

\* An object is freed no later than its client is told so: a stub that is not
\* held, being created or being handed over is one whose deletion failed.
Arriving(c, a) ==
  /\ phase[c] = "creating" /\ serving[c] # NoThread
  /\ stub[serving[c]] = a
ObjectsHaveOwners ==
  \A a \in Address :
    heap[a] # Free =>
      a \in orphaned \/ \E c \in Client : Arriving(c, a) \/ (Holds(c) /\ proxy[c] = a)

\* No sequence of synchronous calls makes the server free freed memory or die of
\* its use (ObjectManager.cpp:78, 145).
ServerSurvives == alive

\* A call on an object may fail on its way, but one that the server has read
\* succeeds: the object is found, of the class the caller created, and has the
\* method.  What is read back of primitive data is what was sent.
ServedCallsSucceed ==
  \A c \in Client :
    /\ result[c] \in {ERROR_SUCCESS} \cup TransportError
    /\ c \notin Calculators => got[c] \in {EmptyArgument, sent[c]}
==============================================================================
