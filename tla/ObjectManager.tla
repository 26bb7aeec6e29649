---------------------------- MODULE ObjectManager ----------------------------
(***************************************************************************)
(* The object side of the server: ObjectManager and ServerStub             *)
(* (Common/ObjectManager.cpp, Common/include/{ObjectManager,ServerStub}.h) *)
(* as the message threads of the server run them, one thread per request.  *)
(* A thread steps from one access of shared state to the next: the         *)
(* allocation of a stub, the critical section m_csAllObjects, the          *)
(* collection m_allObjects, and the object behind a pointer.               *)
(*                                                                         *)
(* DeleteObject frees a stub and leaves its pointer in m_allObjects.  What *)
(* the code then does with freed memory is undefined; the outcomes here    *)
(* are that the process dies, or that the old bytes still pass for a stub. *)
(***************************************************************************)
EXTENDS Marshaller, FiniteSets

CONSTANTS
  Thread,      \* message threads; each serves one request, then ends
  Address,     \* addresses operator new can return for a stub
  Value,       \* values of primitive objects
  Calculator,  \* the one class CreateObject knows, and an instance of it
  Unregistered,\* a class name it does not know
  Computed,    \* what a method of Calculator leaves in its out parameter
  NullHandle,  \* objectId NULL: a global function
  Free,        \* no object at an address
  NoThread,    \* m_csAllObjects has no owner
  Requests     \* the requests clients send

Handle   == Address \cup {NullHandle}
Content  == Value \cup {Calculator}
Argument == ServerErrorCode \cup -1..4 \cup Handle \cup Content
              \cup {Unregistered, Computed, EmptyArgument, InvalidHandle}

\* What the client library can put on the wire: see RPCClient.h for the
\* global functions and CalculatorClient.h for the calls on an object.
CreatePrimitiveRequests ==
  { Request(NullHandle, d, <<v>>) :
      d \in {eCreateIntDispId, eCreateStringDispId}, v \in Value }
CreateCustomRequests ==
  { Request(NullHandle, eCreateCustomObjectDispId, <<n>>) :
      n \in {Calculator, Unregistered} }
DeleteRequests == { Request(NullHandle, eDeleteDispId, <<h>>) : h \in Handle }
CallRequests ==
  { Request(a, d, arguments) :
      a \in Address, d \in AddDispID .. MaxDispID,
      arguments \in { <<>>, <<EmptyArgument, EmptyArgument, EmptyArgument>> } }
\* A custom client passes CreateRemoteInstance any dispatch id.
BadGlobalRequests == { Request(NullHandle, MaxDispID + 1, <<>>) }
AllRequests ==
  CreatePrimitiveRequests \cup CreateCustomRequests \cup DeleteRequests
    \cup CallRequests \cup BadGlobalRequests

ASSUME RequestsAssumption == Requests \subseteq AllRequests
ASSUME DistinctAssumption ==
  /\ Address \cap (Content \cup {NullHandle, InvalidHandle, Free}) = {}
  /\ Address \cap Int = {}
  /\ Free \notin Content
  /\ NullHandle # InvalidHandle
  /\ NoThread \notin Thread

VARIABLES
  heap,        \* the stub at an address, or Free
  allObjects,  \* m_allObjects
  csOwner,     \* owner of m_csAllObjects
  pc,          \* where a message thread is
  msg,         \* the Marshaller a thread works on, request then response
  stub,        \* the local pointer of a thread: pi when creating, *it when calling
  alive        \* the server process runs

vars == <<heap, allObjects, csOwner, pc, msg, stub, alive>>
------------------------------------------------------------------------------
Init ==
  /\ heap = [a \in Address |-> Free]
  /\ allObjects = {}
  /\ csOwner = NoThread
  /\ pc = [t \in Thread |-> "idle"]
  /\ msg = [t \in Thread |-> <<>>]
  /\ stub = [t \in Thread |-> NullHandle]
  /\ alive = TRUE

At(t, label) == alive /\ pc[t] = label
Goto(t, label) == pc' = [pc EXCEPT ![t] = label]
\* ProcessRequest returns; m is what SendResponseToClient writes.
Finish(t, m) == Goto(t, "done") /\ msg' = [msg EXCEPT ![t] = m]
Dies == alive' = FALSE

\* ServerMessageHandler::HandleRequest has read r and calls ProcessRequest.
Receive(t, r) ==
  /\ At(t, "idle")
  /\ Goto(t, "process")
  /\ msg' = [msg EXCEPT ![t] = r]
  /\ UNCHANGED <<heap, allObjects, csOwner, stub, alive>>

IsGlobal(m)     == GetObjectId(m) = NullHandle
GlobalDispId(m) == GetDispId(m)
ClassName(m)    == GetFunctionParameter(m, 1, EmptyArgument)
ObjectToDelete(m) == GetFunctionParameter(m, 1, NullHandle)

\* Fault: CreateRemoteInstance takes the first parameter for the new handle.
FirstParameter(m) == GetFunctionParameter(m, 1, NullHandle)

\* Where CreateRemoteInstance finds the new handle in the response.
CreatedHandle(m) == GetFunctionParameter(m, 2, NullHandle)

\* Fault: CreateObject does not look at the class name.
ConstructsAnyClass(m) ==
  /\ IsGlobal(m)
  /\ GlobalDispId(m) \in {eCreateIntDispId, eCreateStringDispId, eCreateCustomObjectDispId}

\* HandleGlobalFunctions finds something to construct.
Constructs(m) ==
  /\ IsGlobal(m)
  /\ \/ GlobalDispId(m) \in {eCreateIntDispId, eCreateStringDispId}
     \/ GlobalDispId(m) = eCreateCustomObjectDispId /\ ClassName(m) = Calculator
IsDelete(m) == IsGlobal(m) /\ GlobalDispId(m) = eDeleteDispId

\* Fault: the stub is gone when the function that made it returns.
ConstructLocal(t) ==
  /\ At(t, "process")
  /\ Constructs(msg[t])
  /\ \E a \in Address : heap[a] = Free /\ stub' = [stub EXCEPT ![t] = a]
  /\ Goto(t, "enterInsert")
  /\ UNCHANGED <<heap, allObjects, csOwner, msg, alive>>

\* CreateObject and CreatePrimitiveObject: a stub at any free address, which
\* may be one an earlier stub had.  A thread waits when Address is used up.
Construct(t) ==
  /\ At(t, "process")
  /\ Constructs(msg[t])
  /\ \E a \in Address :
       /\ heap[a] = Free
       /\ heap' = [heap EXCEPT ![a] = GetFunctionParameter(msg[t], 1, EmptyArgument)]
       /\ stub' = [stub EXCEPT ![t] = a]
  /\ Goto(t, "enterInsert")
  /\ UNCHANGED <<allObjects, csOwner, msg, alive>>

\* No such class or no such function.  CreateObject reports the class with an
\* error code of its own, which HandleGlobalFunctions then overwrites.
RejectGlobal(t) ==
  /\ At(t, "process")
  /\ IsGlobal(msg[t]) /\ ~Constructs(msg[t]) /\ ~IsDelete(msg[t])
  /\ LET m == IF GlobalDispId(msg[t]) = eCreateCustomObjectDispId
              THEN SetErrorCode(msg[t], ERROR_OBJECT_NOT_REGISTERED)
              ELSE msg[t]
     IN Finish(t, SetErrorCode(m, ERROR_DISPID_INVALID))
  /\ UNCHANGED <<heap, allObjects, csOwner, stub, alive>>

BeginDelete(t) ==
  /\ At(t, "process")
  /\ IsDelete(msg[t])
  /\ IF ObjectToDelete(msg[t]) = NullHandle
     THEN Finish(t, SetErrorCode(msg[t], ERROR_PARAMETER_INVALID))
     ELSE Goto(t, "enterDelete") /\ UNCHANGED msg
  /\ UNCHANGED <<heap, allObjects, csOwner, stub, alive>>

\* The size is read outside the critical section.  With an empty collection
\* ProcessRequest returns with the message as the client sent it.
BeginCall(t) ==
  /\ At(t, "process")
  /\ ~IsGlobal(msg[t])
  /\ Goto(t, IF allObjects = {} THEN "done" ELSE "enterFind")
  /\ UNCHANGED <<heap, allObjects, csOwner, msg, stub, alive>>

Inside == [enterInsert |-> "insert", enterDelete |-> "delete", enterFind |-> "find"]

\* Fault: the critical section is not waited for.
EnterAtOnce(t) ==
  /\ alive
  /\ pc[t] \in DOMAIN Inside
  /\ csOwner' = t
  /\ Goto(t, Inside[pc[t]])
  /\ UNCHANGED <<heap, allObjects, msg, stub, alive>>

\* EnterCriticalSection(&m_csAllObjects)
Enter(t) ==
  /\ alive
  /\ pc[t] \in DOMAIN Inside
  /\ csOwner = NoThread
  /\ csOwner' = t
  /\ Goto(t, Inside[pc[t]])
  /\ UNCHANGED <<heap, allObjects, msg, stub, alive>>

\* Fault: a return in front of LeaveCriticalSection.
ReturnInside == UNCHANGED csOwner

Leave == csOwner' = NoThread

\* Faults: the stub is not registered; the handle returned is that of an
\* earlier entry; a stub whose address is in the set already is freed as a duplicate.
InsertNothing(t) ==
  /\ At(t, "insert")
  /\ Leave
  /\ Finish(t, SetErrorCode(SetFunctionParameter(msg[t], 2, stub[t]), ERROR_SUCCESS))
  /\ UNCHANGED <<heap, allObjects, stub, alive>>
InsertReturnsFirst(t) ==
  /\ At(t, "insert")
  /\ allObjects' = allObjects \cup {stub[t]}
  /\ Leave
  /\ \E a \in allObjects' :
       /\ allObjects # {} => a \in allObjects
       /\ Finish(t, SetErrorCode(SetFunctionParameter(msg[t], 2, a), ERROR_SUCCESS))
  /\ UNCHANGED <<heap, stub, alive>>
InsertFreesDuplicate(t) ==
  /\ At(t, "insert")
  /\ allObjects' = allObjects \cup {stub[t]}
  /\ heap' = IF stub[t] \in allObjects THEN [heap EXCEPT ![stub[t]] = Free] ELSE heap
  /\ Leave
  /\ Finish(t, SetErrorCode(SetFunctionParameter(msg[t], 2, stub[t]), ERROR_SUCCESS))
  /\ UNCHANGED <<stub, alive>>

\* Registers the new stub, an insertion without effect when its address is
\* already in the set, and returns it as the second parameter.
Insert(t) ==
  /\ At(t, "insert")
  /\ allObjects' = allObjects \cup {stub[t]}
  /\ Leave
  /\ Finish(t, SetErrorCode(SetFunctionParameter(msg[t], 2, stub[t]), ERROR_SUCCESS))
  /\ UNCHANGED <<heap, stub, alive>>

\* The iterator is followed only after the critical section has been left.
Find(t) ==
  /\ At(t, "find")
  /\ Leave
  /\ IF GetObjectId(msg[t]) \in allObjects
     THEN /\ stub' = [stub EXCEPT ![t] = GetObjectId(msg[t])]
          /\ Goto(t, "invoke")
          /\ UNCHANGED msg
     ELSE /\ Finish(t, SetErrorCode(msg[t], ERROR_NO_OBJECT_FOUND))
          /\ UNCHANGED stub
  /\ UNCHANGED <<heap, allObjects, alive>>

\* Fault: the entry is erased, and the object behind it is not deleted.
DeleteErasesEntry(t) ==
  /\ At(t, "delete")
  /\ LET a == ObjectToDelete(msg[t])
     IN \/ /\ a \in allObjects
           /\ allObjects' = allObjects \ {a}
           /\ Finish(t, SetErrorCode(msg[t], ERROR_SUCCESS))
        \/ /\ a \notin allObjects
           /\ UNCHANGED allObjects
           /\ Finish(t, SetErrorCode(msg[t], ERROR_NO_OBJECT_FOUND))
  /\ Leave
  /\ UNCHANGED <<heap, stub, alive>>

\* DeleteObject frees the stub and keeps the pointer in the collection, so a
\* second delete of the handle frees freed memory: the process dies or the
\* heap does not notice.
Delete(t) ==
  /\ At(t, "delete")
  /\ LET a == ObjectToDelete(msg[t])
     IN \/ /\ a \in allObjects
           /\ heap' = [heap EXCEPT ![a] = Free]
           /\ alive' \in {TRUE, heap[a] # Free}
           /\ Finish(t, SetErrorCode(msg[t], ERROR_SUCCESS))
        \/ /\ a \notin allObjects
           /\ UNCHANGED <<heap, alive>>
           /\ Finish(t, SetErrorCode(msg[t], ERROR_NO_OBJECT_FOUND))
  /\ Leave
  /\ UNCHANGED <<allObjects, stub>>

\* Calculator::dispatchEntries: the parameter a method computes.  The others
\* are written back as they were read.
Methods == AddDispID .. (MaxDispID - 1)
OutParameter(d) ==
  CASE d = AddDispID -> 3 [] d = ReverseNameDispID -> 1 [] OTHER -> 2
Computes(m) ==
  SetErrorCode(SetFunctionParameter(m, OutParameter(GetDispId(m)), Computed), ERROR_SUCCESS)

\* ServerStub<T, TRUE>::Invoke returns the value whatever the dispatch id;
\* ServerStub<Calculator>::Invoke looks the id up and runs the method.
InvokeOn(t, content) ==
  LET m == msg[t]
      d == GetDispId(m)
  IN \/ /\ content # Calculator
        /\ Finish(t, SetErrorCode(SetFunctionParameter(m, 1, content), ERROR_SUCCESS))
     \/ /\ content = Calculator /\ d \notin Methods
        /\ Finish(t, SetErrorCode(m, ERROR_DISPID_INVALID))
     \/ /\ content = Calculator /\ d \in Methods \ {LongOperationDispID}
        /\ Finish(t, Computes(m))
     \/ /\ content = Calculator /\ d = LongOperationDispID
        /\ Goto(t, "sleep") /\ UNCHANGED msg

Invoke(t) ==
  /\ At(t, "invoke")
  /\ heap[stub[t]] # Free
  /\ InvokeOn(t, heap[stub[t]])
  /\ UNCHANGED <<heap, allObjects, csOwner, stub, alive>>

\* The stub has been freed: the call faults, or finds old bytes of any stub.
InvokeFreed(t) ==
  /\ At(t, "invoke")
  /\ heap[stub[t]] = Free
  /\ \/ Dies /\ UNCHANGED <<pc, msg>>
     \/ UNCHANGED alive /\ \E content \in Content : InvokeOn(t, content)
  /\ UNCHANGED <<heap, allObjects, csOwner, stub>>

\* Calculator::LongOperation wakes up; it touches no member of its object.
LongOperation(t) ==
  /\ At(t, "sleep")
  /\ Finish(t, Computes(msg[t]))
  /\ UNCHANGED <<heap, allObjects, csOwner, stub, alive>>

Step(t) ==
  \/ Construct(t) \/ RejectGlobal(t) \/ BeginDelete(t) \/ BeginCall(t)
  \/ Enter(t) \/ Insert(t) \/ Find(t) \/ Delete(t)
  \/ Invoke(t) \/ InvokeFreed(t) \/ LongOperation(t)

Next == \E t \in Thread : Step(t) \/ \E r \in Requests : Receive(t, r)

Spec == Init /\ [][Next]_vars
------------------------------------------------------------------------------
Labels == { "idle", "process", "enterInsert", "enterDelete", "enterFind",
            "insert", "delete", "find", "invoke", "sleep", "done" }

\* Every variable has a value of its type.
TypeOK ==
  /\ heap \in [Address -> Content \cup {Free}]
  /\ allObjects \subseteq Address
  /\ csOwner \in Thread \cup {NoThread}
  /\ pc \in [Thread -> Labels]
  /\ msg \in [Thread -> Seq(Argument)]
  /\ stub \in [Thread -> Handle]
  /\ alive \in BOOLEAN

\* m_csAllObjects protects every access that finds, adds or deletes an entry:
\* a thread is at one of them exactly when it owns the critical section, so no
\* two threads are, and a thread that has left never keeps the section
\* (ObjectManager.cpp:71-73, 116-118, 141-148).
MutualExclusion ==
  \A t \in Thread : pc[t] \in {"insert", "delete", "find"} <=> csOwner = t

\* An iterator found under the critical section is followed after it has been
\* left (ObjectManager.cpp:76-78).  The entry must still be there, or the
\* iterator points at a freed node.
FoundStaysRegistered ==
  \A t \in Thread : pc[t] = "invoke" => stub[t] \in allObjects

\* A stub that has been allocated and not been deleted is in the collection,
\* or its creator is on the way to put it there: no interleaving of creations
\* and deletions, nor any reuse of an address, loses an object a client owns.
Pending(t) == pc[t] \in {"enterInsert", "insert"}
LiveObjectsAreRegistered ==
  \A a \in Address :
    heap[a] # Free => a \in allObjects \/ \E t \in Thread : Pending(t) /\ stub[t] = a

\* What a reply says: the request in it was a creation or a deletion, and the
\* server reports that it worked.
Replied(t, error) == pc[t] = "done" /\ GetErrorCode(msg[t]) = error
Created(t) == Replied(t, ERROR_SUCCESS) /\ Constructs(msg[t])
Deleted(t, a) ==
  /\ Replied(t, ERROR_SUCCESS)
  /\ IsDelete(msg[t])
  /\ ObjectToDelete(msg[t]) = a

\* The handle a creation replies with is that of a registered stub, at the
\* time of the reply and ever after (ObjectManager.cpp:116-124).
CreatedHandleIsRegistered ==
  \A t \in Thread : Created(t) => CreatedHandle(msg[t]) \in allObjects

\* An entry of the collection dangles only if a client has deleted the object:
\* no failed creation, failed deletion or call leaves a pointer to freed memory.
DanglingOnlyByDelete ==
  \A a \in allObjects : heap[a] = Free => \E t \in Thread : Deleted(t, a)

\* A call follows a pointer to a live stub, though other clients delete and
\* addresses are used again (ObjectManager.cpp:78).  Of any requests whatever
\* this is not true; it is up to the clients, and module ClientStub shows it.
CallsReachLiveObjects ==
  \A t \in Thread : pc[t] = "invoke" => heap[stub[t]] # Free

\* Every request a thread has read is answered, unless the server dies: the
\* critical section is always left and nobody waits for somebody who waits.
EveryRequestIsAnswered ==
  \A t \in Thread : pc[t] = "process" ~> (pc[t] = "done" \/ ~alive)
==============================================================================
