--------------------------- MODULE AsyncClientProofs ---------------------------
(***************************************************************************)
(* AsyncClient for any number of clients, handlers, threads, addresses,    *)
(* requests and faults.                                                    *)
(*                                                                         *)
(* The inductive invariant says what a thread of the server is working on  *)
(* (WorkInv), who reads its answer (ReaderInv), what a client and its      *)
(* handlers wait for (CallerInv, HandlerInv), and that handlers stopped    *)
(* are gone (StoppedInv).  None of that depends on handles being good.     *)
(* AccountInv adds that no object is forgotten, and OwnInv that, unless a  *)
(* handle was carried over to the next server, every object is had by one  *)
(* party at a time: the thread that has made it or will free it, the       *)
(* handler in whose callback its handle is, or the client.                 *)
(***************************************************************************)
EXTENDS AsyncClient, ClientStubProofs

Errors == {ERROR_SUCCESS} \cup TransportError
HandlerLabels == Gone \cup {"open", "read", "callback"}
HandlerRecord ==
  [at : HandlerLabels, request : Seq(Argument), thread : Thread \cup {NoThread},
   error : Errors, response : Seq(Argument)]

\* The variables are functions of the clients.
AsyncShape ==
  /\ TypeOK
  /\ phase \in [Client -> {"out", "creating", "ready", "calling", "deleting", "finished", "killed"}]
  /\ proxy \in [Client -> Handle]
  /\ request \in [Client -> Seq(Argument)]
  /\ serving \in [Client -> Thread \cup {NoThread}]
  /\ sent \in [Client \ Calculators -> Value]
  /\ result \in [Client -> ServerErrorCode \cup TransportError] /\ got \in [Client -> Argument]
  /\ requests \in [Client -> Nat] /\ orphaned \subseteq Address
  /\ handlers \in [Client -> Seq(HandlerRecord)]
  /\ stopped \in [Client -> Nat] /\ closed \in [Client -> BOOLEAN]
  /\ output \in [Client -> Argument]
  /\ faults \in Nat /\ stale \in BOOLEAN

\* A thread works on a creation, a deletion or a call, and answers a creation
\* with the handle of the object it has made.
Creating(m) ==
  IsMessage(m) /\ Constructs(m) /\ GetFunctionParameter(m, 1, EmptyArgument) \in Content
Deletes(m) == IsMessage(m) /\ IsDelete(m) /\ ObjectToDelete(m) \in Address
Coded(m) == GetErrorCode(m) \in ServerErrorCode
CallsObject(m) == IsMessage(m) /\ ~IsGlobal(m) /\ Coded(m)

CreationWork(t) ==
  /\ Creating(msg[t])
  /\ \/ pc[t] = "process" /\ Len(msg[t]) = 4
     \/ pc[t] \in {"enterInsert", "insert"} /\ Len(msg[t]) = 4 /\ stub[t] \in Address
     \/ /\ pc[t] = "done" /\ Len(msg[t]) = 5 /\ stub[t] \in Address
        /\ CreatedHandle(msg[t]) = stub[t] /\ GetErrorCode(msg[t]) = ERROR_SUCCESS
DeletionWork(t) == Deletes(msg[t]) /\ pc[t] \in {"process", "enterDelete", "delete", "done"}
CallWork(t) ==
  /\ CallsObject(msg[t])
  /\ pc[t] \in {"process", "enterFind", "find", "invoke", "sleep", "done"}
  /\ pc[t] = "invoke" => stub[t] = GetObjectId(msg[t])
WorkInv(t) == pc[t] # "idle" => CreationWork(t) \/ DeletionWork(t) \/ CallWork(t)

\* Who waits for the answer of a thread: c itself, or its handler i.  The thread
\* is busy, and nobody else waits for it.
Reader(c, i, t) ==
  \/ i = 0 /\ serving[c] = t
  \/ i \in Handlers(c) /\ handlers[c][i].at = "read" /\ handlers[c][i].thread = t
ReaderInv ==
  \A t \in Thread : \A c \in Client : \A i \in Nat :
    Reader(c, i, t) =>
      /\ pc[t] # "idle"
      /\ \A d \in Client : \A j \in Nat : Reader(d, j, t) => d = c /\ j = i

\* What a client waits for is what its thread works on.
CallOf(c, m) == CallsObject(m) /\ GetObjectId(m) = proxy[c]
Fits(c, m) ==
  /\ phase[c] = "creating" => Creation(c, m)
  /\ phase[c] = "calling" => CallOf(c, m)
  /\ phase[c] = "deleting" => Deletion(c, m)
CallerInv(c) ==
  /\ Waiting(c) <=> request[c] # <<>>
  /\ Waiting(c) => c \in Calculators /\ Fits(c, request[c])
  /\ phase[c] = "creating" => Len(request[c]) = 4
  /\ phase[c] \in {"ready", "calling", "deleting"} => proxy[c] \in Address
  /\ serving[c] # NoThread => Waiting(c) /\ Fits(c, msg[serving[c]])

\* The same of a handler, and what the answer says that it has got.
SendsValue(c, i) == IsGlobal(handlers[c][i].request)
Concerns(c, i, m) ==
  /\ SameRequest(m, handlers[c][i].request)
  /\ IF SendsValue(c, i) THEN c \notin Calculators /\ Creation(c, m) ELSE CallsObject(m)
HandlerInv(c, i) ==
  LET h == handlers[c][i]
  IN /\ h.thread \in IF h.at = "read" THEN Thread ELSE {NoThread}
     /\ Concerns(c, i, h.request)
     /\ SendsValue(c, i) => Len(h.request) = 4
     /\ h.at = "read" => Concerns(c, i, msg[h.thread])
     /\ h.at \in {"open", "read"} => h.response = <<>>
     /\ h.at \in {"callback", "ended"} /\ h.error = ERROR_SUCCESS => h.response # <<>>
     /\ h.response # <<>> =>
          /\ Concerns(c, i, h.response)
          /\ SendsValue(c, i) =>
               CreatedHandle(h.response) \in Address /\ Len(h.response) = 5

StoppedInv(c) ==
  /\ stopped[c] <= Len(handlers[c])
  /\ \A i \in 1 .. stopped[c] : handlers[c][i].at \in Gone

BaseAsync ==
  /\ AsyncShape /\ ReaderInv
  /\ \A t \in Thread : WorkInv(t)
  /\ \A c \in Client : CallerInv(c) /\ StoppedInv(c)
  /\ \A c \in Client : \A i \in Handlers(c) : HandlerInv(c, i)
------------------------------------------------------------------------------
\* Who has the object at a.
Yields(t, a) ==
  pc[t] \in {"enterInsert", "insert", "done"} /\ Constructs(msg[t]) /\ stub[t] = a
Frees(t, a) ==
  /\ pc[t] \in {"process", "enterDelete", "delete"}
  /\ IsDelete(msg[t]) /\ ObjectToDelete(msg[t]) = a
ThreadHas(t, a) == Yields(t, a) \/ (Frees(t, a) /\ \A c \in Client : serving[c] # t)
\* The client itself, or its handler i.
Has(c, i, a) ==
  \/ i = 0 /\ Holds(c) /\ proxy[c] = a
  \/ i \in Handlers(c) /\ handlers[c][i].at = "callback" /\ a \in Brought(handlers[c][i].response)

\* No object is forgotten: neither by its owners nor by the collection.
Accounted(a) ==
  \/ a \in orphaned
  \/ \E t \in Thread : Yields(t, a) \/ Frees(t, a)
  \/ \E c \in Client : \E i \in Nat : Has(c, i, a)
Collected(a) == a \in allObjects \/ \E t \in Thread : Pending(t) /\ stub[t] = a
AccountInv == \A a \in Address : heap[a] # Free => Accounted(a) /\ Collected(a)

\* What is had is live, and what its creator gave it.
ThreadContent(t, a) ==
  /\ Yields(t, a) =>
       /\ heap[a] = GetFunctionParameter(msg[t], 1, EmptyArgument)
       /\ pc[t] = "done" => a \in allObjects
  /\ ThreadHas(t, a) /\ ~Yields(t, a) => heap[a] = Calculator
ClientContent(c, i, a) == Has(c, i, a) => a \in allObjects /\ heap[a] = OwnContent(c)
ContentOK ==
  \A a \in Address :
    /\ \A t \in Thread : ThreadContent(t, a)
    /\ \A c \in Client : \A i \in Nat : ClientContent(c, i, a)

\* One party has it.
Exclusive ==
  \A a \in Address :
    /\ \A t, u \in Thread : ThreadHas(t, a) /\ ThreadHas(u, a) => t = u
    /\ \A t \in Thread : \A c \in Client : \A i \in Nat : ThreadHas(t, a) => ~Has(c, i, a)
    /\ \A c, d \in Client : \A i, j \in Nat : Has(c, i, a) /\ Has(d, j, a) => c = d /\ i = j

\* GetPrimitiveDataAsync reads the value that was sent.
Points(c, m) ==
  /\ GetObjectId(m) \in Address /\ GetObjectId(m) \in allObjects
  /\ heap[GetObjectId(m)] = sent[c] /\ Len(m) = 3
ValueRead(c, i) ==
  LET h == handlers[c][i]
  IN c \notin Calculators /\ ~SendsValue(c, i) =>
       /\ h.at = "open" => Points(c, h.request)
       /\ h.at = "read" =>
            \/ pc[h.thread] \in {"process", "enterFind", "find", "invoke"} /\ Points(c, msg[h.thread])
            \/ pc[h.thread] = "done" /\ LastFunctionParameter(msg[h.thread]) = sent[c]
       /\ h.at \in {"callback", "ended"} /\ h.error = ERROR_SUCCESS =>
            LastFunctionParameter(h.response) = sent[c]

OwnOK == ContentOK /\ Exclusive /\ \A c \in Client : \A i \in Handlers(c) : ValueRead(c, i)
OwnInv == ~stale => OwnOK

AsyncIInv == BaseAsync /\ AccountInv /\ OwnInv
------------------------------------------------------------------------------
\* A message for the same request as m, and with the same first parameter when
\* that belongs to the request.
Alike(s, m) ==
  /\ IsMessage(s) /\ SameRequest(s, m) /\ (Coded(m) => Coded(s))
  /\ IsGlobal(m) => \A x : GetFunctionParameter(s, 1, x) = GetFunctionParameter(m, 1, x)

\* It is a request of the same kind.
LEMMA AlikeFacts ==
  ASSUME NEW s, NEW m, Alike(s, m)
  PROVE  /\ IsMessage(s) /\ GetObjectId(s) = GetObjectId(m)
         /\ IsGlobal(s) <=> IsGlobal(m)
         /\ IsDelete(s) <=> IsDelete(m)
         /\ Constructs(s) <=> Constructs(m)
         /\ IsGlobal(m) => /\ ObjectToDelete(s) = ObjectToDelete(m)
                           /\ GetFunctionParameter(s, 1, EmptyArgument)
                                = GetFunctionParameter(m, 1, EmptyArgument)
         /\ Creating(m) => Creating(s)
         /\ Deletes(m) => Deletes(s)
         /\ CallsObject(m) => CallsObject(s)
<1>1. /\ IsMessage(s) /\ GetObjectId(s) = GetObjectId(m)
      /\ IsGlobal(s) <=> IsGlobal(m)
      /\ IsDelete(s) <=> IsDelete(m)
      /\ GlobalDispId(s) = GlobalDispId(m)
  BY DEF Alike, SameRequest, IsGlobal, IsDelete, GlobalDispId
<1>2. IsGlobal(m) => /\ ObjectToDelete(s) = ObjectToDelete(m) /\ ClassName(s) = ClassName(m)
                     /\ GetFunctionParameter(s, 1, EmptyArgument)
                          = GetFunctionParameter(m, 1, EmptyArgument)
  BY DEF Alike, ObjectToDelete, ClassName
<1>3. Constructs(s) <=> Constructs(m)
  BY <1>1, <1>2 DEF Constructs
<1>4. (Constructs(m) => IsGlobal(m)) /\ (IsDelete(m) => IsGlobal(m))
  BY DEF Constructs, IsDelete
<1>5. CallsObject(m) => CallsObject(s)
  BY <1>1 DEF Alike, CallsObject
<1> QED
  BY <1>1, <1>2, <1>3, <1>4, <1>5 DEF Creating, Deletes

\* The messages with another error code, with another second parameter, and
\* with another first parameter for a call.
LEMMA ErrorIsAlike ==
  ASSUME NEW m, IsMessage(m), NEW error \in ServerErrorCode
  PROVE  /\ Alike(SetErrorCode(m, error), m)
         /\ Len(SetErrorCode(m, error)) = Len(m)
         /\ GetErrorCode(SetErrorCode(m, error)) = error /\ Coded(SetErrorCode(m, error))
         /\ \A i \in 1 .. 3 : \A x :
              GetFunctionParameter(SetErrorCode(m, error), i, x) = GetFunctionParameter(m, i, x)
<1>1. m \in Seq(Argument) /\ Len(m) >= 3
  BY DEF IsMessage
<1> QED
  BY <1>1, SetErrorCodeFacts DEF Alike, IsMessage, Coded

LEMMA ParameterFacts ==
  ASSUME NEW m, IsMessage(m), NEW i \in 1 .. 3, NEW x \in Argument
  PROVE  LET s == SetFunctionParameter(m, i, x)
         IN /\ IsMessage(s) /\ SameRequest(s, m)
            /\ \A y : GetFunctionParameter(s, i, y) = x
            /\ Len(s) = IF 3 + i > Len(m) THEN 3 + i ELSE Len(m)
            /\ i # 1 /\ Len(m) >= 4 => \A y : GetFunctionParameter(s, 1, y) = GetFunctionParameter(m, 1, y)
<1> DEFINE s == SetFunctionParameter(m, i, x)
<1>1. m \in Seq(Argument) /\ Len(m) >= 3 /\ Len(m) \in Nat /\ i \in Nat
  BY DEF IsMessage
<1>2. s = SetParameter(m, 3 + i, x) /\ 3 + i \in Nat \ {0}
  BY <1>1 DEF SetFunctionParameter, eDispIdPosition
<1>3. /\ Len(s) = IF 3 + i > Len(m) THEN 3 + i ELSE Len(m)
      /\ \A j \in 1 .. Len(m) : j # 3 + i => s[j] = m[j]
  <2> HIDE DEF s
  <2>1. /\ Len(SetParameter(m, 3 + i, x)) = IF 3 + i > Len(m) THEN 3 + i ELSE Len(m)
        /\ \A j \in 1 .. Len(m) : j # 3 + i => SetParameter(m, 3 + i, x)[j] = m[j]
    BY <1>1, <1>2, SetParameterFacts
  <2> QED
    BY <1>2, <2>1
<1>4. IsMessage(s) /\ SameRequest(s, m) /\ \A y : GetFunctionParameter(s, i, y) = x
  BY <1>1, SetFunctionParameterFacts DEF IsMessage
<1> HIDE DEF s
<1>5. i # 1 /\ Len(m) >= 4 => \A y : GetFunctionParameter(s, 1, y) = GetFunctionParameter(m, 1, y)
  BY <1>1, <1>3 DEF GetFunctionParameter, GetParameter, eDispIdPosition
<1> QED
  BY <1>3, <1>4, <1>5 DEF s
------------------------------------------------------------------------------
\* What a step of a thread does, by the work the thread is at.
Advances(t) ==
  /\ \/ CreationWork(t) /\ pc[t] = "enterInsert" /\ Goto(t, "insert")
     \/ DeletionWork(t) /\ pc[t] = "process" /\ Goto(t, "enterDelete")
     \/ DeletionWork(t) /\ pc[t] = "enterDelete" /\ Goto(t, "delete")
     \/ CallWork(t) /\ pc[t] = "process" /\ Goto(t, "enterFind")
     \/ CallWork(t) /\ pc[t] = "enterFind" /\ Goto(t, "find")
     \/ CallWork(t) /\ pc[t] = "invoke" /\ Goto(t, "sleep") /\ heap[stub[t]] \notin Value
  /\ UNCHANGED <<heap, allObjects, msg, stub, alive>>
Makes(t) ==
  /\ CreationWork(t) /\ pc[t] = "process" /\ Goto(t, "enterInsert")
  /\ \E a \in Address :
       /\ heap[a] = Free
       /\ heap' = [heap EXCEPT ![a] = GetFunctionParameter(msg[t], 1, EmptyArgument)]
       /\ stub' = [stub EXCEPT ![t] = a]
  /\ UNCHANGED <<allObjects, msg, alive>>
Registers(t) ==
  /\ CreationWork(t) /\ pc[t] = "insert"
  /\ \E m : /\ Alike(m, msg[t]) /\ Len(m) = 5 /\ CreatedHandle(m) = stub[t]
            /\ GetErrorCode(m) = ERROR_SUCCESS
            /\ Finish(t, m)
  /\ allObjects' = allObjects \cup {stub[t]}
  /\ UNCHANGED <<heap, stub, alive>>
Finds(t) ==
  /\ CallWork(t) /\ pc[t] = "find" /\ Goto(t, "invoke")
  /\ GetObjectId(msg[t]) \in allObjects
  /\ stub' = [stub EXCEPT ![t] = GetObjectId(msg[t])]
  /\ UNCHANGED <<heap, allObjects, msg, alive>>
Removes(t) ==
  /\ DeletionWork(t) /\ pc[t] = "delete"
  /\ \E m : Alike(m, msg[t]) /\ Finish(t, m)
  /\ \/ /\ ObjectToDelete(msg[t]) \in allObjects
        /\ heap' = [heap EXCEPT ![ObjectToDelete(msg[t])] = Free]
        /\ alive' \in BOOLEAN
     \/ ObjectToDelete(msg[t]) \notin allObjects /\ UNCHANGED <<heap, alive>>
  /\ UNCHANGED <<allObjects, stub>>
AnswersCall(t) ==
  /\ CallWork(t)
  /\ \/ pc[t] = "process" /\ allObjects = {}
     \/ pc[t] = "find" /\ GetObjectId(msg[t]) \notin allObjects
     \/ pc[t] \in {"invoke", "sleep"}
  /\ \E m : /\ Alike(m, msg[t])
            /\ pc[t] = "invoke" /\ heap[stub[t]] \in Value /\ Len(msg[t]) = 3 =>
                 LastFunctionParameter(m) = heap[stub[t]]
            /\ Finish(t, m)
  /\ UNCHANGED <<heap, allObjects, stub, alive>>
Perishes == alive' = FALSE /\ UNCHANGED <<heap, allObjects, pc, msg, stub>>

\* A message is like itself.
LEMMA AlikeSelf == ASSUME NEW m, IsMessage(m) PROVE Alike(m, m)
BY DEF Alike, SameRequest

\* The kinds of work exclude each other.
LEMMA WorkFacts ==
  ASSUME NEW t \in Thread
  PROVE  /\ CreationWork(t) => /\ IsMessage(msg[t]) /\ Constructs(msg[t]) /\ IsGlobal(msg[t])
                               /\ ~IsDelete(msg[t])
         /\ DeletionWork(t) => /\ IsMessage(msg[t]) /\ IsDelete(msg[t]) /\ IsGlobal(msg[t])
                               /\ ~Constructs(msg[t])
         /\ CallWork(t) => /\ IsMessage(msg[t]) /\ ~IsGlobal(msg[t]) /\ ~IsDelete(msg[t])
                           /\ ~Constructs(msg[t])
BY DEF CreationWork, DeletionWork, CallWork, Creating, Deletes, CallsObject, Constructs, IsDelete,
       GlobalDispId, eCreateIntDispId, eCreateStringDispId, eCreateCustomObjectDispId, eDeleteDispId

\* The answer of an invocation.
LEMMA InvokeAnswers ==
  ASSUME NEW t \in Thread, CallWork(t), NEW content \in Content, InvokeOn(t, content)
  PROVE  \/ Goto(t, "sleep") /\ UNCHANGED msg /\ content = Calculator
         \/ \E m : /\ Alike(m, msg[t])
                   /\ content \in Value /\ Len(msg[t]) = 3 => LastFunctionParameter(m) = content
                   /\ Finish(t, m)
<1>1. IsMessage(msg[t]) /\ ~IsGlobal(msg[t])
  BY WorkFacts
<1>2. /\ ERROR_SUCCESS \in ServerErrorCode /\ ERROR_DISPID_INVALID \in ServerErrorCode
      /\ content \in Argument /\ Computed \in Argument /\ Calculator \notin Value
  BY ConstantFacts, ClientAssumption
<1>3. CASE content # Calculator /\ Finish(t, SetErrorCode(SetFunctionParameter(msg[t], 1, content), ERROR_SUCCESS))
  <2>0. PICK i \in 1 .. 3 : i = 1
    OBVIOUS
  <2> DEFINE p == SetFunctionParameter(msg[t], i, content)
             m == SetErrorCode(p, ERROR_SUCCESS)
  <2>1. /\ IsMessage(p) /\ SameRequest(p, msg[t])
        /\ \A y : GetFunctionParameter(p, i, y) = content
        /\ Len(p) = IF 3 + i > Len(msg[t]) THEN 3 + i ELSE Len(msg[t])
    BY <1>1, <1>2, ParameterFacts
  <2> HIDE DEF p
  <2>2. Alike(m, p) /\ Coded(m) /\ Len(m) = Len(p) /\ \A y : GetFunctionParameter(m, 1, y) = content
    BY <1>2, <2>0, <2>1, ErrorIsAlike
  <2> HIDE DEF m
  <2>3. Alike(m, msg[t])
    BY <1>1, <2>1, <2>2 DEF Alike, SameRequest
  <2>4. Len(msg[t]) = 3 => LastFunctionParameter(m) = content
    <3>1. Len(msg[t]) = 3 => Len(m) = 4 /\ Len(m) - eDispIdPosition = 1
      BY <2>0, <2>1, <2>2 DEF eDispIdPosition
    <3>2. m # <<>>
      BY <2>2, MessageNotEmpty DEF Alike
    <3> QED
      BY <2>2, <3>1, <3>2 DEF LastFunctionParameter
  <2> QED
    BY <1>3, <2>0, <2>3, <2>4 DEF m, p
<1>4. CASE content = Calculator /\ Finish(t, SetErrorCode(msg[t], ERROR_DISPID_INVALID))
  BY <1>1, <1>2, <1>4, ErrorIsAlike
<1>5. CASE content = Calculator /\ Finish(t, Computes(msg[t]))
  <2>1. OutParameter(GetDispId(msg[t])) \in 1 .. 3
    BY DEF OutParameter
  <2>2. PICK i \in 1 .. 3 :
          Finish(t, SetErrorCode(SetFunctionParameter(msg[t], i, Computed), ERROR_SUCCESS))
    BY <1>5, <2>1 DEF Computes
  <2> DEFINE p == SetFunctionParameter(msg[t], i, Computed)
             m == SetErrorCode(p, ERROR_SUCCESS)
  <2>3. IsMessage(p) /\ SameRequest(p, msg[t])
    BY <1>1, <1>2, ParameterFacts
  <2> HIDE DEF p
  <2>4. Alike(m, p) /\ Coded(m)
    BY <1>2, <2>3, ErrorIsAlike
  <2>5. Alike(m, msg[t])
    BY <1>1, <2>3, <2>4 DEF Alike, SameRequest
  <2> QED
    BY <1>2, <1>5, <2>2, <2>5 DEF p
<1> QED
  BY <1>3, <1>4, <1>5 DEF InvokeOn

\* Every step of a thread is one of these.
StepEffect(t) ==
  \/ Advances(t) \/ Makes(t) \/ Registers(t) \/ Finds(t) \/ Removes(t) \/ AnswersCall(t)
  \/ Perishes
LEMMA StepHasEffect ==
  ASSUME TypeOK, NEW t \in Thread, WorkInv(t), Step(t)
  PROVE  StepEffect(t) /\ csOwner' \in Thread \cup {NoThread} /\ pc[t] # "idle"
<1>1. /\ pc[t] # "idle" /\ csOwner' \in Thread \cup {NoThread}
  BY DEF Step, At, Inside, Construct, RejectGlobal, BeginDelete, BeginCall, Enter, Insert, Find,
         Delete, Invoke, InvokeFreed, LongOperation, Leave, TypeOK
<1>2. CreationWork(t) \/ DeletionWork(t) \/ CallWork(t)
  BY <1>1 DEF WorkInv
<1>3. /\ CreationWork(t) => /\ Constructs(msg[t]) /\ IsGlobal(msg[t]) /\ ~IsDelete(msg[t])
                            /\ IsMessage(msg[t])
      /\ DeletionWork(t) => /\ IsDelete(msg[t]) /\ IsGlobal(msg[t]) /\ ~Constructs(msg[t])
                            /\ IsMessage(msg[t]) /\ ObjectToDelete(msg[t]) \in Address
      /\ CallWork(t) => ~IsGlobal(msg[t]) /\ ~IsDelete(msg[t]) /\ ~Constructs(msg[t]) /\ IsMessage(msg[t])
  BY WorkFacts DEF DeletionWork, Deletes
<1>4. /\ CreationWork(t) => pc[t] \in {"process", "enterInsert", "insert", "done"}
      /\ DeletionWork(t) => pc[t] \in {"process", "enterDelete", "delete", "done"}
      /\ CallWork(t) => pc[t] \in {"process", "enterFind", "find", "invoke", "sleep", "done"}
  BY DEF CreationWork, DeletionWork, CallWork
<1>5. /\ ServerErrorCode \subseteq Argument /\ ERROR_SUCCESS \in ServerErrorCode
      /\ ERROR_NO_OBJECT_FOUND \in ServerErrorCode /\ Handle \subseteq Argument
  BY ConstantFacts
<1> SUFFICES StepEffect(t)
  BY <1>1
<1>6. CASE Construct(t)
  <2>1. CreationWork(t) /\ pc[t] = "process"
    BY <1>2, <1>3, <1>6 DEF Construct, At
  <2>2. Makes(t)
    BY <1>6, <2>1 DEF Construct, Makes
  <2> QED
    BY <2>2 DEF StepEffect
<1>7. CASE RejectGlobal(t)
  BY <1>2, <1>3, <1>7 DEF RejectGlobal
<1>8. CASE BeginDelete(t)
  <2>1. DeletionWork(t) /\ ObjectToDelete(msg[t]) # NullHandle
    BY <1>2, <1>3, <1>8, DistinctAssumption DEF BeginDelete
  <2>2. Advances(t)
    BY <1>8, <2>1 DEF BeginDelete, At, Advances
  <2> QED
    BY <2>2 DEF StepEffect
<1>9. CASE BeginCall(t)
  <2>1. CallWork(t) /\ pc[t] = "process" /\ Alike(msg[t], msg[t])
    BY <1>2, <1>3, <1>9, AlikeSelf DEF BeginCall, At
  <2>2. CASE allObjects = {}
    <3>1. Finish(t, msg[t])
      BY <1>9, <2>2 DEF BeginCall, Finish, Goto, TypeOK
    <3>2. AnswersCall(t)
      BY <1>9, <2>1, <2>2, <3>1 DEF BeginCall, AnswersCall
    <3> QED
      BY <3>2 DEF StepEffect
  <2>3. CASE allObjects # {}
    <3>1. Advances(t)
      BY <1>9, <2>1, <2>3 DEF BeginCall, Advances
    <3> QED
      BY <3>1 DEF StepEffect
  <2> QED
    BY <2>2, <2>3
<1>10. CASE Enter(t)
  <2>1. \/ CreationWork(t) /\ pc[t] = "enterInsert" /\ Goto(t, "insert")
        \/ DeletionWork(t) /\ pc[t] = "enterDelete" /\ Goto(t, "delete")
        \/ CallWork(t) /\ pc[t] = "enterFind" /\ Goto(t, "find")
    BY <1>2, <1>4, <1>10 DEF Enter, Inside
  <2>2. Advances(t)
    BY <1>10, <2>1 DEF Enter, Advances
  <2> QED
    BY <2>2 DEF StepEffect
<1>11. CASE Insert(t)
  <2>1. CreationWork(t) /\ pc[t] = "insert" /\ IsMessage(msg[t]) /\ Len(msg[t]) = 4
    BY <1>2, <1>3, <1>4, <1>11 DEF Insert, At, CreationWork
  <2>2. stub[t] \in Argument
    BY <1>5 DEF TypeOK
  <2>3. PICK i \in 1 .. 3 : i = 2
    OBVIOUS
  <2> DEFINE p == SetFunctionParameter(msg[t], i, stub[t])
             m == SetErrorCode(p, ERROR_SUCCESS)
  <2>4. /\ IsMessage(p) /\ SameRequest(p, msg[t])
        /\ \A y : GetFunctionParameter(p, i, y) = stub[t]
        /\ Len(p) = IF 3 + i > Len(msg[t]) THEN 3 + i ELSE Len(msg[t])
        /\ i # 1 /\ Len(msg[t]) >= 4 =>
             \A y : GetFunctionParameter(p, 1, y) = GetFunctionParameter(msg[t], 1, y)
    BY <2>1, <2>2, ParameterFacts
  <2>5. Finish(t, m)
    BY <1>11, <2>3 DEF Insert
  <2> HIDE DEF p
  <2>6. /\ Alike(m, p) /\ Coded(m) /\ Len(m) = Len(p) /\ GetErrorCode(m) = ERROR_SUCCESS
        /\ \A j \in 1 .. 3 : \A y : GetFunctionParameter(m, j, y) = GetFunctionParameter(p, j, y)
    BY <1>5, <2>4, ErrorIsAlike
  <2> HIDE DEF m
  <2>7. Len(m) = 5
    BY <2>1, <2>3, <2>4, <2>6
  <2>8. CreatedHandle(m) = stub[t]
    BY <2>3, <2>4, <2>6 DEF CreatedHandle
  <2>9. Alike(m, msg[t])
    <3>1. IsMessage(m) /\ SameRequest(m, msg[t])
      BY <2>4, <2>6 DEF Alike, SameRequest
    <3>2. \A y : GetFunctionParameter(m, 1, y) = GetFunctionParameter(msg[t], 1, y)
      BY <2>1, <2>3, <2>4, <2>6
    <3> QED
      BY <2>6, <3>1, <3>2 DEF Alike
  <2>10. Registers(t)
    BY <1>11, <2>1, <2>5, <2>6, <2>7, <2>8, <2>9 DEF Insert, Registers
  <2> QED
    BY <2>10 DEF StepEffect
<1>12. CASE Find(t)
  <2>1. CallWork(t) /\ pc[t] = "find"
    BY <1>2, <1>4, <1>12 DEF Find, At
  <2>2. CASE GetObjectId(msg[t]) \in allObjects
    <3>1. Finds(t)
      BY <1>12, <2>1, <2>2 DEF Find, Finds
    <3> QED
      BY <3>1 DEF StepEffect
  <2>3. CASE GetObjectId(msg[t]) \notin allObjects
    <3>1. Alike(SetErrorCode(msg[t], ERROR_NO_OBJECT_FOUND), msg[t])
      BY <1>3, <1>5, <2>1, ErrorIsAlike
    <3>2. Finish(t, SetErrorCode(msg[t], ERROR_NO_OBJECT_FOUND)) /\ pc[t] # "invoke"
      BY <1>12, <2>1, <2>3 DEF Find
    <3> HIDE DEF Finish
    <3>3. AnswersCall(t)
      BY <1>12, <2>1, <2>3, <3>1, <3>2 DEF Find, AnswersCall
    <3> QED
      BY <3>3 DEF StepEffect
  <2> QED
    BY <2>2, <2>3
<1>13. CASE Delete(t)
  <2>1. DeletionWork(t) /\ pc[t] = "delete"
    BY <1>2, <1>4, <1>13 DEF Delete, At
  <2>2. /\ Alike(SetErrorCode(msg[t], ERROR_SUCCESS), msg[t])
        /\ Alike(SetErrorCode(msg[t], ERROR_NO_OBJECT_FOUND), msg[t])
    BY <1>3, <1>5, <2>1, ErrorIsAlike
  <2>3. \E m : Alike(m, msg[t]) /\ Finish(t, m)
    BY <1>13, <2>2 DEF Delete
  <2>4. \/ /\ ObjectToDelete(msg[t]) \in allObjects
           /\ heap' = [heap EXCEPT ![ObjectToDelete(msg[t])] = Free]
           /\ alive' \in BOOLEAN
        \/ ObjectToDelete(msg[t]) \notin allObjects /\ UNCHANGED <<heap, alive>>
    BY <1>13 DEF Delete
  <2>5. Removes(t)
    BY <1>13, <2>1, <2>3, <2>4 DEF Delete, Removes
  <2> QED
    BY <2>5 DEF StepEffect
<1>14. ASSUME NEW content \in Content, InvokeOn(t, content), CallWork(t), pc[t] = "invoke",
              UNCHANGED <<heap, allObjects, stub, alive>>,
              heap[stub[t]] = content \/ heap[stub[t]] = Free
       PROVE  StepEffect(t)
  <2>1. heap[stub[t]] \in Value => heap[stub[t]] = content
    BY <1>14, DistinctAssumption DEF Content
  <2>2. CASE Goto(t, "sleep") /\ UNCHANGED msg /\ content = Calculator
    <3>1. heap[stub[t]] \notin Value
      BY <2>1, <2>2, ClientAssumption
    <3>2. Advances(t)
      BY <1>14, <2>2, <3>1 DEF Advances
    <3> QED
      BY <3>2 DEF StepEffect
  <2>3. CASE \E m : /\ Alike(m, msg[t])
                    /\ content \in Value /\ Len(msg[t]) = 3 => LastFunctionParameter(m) = content
                    /\ Finish(t, m)
    <3>1. AnswersCall(t)
      BY <1>14, <2>1, <2>3 DEF AnswersCall
    <3> QED
      BY <3>1 DEF StepEffect
  <2> QED
    BY <1>14, <2>2, <2>3, InvokeAnswers
<1>15. CASE Invoke(t)
  <2>1. CallWork(t) /\ pc[t] = "invoke"
    BY <1>2, <1>4, <1>15 DEF Invoke, At
  <2>2. stub[t] \in Address
    BY <1>3, <2>1 DEF CallWork, IsGlobal, TypeOK, Handle
  <2>3. heap[stub[t]] \in Content
    BY <1>15, <2>2 DEF Invoke, TypeOK
  <2>4. InvokeOn(t, heap[stub[t]]) /\ UNCHANGED <<heap, allObjects, stub, alive>>
    BY <1>15 DEF Invoke
  <2> QED
    BY <1>14, <2>1, <2>3, <2>4
<1>16. CASE InvokeFreed(t)
  <2>1. CallWork(t) /\ pc[t] = "invoke"
    BY <1>2, <1>4, <1>16 DEF InvokeFreed, At
  <2>2. CASE Dies /\ UNCHANGED <<pc, msg>>
    <3>1. Perishes
      BY <1>16, <2>2 DEF InvokeFreed, Dies, Perishes
    <3> QED
      BY <3>1 DEF StepEffect
  <2>3. CASE UNCHANGED alive /\ \E content \in Content : InvokeOn(t, content)
    <3>1. PICK content \in Content : InvokeOn(t, content)
      BY <2>3
    <3>2. heap[stub[t]] = Free /\ UNCHANGED <<heap, allObjects, stub, alive>>
      BY <1>16, <2>3 DEF InvokeFreed
    <3> QED
      BY <1>14, <2>1, <3>1, <3>2
  <2> QED
    BY <1>16, <2>2, <2>3 DEF InvokeFreed
<1>17. CASE LongOperation(t)
  <2>1. CallWork(t) /\ pc[t] = "sleep" /\ IsMessage(msg[t])
    BY <1>2, <1>3, <1>4, <1>17 DEF LongOperation, At
  <2>2. OutParameter(GetDispId(msg[t])) \in 1 .. 3
    BY DEF OutParameter
  <2>3. PICK i \in 1 .. 3 :
          Finish(t, SetErrorCode(SetFunctionParameter(msg[t], i, Computed), ERROR_SUCCESS))
    BY <1>17, <2>2 DEF LongOperation, Computes
  <2> DEFINE p == SetFunctionParameter(msg[t], i, Computed)
  <2>4. IsMessage(p) /\ SameRequest(p, msg[t])
    BY <2>1, ParameterFacts, ConstantFacts
  <2> HIDE DEF p
  <2>5. Alike(SetErrorCode(p, ERROR_SUCCESS), p) /\ Coded(SetErrorCode(p, ERROR_SUCCESS))
    BY <1>5, <2>4, ErrorIsAlike
  <2>6. Alike(SetErrorCode(p, ERROR_SUCCESS), msg[t])
    BY <1>3, <2>1, <2>4, <2>5 DEF Alike, SameRequest
  <2>7. AnswersCall(t)
    BY <1>17, <2>1, <2>3, <2>6 DEF LongOperation, AnswersCall, p
  <2> QED
    BY <2>7 DEF StepEffect
<1> QED
  BY <1>6, <1>7, <1>8, <1>9, <1>10, <1>11, <1>12, <1>13, <1>15, <1>16, <1>17 DEF Step
------------------------------------------------------------------------------
\* What a step leaves alone stays true.
SameCaller(d) ==
  /\ phase'[d] = phase[d] /\ proxy'[d] = proxy[d] /\ request'[d] = request[d]
  /\ serving'[d] = serving[d]
SameClient(d) == SameCaller(d) /\ handlers'[d] = handlers[d] /\ stopped'[d] = stopped[d]
SameKind(u) == Alike(msg'[u], msg[u])

\* What the types say of one client, one handler and one thread.
LEMMA ShapeFacts ==
  ASSUME AsyncShape
  PROVE  /\ \A c \in Client :
              /\ handlers[c] \in Seq(HandlerRecord) /\ Handlers(c) = 1 .. Len(handlers[c])
              /\ Len(handlers[c]) \in Nat /\ 0 \notin Handlers(c)
              /\ \A i \in Handlers(c) : handlers[c][i] \in HandlerRecord /\ i \in Nat
              /\ serving[c] \in Thread \cup {NoThread} /\ request[c] \in Seq(Argument)
              /\ proxy[c] \in Handle /\ stopped[c] \in Nat /\ requests[c] \in Nat
              /\ c \notin Calculators => sent[c] \in Value
         /\ \A t \in Thread : pc[t] \in Labels /\ msg[t] \in Seq(Argument) /\ stub[t] \in Handle
         /\ NoThread \notin Thread
<1>1. ASSUME NEW c \in Client
      PROVE  /\ handlers[c] \in Seq(HandlerRecord) /\ Handlers(c) = 1 .. Len(handlers[c])
             /\ Len(handlers[c]) \in Nat /\ 0 \notin Handlers(c)
             /\ \A i \in Handlers(c) : handlers[c][i] \in HandlerRecord /\ i \in Nat
  <2>1. handlers[c] \in Seq(HandlerRecord)
    BY DEF AsyncShape
  <2> QED
    BY <2>1 DEF Handlers
<1>2. ASSUME NEW c \in Client
      PROVE  /\ serving[c] \in Thread \cup {NoThread} /\ request[c] \in Seq(Argument)
             /\ proxy[c] \in Handle /\ stopped[c] \in Nat /\ requests[c] \in Nat
             /\ c \notin Calculators => sent[c] \in Value
  BY DEF AsyncShape
<1>3. \A t \in Thread : pc[t] \in Labels /\ msg[t] \in Seq(Argument) /\ stub[t] \in Handle
  BY DEF AsyncShape, TypeOK
<1> QED
  BY <1>1, <1>2, <1>3, DistinctAssumption

LEMMA WorkKept ==
  ASSUME NEW t, SameThread(t), WorkInv(t)
  PROVE  WorkInv(t)'
BY DEF SameThread, WorkInv, CreationWork, DeletionWork, CallWork

\* A message of the same kind fits too.
LEMMA FitsKept ==
  ASSUME NEW c, NEW m, NEW s, Fits(c, m), Waiting(c), Alike(s, m),
         phase'[c] = phase[c], proxy'[c] = proxy[c], OwnContent(c)' = OwnContent(c)
  PROVE  Fits(c, s)' /\ IsMessage(m)
BY AlikeFacts DEF Fits, Waiting, Creation, CallOf, CallsObject, Deletion, Constructs, IsDelete

LEMMA ConcernsKept ==
  ASSUME NEW c, NEW i, NEW m, NEW s, Concerns(c, i, m), Alike(s, m),
         handlers'[c][i].request = handlers[c][i].request, OwnContent(c)' = OwnContent(c)
  PROVE  (Concerns(c, i, s))' /\ IsMessage(m)
<1>1. SameRequest(s, handlers'[c][i].request)
  BY DEF Concerns, Alike, SameRequest
<1> QED
  BY <1>1, AlikeFacts DEF Concerns, SendsValue, Creation, CallsObject, Constructs

LEMMA CallerKept ==
  ASSUME BaseAsync, NEW d \in Client, SameCaller(d), UNCHANGED sent,
         serving[d] # NoThread => SameKind(serving[d])
  PROVE  CallerInv(d)'
<1>1. CallerInv(d) /\ OwnContent(d)' = OwnContent(d)
  BY DEF BaseAsync, OwnContent
<1>2. Waiting(d)' <=> Waiting(d)
  BY DEF Waiting, SameCaller
<1>3. Waiting(d) => Fits(d, request[d])'
  <2>1. Waiting(d) => IsMessage(request[d]) /\ Alike(request[d], request[d])
    BY <1>1, AlikeSelf DEF CallerInv, Fits, Waiting, Creation, CallOf, CallsObject, Deletion
  <2> QED
    BY <1>1, <2>1, FitsKept DEF CallerInv, SameCaller
<1>4. serving[d] # NoThread => Fits(d, msg[serving[d]])'
  BY <1>1, FitsKept DEF CallerInv, SameCaller, SameKind
<1> QED
  BY <1>1, <1>2, <1>3, <1>4 DEF CallerInv, SameCaller

LEMMA HandlerKept ==
  ASSUME BaseAsync, NEW d \in Client, NEW i \in Handlers(d), handlers'[d][i] = handlers[d][i],
         UNCHANGED sent,
         handlers[d][i].at = "read" => SameKind(handlers[d][i].thread)
  PROVE  HandlerInv(d, i)'
<1> DEFINE h == handlers[d][i]
<1>1. HandlerInv(d, i) /\ OwnContent(d)' = OwnContent(d)
  BY DEF BaseAsync, OwnContent
<1>2. SendsValue(d, i)' <=> SendsValue(d, i)
  BY DEF SendsValue
<1>3. \A m : (Concerns(d, i, m))' <=> Concerns(d, i, m)
  BY <1>1, <1>2 DEF Concerns, Creation
<1>4. h.at = "read" => Concerns(d, i, msg[handlers[d][i].thread])'
  <2>1. h.at = "read" => Concerns(d, i, msg[h.thread])
    BY <1>1 DEF HandlerInv
  <2> QED
    BY <1>1, <2>1, ConcernsKept DEF SameKind
<1>5. Concerns(d, i, handlers[d][i].request)' /\ (h.response # <<>> => Concerns(d, i, handlers[d][i].response)')
  BY <1>1, <1>3 DEF HandlerInv
<1> QED
  BY <1>1, <1>2, <1>4, <1>5 DEF HandlerInv

\* A thread that is read has a message.
LEMMA ReadMessage ==
  ASSUME BaseAsync, NEW c \in Client, NEW i \in Nat, NEW t \in Thread, Reader(c, i, t)
  PROVE  /\ IsMessage(msg[t]) /\ pc[t] # "idle"
         /\ SameThread(t) => SameKind(t) /\ pc'[t] # "idle"
<1>1. IsMessage(msg[t])
  <2>1. CASE serving[c] = t
    <3>1. Waiting(c) /\ Fits(c, msg[t])
      BY <2>1, ShapeFacts DEF BaseAsync, CallerInv
    <3> QED
      BY <3>1 DEF Fits, Waiting, Creation, CallOf, CallsObject, Deletion
  <2>2. CASE i \in Handlers(c) /\ handlers[c][i].at = "read" /\ handlers[c][i].thread = t
    BY <2>2 DEF BaseAsync, HandlerInv, Concerns, Creation, CallsObject
  <2> QED
    BY <2>1, <2>2 DEF Reader
<1>2. pc[t] # "idle"
  BY DEF BaseAsync, ReaderInv
<1> QED
  BY <1>1, <1>2, AlikeSelf DEF SameThread, SameKind

\* A step of c and perhaps of one thread: the other clients are as they were,
\* with the threads they read.
OtherClientsSame(c) ==
  /\ UNCHANGED sent
  /\ \A d \in Client \ {c} : SameClient(d)
  /\ \A d \in Client \ {c} : \A i \in Nat : \A t \in Thread :
       Reader(d, i, t) => pc'[t] # "idle" /\ SameKind(t)
ReadersOK(c) ==
  \A i \in Nat : \A t \in Thread :
    Reader(c, i, t)' =>
      /\ pc'[t] # "idle"
      /\ \A d \in Client \ {c} : \A j \in Nat : ~Reader(d, j, t)
      /\ \A j \in Nat : Reader(c, j, t)' => i = j
ClientOK(c) ==
  CallerInv(c) /\ StoppedInv(c) /\ \A i \in Handlers(c) : HandlerInv(c, i)

LEMMA OtherReaders ==
  ASSUME NEW d, SameClient(d), NEW i, NEW t
  PROVE  Reader(d, i, t)' <=> Reader(d, i, t)
BY DEF SameClient, SameCaller, Reader, Handlers

\* The others keep what is true of them.
LEMMA SameClientOK ==
  ASSUME BaseAsync, NEW d \in Client, SameClient(d), UNCHANGED sent,
         \A i \in Nat : \A t \in Thread : Reader(d, i, t) => SameKind(t)
  PROVE  ClientOK(d)'
<1>1. /\ SameClient(d) /\ UNCHANGED sent
      /\ \A i \in Nat : \A t \in Thread : Reader(d, i, t) => SameKind(t)
  OBVIOUS
<1>2. CallerInv(d)'
  <2>1. serving[d] # NoThread => Reader(d, 0, serving[d]) /\ serving[d] \in Thread
    BY ShapeFacts DEF Reader, BaseAsync
  <2> QED
    BY <1>1, <2>1, CallerKept DEF SameClient
<1>3. StoppedInv(d)'
  BY <1>1 DEF BaseAsync, StoppedInv, SameClient
<1>4. ASSUME NEW i \in Handlers(d)
      PROVE  HandlerInv(d, i)'
  <2>1. i \in Nat
    BY ShapeFacts DEF BaseAsync
  <2>2. handlers[d][i].at = "read" =>
          Reader(d, i, handlers[d][i].thread) /\ handlers[d][i].thread \in Thread
    BY DEF Reader, BaseAsync, HandlerInv
  <2> QED
    BY <1>1, <2>1, <2>2, HandlerKept DEF SameClient
<1>5. Handlers(d)' = Handlers(d)
  BY <1>1 DEF Handlers, SameClient
<1> QED
  BY <1>2, <1>3, <1>4, <1>5 DEF ClientOK

LEMMA BaseFrame ==
  ASSUME BaseAsync, NEW c \in Client, AsyncShape', OtherClientsSame(c),
         \A t \in Thread : WorkInv(t)', ReadersOK(c), ClientOK(c)'
  PROVE  BaseAsync'
<1>1. \A d \in Client : ClientOK(d)'
  BY SameClientOK DEF OtherClientsSame
<1>2. ReaderInv'
  <2>1. ASSUME NEW d \in Client, NEW i \in Nat, NEW t \in Thread, Reader(d, i, t)',
               NEW e \in Client, NEW j \in Nat
        PROVE  pc'[t] # "idle" /\ (Reader(e, j, t)' => e = d /\ j = i)
    <3>1. /\ d # c => Reader(d, i, t) /\ pc'[t] # "idle"
          /\ e # c => (Reader(e, j, t)' <=> Reader(e, j, t))
      BY <2>1, OtherReaders DEF OtherClientsSame
    <3>2. Reader(d, i, t) /\ Reader(e, j, t) => e = d /\ j = i
      BY DEF BaseAsync, ReaderInv
    <3>3. d = c => /\ pc'[t] # "idle" /\ (e # c => ~Reader(e, j, t))
                   /\ e = c => (Reader(e, j, t)' => j = i)
      BY <2>1 DEF ReadersOK
    <3>4. e = c /\ d # c => ~Reader(e, j, t)'
      BY <3>1 DEF ReadersOK
    <3> QED
      BY <3>1, <3>2, <3>3, <3>4
  <2> QED
    BY <2>1 DEF ReaderInv
<1> QED
  BY <1>1, <1>2 DEF BaseAsync, ClientOK

\* The step of a client alone; nobody new reads a thread.
LEMMA ClientStepKeepsBase ==
  ASSUME BaseAsync, NEW c \in Client, AsyncShape', UNCHANGED <<vars, sent>>,
         \A d \in Client \ {c} : SameClient(d), ClientOK(c)',
         \A i \in Nat : \A t \in Thread : Reader(c, i, t)' => Reader(c, i, t)
  PROVE  BaseAsync'
<1>1. \A t : SameThread(t)
  BY DEF vars, SameThread
<1>2. \A t \in Thread : WorkInv(t)'
  BY <1>1, WorkKept DEF BaseAsync
<1>3. OtherClientsSame(c)
  BY <1>1, ReadMessage DEF OtherClientsSame
<1>4. ReadersOK(c)
  <2>1. \A t : pc'[t] = pc[t]
    BY <1>1 DEF SameThread
  <2> QED
    BY <2>1 DEF ReadersOK, BaseAsync, ReaderInv
<1> QED
  BY <1>2, <1>3, <1>4, BaseFrame

\* A thread starts to work on a request of c, and k waits for its answer.
LEMMA ReceiveKeepsBase ==
  ASSUME BaseAsync, NEW c \in Client, NEW k \in Nat, NEW t \in Thread, NEW r,
         Receive(t, r), (Creating(r) /\ Len(r) = 4) \/ Deletes(r) \/ CallsObject(r),
         AsyncShape', UNCHANGED sent,
         \A d \in Client \ {c} : SameClient(d), ClientOK(c)',
         \A i \in Nat : \A u \in Thread : Reader(c, i, u)' => Reader(c, i, u) \/ (i = k /\ u = t)
  PROVE  BaseAsync'
<1>1. /\ pc[t] = "idle" /\ pc'[t] = "process" /\ msg'[t] = r
      /\ \A u \in Thread \ {t} : SameThread(u)
  BY DEF Receive, At, Goto, SameThread, BaseAsync, AsyncShape, TypeOK
<1>2. \A u \in Thread : WorkInv(u)'
  BY <1>1, WorkKept DEF BaseAsync, WorkInv, CreationWork, DeletionWork, CallWork
<1>3. \A d \in Client : \A i \in Nat : ~Reader(d, i, t)
  BY <1>1 DEF BaseAsync, ReaderInv
<1>4. OtherClientsSame(c)
  BY <1>1, <1>3, ReadMessage DEF OtherClientsSame
<1>5. ReadersOK(c)
  <2>1. \A u \in Thread \ {t} : pc'[u] = pc[u]
    BY <1>1 DEF SameThread
  <2> QED
    BY <1>1, <1>3, <2>1 DEF ReadersOK, BaseAsync, ReaderInv
<1> QED
  BY <1>2, <1>4, <1>5, BaseFrame

\* A thread whose answer k of c has read is ready for another request.
LEMMA EndKeepsBase ==
  ASSUME BaseAsync, NEW c \in Client, NEW k \in Nat, NEW t \in Thread, Reader(c, k, t),
         End(t), AsyncShape', UNCHANGED sent,
         \A d \in Client \ {c} : SameClient(d), ClientOK(c)',
         \A i \in Nat : \A u \in Thread : Reader(c, i, u)' => Reader(c, i, u) /\ u # t
  PROVE  BaseAsync'
<1>1. pc'[t] = "idle" /\ \A u \in Thread \ {t} : SameThread(u)
  BY DEF End, Set, SameThread, BaseAsync, AsyncShape, TypeOK
<1>2. \A u \in Thread : WorkInv(u)'
  BY <1>1, WorkKept DEF BaseAsync, WorkInv
<1>3. \A d \in Client \ {c} : \A i \in Nat : ~Reader(d, i, t)
  BY DEF BaseAsync, ReaderInv
<1>4. OtherClientsSame(c)
  BY <1>1, <1>3, ReadMessage DEF OtherClientsSame
<1>5. ReadersOK(c)
  <2>1. \A u \in Thread \ {t} : pc'[u] = pc[u]
    BY <1>1 DEF SameThread
  <2> QED
    BY <2>1 DEF ReadersOK, BaseAsync, ReaderInv
<1> QED
  BY <1>2, <1>4, <1>5, BaseFrame

\* A step of the thread t: those who wait for it go on waiting.
ClientsUnchanged == UNCHANGED <<phase, proxy, request, serving, sent, handlers, stopped>>
LEMMA ThreadStepKeepsBase ==
  ASSUME BaseAsync, NEW t \in Thread, AsyncShape', ClientsUnchanged,
         \A u \in Thread \ {t} : SameThread(u), WorkInv(t)',
         \A c \in Client : \A i \in Nat : Reader(c, i, t) => pc'[t] # "idle" /\ SameKind(t)
  PROVE  BaseAsync'
<1>1. \A d \in Client : SameClient(d)
  BY DEF SameClient, SameCaller, ClientsUnchanged
<1>2. \A u \in Thread : WorkInv(u)'
  BY WorkKept DEF BaseAsync
<1>3. \A d \in Client : \A i \in Nat : \A u \in Thread :
        Reader(d, i, u) => pc'[u] # "idle" /\ SameKind(u)
  BY ReadMessage
<1>4. \A d \in Client : ClientOK(d)'
  BY <1>1, <1>3, SameClientOK DEF ClientsUnchanged
<1>5. ReaderInv'
  BY <1>1, <1>3, OtherReaders DEF BaseAsync, ReaderInv
<1> QED
  BY <1>2, <1>4, <1>5 DEF BaseAsync, ClientOK
------------------------------------------------------------------------------
\* A step of a thread goes on with its work.
LEMMA EffectOnWork ==
  ASSUME TypeOK, NEW t \in Thread, WorkInv(t), pc[t] # "idle", StepEffect(t)
  PROVE  WorkInv(t)' /\ pc'[t] # "idle" /\ SameKind(t)
<1>1. IsMessage(msg[t]) /\ Alike(msg[t], msg[t])
  BY AlikeSelf DEF WorkInv, CreationWork, DeletionWork, CallWork, Creating, Deletes, CallsObject
<1>2. CASE Advances(t)
  <2>1. msg' = msg /\ stub' = stub
    BY <1>2 DEF Advances
  <2>2. pc'[t] # "idle" /\ WorkInv(t)'
    BY <1>2, <2>1 DEF Advances, Goto, TypeOK, WorkInv, CreationWork, DeletionWork, CallWork
  <2> QED
    BY <1>1, <2>1, <2>2 DEF SameKind
<1>3. CASE Makes(t)
  BY <1>1, <1>3 DEF Makes, Goto, TypeOK, WorkInv, CreationWork, SameKind
<1>4. CASE Registers(t)
  <2>1. PICK m : /\ Alike(m, msg[t]) /\ Len(m) = 5 /\ CreatedHandle(m) = stub[t]
                 /\ GetErrorCode(m) = ERROR_SUCCESS /\ Finish(t, m)
    BY <1>4 DEF Registers
  <2>2. pc'[t] = "done" /\ msg'[t] = m /\ stub' = stub /\ stub[t] \in Address
    BY <1>4, <2>1 DEF Registers, Finish, Goto, TypeOK, CreationWork
  <2>3. Creating(m)
    BY <1>4, <2>1, AlikeFacts DEF Registers, CreationWork
  <2> QED
    BY <2>1, <2>2, <2>3 DEF WorkInv, CreationWork, SameKind
<1>5. CASE Finds(t)
  BY <1>1, <1>5 DEF Finds, Goto, TypeOK, WorkInv, CallWork, SameKind
<1>6. CASE Removes(t)
  <2>1. PICK m : Alike(m, msg[t]) /\ Finish(t, m)
    BY <1>6 DEF Removes
  <2>2. pc'[t] = "done" /\ msg'[t] = m
    BY <2>1 DEF Finish, Goto, TypeOK
  <2>3. Deletes(m)
    BY <1>6, <2>1, AlikeFacts DEF Removes, DeletionWork
  <2> QED
    BY <2>1, <2>2, <2>3 DEF WorkInv, DeletionWork, SameKind
<1>7. CASE AnswersCall(t)
  <2>1. PICK m : Alike(m, msg[t]) /\ Finish(t, m)
    BY <1>7 DEF AnswersCall
  <2>2. pc'[t] = "done" /\ msg'[t] = m
    BY <2>1 DEF Finish, Goto, TypeOK
  <2>3. CallsObject(m)
    BY <1>7, <2>1, AlikeFacts DEF AnswersCall, CallWork
  <2> QED
    BY <2>1, <2>2, <2>3 DEF WorkInv, CallWork, SameKind
<1>8. CASE Perishes
  BY <1>1, <1>8, WorkKept DEF Perishes, SameThread, SameKind
<1> QED
  BY <1>2, <1>3, <1>4, <1>5, <1>6, <1>7, <1>8 DEF StepEffect

\* It leaves the other threads alone and keeps the types.
LEMMA EffectOnTypes ==
  ASSUME TypeOK, NEW t \in Thread, WorkInv(t), StepEffect(t),
         csOwner' \in Thread \cup {NoThread}
  PROVE  TypeOK' /\ \A u \in Thread \ {t} : SameThread(u)
<1>1. /\ pc' = pc \/ \E label \in Labels : pc' = [pc EXCEPT ![t] = label]
      /\ msg' = msg \/ \E m : IsMessage(m) /\ msg' = [msg EXCEPT ![t] = m]
  BY DEF StepEffect, Advances, Makes, Registers, Finds, Removes, AnswersCall, Perishes, Goto,
         Finish, Alike, Labels
<1>2. /\ stub' = stub \/ \E a \in Address : stub' = [stub EXCEPT ![t] = a]
      /\ alive' \in BOOLEAN
      /\ allObjects' = allObjects \/ (allObjects' = allObjects \cup {stub[t]} /\ stub[t] \in Address)
      /\ heap' = heap \/ \E a : \E x \in Content \cup {Free} : heap' = [heap EXCEPT ![a] = x]
  <2>1. /\ alive' \in BOOLEAN
        /\ allObjects' = allObjects \/ (allObjects' = allObjects \cup {stub[t]} /\ stub[t] \in Address)
    BY DEF StepEffect, Advances, Makes, Registers, Finds, Removes, AnswersCall, Perishes,
           CreationWork, TypeOK
  <2>2. stub' = stub \/ \E a \in Address : stub' = [stub EXCEPT ![t] = a]
    BY DEF StepEffect, Advances, Makes, Registers, Finds, Removes, AnswersCall, Perishes, TypeOK
  <2>3. heap' = heap \/ \E a : \E x \in Content \cup {Free} : heap' = [heap EXCEPT ![a] = x]
    <3>1. CASE Makes(t)
      <4>1. GetFunctionParameter(msg[t], 1, EmptyArgument) \in Content
        BY <3>1 DEF Makes, CreationWork, Creating
      <4> QED
        BY <3>1, <4>1 DEF Makes
    <3>2. CASE Removes(t)
      BY <3>2 DEF Removes
    <3> QED
      BY <3>1, <3>2 DEF StepEffect, Advances, Registers, Finds, AnswersCall, Perishes
  <2> QED
    BY <2>1, <2>2, <2>3
<1>3. msg' \in [Thread -> Seq(Argument)]
  <2>1. msg' = msg \/ \E m \in Seq(Argument) : msg' = [msg EXCEPT ![t] = m]
    BY <1>1 DEF IsMessage
  <2> QED
    BY <2>1 DEF TypeOK
<1>4. pc' \in [Thread -> Labels] /\ stub' \in [Thread -> Handle]
  BY <1>1, <1>2 DEF TypeOK, Handle
<1>5. heap' \in [Address -> Content \cup {Free}]
  BY <1>2 DEF TypeOK
<1>6. allObjects' \subseteq Address
  BY <1>2 DEF TypeOK
<1>7. \A u \in Thread \ {t} : SameThread(u)
  BY <1>1, <1>2 DEF TypeOK, SameThread
<1> QED
  BY <1>2, <1>3, <1>4, <1>5, <1>6, <1>7 DEF TypeOK

LEMMA ServeKeepsBase ==
  ASSUME BaseAsync, NEW t \in Thread, Synchronously(Serve(t))
  PROVE  BaseAsync'
<1>1. TypeOK /\ WorkInv(t) /\ Step(t)
  BY DEF BaseAsync, AsyncShape, Synchronously, Serve
<1>2. StepEffect(t) /\ csOwner' \in Thread \cup {NoThread} /\ pc[t] # "idle"
  BY <1>1, StepHasEffect
<1>3. WorkInv(t)' /\ pc'[t] # "idle" /\ SameKind(t)
  BY <1>1, <1>2, EffectOnWork
<1>4. TypeOK' /\ \A u \in Thread \ {t} : SameThread(u)
  BY <1>1, <1>2, EffectOnTypes
<1>5. AsyncShape' /\ ClientsUnchanged
  BY <1>4 DEF BaseAsync, AsyncShape, ClientsUnchanged, Synchronously, Serve, clientVars,
              asyncVars, faultVars
<1> QED
  BY <1>3, <1>4, <1>5, ThreadStepKeepsBase
------------------------------------------------------------------------------
\* A call on an object, and its length.
LEMMA ObjectRequest ==
  ASSUME NEW h \in Handle \ {NullHandle}, NEW d \in Methods \cup {eCreateIntDispId},
         NEW s \in {<<>>, MethodArguments, <<EmptyArgument, EmptyArgument>>},
         NEW r, r = Request(h, d, s)
  PROVE  /\ CallsObject(r) /\ GetObjectId(r) = h
         /\ s = <<>> => Len(r) = 3
<1>1. h \in Argument /\ d \in Argument
  BY ConstantFacts DEF Argument, Methods, AddDispID, MaxDispID, eCreateIntDispId
<1>2. s \in Seq(Argument) /\ (s = <<>> => Len(s) = 0)
  <2>1. <<>> \in Seq(Argument) /\ Len(<<>>) = 0
    OBVIOUS
  <2>2. MethodArguments \in Seq(Argument)
    BY ConstantFacts DEF MethodArguments
  <2>3. <<EmptyArgument, EmptyArgument>> \in Seq(Argument)
    BY ConstantFacts
  <2> QED
    BY <2>1, <2>2, <2>3
<1>3. IsMessage(r) /\ GetObjectId(r) = h /\ GetErrorCode(r) = ERROR_SUCCESS /\ Len(r) = 3 + Len(s)
  BY <1>1, <1>2, RequestFacts DEF IsMessage
<1> QED
  BY <1>2, <1>3, ConstantFacts DEF CallsObject, Coded, IsGlobal

\* The record of a handler is replaced, or a new one is added.
LEMMA SetHandlerFacts ==
  ASSUME AsyncShape, NEW c \in Client, NEW i \in Handlers(c), NEW h \in HandlerRecord,
         SetHandler(c, i, h)
  PROVE  /\ handlers' \in [Client -> Seq(HandlerRecord)]
         /\ Handlers(c)' = Handlers(c) /\ Len(handlers'[c]) = Len(handlers[c])
         /\ handlers'[c][i] = h
         /\ \A j \in Handlers(c) \ {i} : handlers'[c][j] = handlers[c][j]
         /\ \A d \in Client \ {c} : handlers'[d] = handlers[d]
<1> DEFINE s == handlers[c]
           q == [s EXCEPT ![i] = h]
<1>1. s \in Seq(HandlerRecord) /\ i \in DOMAIN s
  BY DEF AsyncShape, Handlers
<1>2. /\ q \in Seq(HandlerRecord) /\ DOMAIN q = DOMAIN s /\ Len(q) = Len(s) /\ q[i] = h
      /\ \A j \in DOMAIN s \ {i} : q[j] = s[j]
  BY <1>1
<1>3. handlers' = [handlers EXCEPT ![c] = q]
  BY DEF SetHandler
<1> HIDE DEF q
<1>4. handlers'[c] = q /\ \A d \in Client \ {c} : handlers'[d] = handlers[d]
  BY <1>3 DEF AsyncShape
<1> QED
  BY <1>2, <1>3, <1>4 DEF Handlers, AsyncShape

LEMMA AppendHandlerFacts ==
  ASSUME AsyncShape, NEW c \in Client, NEW h \in HandlerRecord,
         handlers' = [handlers EXCEPT ![c] = Append(@, h)]
  PROVE  /\ handlers' \in [Client -> Seq(HandlerRecord)]
         /\ Len(handlers'[c]) = Len(handlers[c]) + 1
         /\ Handlers(c)' = Handlers(c) \cup {Len(handlers[c]) + 1}
         /\ Len(handlers[c]) + 1 \notin Handlers(c)
         /\ handlers'[c][Len(handlers[c]) + 1] = h
         /\ \A j \in Handlers(c) : handlers'[c][j] = handlers[c][j]
         /\ \A d \in Client \ {c} : handlers'[d] = handlers[d]
<1> DEFINE s == handlers[c]
           q == Append(s, h)
<1>1. s \in Seq(HandlerRecord)
  BY DEF AsyncShape
<1>2. /\ q \in Seq(HandlerRecord) /\ Len(q) = Len(s) + 1 /\ q[Len(s) + 1] = h
      /\ DOMAIN q = DOMAIN s \cup {Len(s) + 1} /\ Len(s) + 1 \notin DOMAIN s
      /\ \A j \in DOMAIN s : q[j] = s[j]
  BY <1>1
<1>3. handlers' = [handlers EXCEPT ![c] = q]
  OBVIOUS
<1> HIDE DEF q
<1>4. handlers'[c] = q /\ \A d \in Client \ {c} : handlers'[d] = handlers[d]
  BY <1>3 DEF AsyncShape
<1> QED
  BY <1>2, <1>3, <1>4 DEF Handlers, AsyncShape

\* Nobody waits for an idle thread, and a handler has no thread but the one it
\* reads from.
LEMMA HandlerRecordFacts ==
  ASSUME BaseAsync, NEW c \in Client, NEW i \in Handlers(c)
  PROVE  /\ handlers[c][i] \in HandlerRecord /\ HandlerInv(c, i) /\ i \in Nat \ {0}
         /\ SendsValue(c, i) => c \notin Calculators
         /\ i <= Len(handlers[c])
BY ShapeFacts DEF BaseAsync, HandlerInv, Concerns

\* What c did not do leaves its handlers as they were.
LEMMA SameHandlersOK ==
  ASSUME BaseAsync, NEW c \in Client, UNCHANGED <<sent, handlers, stopped>>,
         \A i \in Handlers(c) : handlers[c][i].at = "read" => SameKind(handlers[c][i].thread)
  PROVE  StoppedInv(c)' /\ \A i \in Handlers(c)' : HandlerInv(c, i)'
<1>1. StoppedInv(c)' /\ Handlers(c)' = Handlers(c)
  BY DEF BaseAsync, StoppedInv, Handlers
<1>2. \A i \in Handlers(c) : HandlerInv(c, i)'
  BY HandlerKept
<1> QED
  BY <1>1, <1>2
------------------------------------------------------------------------------
\* A client that does not wait.
LEMMA IdleCaller ==
  ASSUME BaseAsync, NEW c \in Client, ~Waiting(c)
  PROVE  request[c] = <<>> /\ serving[c] = NoThread
BY DEF BaseAsync, CallerInv

LEMMA IdleCallerOK ==
  ASSUME NEW c, ~Waiting(c)', request'[c] = <<>>, serving'[c] = NoThread,
         phase'[c] = "ready" => proxy'[c] \in Address
  PROVE  CallerInv(c)'
BY DEF CallerInv, Waiting

\* Only handlers of c change: c itself waits as before.
LEMMA CallerWaitsOn ==
  ASSUME BaseAsync, NEW c \in Client, SameCaller(c), UNCHANGED sent,
         \A t \in Thread : Reader(c, 0, t) => SameThread(t)
  PROVE  CallerInv(c)'
<1>1. serving[c] # NoThread => Reader(c, 0, serving[c]) /\ serving[c] \in Thread
  BY ShapeFacts DEF Reader, BaseAsync
<1> QED
  BY <1>1, ReadMessage, CallerKept

\* A client of calculators starts a call.
LEMMA StartKeepsBase ==
  ASSUME BaseAsync, NEW c \in Calculators, NEW label \in {"creating", "calling", "deleting"},
         NEW r, Start(c, label, r), phase[c] \in {"out", "ready"}, IsMessage(r),
         label = "creating" => Creation(c, r) /\ Len(r) = 4,
         label = "calling" => proxy[c] \in Address /\ CallOf(c, r),
         label = "deleting" => proxy[c] \in Address /\ Deletion(c, r),
         \/ UNCHANGED handlers /\ UNCHANGED stopped
         \/ handlers' = Set(handlers, c, <<>>) /\ stopped' = Set(stopped, c, 0),
         UNCHANGED <<closed, output, faultVars>>
  PROVE  BaseAsync'
<1>1. c \in Client /\ AsyncShape
  BY ClientAssumption DEF BaseAsync
<1>2. AsyncShape'
  <2>1. r \in Seq(Argument) /\ requests[c] \in Nat /\ requests[c] - 1 \in Nat
    BY <1>1, ShapeFacts DEF IsMessage, Start
  <2>2. phase' \in [Client -> {"out", "creating", "ready", "calling", "deleting", "finished", "killed"}]
    BY <1>1 DEF Start, Set, AsyncShape
  <2>3. handlers' \in [Client -> Seq(HandlerRecord)] /\ stopped' \in [Client -> Nat]
    <3>1. handlers \in [Client -> Seq(HandlerRecord)] /\ stopped \in [Client -> Nat]
      BY <1>1 DEF AsyncShape
    <3>2. CASE UNCHANGED handlers /\ UNCHANGED stopped
      BY <3>1, <3>2
    <3>3. CASE handlers' = Set(handlers, c, <<>>) /\ stopped' = Set(stopped, c, 0)
      <4>1. <<>> \in Seq(HandlerRecord)
        OBVIOUS
      <4>2. handlers' = [handlers EXCEPT ![c] = <<>>] /\ stopped' = [stopped EXCEPT ![c] = 0]
        BY <3>3 DEF Set
      <4> HIDE DEF HandlerRecord
      <4> QED
        BY <3>1, <4>1, <4>2
    <3> QED
      BY <3>2, <3>3
  <2> QED
    BY <1>1, <2>1, <2>2, <2>3 DEF AsyncShape, Start, Set, faultVars, vars, TypeOK
<1>3. /\ phase'[c] = label /\ request'[c] = r /\ serving' = serving /\ proxy' = proxy
      /\ UNCHANGED <<vars, sent>> /\ serving[c] = NoThread
      /\ \A d \in Client \ {c} : SameClient(d)
  BY <1>1, IdleCaller DEF Start, Set, AsyncShape, SameClient, SameCaller, Waiting
<1>4. CallerInv(c)'
  BY <1>1, <1>3, MessageNotEmpty
     DEF CallerInv, Waiting, Fits, Creation, CallOf, CallsObject, Deletion, OwnContent
<1>5. /\ StoppedInv(c)' /\ \A i \in Handlers(c)' : HandlerInv(c, i)'
      /\ \A i \in Nat : \A t \in Thread : Reader(c, i, t)' => Reader(c, i, t)
  <2>1. CASE UNCHANGED handlers /\ UNCHANGED stopped
    <3>1. \A i \in Handlers(c) : handlers[c][i].at = "read" => SameKind(handlers[c][i].thread)
      <4>1. \A i \in Handlers(c) : handlers[c][i].at = "read" =>
              /\ handlers[c][i].thread \in Thread /\ i \in Nat
              /\ Reader(c, i, handlers[c][i].thread)
        BY <1>1, ShapeFacts DEF Reader, BaseAsync, HandlerInv
      <4>2. \A t : SameThread(t)
        BY <1>3 DEF vars, SameThread
      <4> QED
        BY <1>1, <4>1, <4>2, ReadMessage
    <3> QED
      BY <1>1, <1>3, <2>1, <3>1, SameHandlersOK DEF Reader, Handlers
  <2>2. CASE handlers' = Set(handlers, c, <<>>) /\ stopped' = Set(stopped, c, 0)
    <3>1. handlers'[c] = <<>> /\ stopped'[c] = 0 /\ Handlers(c)' = {}
      BY <1>1, <2>2 DEF Set, AsyncShape, Handlers
    <3> QED
      BY <1>3, <3>1 DEF StoppedInv, Reader
  <2> QED
    BY <2>1, <2>2
<1> QED
  BY <1>1, <1>2, <1>3, <1>4, <1>5, ClientStepKeepsBase DEF ClientOK

\* ClientStub(), a method, ~ClientStub.
LEMMA CreateStubKeepsBase ==
  ASSUME BaseAsync, NEW c \in Client, CreateStub(c)
  PROVE  BaseAsync'
<1>1. PICK r : /\ r = Request(NullHandle, eCreateCustomObjectDispId, <<Calculator>>)
               /\ Start(c, "creating", r) /\ phase[c] = "out" /\ c \in Calculators
  BY DEF CreateStub, Create
<1>2. Creation(c, r) /\ Len(r) = 4 /\ IsMessage(r)
  BY <1>1, CreationRequest DEF Creation
<1> QED
  BY <1>1, <1>2, StartKeepsBase DEF CreateStub

LEMMA CallKeepsBase ==
  ASSUME BaseAsync, NEW c \in Client, Synchronously(c \in Calculators /\ Call(c))
  PROVE  BaseAsync'
<1>1. PICK d, r : /\ d \in Methods /\ r = Request(proxy[c], d, MethodArguments)
                  /\ Start(c, "calling", r) /\ phase[c] = "ready" /\ c \in Calculators
  BY DEF Synchronously, Call
<1>2. proxy[c] \in Address /\ proxy[c] \in Handle \ {NullHandle}
  BY <1>1, DistinctAssumption DEF BaseAsync, CallerInv, Handle
<1>3. CallsObject(r) /\ GetObjectId(r) = proxy[c]
  <2>1. PICK s \in {<<>>, MethodArguments, <<EmptyArgument, EmptyArgument>>} : s = MethodArguments
    OBVIOUS
  <2> QED
    BY <1>1, <1>2, <2>1, ObjectRequest
<1> QED
  BY <1>1, <1>2, <1>3, StartKeepsBase DEF Synchronously, CallsObject, CallOf, asyncVars

LEMMA DestroyKeepsBase ==
  ASSUME BaseAsync, NEW c \in Client, Synchronously(Destroy(c))
  PROVE  BaseAsync'
<1>1. PICK r : /\ r = Request(NullHandle, eDeleteDispId, <<proxy[c]>>)
               /\ Start(c, "deleting", r) /\ phase[c] = "ready" /\ c \in Calculators
  BY DEF Synchronously, Destroy
<1>2. proxy[c] \in Address
  BY <1>1 DEF BaseAsync, CallerInv
<1>3. Deletion(c, r) /\ IsMessage(r)
  BY <1>1, <1>2, DeletionFacts DEF Deletion
<1> QED
  BY <1>1, <1>2, <1>3, StartKeepsBase DEF Synchronously, asyncVars

\* A handler is added.
LEMMA InvokeAsyncKeepsBase ==
  ASSUME BaseAsync, NEW c \in Client, NEW r, InvokeAsync(c, r), IsMessage(r),
         IF IsGlobal(r) THEN c \notin Calculators /\ Creation(c, r) /\ Len(r) = 4
         ELSE CallsObject(r)
  PROVE  BaseAsync'
<1>0. PICK label \in {"open", "noThread"} :
        /\ handlers' = [handlers EXCEPT ![c] = Append(@, NewHandler(label, r))]
        /\ faults' = faults \/ (faults > 0 /\ faults' = faults - 1)
  BY DEF InvokeAsync, Fault
<1>h. PICK h : h = NewHandler(label, r)
  OBVIOUS
<1>1. /\ label \in {"open", "noThread"}
      /\ h = NewHandler(label, r)
      /\ handlers' = [handlers EXCEPT ![c] = Append(@, h)]
      /\ faults' = faults \/ (faults > 0 /\ faults' = faults - 1)
      /\ requests[c] > 0 /\ requests' = Set(requests, c, requests[c] - 1)
      /\ UNCHANGED <<vars, stale, phase, proxy, request, serving, sent, result, got, orphaned,
                     stopped, closed, output>>
  <2>1. /\ requests[c] > 0 /\ requests' = Set(requests, c, requests[c] - 1)
        /\ UNCHANGED <<vars, stale, phase, proxy, request, serving, sent, result, got, orphaned,
                       stopped, closed, output>>
    BY DEF InvokeAsync
  <2> QED
    BY <1>0, <1>h, <2>1
<1>2. /\ h.at = label /\ h.request = r /\ h.thread = NoThread /\ h.error = ERROR_SUCCESS
      /\ h.response = <<>>
  BY <1>1 DEF NewHandler
<1>3. h \in HandlerRecord
  <2>1. r \in Seq(Argument) /\ <<>> \in Seq(Argument) /\ ERROR_SUCCESS \in Errors
    BY DEF IsMessage, Errors
  <2>2. label \in HandlerLabels
    BY <1>1 DEF HandlerLabels, Gone
  <2> QED
    BY <1>1, <2>1, <2>2 DEF NewHandler, HandlerRecord
<1>4. /\ handlers' \in [Client -> Seq(HandlerRecord)]
      /\ Len(handlers'[c]) = Len(handlers[c]) + 1
      /\ Handlers(c)' = Handlers(c) \cup {Len(handlers[c]) + 1}
      /\ Len(handlers[c]) + 1 \notin Handlers(c)
      /\ handlers'[c][Len(handlers[c]) + 1] = h
      /\ \A j \in Handlers(c) : handlers'[c][j] = handlers[c][j]
      /\ \A d \in Client \ {c} : handlers'[d] = handlers[d]
  BY <1>1, <1>3, AppendHandlerFacts DEF BaseAsync
<1>5. AsyncShape'
  <2>1. requests' \in [Client -> Nat] /\ faults' \in Nat
    BY <1>1 DEF Set, BaseAsync, AsyncShape
  <2> QED
    BY <1>1, <1>4, <2>1 DEF BaseAsync, AsyncShape, vars, TypeOK
<1>6. UNCHANGED <<vars, sent>> /\ \A t : SameThread(t)
  BY <1>1 DEF vars, SameThread
<1>7. \A d \in Client \ {c} : SameClient(d)
  BY <1>1, <1>4 DEF SameClient, SameCaller
<1>8. ASSUME NEW i \in Nat, NEW t \in Thread, Reader(c, i, t)'
      PROVE  Reader(c, i, t)
  <2>1. i \in Handlers(c)' /\ handlers'[c][i].at = "read" => i \in Handlers(c)
    BY <1>1, <1>2, <1>4
  <2> QED
    BY <1>1, <1>4, <1>8, <2>1 DEF Reader
<1>9. CallerInv(c)'
  BY <1>1, <1>6, CallerWaitsOn DEF SameCaller
<1>10. StoppedInv(c)'
  <2>1. StoppedInv(c) /\ stopped'[c] = stopped[c] /\ stopped[c] \in Nat /\ Len(handlers[c]) \in Nat
        /\ Handlers(c) = 1 .. Len(handlers[c])
    BY <1>1, ShapeFacts DEF BaseAsync
  <2>2. \A i \in 1 .. stopped[c] : i \in Handlers(c)
    BY <2>1 DEF StoppedInv
  <2>3. stopped'[c] <= Len(handlers'[c])
    BY <1>4, <2>1 DEF StoppedInv
  <2>4. \A i \in 1 .. stopped'[c] : handlers'[c][i].at \in Gone
    BY <1>4, <2>1, <2>2 DEF StoppedInv
  <2> QED
    BY <2>3, <2>4 DEF StoppedInv
<1>11. ASSUME NEW i \in Handlers(c)'
       PROVE  HandlerInv(c, i)'
  <2>1. CASE i \in Handlers(c)
    <3>1. handlers[c][i].at = "read" => SameKind(handlers[c][i].thread)
      <4>1. handlers[c][i].at = "read" =>
              /\ handlers[c][i].thread \in Thread /\ i \in Nat
              /\ Reader(c, i, handlers[c][i].thread)
        BY <2>1, HandlerRecordFacts DEF Reader, HandlerInv
      <4> QED
        BY <1>6, <4>1, ReadMessage
    <3> QED
      BY <1>1, <1>4, <2>1, <3>1, HandlerKept
  <2>2. CASE i = Len(handlers[c]) + 1
    BY <1>1, <1>2, <1>4, <2>2
       DEF HandlerInv, SendsValue, Concerns, SameRequest, Creation, OwnContent, HandlerLabels
  <2> QED
    BY <1>4, <2>1, <2>2
<1> QED
  BY <1>5, <1>6, <1>7, <1>8, <1>9, <1>10, <1>11, ClientStepKeepsBase DEF ClientOK

\* LongOperation(..., TRUE, ...), SendPrimitivecDataAsync, GetPrimitiveDataAsync.
LEMMA AsyncRequests ==
  ASSUME BaseAsync, NEW c \in Client, NEW r,
         \/ /\ c \in Calculators /\ phase[c] = "ready"
            /\ r = Request(proxy[c], LongOperationDispID, <<EmptyArgument, EmptyArgument>>)
         \/ /\ c \notin Calculators /\ phase[c] = "out"
            /\ r = Request(NullHandle, eCreateIntDispId, <<sent[c]>>)
         \/ /\ c \notin Calculators /\ phase[c] = "ready"
            /\ r = Request(proxy[c], eCreateIntDispId, <<>>)
  PROVE  /\ IsMessage(r)
         /\ IF IsGlobal(r) THEN c \notin Calculators /\ Creation(c, r) /\ Len(r) = 4
            ELSE CallsObject(r)
         /\ phase[c] = "out" => IsGlobal(r)
         /\ phase[c] = "ready" => ~IsGlobal(r) /\ GetObjectId(r) = proxy[c]
         /\ phase[c] = "ready" /\ c \notin Calculators => Len(r) = 3
<1>1. phase[c] = "ready" => proxy[c] \in Handle \ {NullHandle}
  BY DistinctAssumption DEF BaseAsync, CallerInv, Handle
<1>2. CASE c \notin Calculators /\ phase[c] = "out"
  <2>1. Creation(c, r) /\ Len(r) = 4
    BY <1>2, CreationRequest, ShapeFacts DEF BaseAsync
  <2> QED
    BY <1>2, <2>1 DEF Creation, Constructs
<1>3. CASE c \in Calculators /\ phase[c] = "ready"
  <2>1. PICK s \in {<<>>, MethodArguments, <<EmptyArgument, EmptyArgument>>} :
          s = <<EmptyArgument, EmptyArgument>>
    OBVIOUS
  <2>2. LongOperationDispID \in Methods
    BY DEF Methods, LongOperationDispID, AddDispID, MaxDispID
  <2>3. CallsObject(r) /\ GetObjectId(r) = proxy[c]
    BY <1>1, <1>3, <2>1, <2>2, ObjectRequest
  <2> QED
    BY <1>3, <2>3 DEF CallsObject
<1>4. CASE c \notin Calculators /\ phase[c] = "ready"
  <2>1. PICK s \in {<<>>, MethodArguments, <<EmptyArgument, EmptyArgument>>} : s = <<>>
    OBVIOUS
  <2>2. CallsObject(r) /\ GetObjectId(r) = proxy[c] /\ Len(r) = 3
    BY <1>1, <1>4, <2>1, ObjectRequest
  <2> QED
    BY <1>4, <2>2 DEF CallsObject
<1> QED
  BY <1>2, <1>3, <1>4

LEMMA AsyncCallsKeepBase ==
  ASSUME BaseAsync, NEW c \in Client,
         LongOperationAsync(c) \/ SendPrimitivecDataAsync(c) \/ GetPrimitiveDataAsync(c)
  PROVE  BaseAsync'
<1>1. PICK r : /\ InvokeAsync(c, r)
               /\ \/ /\ c \in Calculators /\ phase[c] = "ready"
                     /\ r = Request(proxy[c], LongOperationDispID, <<EmptyArgument, EmptyArgument>>)
                  \/ /\ c \notin Calculators /\ phase[c] = "out"
                     /\ r = Request(NullHandle, eCreateIntDispId, <<sent[c]>>)
                  \/ /\ c \notin Calculators /\ phase[c] = "ready"
                     /\ r = Request(proxy[c], eCreateIntDispId, <<>>)
  BY DEF LongOperationAsync, SendPrimitivecDataAsync, GetPrimitiveDataAsync
<1>2. /\ IsMessage(r)
      /\ IF IsGlobal(r) THEN c \notin Calculators /\ Creation(c, r) /\ Len(r) = 4
         ELSE CallsObject(r)
  BY <1>1, AsyncRequests
<1> QED
  BY <1>1, <1>2, InvokeAsyncKeepsBase

\* A handler that reads has a thread.
LEMMA ReadingHandler ==
  ASSUME BaseAsync, NEW c \in Client, NEW i \in Handlers(c), handlers[c][i].at = "read"
  PROVE  /\ handlers[c][i].thread \in Thread /\ i \in Nat /\ i # 0
         /\ Reader(c, i, handlers[c][i].thread)
BY HandlerRecordFacts DEF Reader, HandlerInv

\* The handlers of c go on while c does something else.
LEMMA HandlersGoOn ==
  ASSUME BaseAsync, NEW c \in Client, UNCHANGED <<sent, handlers, stopped>>,
         \A i \in Nat \ {0} : \A t \in Thread : Reader(c, i, t) => SameThread(t)
  PROVE  StoppedInv(c)' /\ \A i \in Handlers(c)' : HandlerInv(c, i)'
<1>1. \A i \in Handlers(c) : handlers[c][i].at = "read" => SameKind(handlers[c][i].thread)
  BY ReadingHandler, ReadMessage
<1> QED
  BY <1>1, SameHandlersOK

LEMMA LeaveScopeKeepsBase ==
  ASSUME BaseAsync, NEW c \in Client, LeaveScope(c)
  PROVE  BaseAsync'
<1>1. ~Waiting(c) /\ request[c] = <<>> /\ serving[c] = NoThread
  BY IdleCaller DEF BaseAsync, CallerInv, LeaveScope
<1>2. /\ phase' = [phase EXCEPT ![c] = "finished"] /\ proxy' = [proxy EXCEPT ![c] = NullHandle]
      /\ orphaned' = orphaned \cup ({proxy[c]} \ {NullHandle})
      /\ UNCHANGED <<vars, request, serving, sent, result, got, requests, handlers, stopped, closed,
                     output, faults, stale>>
  BY DEF LeaveScope, Set, asyncVars, faultVars
<1>3. AsyncShape'
  BY <1>2 DEF BaseAsync, AsyncShape, TypeOK, vars, Handle
<1>4. \A d \in Client \ {c} : SameClient(d)
  BY <1>2 DEF BaseAsync, AsyncShape, SameClient, SameCaller
<1>5. phase'[c] = "finished"
  BY <1>2 DEF BaseAsync, AsyncShape
<1>6. CallerInv(c)'
  BY <1>1, <1>2, <1>5, IdleCallerOK DEF Waiting
<1>7. \A t : SameThread(t)
  BY <1>2 DEF SameThread, vars
<1>8. StoppedInv(c)' /\ \A i \in Handlers(c)' : HandlerInv(c, i)'
  BY <1>2, <1>7, HandlersGoOn
<1>9. \A i \in Nat : \A t \in Thread : Reader(c, i, t)' => Reader(c, i, t)
  BY <1>2 DEF Reader, Handlers
<1> QED
  BY <1>2, <1>3, <1>4, <1>6, <1>8, <1>9, ClientStepKeepsBase DEF ClientOK
------------------------------------------------------------------------------
\* What is known of a thread that has answered.
LEMMA AnswerFacts ==
  ASSUME BaseAsync, NEW t \in Thread, pc[t] = "done"
  PROVE  /\ IsMessage(msg[t])
         /\ Constructs(msg[t]) =>
              /\ CreatedHandle(msg[t]) = stub[t] /\ stub[t] \in Address /\ Len(msg[t]) = 5
              /\ GetErrorCode(msg[t]) = ERROR_SUCCESS
<1>1. CreationWork(t) \/ DeletionWork(t) \/ CallWork(t)
  BY DEF BaseAsync, WorkInv
<1>2. Constructs(msg[t]) => CreationWork(t)
  BY <1>1, WorkFacts
<1> QED
  BY <1>1, <1>2, WorkFacts DEF CreationWork

\* RPCClient::Invoke returns: to the phases of a client that does not wait.
LEMMA ReturnKeepsTypes ==
  ASSUME BaseAsync, NEW c \in Client, NEW e, NEW m, Return(c, e, m),
         phase[c] = "creating" /\ e = ERROR_SUCCESS => CreatedHandle(m) \in Address,
         phase[c] = "calling" => e \in ServerErrorCode \cup TransportError, m \in Seq(Argument),
         TypeOK', UNCHANGED <<asyncVars, faultVars>>
  PROVE  /\ AsyncShape' /\ CallerInv(c)' /\ UNCHANGED <<sent, handlers, stopped>>
         /\ Waiting(c) /\ serving'[c] = NoThread
         /\ \A d \in Client \ {c} : SameClient(d)
<1>1. /\ FinishCreate(c, e, m) \/ FinishCall(c, e, m) \/ FinishDestroy(c, e)
      /\ request' = [request EXCEPT ![c] = <<>>] /\ serving' = [serving EXCEPT ![c] = NoThread]
      /\ UNCHANGED <<sent, requests>>
  BY DEF Return, Set
<1>2. Waiting(c)
  BY <1>1 DEF FinishCreate, FinishCall, FinishDestroy, Waiting
<1>3. /\ phase' = [phase EXCEPT ![c] = "ready"] \/ phase' = [phase EXCEPT ![c] = "out"]
      /\ proxy' = proxy \/ \E h \in Handle : proxy' = [proxy EXCEPT ![c] = h]
      /\ phase' = [phase EXCEPT ![c] = "ready"] =>
           \/ proxy' = proxy /\ proxy[c] \in Address
           \/ \E h \in Address : proxy' = [proxy EXCEPT ![c] = h]
      /\ orphaned' = orphaned \/ (orphaned' = orphaned \cup {proxy[c]} /\ proxy[c] \in Address)
  <2>1. CASE FinishCreate(c, e, m)
    <3>1. phase[c] = "creating" /\ orphaned' = orphaned
      BY <2>1 DEF FinishCreate
    <3>2. CASE /\ e = ERROR_SUCCESS /\ proxy' = [proxy EXCEPT ![c] = CreatedHandle(m)]
               /\ phase' = [phase EXCEPT ![c] = "ready"]
      BY <3>1, <3>2 DEF Handle
    <3>3. CASE phase' = [phase EXCEPT ![c] = "out"] /\ proxy' = proxy
      <4>1. phase' # [phase EXCEPT ![c] = "ready"]
        BY <3>3 DEF BaseAsync, AsyncShape
      <4> QED
        BY <3>1, <3>3, <4>1
    <3> QED
      BY <2>1, <3>2, <3>3 DEF FinishCreate, Set
  <2>2. CASE FinishCall(c, e, m)
    BY <2>2 DEF FinishCall, Set, BaseAsync, CallerInv
  <2>3. CASE FinishDestroy(c, e)
    <3>1. phase' = [phase EXCEPT ![c] = "out"] /\ proxy' = [proxy EXCEPT ![c] = NullHandle]
      BY <2>3 DEF FinishDestroy, Set
    <3>2. phase' # [phase EXCEPT ![c] = "ready"]
      BY <3>1 DEF BaseAsync, AsyncShape
    <3>3. proxy[c] \in Address
      BY <2>3 DEF FinishDestroy, BaseAsync, CallerInv
    <3> QED
      BY <2>3, <3>1, <3>2, <3>3 DEF FinishDestroy, Handle
  <2> QED
    BY <1>1, <2>1, <2>2, <2>3
<1>4. phase' \in [Client -> {"out", "creating", "ready", "calling", "deleting", "finished", "killed"}]
  BY <1>3 DEF BaseAsync, AsyncShape
<1>5. proxy' \in [Client -> Handle] /\ orphaned' \subseteq Address
  BY <1>3 DEF BaseAsync, AsyncShape
<1>6. request' \in [Client -> Seq(Argument)] /\ serving' \in [Client -> Thread \cup {NoThread}]
  <2>1. <<>> \in Seq(Argument)
    OBVIOUS
  <2> QED
    BY <1>1, <2>1 DEF BaseAsync, AsyncShape
<1>11. result' \in [Client -> ServerErrorCode \cup TransportError] /\ got' \in [Client -> Argument]
  <2>1. CASE FinishCall(c, e, m)
    <3>1. GetFunctionParameter(m, 1, got[c]) \in Argument
      BY DEF GetFunctionParameter, GetParameter, eDispIdPosition, BaseAsync, AsyncShape
    <3> QED
      BY <2>1, <3>1 DEF FinishCall, Set, BaseAsync, AsyncShape
  <2>2. CASE UNCHANGED <<result, got>>
    BY <2>2 DEF BaseAsync, AsyncShape
  <2> QED
    BY <1>1, <2>1, <2>2 DEF FinishCreate, FinishDestroy
<1>7. AsyncShape'
  BY <1>1, <1>4, <1>5, <1>6, <1>11 DEF BaseAsync, AsyncShape, asyncVars, faultVars
<1>8. \A d \in Client \ {c} : SameClient(d)
  BY <1>1, <1>3 DEF BaseAsync, AsyncShape, SameClient, SameCaller, asyncVars
<1>9. /\ request'[c] = <<>> /\ serving'[c] = NoThread /\ phase'[c] \in {"out", "ready"}
      /\ phase'[c] = "ready" => proxy'[c] \in Address
  BY <1>1, <1>3 DEF BaseAsync, AsyncShape
<1>10. CallerInv(c)'
  BY <1>9, IdleCallerOK DEF Waiting
<1> QED
  BY <1>1, <1>2, <1>7, <1>8, <1>9, <1>10 DEF asyncVars

\* The response of a creation carries the handle.
LEMMA AnsweredHandle ==
  ASSUME BaseAsync, NEW c \in Client, serving[c] # NoThread, pc[serving[c]] = "done"
  PROVE  /\ serving[c] \in Thread /\ Reader(c, 0, serving[c]) /\ c \in Calculators
         /\ phase[c] = "creating" =>
              /\ Creation(c, msg[serving[c]]) /\ CreatedHandle(msg[serving[c]]) \in Address
              /\ CreatedHandle(msg[serving[c]]) = stub[serving[c]]
              /\ GetErrorCode(msg[serving[c]]) = ERROR_SUCCESS
<1>1. serving[c] \in Thread /\ Reader(c, 0, serving[c])
  BY ShapeFacts DEF BaseAsync, Reader
<1>2. Waiting(c) /\ c \in Calculators /\ Fits(c, msg[serving[c]])
  BY DEF BaseAsync, CallerInv
<1> QED
  BY <1>1, <1>2, AnswerFacts DEF Fits, Creation

LEMMA AnsweredKeepsBase ==
  ASSUME BaseAsync, NEW c \in Client, Synchronously(Answered(c))
  PROVE  BaseAsync'
<1> DEFINE t == serving[c]
<1>1. /\ t # NoThread /\ pc[t] = "done" /\ Return(c, GetErrorCode(msg[t]), msg[t]) /\ End(t)
      /\ UNCHANGED <<asyncVars, faultVars>>
  BY DEF Synchronously, Answered, At
<1>2. t \in Thread /\ Reader(c, 0, t) /\ (phase[c] = "creating" => CreatedHandle(msg[t]) \in Address)
  BY <1>1, AnsweredHandle
<1>3. TypeOK' /\ \A u \in Thread \ {t} : SameThread(u)
  <2>1. <<>> \in Seq(Argument)
    OBVIOUS
  <2> QED
    BY <1>1, <1>2, <2>1 DEF End, Set, BaseAsync, AsyncShape, TypeOK, SameThread, Labels, Handle
<1>8. msg[t] \in Seq(Argument) /\ (phase[c] = "calling" => GetErrorCode(msg[t]) \in ServerErrorCode)
  <2>1. phase[c] = "calling" => Coded(msg[t])
    BY <1>1 DEF BaseAsync, CallerInv, Fits, CallOf, CallsObject
  <2> QED
    BY <1>2, <2>1, ShapeFacts DEF BaseAsync, Coded
<1>4. /\ AsyncShape' /\ CallerInv(c)' /\ UNCHANGED <<sent, handlers, stopped>>
      /\ serving'[c] = NoThread /\ \A d \in Client \ {c} : SameClient(d)
  BY <1>1, <1>2, <1>3, <1>8, ReturnKeepsTypes
<1>5. \A i \in Nat \ {0} : ~Reader(c, i, t)
  BY <1>2 DEF BaseAsync, ReaderInv
<1>6. StoppedInv(c)' /\ \A i \in Handlers(c)' : HandlerInv(c, i)'
  BY <1>3, <1>4, <1>5, HandlersGoOn
<1>7. ASSUME NEW i \in Nat, NEW u \in Thread, Reader(c, i, u)'
      PROVE  Reader(c, i, u) /\ u # t
  <2>1. i # 0 /\ Reader(c, i, u)
    BY <1>4, <1>7, ShapeFacts DEF Reader, Handlers, BaseAsync
  <2> QED
    BY <1>5, <2>1
<1> HIDE DEF t
<1> QED
  BY <1>1, <1>2, <1>4, <1>6, <1>7, EndKeepsBase DEF ClientOK

\* Without a response.
LEMMA FailsKeepBase ==
  ASSUME BaseAsync, NEW c \in Client, NEW e \in TransportError,
         Return(c, e, <<>>), UNCHANGED <<vars, asyncVars, faultVars>>
  PROVE  BaseAsync'
<1>1. e # ERROR_SUCCESS
  BY DEF ERROR_SUCCESS, TransportError, ERROR_SERVER_NO_RESPONSE, ERROR_RECEIVE_FAILED
<1>2. TypeOK' /\ UNCHANGED vars /\ UNCHANGED <<asyncVars, faultVars>>
  BY DEF BaseAsync, AsyncShape, TypeOK, vars
<1>7. <<>> \in Seq(Argument)
  OBVIOUS
<1>3. /\ AsyncShape' /\ CallerInv(c)' /\ UNCHANGED <<sent, handlers, stopped>>
      /\ serving'[c] = NoThread /\ \A d \in Client \ {c} : SameClient(d)
  BY <1>1, <1>2, <1>7, ReturnKeepsTypes
<1>4. \A t : SameThread(t)
  BY DEF vars, SameThread
<1>5. StoppedInv(c)' /\ \A i \in Handlers(c)' : HandlerInv(c, i)'
  BY <1>3, <1>4, HandlersGoOn
<1>6. ASSUME NEW i \in Nat, NEW t \in Thread, Reader(c, i, t)'
      PROVE  Reader(c, i, t)
  BY <1>3, <1>6, ShapeFacts DEF Reader, Handlers, BaseAsync
<1> QED
  BY <1>2, <1>3, <1>5, <1>6, ClientStepKeepsBase DEF ClientOK

LEMMA DisconnectedKeepsBase ==
  ASSUME BaseAsync, NEW c \in Client,
         Synchronously(Disconnected(c)) \/ Synchronously(NotServed(c))
  PROVE  BaseAsync'
BY FailsKeepBase DEF Synchronously, Disconnected, NotServed, TransportError

LEMMA DeliverKeepsBase ==
  ASSUME BaseAsync, NEW c \in Client, Synchronously(Deliver(c))
  PROVE  BaseAsync'
<1>1. PICK t \in Thread : Receive(t, request[c]) /\ serving' = [serving EXCEPT ![c] = t]
  BY DEF Synchronously, Deliver, Set
<1>2. /\ request[c] # <<>> /\ serving[c] = NoThread
      /\ UNCHANGED <<phase, proxy, request, sent, result, got, requests, orphaned>>
      /\ UNCHANGED <<asyncVars, faultVars>>
  BY DEF Synchronously, Deliver
<1>3. CallerInv(c) /\ Waiting(c) /\ Fits(c, request[c])
  BY <1>2 DEF BaseAsync, CallerInv
<1>4. \/ Creating(request[c]) /\ Len(request[c]) = 4
      \/ Deletes(request[c]) \/ CallsObject(request[c])
  <2>1. CASE phase[c] = "creating"
    <3>1. Creation(c, request[c]) /\ Len(request[c]) = 4 /\ c \in Calculators
      BY <1>3, <2>1 DEF CallerInv, Fits
    <3>2. OwnContent(c) \in Content
      BY <3>1, OwnContentTypes
    <3> QED
      BY <3>1, <3>2 DEF Creation, Creating
  <2>2. CASE phase[c] = "calling"
    BY <1>3, <2>2 DEF Fits, CallOf, CallsObject
  <2>3. CASE phase[c] = "deleting"
    BY <1>3, <2>3 DEF CallerInv, Fits, Deletion, Deletes
  <2> QED
    BY <1>3, <2>1, <2>2, <2>3 DEF Waiting
<1>5. AsyncShape'
  BY <1>1, <1>2, ShapeFacts DEF BaseAsync, AsyncShape, asyncVars, faultVars, TypeOK, Receive, Goto,
                                Labels
<1>6. \A d \in Client \ {c} : SameClient(d)
  BY <1>1, <1>2 DEF BaseAsync, AsyncShape, SameClient, SameCaller, asyncVars
<1>7. /\ pc[t] = "idle" /\ msg'[t] = request[c] /\ serving'[c] = t
      /\ \A u \in Thread \ {t} : SameThread(u)
  BY <1>1 DEF BaseAsync, AsyncShape, TypeOK, Receive, At, Goto, SameThread
<1>8. CallerInv(c)'
  BY <1>2, <1>3, <1>7 DEF CallerInv, Waiting, Fits, Creation, CallOf, CallsObject, Deletion, OwnContent
<1>9. StoppedInv(c)' /\ \A i \in Handlers(c)' : HandlerInv(c, i)'
  <2>1. \A i \in Nat : ~Reader(c, i, t)
    BY <1>7 DEF BaseAsync, ReaderInv
  <2> QED
    BY <1>2, <1>7, <2>1, HandlersGoOn DEF asyncVars
<1>10. \A i \in Nat : \A u \in Thread : Reader(c, i, u)' => Reader(c, i, u) \/ (i = 0 /\ u = t)
  BY <1>2, <1>7 DEF Reader, Handlers, asyncVars
<1> QED
  BY <1>1, <1>2, <1>4, <1>5, <1>6, <1>8, <1>9, <1>10, ReceiveKeepsBase DEF ClientOK
------------------------------------------------------------------------------
\* The record of handler i of c changes; the other handlers go on.
LEMMA HandlerStep ==
  ASSUME BaseAsync, NEW c \in Client, NEW i \in Handlers(c), NEW h \in HandlerRecord,
         SetHandler(c, i, h), UNCHANGED sent, HandlerInv(c, i)',
         \A j \in Nat \ {0, i} : \A t \in Thread : Reader(c, j, t) => SameThread(t)
  PROVE  /\ handlers' \in [Client -> Seq(HandlerRecord)] /\ handlers'[c][i] = h
         /\ \A j \in Handlers(c)' : HandlerInv(c, j)'
         /\ \A d \in Client \ {c} : handlers'[d] = handlers[d]
         /\ UNCHANGED stopped /\ (handlers[c][i].at \in Gone => h.at \in Gone) => StoppedInv(c)'
         /\ UNCHANGED serving =>
              \A j \in Nat \ {i} : \A t \in Thread : Reader(c, j, t)' <=> Reader(c, j, t)
         /\ \A t : Reader(c, i, t)' <=> h.at = "read" /\ h.thread = t
<1>1. /\ handlers' \in [Client -> Seq(HandlerRecord)]
      /\ Handlers(c)' = Handlers(c) /\ Len(handlers'[c]) = Len(handlers[c])
      /\ handlers'[c][i] = h
      /\ \A j \in Handlers(c) \ {i} : handlers'[c][j] = handlers[c][j]
      /\ \A d \in Client \ {c} : handlers'[d] = handlers[d]
  BY SetHandlerFacts DEF BaseAsync
<1>2. ASSUME NEW j \in Handlers(c), j # i
      PROVE  HandlerInv(c, j)'
  <2>1. handlers[c][j].at = "read" => SameKind(handlers[c][j].thread)
    BY <1>2, ReadingHandler, ReadMessage
  <2> QED
    BY <1>1, <1>2, <2>1, HandlerKept
<1>3. UNCHANGED stopped /\ (handlers[c][i].at \in Gone => h.at \in Gone) => StoppedInv(c)'
  <2>1. StoppedInv(c) /\ stopped[c] \in Nat /\ Handlers(c) = 1 .. Len(handlers[c])
        /\ Len(handlers[c]) \in Nat
    BY ShapeFacts DEF BaseAsync
  <2> QED
    BY <1>1, <2>1 DEF StoppedInv
<1>4. UNCHANGED serving =>
        \A j \in Nat \ {i} : \A t \in Thread : Reader(c, j, t)' <=> Reader(c, j, t)
  BY <1>1 DEF Reader
<1>5. \A t : Reader(c, i, t)' <=> h.at = "read" /\ h.thread = t
  BY <1>1, HandlerRecordFacts DEF Reader
<1> QED
  BY <1>1, <1>2, <1>3, <1>4, <1>5

\* A step of the thread of a handler: the client and the others stay.
LEMMA HandlerStepFrame ==
  ASSUME BaseAsync, NEW c \in Client, UNCHANGED <<clientVars, faultVars, stopped, closed, output>>,
         handlers' \in [Client -> Seq(HandlerRecord)],
         \A d \in Client \ {c} : handlers'[d] = handlers[d],
         \A t \in Thread : Reader(c, 0, t) => SameThread(t), TypeOK'
  PROVE  /\ AsyncShape' /\ UNCHANGED <<sent, stopped, serving>>
         /\ CallerInv(c)' /\ \A d \in Client \ {c} : SameClient(d)
<1>1. AsyncShape'
  BY DEF BaseAsync, AsyncShape, clientVars, faultVars
<1>2. CallerInv(c)'
  BY CallerWaitsOn DEF SameCaller, clientVars
<1> QED
  BY <1>1, <1>2 DEF SameClient, SameCaller, clientVars

LEMMA AsyncDeliverKeepsBase ==
  ASSUME BaseAsync, NEW c \in Client, NEW i \in Handlers(c), AsyncDeliver(c, i)
  PROVE  BaseAsync'
<1> DEFINE o == handlers[c][i]
<1>1. PICK t \in Thread : /\ Receive(t, o.request)
                          /\ SetHandler(c, i, [o EXCEPT !.at = "read", !.thread = t])
  BY DEF AsyncDeliver
<1>2. /\ o.at = "open" /\ UNCHANGED <<clientVars, faultVars, stopped, closed, output>>
      /\ o \in HandlerRecord /\ HandlerInv(c, i) /\ i \in Nat \ {0}
  BY HandlerRecordFacts DEF AsyncDeliver, UnchangedByHandler
<1>3. PICK h \in HandlerRecord :
        /\ SetHandler(c, i, h) /\ h.at = "read" /\ h.thread = t
        /\ h.request = o.request /\ h.response = o.response /\ h.error = o.error
  <2> DEFINE n == [o EXCEPT !.at = "read", !.thread = t]
  <2>1. /\ n \in HandlerRecord /\ n.at = "read" /\ n.thread = t
        /\ n.request = o.request /\ n.response = o.response /\ n.error = o.error
    BY <1>2 DEF HandlerRecord, HandlerLabels
  <2> HIDE DEF n
  <2> QED
    BY <1>1, <2>1 DEF n
<1>4. /\ pc[t] = "idle" /\ msg'[t] = o.request /\ \A u \in Thread \ {t} : SameThread(u)
  BY <1>1 DEF BaseAsync, AsyncShape, TypeOK, Receive, At, Goto, SameThread
<1>5. \A d \in Client : \A j \in Nat : ~Reader(d, j, t)
  BY <1>4 DEF BaseAsync, ReaderInv
<1>6. handlers'[c][i] = h
  BY <1>3, SetHandlerFacts DEF BaseAsync
<1>7. UNCHANGED sent
  BY <1>2 DEF clientVars
<1>8. HandlerInv(c, i)'
  BY <1>2, <1>3, <1>4, <1>6, <1>7 DEF HandlerInv, SendsValue, Concerns, Creation, OwnContent
<1>9. /\ handlers' \in [Client -> Seq(HandlerRecord)]
      /\ \A j \in Handlers(c)' : HandlerInv(c, j)'
      /\ \A d \in Client \ {c} : handlers'[d] = handlers[d]
      /\ UNCHANGED stopped /\ (o.at \in Gone => h.at \in Gone) => StoppedInv(c)'
      /\ UNCHANGED serving =>
              \A j \in Nat \ {i} : \A u \in Thread : Reader(c, j, u)' <=> Reader(c, j, u)
      /\ \A u : Reader(c, i, u)' <=> h.at = "read" /\ h.thread = u
  BY <1>3, <1>4, <1>5, <1>7, <1>8, HandlerStep
<1>10. TypeOK'
  BY <1>1, <1>2 DEF BaseAsync, AsyncShape, TypeOK, Receive, Goto, Labels, HandlerRecord
<1>11. /\ AsyncShape' /\ UNCHANGED <<sent, stopped, serving>>
       /\ CallerInv(c)' /\ \A d \in Client \ {c} : SameClient(d)
  BY <1>2, <1>4, <1>5, <1>9, <1>10, HandlerStepFrame
<1>12. StoppedInv(c)'
  BY <1>2, <1>9, <1>11 DEF Gone
<1>13. \/ Creating(o.request) /\ Len(o.request) = 4
       \/ CallsObject(o.request)
  <2>1. OwnContent(c) \in Content
    BY OwnContentTypes, ShapeFacts DEF BaseAsync
  <2> QED
    BY <1>2, <2>1 DEF HandlerInv, Concerns, Creation, Creating
<1>14. \A j \in Nat : \A u \in Thread : Reader(c, j, u)' => Reader(c, j, u) \/ (j = i /\ u = t)
  BY <1>3, <1>9, <1>11
<1> HIDE DEF o
<1> QED
  BY <1>1, <1>2, <1>9, <1>11, <1>12, <1>13, <1>14, ReceiveKeepsBase DEF ClientOK

\* SendRequest of a handler returns.
ResponseOK(c, i, e, m) ==
  /\ e \in Errors /\ m \in Seq(Argument)
  /\ e = ERROR_SUCCESS => m # <<>>
  /\ m # <<>> =>
       /\ Concerns(c, i, m)
       /\ SendsValue(c, i) => CreatedHandle(m) \in Address /\ Len(m) = 5
LEMMA AsyncReturnsFacts ==
  ASSUME BaseAsync, NEW c \in Client, NEW i \in Handlers(c), NEW e, NEW m,
         handlers[c][i].at \in {"open", "read"}, AsyncReturns(c, i, e, m),
         ResponseOK(c, i, e, m), TypeOK',
         \A j \in Nat \ {i} : \A t \in Thread : Reader(c, j, t) => SameThread(t)
  PROVE  /\ AsyncShape' /\ ClientOK(c)' /\ UNCHANGED sent
         /\ \A d \in Client \ {c} : SameClient(d)
         /\ \A j \in Nat : \A t \in Thread : Reader(c, j, t)' => Reader(c, j, t) /\ j # i
         /\ i \in Handlers(c)' /\ Handlers(c)' = Handlers(c)
         /\ handlers'[c][i].at = "callback" /\ handlers'[c][i].response = m
         /\ handlers'[c][i].error = e /\ handlers'[c][i].request = handlers[c][i].request
         /\ \A j \in Handlers(c) \ {i} : handlers'[c][j] = handlers[c][j]
<1> DEFINE o == handlers[c][i]
           n == [o EXCEPT !.at = "callback", !.thread = NoThread, !.error = e, !.response = m]
<1>1. /\ SetHandler(c, i, n) /\ UNCHANGED <<clientVars, faultVars, stopped, closed, output>>
      /\ o \in HandlerRecord /\ HandlerInv(c, i) /\ i \in Nat \ {0}
  BY HandlerRecordFacts DEF AsyncReturns, UnchangedByHandler
<1>2. /\ n \in HandlerRecord /\ n.at = "callback" /\ n.thread = NoThread
      /\ n.request = o.request /\ n.response = m /\ n.error = e
  BY <1>1 DEF HandlerRecord, HandlerLabels, ResponseOK
<1> HIDE DEF n
<1>3. /\ handlers'[c][i] = n /\ Handlers(c)' = Handlers(c)
      /\ \A j \in Handlers(c) \ {i} : handlers'[c][j] = handlers[c][j]
  BY <1>1, <1>2, SetHandlerFacts DEF BaseAsync
<1>4. UNCHANGED <<sent, stopped, serving>>
  BY <1>1 DEF clientVars
<1>5. HandlerInv(c, i)'
  BY <1>1, <1>2, <1>3, <1>4 DEF HandlerInv, SendsValue, Concerns, Creation, OwnContent, ResponseOK
<1>6. /\ handlers' \in [Client -> Seq(HandlerRecord)]
      /\ \A j \in Handlers(c)' : HandlerInv(c, j)'
      /\ \A d \in Client \ {c} : handlers'[d] = handlers[d]
      /\ UNCHANGED stopped /\ (o.at \in Gone => n.at \in Gone) => StoppedInv(c)'
      /\ UNCHANGED serving =>
              \A j \in Nat \ {i} : \A u \in Thread : Reader(c, j, u)' <=> Reader(c, j, u)
      /\ \A u : Reader(c, i, u)' <=> n.at = "read" /\ n.thread = u
  BY <1>1, <1>2, <1>4, <1>5, HandlerStep
<1>7. /\ AsyncShape' /\ CallerInv(c)' /\ \A d \in Client \ {c} : SameClient(d)
  BY <1>1, <1>6, HandlerStepFrame
<1>8. StoppedInv(c)'
  BY <1>4, <1>6 DEF Gone
<1>9. \A j \in Nat : \A t \in Thread : Reader(c, j, t)' => Reader(c, j, t) /\ j # i
  BY <1>2, <1>4, <1>6
<1> QED
  BY <1>2, <1>3, <1>4, <1>6, <1>7, <1>8, <1>9 DEF ClientOK

LEMMA AsyncFailsKeepsBase ==
  ASSUME BaseAsync, NEW c \in Client, NEW i \in Handlers(c),
         AsyncNotServed(c, i) \/ AsyncDisconnected(c, i)
  PROVE  BaseAsync'
<1>1. PICK e \in Errors : /\ e # ERROR_SUCCESS /\ AsyncReturns(c, i, e, <<>>) /\ UNCHANGED vars
                          /\ handlers[c][i].at \in {"open", "read"}
  BY DEF AsyncNotServed, AsyncDisconnected, Errors, ERROR_SUCCESS, TransportError, ERROR_SERVER_NO_RESPONSE,
         ERROR_RECEIVE_FAILED
<1>2. ResponseOK(c, i, e, <<>>)
  BY <1>1 DEF ResponseOK
<1>3. TypeOK' /\ \A t : SameThread(t)
  BY <1>1 DEF BaseAsync, AsyncShape, TypeOK, vars, SameThread
<1>4. /\ AsyncShape' /\ ClientOK(c)' /\ UNCHANGED sent
      /\ \A d \in Client \ {c} : SameClient(d)
      /\ \A j \in Nat : \A t \in Thread : Reader(c, j, t)' => Reader(c, j, t)
  BY <1>1, <1>2, <1>3, AsyncReturnsFacts
<1> QED
  BY <1>1, <1>4, ClientStepKeepsBase

\* The response is the one to the request of the handler.
LEMMA AsyncAnsweredFacts ==
  ASSUME BaseAsync, NEW c \in Client, NEW i \in Handlers(c), AsyncAnswered(c, i),
         NEW t, t = handlers[c][i].thread
  PROVE  /\ t \in Thread /\ Reader(c, i, t) /\ i \in Nat \ {0} /\ pc[t] = "done" /\ End(t)
         /\ AsyncReturns(c, i, ERROR_SUCCESS, msg[t]) /\ ResponseOK(c, i, ERROR_SUCCESS, msg[t])
         /\ AsyncShape' /\ ClientOK(c)' /\ UNCHANGED sent
         /\ \A d \in Client \ {c} : SameClient(d)
         /\ \A j \in Nat : \A u \in Thread : Reader(c, j, u)' => Reader(c, j, u) /\ u # t
         /\ handlers'[c][i].at = "callback" /\ handlers'[c][i].response = msg[t]
         /\ handlers'[c][i].error = ERROR_SUCCESS /\ Handlers(c)' = Handlers(c)
         /\ handlers'[c][i].request = handlers[c][i].request
         /\ \A j \in Handlers(c) \ {i} : handlers'[c][j] = handlers[c][j]
         /\ \A u \in Thread \ {t} : SameThread(u)
<1>1. /\ handlers[c][i].at = "read" /\ pc[t] = "done" /\ End(t)
      /\ AsyncReturns(c, i, ERROR_SUCCESS, msg[t])
  BY DEF AsyncAnswered, At
<1>2. t \in Thread /\ Reader(c, i, t) /\ i \in Nat \ {0} /\ HandlerInv(c, i)
  BY <1>1, ReadingHandler, HandlerRecordFacts
<1>3. TypeOK' /\ \A u \in Thread \ {t} : SameThread(u)
  <2>1. <<>> \in Seq(Argument)
    OBVIOUS
  <2> QED
    BY <1>1, <1>2, <2>1 DEF End, Set, BaseAsync, AsyncShape, TypeOK, SameThread, Labels, Handle
<1>4. Concerns(c, i, msg[t]) /\ (SendsValue(c, i) => Constructs(msg[t]))
  BY <1>1, <1>2 DEF HandlerInv, Concerns, Creation
<1>5. ResponseOK(c, i, ERROR_SUCCESS, msg[t])
  BY <1>1, <1>2, <1>4, AnswerFacts, MessageNotEmpty, ShapeFacts DEF ResponseOK, Errors, BaseAsync
<1>6. \A j \in Nat \ {i} : ~Reader(c, j, t)
  BY <1>2 DEF BaseAsync, ReaderInv
<1>7. /\ AsyncShape' /\ ClientOK(c)' /\ UNCHANGED sent
      /\ \A d \in Client \ {c} : SameClient(d)
      /\ \A j \in Nat : \A u \in Thread : Reader(c, j, u)' => Reader(c, j, u) /\ j # i
      /\ Handlers(c)' = Handlers(c)
      /\ handlers'[c][i].at = "callback" /\ handlers'[c][i].response = msg[t]
      /\ handlers'[c][i].error = ERROR_SUCCESS /\ handlers'[c][i].request = handlers[c][i].request
      /\ \A j \in Handlers(c) \ {i} : handlers'[c][j] = handlers[c][j]
  BY <1>1, <1>2, <1>3, <1>5, <1>6, AsyncReturnsFacts
<1> QED
  BY <1>1, <1>2, <1>3, <1>5, <1>6, <1>7

LEMMA AsyncAnsweredKeepsBase ==
  ASSUME BaseAsync, NEW c \in Client, NEW i \in Handlers(c), AsyncAnswered(c, i)
  PROVE  BaseAsync'
<1>1. PICK t : t = handlers[c][i].thread
  OBVIOUS
<1> QED
  BY <1>1, AsyncAnsweredFacts, EndKeepsBase

\* The last parameter of a response; the handle it has brought.
LEMMA LastParameter ==
  ASSUME NEW m, m = <<>> \/ IsMessage(m)
  PROVE  /\ LastFunctionParameter(m) \in Argument
         /\ Len(m) = 5 /\ m # <<>> => LastFunctionParameter(m) = CreatedHandle(m)
<1>1. EmptyArgument \in Argument
  BY ConstantFacts
<1>2. CASE m = <<>>
  BY <1>1, <1>2 DEF LastFunctionParameter
<1>3. CASE IsMessage(m) /\ m # <<>>
  <2>1. m \in Seq(Argument) /\ Len(m) \in Nat /\ Len(m) >= 3
    BY <1>3 DEF IsMessage
  <2>2. Len(m) = 5 => Len(m) - eDispIdPosition = 2
    BY DEF eDispIdPosition
  <2>3. Len(m) = 5 => LastFunctionParameter(m) = m[5] /\ CreatedHandle(m) = m[5]
    BY <1>3, <2>1, <2>2
       DEF LastFunctionParameter, CreatedHandle, GetFunctionParameter, GetParameter, eDispIdPosition
  <2>4. LastFunctionParameter(m) \in Argument
    BY <1>1, <1>3, <2>1
       DEF LastFunctionParameter, GetFunctionParameter, GetParameter, eDispIdPosition
  <2> QED
    BY <2>3, <2>4
<1> QED
  BY <1>2, <1>3

LEMMA BroughtFacts ==
  ASSUME BaseAsync, NEW c \in Client, NEW i \in Handlers(c)
  PROVE  LET m == handlers[c][i].response
         IN /\ m = <<>> \/ IsMessage(m)
            /\ Brought(m) \subseteq Address
            /\ ~SendsValue(c, i) \/ m = <<>> => Brought(m) = {}
            /\ SendsValue(c, i) /\ m # <<>> =>
                 /\ LastFunctionParameter(m) = CreatedHandle(m) /\ CreatedHandle(m) \in Address
                 /\ Brought(m) = {CreatedHandle(m)}
            /\ m = <<>> => LastFunctionParameter(m) = EmptyArgument
<1> DEFINE m == handlers[c][i].response
<1>1. /\ m # <<>> => Concerns(c, i, m)
      /\ m # <<>> /\ SendsValue(c, i) => CreatedHandle(m) \in Address /\ Len(m) = 5
  BY HandlerRecordFacts DEF HandlerInv
<1>2. /\ m # <<>> => IsMessage(m)
      /\ m # <<>> /\ ~SendsValue(c, i) => ~Constructs(m)
      /\ m # <<>> /\ SendsValue(c, i) => Constructs(m)
  BY <1>1 DEF Concerns, Creation, CallsObject, Constructs
<1> HIDE DEF m
<1>3. /\ ~SendsValue(c, i) \/ m = <<>> => Brought(m) = {}
      /\ SendsValue(c, i) /\ m # <<>> => Brought(m) = {CreatedHandle(m)}
  BY <1>2 DEF Brought
<1>4. m = <<>> => LastFunctionParameter(m) = EmptyArgument
  BY DEF LastFunctionParameter
<1>5. /\ m = <<>> \/ IsMessage(m)
      /\ SendsValue(c, i) /\ m # <<>> => LastFunctionParameter(m) = CreatedHandle(m)
  BY <1>1, <1>2, LastParameter
<1>6. Brought(m) \subseteq Address
  BY <1>1, <1>3
<1> QED
  BY <1>1, <1>3, <1>4, <1>5, <1>6 DEF m

\* An empty argument is not an address.
LEMMA CallbackFacts ==
  ASSUME BaseAsync, NEW c \in Client, NEW i \in Handlers(c), Callback(c, i)
  PROVE  LET o == handlers[c][i]
             x == LastFunctionParameter(o.response)
         IN /\ o.at = "callback" /\ x \in Argument
            /\ UNCHANGED <<vars, faultVars, request, serving, sent, result, got, requests,
                           stopped, closed>>
            /\ \/ ~SendsValue(c, i) /\ output' = Set(output, c, x) /\ UNCHANGED <<proxy, phase, orphaned>>
               \/ /\ SendsValue(c, i) /\ phase[c] = "out" /\ x \in Address
                  /\ Brought(o.response) = {x}
                  /\ proxy' = Set(proxy, c, x) /\ phase' = Set(phase, c, "ready")
                  /\ UNCHANGED <<orphaned, output>>
               \/ /\ SendsValue(c, i) /\ orphaned' = orphaned \cup Brought(o.response)
                  /\ UNCHANGED <<proxy, phase, output>>
            /\ Handlers(c)' = Handlers(c)
            /\ handlers'[c][i] \in HandlerRecord
            /\ SetHandler(c, i, handlers'[c][i])
            /\ handlers'[c][i].at = "ended" /\ handlers'[c][i].thread = NoThread
            /\ handlers'[c][i].response = o.response /\ handlers'[c][i].error = o.error
            /\ handlers'[c][i].request = o.request
            /\ \A j \in Handlers(c) \ {i} : handlers'[c][j] = handlers[c][j]
<1> DEFINE o == handlers[c][i]
           x == LastFunctionParameter(o.response)
           n == [o EXCEPT !.at = "ended"]
<1>1. /\ o.at = "callback" /\ SetHandler(c, i, n) /\ o \in HandlerRecord /\ o.thread = NoThread
      /\ UNCHANGED <<vars, faultVars, request, serving, sent, result, got, requests, stopped, closed>>
  BY HandlerRecordFacts DEF Callback, HandlerInv
<1>2. /\ n \in HandlerRecord /\ n.at = "ended" /\ n.thread = NoThread
      /\ n.request = o.request /\ n.response = o.response /\ n.error = o.error
  BY <1>1 DEF HandlerRecord, HandlerLabels, Gone
<1>3. \/ ~SendsValue(c, i) /\ output' = Set(output, c, x) /\ UNCHANGED <<proxy, phase, orphaned>>
      \/ /\ SendsValue(c, i) /\ phase[c] = "out" /\ x # EmptyArgument
         /\ proxy' = Set(proxy, c, x) /\ phase' = Set(phase, c, "ready")
         /\ UNCHANGED <<orphaned, output>>
      \/ /\ SendsValue(c, i) /\ orphaned' = orphaned \cup Brought(o.response)
         /\ UNCHANGED <<proxy, phase, output>>
  BY DEF Callback, SendsValue
<1> HIDE DEF n
<1>4. x \in Argument /\ (SendsValue(c, i) /\ x # EmptyArgument => x \in Address /\ Brought(o.response) = {x})
  BY BroughtFacts, LastParameter
<1>5. /\ handlers'[c][i] = n /\ Handlers(c)' = Handlers(c)
      /\ \A j \in Handlers(c) \ {i} : handlers'[c][j] = handlers[c][j]
  BY <1>1, <1>2, SetHandlerFacts DEF BaseAsync
<1> HIDE DEF x
<1>6. \/ ~SendsValue(c, i) /\ output' = Set(output, c, x) /\ UNCHANGED <<proxy, phase, orphaned>>
      \/ /\ SendsValue(c, i) /\ phase[c] = "out" /\ x \in Address
         /\ Brought(o.response) = {x}
         /\ proxy' = Set(proxy, c, x) /\ phase' = Set(phase, c, "ready")
         /\ UNCHANGED <<orphaned, output>>
      \/ /\ SendsValue(c, i) /\ orphaned' = orphaned \cup Brought(o.response)
         /\ UNCHANGED <<proxy, phase, output>>
  BY <1>3, <1>4
<1> QED
  BY <1>1, <1>2, <1>4, <1>5, <1>6 DEF x

LEMMA CallbackKeepsBase ==
  ASSUME BaseAsync, NEW c \in Client, NEW i \in Handlers(c), Callback(c, i)
  PROVE  BaseAsync'
<1> DEFINE o == handlers[c][i]
           x == LastFunctionParameter(o.response)
<1>1. /\ o.at = "callback" /\ x \in Argument
      /\ UNCHANGED <<vars, faultVars, request, serving, sent, result, got, requests, stopped, closed>>
      /\ handlers'[c][i] \in HandlerRecord /\ SetHandler(c, i, handlers'[c][i])
      /\ handlers'[c][i].at = "ended" /\ handlers'[c][i].thread = NoThread
      /\ handlers'[c][i].response = o.response /\ handlers'[c][i].error = o.error
      /\ handlers'[c][i].request = o.request
  BY CallbackFacts
<1>2. \/ ~SendsValue(c, i) /\ output' = Set(output, c, x) /\ UNCHANGED <<proxy, phase, orphaned>>
      \/ /\ SendsValue(c, i) /\ phase[c] = "out" /\ x \in Address
         /\ proxy' = Set(proxy, c, x) /\ phase' = Set(phase, c, "ready")
         /\ UNCHANGED <<orphaned, output>>
      \/ /\ SendsValue(c, i) /\ orphaned' = orphaned \cup Brought(o.response)
         /\ UNCHANGED <<proxy, phase, output>>
  BY CallbackFacts
<1> HIDE DEF x
<1>3. HandlerInv(c, i) /\ i \in Nat \ {0} /\ Brought(o.response) \subseteq Address
  BY HandlerRecordFacts, BroughtFacts
<1>4. UNCHANGED <<sent, stopped, serving>> /\ \A t : SameThread(t)
  BY <1>1 DEF vars, SameThread
<1>5. HandlerInv(c, i)'
  BY <1>1, <1>3, <1>4 DEF HandlerInv, SendsValue, Concerns, Creation, OwnContent
<1>6. PICK n \in HandlerRecord : n = handlers'[c][i]
  BY <1>1
<1>7. /\ handlers' \in [Client -> Seq(HandlerRecord)]
      /\ \A j \in Handlers(c)' : HandlerInv(c, j)'
      /\ \A d \in Client \ {c} : handlers'[d] = handlers[d]
      /\ UNCHANGED stopped /\ (o.at \in Gone => n.at \in Gone) => StoppedInv(c)'
      /\ UNCHANGED serving =>
              \A j \in Nat \ {i} : \A u \in Thread : Reader(c, j, u)' <=> Reader(c, j, u)
      /\ \A u : Reader(c, i, u)' <=> n.at = "read" /\ n.thread = u
  BY <1>1, <1>4, <1>5, <1>6, HandlerStep
<1>8. AsyncShape'
  <2>1. proxy' \in [Client -> Handle] /\ output' \in [Client -> Argument] /\ orphaned' \subseteq Address
        /\ phase' \in [Client -> {"out", "creating", "ready", "calling", "deleting", "finished", "killed"}]
    <3>1. /\ proxy \in [Client -> Handle] /\ output \in [Client -> Argument] /\ orphaned \subseteq Address
          /\ phase \in [Client -> {"out", "creating", "ready", "calling", "deleting", "finished", "killed"}]
      BY DEF BaseAsync, AsyncShape
    <3> QED
      BY <1>1, <1>2, <1>3, <3>1 DEF Set, Handle
  <2> QED
    BY <1>1, <1>7, <2>1 DEF BaseAsync, AsyncShape, TypeOK, vars, faultVars
<1>9. \A d \in Client \ {c} : SameClient(d)
  BY <1>1, <1>2, <1>7 DEF BaseAsync, AsyncShape, Set, SameClient, SameCaller
<1>10. CallerInv(c)'
  <2>1. CASE UNCHANGED <<proxy, phase>>
    BY <1>1, <1>4, <2>1, CallerWaitsOn DEF SameCaller
  <2>2. CASE phase[c] = "out" /\ x \in Address /\ proxy' = Set(proxy, c, x) /\ phase' = Set(phase, c, "ready")
    <3>1. request[c] = <<>> /\ serving[c] = NoThread
      BY <2>2, IdleCaller DEF Waiting
    <3>2. phase'[c] = "ready" /\ proxy'[c] = x
      BY <2>2 DEF Set, BaseAsync, AsyncShape
    <3> QED
      BY <1>1, <2>2, <3>1, <3>2, IdleCallerOK DEF Waiting
  <2> QED
    BY <1>2, <2>1, <2>2
<1>11. ClientOK(c)'
  BY <1>1, <1>4, <1>6, <1>7, <1>10 DEF ClientOK, Gone
<1>12. \A j \in Nat : \A t \in Thread : Reader(c, j, t)' => Reader(c, j, t)
  BY <1>1, <1>4, <1>6, <1>7
<1> QED
  BY <1>1, <1>8, <1>9, <1>11, <1>12, ClientStepKeepsBase
------------------------------------------------------------------------------
\* ~RPCClient: the handler it is at.
LEMMA NextStopped ==
  ASSUME BaseAsync, NEW c \in Client, Destructing(c)
  PROVE  /\ stopped[c] + 1 \in Handlers(c) /\ stopped[c] \in Nat
         /\ ~Waiting(c)
<1>1. /\ Handlers(c) = 1 .. Len(handlers[c]) /\ Len(handlers[c]) \in Nat /\ stopped[c] \in Nat
  BY ShapeFacts DEF BaseAsync
<1> QED
  BY <1>1 DEF Destructing, Waiting

LEMMA ClosePipeFacts ==
  ASSUME BaseAsync, NEW c \in Client, ClosePipe(c), NEW i, i = stopped[c] + 1
  PROVE  /\ UNCHANGED <<allVars, faultVars, stopped, output>>
         /\ closed' = [closed EXCEPT ![c] = TRUE] /\ i \in Handlers(c)
         /\ \/ UNCHANGED handlers
            \/ /\ handlers[c][i].at = "read" /\ Handlers(c)' = Handlers(c)
               /\ handlers'[c][i] \in HandlerRecord
               /\ SetHandler(c, i, handlers'[c][i])
               /\ handlers'[c][i].at = "callback" /\ handlers'[c][i].thread = NoThread
               /\ handlers'[c][i].response = <<>> /\ handlers'[c][i].error = ERROR_RECEIVE_FAILED
               /\ handlers'[c][i].request = handlers[c][i].request
               /\ \A j \in Handlers(c) \ {i} : handlers'[c][j] = handlers[c][j]
<1> DEFINE o == handlers[c][i]
           n == [o EXCEPT !.at = "callback", !.thread = NoThread, !.error = ERROR_RECEIVE_FAILED]
<1>1. /\ UNCHANGED <<allVars, faultVars, stopped, output>> /\ closed' = [closed EXCEPT ![c] = TRUE]
      /\ i \in Handlers(c) /\ (UNCHANGED handlers \/ (o.at = "read" /\ SetHandler(c, i, n)))
  BY NextStopped DEF ClosePipe, Set
<1>2. CASE o.at = "read" /\ SetHandler(c, i, n)
  <2>1. o \in HandlerRecord /\ o.response = <<>>
    BY <1>1, <1>2, HandlerRecordFacts DEF HandlerInv
  <2>2. /\ n \in HandlerRecord /\ n.at = "callback" /\ n.thread = NoThread
        /\ n.request = o.request /\ n.response = o.response /\ n.error = ERROR_RECEIVE_FAILED
    BY <2>1 DEF HandlerRecord, HandlerLabels, Errors, TransportError
  <2> HIDE DEF n
  <2>3. /\ handlers'[c][i] = n /\ Handlers(c)' = Handlers(c)
        /\ \A j \in Handlers(c) \ {i} : handlers'[c][j] = handlers[c][j]
    BY <1>1, <1>2, <2>2, SetHandlerFacts DEF BaseAsync
  <2> QED
    BY <1>1, <1>2, <2>1, <2>2, <2>3
<1> QED
  BY <1>1, <1>2

LEMMA ClosePipeKeepsBase ==
  ASSUME BaseAsync, NEW c \in Client, ClosePipe(c)
  PROVE  BaseAsync'
<1>1. PICK i : i = stopped[c] + 1
  OBVIOUS
<1>2. /\ UNCHANGED <<allVars, faultVars, stopped, output>>
      /\ closed' = [closed EXCEPT ![c] = TRUE] /\ i \in Handlers(c)
  BY <1>1, ClosePipeFacts
<1>3. UNCHANGED <<vars, clientVars, sent, serving, stopped>> /\ \A t : SameThread(t)
  BY <1>2 DEF allVars, vars, clientVars, SameThread
<1>4. CallerInv(c)'
  BY <1>3, CallerWaitsOn DEF SameCaller, clientVars
<1>5. CASE UNCHANGED handlers
  <2>1. AsyncShape' /\ \A d \in Client : SameClient(d)
    BY <1>2, <1>3, <1>5
       DEF BaseAsync, AsyncShape, TypeOK, vars, clientVars, faultVars, SameClient, SameCaller
  <2>2. StoppedInv(c)' /\ \A j \in Handlers(c)' : HandlerInv(c, j)'
    BY <1>3, <1>5, HandlersGoOn
  <2>3. \A j \in Nat : \A t \in Thread : Reader(c, j, t)' => Reader(c, j, t)
    BY <1>3, <1>5 DEF Reader, Handlers
  <2> QED
    BY <1>3, <1>4, <2>1, <2>2, <2>3, ClientStepKeepsBase DEF ClientOK
<1>6. CASE ~UNCHANGED handlers
  <2> DEFINE o == handlers[c][i]
  <2>1. /\ handlers'[c][i] \in HandlerRecord /\ SetHandler(c, i, handlers'[c][i])
        /\ handlers'[c][i].at = "callback" /\ handlers'[c][i].thread = NoThread
        /\ handlers'[c][i].response = <<>> /\ handlers'[c][i].error = ERROR_RECEIVE_FAILED
        /\ handlers'[c][i].request = o.request /\ o.at = "read"
    BY <1>1, <1>6, ClosePipeFacts
  <2>2. HandlerInv(c, i) /\ i \in Nat \ {0} /\ ERROR_RECEIVE_FAILED # ERROR_SUCCESS
    BY <1>2, HandlerRecordFacts DEF ERROR_RECEIVE_FAILED, ERROR_SUCCESS
  <2>3. HandlerInv(c, i)'
    BY <1>3, <2>1, <2>2 DEF HandlerInv, SendsValue, Concerns, Creation, OwnContent
  <2>4. PICK n \in HandlerRecord : n = handlers'[c][i]
    BY <2>1
  <2>5. /\ handlers' \in [Client -> Seq(HandlerRecord)]
        /\ \A j \in Handlers(c)' : HandlerInv(c, j)'
        /\ \A d \in Client \ {c} : handlers'[d] = handlers[d]
        /\ UNCHANGED stopped /\ (o.at \in Gone => n.at \in Gone) => StoppedInv(c)'
        /\ UNCHANGED serving =>
                \A j \in Nat \ {i} : \A u \in Thread : Reader(c, j, u)' <=> Reader(c, j, u)
        /\ \A u : Reader(c, i, u)' <=> n.at = "read" /\ n.thread = u
    BY <1>2, <1>3, <2>1, <2>3, <2>4, HandlerStep
  <2>6. AsyncShape' /\ \A d \in Client \ {c} : SameClient(d)
    BY <1>2, <1>3, <2>5
       DEF BaseAsync, AsyncShape, TypeOK, vars, clientVars, faultVars, SameClient, SameCaller
  <2>7. ClientOK(c)' /\ \A j \in Nat : \A t \in Thread : Reader(c, j, t)' => Reader(c, j, t)
    BY <1>3, <1>4, <2>1, <2>4, <2>5 DEF ClientOK, Gone
  <2> QED
    BY <1>3, <2>6, <2>7, ClientStepKeepsBase
<1> QED
  BY <1>5, <1>6

LEMMA WaitFacts ==
  ASSUME BaseAsync, NEW c \in Client, WaitAndTerminateThread(c), NEW i, i = stopped[c] + 1
  PROVE  /\ UNCHANGED <<vars, faultVars, phase, proxy, request, serving, sent, result, got,
                        requests, output>>
         /\ stopped' = [stopped EXCEPT ![c] = i] /\ closed' = [closed EXCEPT ![c] = FALSE]
         /\ i \in Handlers(c)
         /\ \/ UNCHANGED <<handlers, orphaned>> /\ handlers[c][i].at \in Gone
            \/ /\ orphaned' = orphaned \cup Brought(handlers[c][i].response)
               /\ handlers[c][i].at \notin Gone /\ Handlers(c)' = Handlers(c)
               /\ handlers'[c][i] \in HandlerRecord
               /\ SetHandler(c, i, handlers'[c][i])
               /\ handlers'[c][i].at = "terminated" /\ handlers'[c][i].thread = NoThread
               /\ handlers'[c][i].response = handlers[c][i].response
               /\ handlers'[c][i].error = handlers[c][i].error
               /\ handlers'[c][i].request = handlers[c][i].request
               /\ \A j \in Handlers(c) \ {i} : handlers'[c][j] = handlers[c][j]
<1> DEFINE o == handlers[c][i]
           n == [o EXCEPT !.at = "terminated", !.thread = NoThread]
<1>1. /\ UNCHANGED <<vars, faultVars, phase, proxy, request, serving, sent, result, got,
                     requests, output>>
      /\ stopped' = [stopped EXCEPT ![c] = i] /\ closed' = [closed EXCEPT ![c] = FALSE]
      /\ i \in Handlers(c)
      /\ \/ UNCHANGED <<handlers, orphaned>> /\ o.at \in Gone
         \/ o.at \notin Gone /\ SetHandler(c, i, n) /\ orphaned' = orphaned \cup Brought(o.response)
  BY NextStopped DEF WaitAndTerminateThread, Set
<1>2. CASE o.at \notin Gone /\ SetHandler(c, i, n) /\ orphaned' = orphaned \cup Brought(o.response)
  <2>1. o \in HandlerRecord
    BY <1>1, HandlerRecordFacts
  <2>2. /\ n \in HandlerRecord /\ n.at = "terminated" /\ n.thread = NoThread
        /\ n.request = o.request /\ n.response = o.response /\ n.error = o.error
    BY <2>1 DEF HandlerRecord, HandlerLabels, Gone
  <2> HIDE DEF n
  <2>3. /\ handlers'[c][i] = n /\ Handlers(c)' = Handlers(c)
        /\ \A j \in Handlers(c) \ {i} : handlers'[c][j] = handlers[c][j]
    BY <1>1, <1>2, <2>2, SetHandlerFacts DEF BaseAsync
  <2> QED
    BY <1>1, <1>2, <2>2, <2>3
<1> QED
  BY <1>1, <1>2

LEMMA WaitKeepsBase ==
  ASSUME BaseAsync, NEW c \in Client, WaitAndTerminateThread(c)
  PROVE  BaseAsync'
<1>1. PICK i : i = stopped[c] + 1
  OBVIOUS
<1>2. /\ UNCHANGED <<vars, faultVars, phase, proxy, request, serving, sent, result, got,
                     requests, output>>
      /\ stopped' = [stopped EXCEPT ![c] = i] /\ closed' = [closed EXCEPT ![c] = FALSE]
      /\ i \in Handlers(c)
  BY <1>1, WaitFacts
<1>3. UNCHANGED <<sent, serving>> /\ \A t : SameThread(t)
  BY <1>2 DEF vars, SameThread
<1>4. CallerInv(c)'
  BY <1>2, <1>3, CallerWaitsOn DEF SameCaller
<1>5. /\ StoppedInv(c) /\ stopped'[c] = i /\ stopped[c] \in Nat /\ i \in Nat
      /\ Handlers(c) = 1 .. Len(handlers[c]) /\ Len(handlers[c]) \in Nat
      /\ stopped' \in [Client -> Nat] /\ \A d \in Client \ {c} : stopped'[d] = stopped[d]
      /\ \A j \in 1 .. i : j = i \/ j \in 1 .. stopped[c]
  BY <1>1, <1>2, ShapeFacts DEF BaseAsync, AsyncShape
<1>6. \A j \in 1 .. stopped[c] : j \in Handlers(c) \ {i}
  BY <1>1, <1>5 DEF StoppedInv
<1>7. CASE UNCHANGED <<handlers, orphaned>> /\ handlers[c][i].at \in Gone
  <2>1. AsyncShape' /\ \A d \in Client \ {c} : SameClient(d)
    BY <1>2, <1>5, <1>7
       DEF BaseAsync, AsyncShape, TypeOK, vars, faultVars, SameClient, SameCaller
  <2>2. StoppedInv(c)'
    BY <1>2, <1>5, <1>7 DEF StoppedInv
  <2>3. ASSUME NEW j \in Handlers(c)
        PROVE  HandlerInv(c, j)'
    BY <1>3, <1>7, ReadingHandler, ReadMessage, HandlerKept
  <2>4. /\ Handlers(c)' = Handlers(c)
        /\ \A j \in Nat : \A t \in Thread : Reader(c, j, t)' => Reader(c, j, t)
    BY <1>3, <1>7 DEF Reader, Handlers
  <2> QED
    BY <1>2, <1>4, <2>1, <2>2, <2>3, <2>4, ClientStepKeepsBase DEF ClientOK
<1>8. CASE ~(UNCHANGED <<handlers, orphaned>> /\ handlers[c][i].at \in Gone)
  <2> DEFINE o == handlers[c][i]
  <2>1. /\ orphaned' = orphaned \cup Brought(o.response)
        /\ handlers'[c][i] \in HandlerRecord /\ SetHandler(c, i, handlers'[c][i])
        /\ handlers'[c][i].at = "terminated" /\ handlers'[c][i].thread = NoThread
        /\ handlers'[c][i].response = o.response /\ handlers'[c][i].error = o.error
        /\ handlers'[c][i].request = o.request
        /\ \A j \in Handlers(c) \ {i} : handlers'[c][j] = handlers[c][j]
    BY <1>1, <1>8, WaitFacts
  <2>2. HandlerInv(c, i) /\ i \in Nat \ {0} /\ Brought(o.response) \subseteq Address
    BY <1>2, HandlerRecordFacts, BroughtFacts
  <2>3. HandlerInv(c, i)'
    BY <1>3, <2>1, <2>2 DEF HandlerInv, SendsValue, Concerns, Creation, OwnContent
  <2>4. PICK n \in HandlerRecord : n = handlers'[c][i]
    BY <2>1
  <2>5. /\ handlers' \in [Client -> Seq(HandlerRecord)]
        /\ \A j \in Handlers(c)' : HandlerInv(c, j)'
        /\ \A d \in Client \ {c} : handlers'[d] = handlers[d]
        /\ UNCHANGED serving =>
                \A j \in Nat \ {i} : \A u \in Thread : Reader(c, j, u)' <=> Reader(c, j, u)
        /\ \A u : Reader(c, i, u)' <=> n.at = "read" /\ n.thread = u
    BY <1>2, <1>3, <2>1, <2>3, <2>4, HandlerStep
  <2>6. AsyncShape' /\ \A d \in Client \ {c} : SameClient(d)
    BY <1>2, <1>5, <2>1, <2>2, <2>5
       DEF BaseAsync, AsyncShape, TypeOK, vars, faultVars, SameClient, SameCaller
  <2>7. Len(handlers'[c]) = Len(handlers[c])
    BY <1>2, <2>1, <2>4, SetHandlerFacts DEF BaseAsync
  <2>8. StoppedInv(c)'
    BY <1>2, <1>5, <1>6, <2>1, <2>7 DEF StoppedInv, Gone
  <2>9. \A j \in Nat : \A t \in Thread : Reader(c, j, t)' => Reader(c, j, t)
    BY <1>3, <2>1, <2>4, <2>5
  <2> QED
    BY <1>2, <1>4, <2>5, <2>6, <2>8, <2>9, ClientStepKeepsBase DEF ClientOK
<1> QED
  BY <1>7, <1>8

\* A killed client has nothing but terminated handlers.
LEMMA KillFacts ==
  ASSUME BaseAsync, NEW c \in Client, Kill(c)
  PROVE  /\ phase'[c] = "killed" /\ proxy'[c] = NullHandle
         /\ request'[c] = <<>> /\ serving'[c] = NoThread
         /\ Handlers(c)' = Handlers(c) /\ Len(handlers'[c]) = Len(handlers[c])
         /\ \A i \in Handlers(c) :
              /\ handlers'[c][i].at = "terminated" /\ handlers'[c][i].thread = NoThread
              /\ handlers'[c][i].response = handlers[c][i].response
              /\ handlers'[c][i].request = handlers[c][i].request
         /\ UNCHANGED <<vars, stale, sent, stopped>>
         /\ AsyncShape' /\ \A d \in Client \ {c} : SameClient(d)
<1> DEFINE q == [i \in Handlers(c) |->
                  [handlers[c][i] EXCEPT !.at = "terminated", !.thread = NoThread]]
<1>1. /\ phase' = [phase EXCEPT ![c] = "killed"] /\ proxy' = [proxy EXCEPT ![c] = NullHandle]
      /\ request' = [request EXCEPT ![c] = <<>>] /\ serving' = [serving EXCEPT ![c] = NoThread]
      /\ handlers' = [handlers EXCEPT ![c] = q]
      /\ faults > 0 /\ faults' = faults - 1
      /\ UNCHANGED <<vars, stale, sent, result, got, requests, stopped, closed, output>>
  BY DEF Kill, Set, Fault
<1>2. ASSUME NEW i \in Handlers(c)
      PROVE  /\ q[i] \in HandlerRecord
             /\ q[i].at = "terminated" /\ q[i].thread = NoThread
             /\ q[i].response = handlers[c][i].response
             /\ q[i].request = handlers[c][i].request
  <2>1. handlers[c][i] \in HandlerRecord
    BY HandlerRecordFacts
  <2> QED
    BY <2>1 DEF HandlerRecord, HandlerLabels, Gone
<1>3. q \in Seq(HandlerRecord) /\ Len(q) = Len(handlers[c]) /\ DOMAIN q = Handlers(c)
  <2>1. Handlers(c) = 1 .. Len(handlers[c]) /\ Len(handlers[c]) \in Nat
    BY ShapeFacts DEF BaseAsync
  <2>2. DOMAIN q = 1 .. Len(handlers[c]) /\ q \in [1 .. Len(handlers[c]) -> HandlerRecord]
    BY <1>2, <2>1
  <2> HIDE DEF q
  <2> QED
    BY <2>1, <2>2
<1> HIDE DEF q
<1>4. handlers'[c] = q /\ handlers' \in [Client -> Seq(HandlerRecord)]
      /\ \A d \in Client \ {c} : handlers'[d] = handlers[d]
  BY <1>1, <1>3 DEF BaseAsync, AsyncShape
<1>5. AsyncShape'
  <2>1. orphaned' \subseteq Address
    <3>1. \A i \in Handlers(c) : Brought(handlers[c][i].response) \subseteq Address
      BY BroughtFacts
    <3>2. proxy[c] \in Handle /\ orphaned \subseteq Address
      BY DEF BaseAsync, AsyncShape
    <3> QED
      BY <3>1, <3>2 DEF Kill, Handle
  <2>2. /\ request' \in [Client -> Seq(Argument)] /\ serving' \in [Client -> Thread \cup {NoThread}]
        /\ proxy' \in [Client -> Handle]
        /\ phase' \in [Client -> {"out", "creating", "ready", "calling", "deleting", "finished", "killed"}]
    <3>1. <<>> \in Seq(Argument) /\ NullHandle \in Handle
      BY DEF Handle
    <3> QED
      BY <1>1, <3>1 DEF BaseAsync, AsyncShape
  <2> QED
    BY <1>1, <1>4, <2>1, <2>2 DEF BaseAsync, AsyncShape, TypeOK, vars
<1>6. /\ phase'[c] = "killed" /\ proxy'[c] = NullHandle
      /\ request'[c] = <<>> /\ serving'[c] = NoThread
      /\ \A d \in Client \ {c} : SameClient(d)
  BY <1>1, <1>4 DEF BaseAsync, AsyncShape, SameClient, SameCaller
<1> QED
  BY <1>1, <1>2, <1>3, <1>4, <1>5, <1>6 DEF Handlers

LEMMA KillKeepsBase ==
  ASSUME BaseAsync, NEW c \in Client, Kill(c)
  PROVE  BaseAsync'
<1>1. /\ phase'[c] = "killed" /\ proxy'[c] = NullHandle
      /\ request'[c] = <<>> /\ serving'[c] = NoThread
      /\ Handlers(c)' = Handlers(c) /\ Len(handlers'[c]) = Len(handlers[c])
      /\ \A i \in Handlers(c) :
           /\ handlers'[c][i].at = "terminated" /\ handlers'[c][i].thread = NoThread
           /\ handlers'[c][i].response = handlers[c][i].response
           /\ handlers'[c][i].request = handlers[c][i].request
      /\ UNCHANGED <<vars, sent, stopped>>
      /\ AsyncShape' /\ \A d \in Client \ {c} : SameClient(d)
  BY KillFacts
<1>2. CallerInv(c)'
  BY <1>1, IdleCallerOK DEF Waiting
<1>3. ASSUME NEW i \in Handlers(c)
      PROVE  HandlerInv(c, i)'
  BY <1>1, HandlerRecordFacts DEF HandlerInv, SendsValue, Concerns, Creation, OwnContent
<1>4. StoppedInv(c)'
  <2>1. StoppedInv(c) /\ \A i \in 1 .. stopped[c] : i \in Handlers(c)
    BY ShapeFacts DEF BaseAsync, StoppedInv
  <2> QED
    BY <1>1, <2>1 DEF StoppedInv, Gone
<1>5. \A i \in Nat : \A t \in Thread : Reader(c, i, t)' => Reader(c, i, t)
  BY <1>1, DistinctAssumption DEF Reader
<1> QED
  BY <1>1, <1>2, <1>3, <1>4, <1>5, ClientStepKeepsBase DEF ClientOK
------------------------------------------------------------------------------
\* Nobody waits for the thread.
LEMMA DiscardFacts ==
  ASSUME BaseAsync, NEW t \in Thread, Discard(t)
  PROVE  /\ End(t) /\ pc[t] = "done" /\ orphaned' = orphaned \cup Brought(msg[t])
         /\ Brought(msg[t]) = (IF Constructs(msg[t]) THEN {stub[t]} ELSE {})
         /\ Constructs(msg[t]) => stub[t] \in Address
         /\ UNCHANGED <<phase, proxy, request, serving, sent, result, got, requests, asyncVars, faultVars>>
         /\ \A u \in Thread \ {t} : SameThread(u)
         /\ \A c \in Client : \A i \in Nat : ~Reader(c, i, t)
<1>1. /\ End(t) /\ pc[t] = "done" /\ orphaned' = orphaned \cup Brought(msg[t]) /\ ~ReadBy(t)
      /\ UNCHANGED <<phase, proxy, request, serving, sent, result, got, requests, asyncVars, faultVars>>
  BY DEF Discard, At
<1>2. \A u \in Thread \ {t} : SameThread(u)
  BY <1>1 DEF End, Set, SameThread, BaseAsync, AsyncShape, TypeOK
<1>3. \A c \in Client : \A i \in Nat : ~Reader(c, i, t)
  BY <1>1 DEF ReadBy, Reader
<1>4. /\ Brought(msg[t]) = (IF Constructs(msg[t]) THEN {stub[t]} ELSE {})
      /\ Constructs(msg[t]) => stub[t] \in Address
  BY <1>1, AnswerFacts, MessageNotEmpty DEF Brought
<1> QED
  BY <1>1, <1>2, <1>3, <1>4

LEMMA DiscardKeepsBase ==
  ASSUME BaseAsync, NEW t \in Thread, Discard(t)
  PROVE  BaseAsync'
<1>1. /\ End(t) /\ orphaned' = orphaned \cup Brought(msg[t]) /\ Brought(msg[t]) \subseteq Address
      /\ UNCHANGED <<phase, proxy, request, serving, sent, result, got, requests, asyncVars, faultVars>>
      /\ \A u \in Thread \ {t} : SameThread(u)
      /\ \A c \in Client : \A i \in Nat : ~Reader(c, i, t)
  BY DiscardFacts
<1>2. TypeOK' /\ pc'[t] = "idle"
  <2>1. <<>> \in Seq(Argument)
    OBVIOUS
  <2> QED
    BY <1>1, <2>1 DEF End, Set, BaseAsync, AsyncShape, TypeOK, Labels, Handle
<1>3. AsyncShape' /\ ClientsUnchanged
  BY <1>1, <1>2 DEF BaseAsync, AsyncShape, ClientsUnchanged, asyncVars, faultVars
<1>4. WorkInv(t)'
  BY <1>2 DEF WorkInv
<1> QED
  BY <1>1, <1>3, <1>4, ThreadStepKeepsBase

\* Nothing changes but the history, the faults and whether the server runs.
LEMMA StayKeepsBase ==
  ASSUME BaseAsync, AsyncShape', ClientsUnchanged, UNCHANGED <<pc, msg, stub>>
  PROVE  BaseAsync'
<1>1. (\A d \in Client : SameClient(d)) /\ \A t : SameThread(t)
  BY DEF SameClient, SameCaller, ClientsUnchanged, SameThread
<1>2. \A u \in Thread : WorkInv(u)'
  BY <1>1, WorkKept DEF BaseAsync
<1>3. \A d \in Client : \A i \in Nat : \A u \in Thread :
        Reader(d, i, u) => pc'[u] # "idle" /\ SameKind(u)
  BY <1>1, ReadMessage
<1>4. \A d \in Client : ClientOK(d)'
  BY <1>1, <1>3, SameClientOK DEF ClientsUnchanged
<1>5. ReaderInv'
  BY <1>1, <1>3, OtherReaders DEF BaseAsync, ReaderInv
<1> QED
  BY <1>2, <1>4, <1>5 DEF BaseAsync, ClientOK

LEMMA CrashKeepsBase == BaseAsync /\ Crash => BaseAsync'
<1> SUFFICES ASSUME BaseAsync, Crash PROVE BaseAsync'
  OBVIOUS
<1>1. ClientsUnchanged /\ UNCHANGED <<pc, msg, stub>>
  BY DEF Crash, ClientsUnchanged, clientVars, asyncVars
<1>2. AsyncShape'
  <2>1. TypeOK'
    BY DEF BaseAsync, AsyncShape, TypeOK, Crash
  <2>2. faults' \in Nat
    BY DEF BaseAsync, AsyncShape, Crash, Fault
  <2> QED
    BY <2>1, <2>2 DEF BaseAsync, AsyncShape, Crash, clientVars, asyncVars
<1> QED
  BY <1>1, <1>2, StayKeepsBase

\* When the server starts again nobody waits for one of its threads.
LEMMA RestartKeepsBase == BaseAsync /\ Restart => BaseAsync'
<1> SUFFICES ASSUME BaseAsync, Restart PROVE BaseAsync'
  OBVIOUS
<1>1. \A d \in Client : \A i \in Nat : \A t \in Thread : ~Reader(d, i, t)
  BY DEF Restart, ReadBy, Reader
<1>2. ClientsUnchanged /\ \A t \in Thread : pc'[t] = "idle"
  BY DEF Restart, ClientsUnchanged, asyncVars
<1>3. AsyncShape'
  <2>1. TypeOK'
    <3>1. <<>> \in Seq(Argument)
      OBVIOUS
    <3> QED
      BY <3>1 DEF Restart, TypeOK, Labels, Handle
  <2>2. /\ stale' \in BOOLEAN /\ orphaned' = {}
        /\ UNCHANGED <<phase, proxy, request, serving, sent, result, got, requests, handlers, stopped,
                       closed, output, faults>>
    BY DEF Restart, asyncVars, BaseAsync, AsyncShape
  <2> QED
    BY <2>1, <2>2 DEF BaseAsync, AsyncShape
<1>4. \A u \in Thread : WorkInv(u)'
  BY <1>2 DEF WorkInv
<1>5. \A d \in Client : SameClient(d)
  BY <1>2 DEF SameClient, SameCaller, ClientsUnchanged
<1>6. \A d \in Client : ClientOK(d)'
  BY <1>1, <1>2, <1>5, SameClientOK DEF ClientsUnchanged
<1>7. ReaderInv'
  BY <1>1, <1>5, OtherReaders DEF ReaderInv
<1> QED
  BY <1>3, <1>4, <1>6, <1>7 DEF BaseAsync, ClientOK

LEMMA BaseAsyncInit == AsyncInit => BaseAsync
<1> SUFFICES ASSUME AsyncInit PROVE BaseAsync
  OBVIOUS
<1>1. AsyncShape
  <2>1. TypeOK
    <3>1. <<>> \in Seq(Argument)
      OBVIOUS
    <3> QED
      BY <3>1 DEF AsyncInit, ClientInit, Init, TypeOK, Labels, Handle
  <2>2. /\ sent \in [Client \ Calculators -> Value] /\ requests \in [Client -> Nat]
        /\ faults \in Nat /\ stale \in BOOLEAN /\ orphaned \subseteq Address
    BY ClientAssumption, BoundsAssumption DEF AsyncInit, ClientInit
  <2>3. /\ phase \in [Client -> {"out", "creating", "ready", "calling", "deleting", "finished", "killed"}]
        /\ proxy \in [Client -> Handle] /\ serving \in [Client -> Thread \cup {NoThread}]
        /\ stopped \in [Client -> Nat] /\ closed \in [Client -> BOOLEAN]
        /\ output \in [Client -> Argument]
    BY ConstantFacts DEF AsyncInit, ClientInit, Handle
  <2>4. request \in [Client -> Seq(Argument)] /\ handlers \in [Client -> Seq(HandlerRecord)]
    <3>1. <<>> \in Seq(Argument) /\ <<>> \in Seq(HandlerRecord)
      OBVIOUS
    <3> HIDE DEF HandlerRecord
    <3> QED
      BY <3>1 DEF AsyncInit, ClientInit
  <2>5. result \in [Client -> ServerErrorCode \cup TransportError] /\ got \in [Client -> Argument]
    BY ConstantFacts DEF AsyncInit, ClientInit
  <2> QED
    BY <2>1, <2>2, <2>3, <2>4, <2>5 DEF AsyncShape
<1>2. /\ \A t \in Thread : pc[t] = "idle"
      /\ \A c \in Client : /\ phase[c] = "out" /\ request[c] = <<>> /\ serving[c] = NoThread
                           /\ handlers[c] = <<>> /\ stopped[c] = 0 /\ Handlers(c) = {}
  BY DEF AsyncInit, ClientInit, Init, Handlers
<1>3. ReaderInv
  BY <1>2, DistinctAssumption DEF ReaderInv, Reader
<1>4. \A t \in Thread : WorkInv(t)
  BY <1>2 DEF WorkInv
<1>5. \A c \in Client : CallerInv(c) /\ StoppedInv(c)
  BY <1>2 DEF CallerInv, StoppedInv, Waiting
<1> QED
  BY <1>1, <1>2, <1>3, <1>4, <1>5 DEF BaseAsync

LEMMA BaseAsyncStep == BaseAsync /\ [AsyncNext]_asyncAllVars => BaseAsync'
<1> SUFFICES ASSUME BaseAsync, [AsyncNext]_asyncAllVars PROVE BaseAsync'
  OBVIOUS
<1>1. CASE UNCHANGED asyncAllVars
  <2>1. AsyncShape' /\ ClientsUnchanged /\ UNCHANGED <<pc, msg, stub>>
    BY <1>1 DEF BaseAsync, AsyncShape, TypeOK, ClientsUnchanged, asyncAllVars, allVars, vars,
                clientVars, asyncVars, faultVars
  <2> QED
    BY <2>1, StayKeepsBase
<1>2. ASSUME NEW c \in Client, Invokes(c)
      PROVE  BaseAsync'
  BY <1>2, CreateStubKeepsBase, AsyncCallsKeepBase, LeaveScopeKeepsBase, CallKeepsBase,
     DestroyKeepsBase DEF Invokes
<1>3. ASSUME NEW c \in Client, Destructor(c) \/ Kill(c)
      PROVE  BaseAsync'
  BY <1>3, ClosePipeKeepsBase, WaitKeepsBase, KillKeepsBase DEF Destructor
<1>4. ASSUME NEW c \in Client, Synchronously(Transfer(c)) \/ Synchronously(Finishes(c))
      PROVE  BaseAsync'
  <2>1. \/ Synchronously(Deliver(c)) \/ Synchronously(NotServed(c))
        \/ Synchronously(Answered(c)) \/ Synchronously(Disconnected(c))
    BY <1>4 DEF Synchronously, Transfer, Finishes
  <2> QED
    BY <2>1, DeliverKeepsBase, AnsweredKeepsBase, DisconnectedKeepsBase
<1>5. ASSUME NEW c \in Client, NEW i \in Handlers(c), HandlerThread(c, i)
      PROVE  BaseAsync'
  BY <1>5, AsyncDeliverKeepsBase, AsyncFailsKeepsBase, AsyncAnsweredKeepsBase, CallbackKeepsBase
     DEF HandlerThread
<1>6. ASSUME NEW t \in Thread, ServerThread(t)
      PROVE  BaseAsync'
  BY <1>6, ServeKeepsBase, DiscardKeepsBase DEF ServerThread
<1> QED
  BY <1>1, <1>2, <1>3, <1>4, <1>5, <1>6, CrashKeepsBase, RestartKeepsBase DEF AsyncNext
------------------------------------------------------------------------------
\* Who has what after a step.  A thread that does not step, for a client that
\* waits for the same thread as before.
LEMMA SameThreadHas ==
  ASSUME NEW t, NEW a, SameThread(t)
  PROVE  /\ Yields(t, a)' <=> Yields(t, a)
         /\ Frees(t, a)' <=> Frees(t, a)
         /\ Pending(t)' <=> Pending(t)
         /\ (\A c \in Client : serving'[c] = t => serving[c] = t) /\ ThreadHas(t, a) => ThreadHas(t, a)'
         /\ (\A c \in Client : serving[c] = t => serving'[c] = t) /\ ThreadHas(t, a)' => ThreadHas(t, a)
         /\ ThreadHas(t, a) /\ ThreadContent(t, a) /\ heap'[a] = heap[a]
              /\ (a \in allObjects => a \in allObjects') => ThreadContent(t, a)'
<1>1. /\ Yields(t, a)' <=> Yields(t, a)
      /\ Frees(t, a)' <=> Frees(t, a)
      /\ Pending(t)' <=> Pending(t)
  BY DEF SameThread, Yields, Frees, Pending
<1>2. /\ (\A c \in Client : serving'[c] = t => serving[c] = t) /\ ThreadHas(t, a) => ThreadHas(t, a)'
      /\ (\A c \in Client : serving[c] = t => serving'[c] = t) /\ ThreadHas(t, a)' => ThreadHas(t, a)
  BY <1>1 DEF ThreadHas
<1>3. ThreadHas(t, a) /\ ThreadContent(t, a) /\ heap'[a] = heap[a]
        /\ (a \in allObjects => a \in allObjects') => ThreadContent(t, a)'
  BY <1>1 DEF ThreadContent, SameThread
<1> QED
  BY <1>1, <1>2, <1>3

\* A client that does not step, and that waits for a thread that does not step.
LEMMA SameClientHas ==
  ASSUME NEW d, SameClient(d), NEW i, NEW a,
         serving[d] # NoThread => SameThread(serving[d])
  PROVE  Has(d, i, a)' <=> Has(d, i, a)
<1>1. Holds(d)' <=> Holds(d)
  BY DEF Holds, SameClient, SameCaller, SameThread
<1> QED
  BY <1>1 DEF Has, SameClient, SameCaller, Handlers

LEMMA ValueReadKept ==
  ASSUME BaseAsync, NEW c \in Client, NEW i \in Handlers(c), handlers'[c][i] = handlers[c][i],
         UNCHANGED sent, ValueRead(c, i),
         \A m : Points(c, m) => (Points(c, m))',
         handlers[c][i].at = "read" => SameThread(handlers[c][i].thread)
  PROVE  ValueRead(c, i)'
BY DEF ValueRead, SendsValue, SameThread

\* No object is forgotten if those that lose one hand it over.
LEMMA AccountKept ==
  ASSUME AccountInv, orphaned \subseteq orphaned', allObjects \subseteq allObjects',
         \A a \in Address : heap'[a] # Free /\ heap[a] = Free => Accounted(a)' /\ Collected(a)',
         \A a \in Address : heap'[a] # Free =>
           /\ \A t \in Thread : Yields(t, a) \/ Frees(t, a) => Accounted(a)'
           /\ \A c \in Client : \A i \in Nat : Has(c, i, a) => Accounted(a)'
           /\ \A t \in Thread : Pending(t) /\ stub[t] = a => Collected(a)'
  PROVE  AccountInv'
BY DEF AccountInv, Accounted, Collected

\* A step of the client c alone.  What it loses is nobody's, or a thread frees
\* it; one of its handlers may have what another had.
LEMMA ClientStepKeepsOwners ==
  ASSUME BaseAsync, AccountInv, OwnInv, NEW c \in Client, UNCHANGED <<vars, sent, stale>>,
         \A d \in Client \ {c} : SameClient(d),
         serving'[c] \in {serving[c], NoThread}, orphaned \subseteq orphaned',
         \A a \in Address : \A i \in Nat :
           /\ Has(c, i, a) =>
                \/ a \in orphaned' \/ \E t \in Thread : Frees(t, a)
                \/ \E j \in Nat : Has(c, j, a)'
           /\ Has(c, i, a)' => \E j \in Nat : Has(c, j, a)
           /\ serving'[c] # serving[c] /\ phase[c] = "deleting" /\ Has(c, i, a)' =>
                i # 0 /\ Has(c, i, a)
           /\ ~stale => \A j \in Nat :
                Has(c, i, a)' /\ Has(c, j, a)' => i = j \/ (Has(c, i, a) /\ Has(c, j, a)),
         ~stale => \A i \in Handlers(c)' :
           (i \in Handlers(c) /\ handlers'[c][i] = handlers[c][i]) \/ ValueRead(c, i)'
  PROVE  AccountInv' /\ OwnInv'
<1>1. (\A t : SameThread(t)) /\ UNCHANGED <<heap, allObjects>>
  BY DEF vars, SameThread
<1>2. \A d \in Client \ {c} : \A i, a : Has(d, i, a)' <=> Has(d, i, a)
  BY <1>1, SameClientHas
<1>3. \A t : \A a : (Yields(t, a)' <=> Yields(t, a)) /\ (Frees(t, a)' <=> Frees(t, a))
                    /\ (Pending(t)' <=> Pending(t))
  BY <1>1, SameThreadHas
<1>4. \A d \in Client \ {c} : serving'[d] = serving[d]
  BY DEF SameClient, SameCaller
<1>5. AccountInv'
  <2>1. ASSUME NEW a \in Address
        PROVE  /\ \A t \in Thread : Yields(t, a) \/ Frees(t, a) => Accounted(a)'
               /\ \A d \in Client : \A i \in Nat : Has(d, i, a) => Accounted(a)'
               /\ \A t \in Thread : Pending(t) /\ stub[t] = a => Collected(a)'
    <3>1. \A t \in Thread : Yields(t, a) \/ Frees(t, a) => Accounted(a)'
      BY <1>3 DEF Accounted
    <3>2. ASSUME NEW i \in Nat, Has(c, i, a)
          PROVE  Accounted(a)'
      BY <3>1, <3>2 DEF Accounted
    <3>3. ASSUME NEW d \in Client \ {c}, NEW i \in Nat, Has(d, i, a)
          PROVE  Accounted(a)'
      BY <1>2, <3>3 DEF Accounted
    <3>4. \A t \in Thread : Pending(t) /\ stub[t] = a => Collected(a)'
      BY <1>1, <1>3 DEF Collected, SameThread
    <3> QED
      BY <3>1, <3>2, <3>3, <3>4
  <2> QED
    BY <1>1, <2>1, AccountKept
<1>6. SUFFICES ASSUME ~stale PROVE OwnOK'
  BY <1>5 DEF OwnInv
<1>7. OwnOK
  BY <1>6 DEF OwnInv
\* A thread that c no longer waits for has what c was deleting.
<1>8. ASSUME NEW t \in Thread, NEW a \in Address, ThreadHas(t, a)', ~ThreadHas(t, a)
      PROVE  /\ serving[c] = t /\ Has(c, 0, a) /\ c \in Calculators /\ ~Yields(t, a)
             /\ \A i \in Nat : ~Has(c, i, a)'
  <2>1. Frees(t, a) /\ ~Yields(t, a)
    BY <1>3, <1>8 DEF ThreadHas
  <2>2. serving[c] = t /\ serving'[c] # t
    BY <1>4, <1>8, <2>1, <1>3 DEF ThreadHas
  <2>3. Waiting(c) /\ c \in Calculators /\ Fits(c, msg[t]) /\ IsDelete(msg[t]) /\ ObjectToDelete(msg[t]) = a
    BY <2>1, <2>2, ShapeFacts DEF BaseAsync, CallerInv, Frees
  <2>4. phase[c] = "deleting" /\ proxy[c] = a
    <3>1. DeletionWork(t)
      BY <2>1, <2>3, WorkFacts DEF BaseAsync, WorkInv, Frees
    <3> QED
      BY <2>3, <3>1, WorkFacts DEF Waiting, Fits, Creation, CallOf, CallsObject, Deletion
  <2>5. Has(c, 0, a)
    BY <2>1, <2>2, <2>4 DEF Has, Holds, Frees
  <2>6. ASSUME NEW i \in Nat PROVE ~Has(c, i, a)'
    <3>1. Has(c, i, a)' => i # 0 /\ Has(c, i, a)
      BY <2>2, <2>4
    <3> QED
      BY <1>7, <2>5, <3>1 DEF OwnOK, Exclusive
  <2> QED
    BY <2>1, <2>2, <2>3, <2>5, <2>6
<1>9. ContentOK'
  <2>1. ASSUME NEW t \in Thread, NEW a \in Address
        PROVE  ThreadContent(t, a)'
    <3>1. CASE ThreadHas(t, a)
      BY <1>1, <1>7, <3>1, SameThreadHas DEF OwnOK, ContentOK
    <3>2. CASE ~ThreadHas(t, a) /\ ThreadHas(t, a)'
      <4>1. Has(c, 0, a) /\ c \in Calculators /\ ~Yields(t, a)'
        BY <1>3, <1>8, <3>2
      <4>2. heap'[a] = Calculator
        BY <1>1, <1>7, <4>1 DEF OwnOK, ContentOK, ClientContent, OwnContent
      <4> QED
        BY <4>1, <4>2 DEF ThreadContent
    <3>3. CASE ~ThreadHas(t, a)'
      BY <3>3 DEF ThreadContent, ThreadHas
    <3> QED
      BY <3>1, <3>2, <3>3
  <2>2. ASSUME NEW d \in Client, NEW i \in Nat, NEW a \in Address
        PROVE  ClientContent(d, i, a)'
    <3>1. Has(d, i, a)' => \E j \in Nat : Has(d, j, a)
      BY <1>2
    <3> QED
      BY <1>1, <1>7, <3>1 DEF OwnOK, ContentOK, ClientContent, OwnContent
  <2> QED
    BY <2>1, <2>2 DEF ContentOK
<1>10. Exclusive'
  <2> SUFFICES ASSUME NEW a \in Address
               PROVE  /\ \A t, u \in Thread : ThreadHas(t, a)' /\ ThreadHas(u, a)' => t = u
                      /\ \A t \in Thread : \A d \in Client : \A i \in Nat : ThreadHas(t, a)' => ~Has(d, i, a)'
                      /\ \A d, e \in Client : \A i, j \in Nat :
                           Has(d, i, a)' /\ Has(e, j, a)' => d = e /\ i = j
    BY DEF Exclusive
  <2>1. \A d \in Client : \A i \in Nat : Has(d, i, a)' => \E j \in Nat : Has(d, j, a)
    BY <1>2
  <2>2. /\ \A t, u \in Thread : ThreadHas(t, a) /\ ThreadHas(u, a) => t = u
        /\ \A t \in Thread : \A d \in Client : \A i \in Nat : ThreadHas(t, a) => ~Has(d, i, a)
        /\ \A d, e \in Client : \A i, j \in Nat : Has(d, i, a) /\ Has(e, j, a) => d = e /\ i = j
    BY <1>7 DEF OwnOK, Exclusive
  <2>3. \A t, u \in Thread : ThreadHas(t, a)' /\ ThreadHas(u, a)' => t = u
    <3>1. ASSUME NEW t \in Thread, NEW u \in Thread, ThreadHas(t, a)', ThreadHas(u, a)', ~ThreadHas(t, a)
          PROVE  t = u
      <4>1. serving[c] = t /\ Has(c, 0, a)
        BY <1>8, <3>1
      <4>2. ~ThreadHas(u, a)
        BY <2>2, <4>1
      <4> QED
        BY <1>8, <3>1, <4>1, <4>2
    <3> QED
      BY <2>2, <3>1
  <2>4. ASSUME NEW t \in Thread, NEW d \in Client, NEW i \in Nat, ThreadHas(t, a)', Has(d, i, a)'
        PROVE  FALSE
    <3>1. PICK j \in Nat : Has(d, j, a)
      BY <2>1, <2>4
    <3>2. ~ThreadHas(t, a)
      BY <2>2, <3>1
    <3>3. Has(c, 0, a) /\ ~Has(c, i, a)'
      BY <1>8, <2>4, <3>2
    <3> QED
      BY <2>2, <2>4, <3>1, <3>3
  <2>5. ASSUME NEW d \in Client, NEW e \in Client, NEW i \in Nat, NEW j \in Nat,
               Has(d, i, a)', Has(e, j, a)'
        PROVE  d = e /\ i = j
    <3>1. d = e
      BY <2>1, <2>2, <2>5
    <3> QED
      BY <1>2, <1>6, <2>2, <2>5, <3>1
  <2> QED
    BY <2>3, <2>4, <2>5
<1>11. ASSUME NEW d \in Client, NEW i \in Handlers(d)'
       PROVE  ValueRead(d, i)'
  <2>1. CASE i \in Handlers(d) /\ handlers'[d][i] = handlers[d][i]
    <3>1. ValueRead(d, i) /\ \A m : Points(d, m) => (Points(d, m))'
      BY <1>1, <1>7, <2>1 DEF OwnOK, Points
    <3> QED
      BY <1>1, <2>1, <3>1, ValueReadKept
  <2>2. CASE ~(i \in Handlers(d) /\ handlers'[d][i] = handlers[d][i])
    <3>1. d = c
      BY <2>2 DEF SameClient, Handlers
    <3> QED
      BY <1>6, <2>2, <3>1
  <2> QED
    BY <2>1, <2>2
<1> QED
  BY <1>9, <1>10, <1>11 DEF OwnOK

LEMMA HasFacts ==
  ASSUME AsyncShape, NEW c \in Client, NEW a
  PROVE  /\ Has(c, 0, a) <=> Holds(c) /\ proxy[c] = a
         /\ \A i \in Nat \ {0} : Has(c, i, a) <=>
              i \in Handlers(c) /\ handlers[c][i].at = "callback" /\ a \in Brought(handlers[c][i].response)
BY ShapeFacts DEF Has

\* The same of the next state.
LEMMA NextHasFacts ==
  ASSUME AsyncShape', NEW c \in Client, NEW a
  PROVE  /\ Has(c, 0, a)' <=> Holds(c)' /\ proxy'[c] = a
         /\ \A i \in Nat \ {0} : Has(c, i, a)' <=>
              /\ i \in Handlers(c)' /\ handlers'[c][i].at = "callback"
              /\ a \in Brought(handlers'[c][i].response)
         /\ Handlers(c)' = 1 .. Len(handlers'[c]) /\ Len(handlers'[c]) \in Nat
<1>1. handlers'[c] \in Seq(HandlerRecord)
  BY DEF AsyncShape
<1>2. /\ Handlers(c)' = 1 .. Len(handlers'[c]) /\ 0 \notin Handlers(c)'
      /\ Len(handlers'[c]) \in Nat
  BY <1>1 DEF Handlers
<1> QED
  BY <1>2 DEF Has

\* A handler that does not step.
LEMMA SameHandlerHas ==
  ASSUME NEW c, NEW i \in Nat \ {0}, NEW a,
         i \in Handlers(c)' <=> i \in Handlers(c),
         i \in Handlers(c) => handlers'[c][i] = handlers[c][i]
  PROVE  Has(c, i, a)' <=> Has(c, i, a)
BY DEF Has

\* c goes on without its handlers having a part in it.
LEMMA CallerStepKeepsOwners ==
  ASSUME BaseAsync, BaseAsync', AccountInv, OwnInv, NEW c \in Client, UNCHANGED <<vars, sent, stale>>,
         \A d \in Client \ {c} : SameClient(d), handlers'[c] = handlers[c],
         serving'[c] \in {serving[c], NoThread}, orphaned \subseteq orphaned',
         \A a \in Address :
           /\ Has(c, 0, a) =>
                a \in orphaned' \/ (\E t \in Thread : Frees(t, a)) \/ Has(c, 0, a)'
           /\ Has(c, 0, a)' => Has(c, 0, a) /\ (serving'[c] = serving[c] \/ phase[c] # "deleting")
  PROVE  AccountInv' /\ OwnInv'
<1>1. ASSUME NEW i \in Nat \ {0}, NEW a PROVE Has(c, i, a)' <=> Has(c, i, a)
  <2>1. Handlers(c)' = Handlers(c)
    BY DEF Handlers
  <2> QED
    BY <2>1, SameHandlerHas
<1>2. \A i \in Handlers(c)' : i \in Handlers(c) /\ handlers'[c][i] = handlers[c][i]
  BY DEF Handlers
<1>3. 0 \in Nat
  OBVIOUS
<1>4. ASSUME NEW a \in Address, NEW i \in Nat
      PROVE  /\ Has(c, i, a) =>
                  \/ a \in orphaned' \/ \E t \in Thread : Frees(t, a)
                  \/ \E j \in Nat : Has(c, j, a)'
             /\ Has(c, i, a)' => Has(c, i, a)
             /\ serving'[c] # serving[c] /\ phase[c] = "deleting" /\ Has(c, i, a)' => i # 0
  BY <1>1, <1>3
<1> QED
  BY <1>2, <1>4, ClientStepKeepsOwners

\* A handler of c is added or goes on; it has nothing now, and what it had is
\* nobody's.
LEMMA HandlerStepKeepsOwners ==
  ASSUME BaseAsync, BaseAsync', AccountInv, OwnInv, NEW c \in Client,
         UNCHANGED <<vars, sent, stale>>,
         \A d \in Client \ {c} : SameClient(d), SameCaller(c), orphaned \subseteq orphaned',
         NEW i \in Nat \ {0},
         \A j \in Nat \ {i} : /\ j \in Handlers(c)' <=> j \in Handlers(c)
                              /\ j \in Handlers(c) => handlers'[c][j] = handlers[c][j],
         i \in Handlers(c)' => \A a : ~(handlers'[c][i].at = "callback" /\ a \in Brought(handlers'[c][i].response)),
         \A a \in Address : Has(c, i, a) => a \in orphaned',
         ~stale /\ i \in Handlers(c)' => ValueRead(c, i)'
  PROVE  AccountInv' /\ OwnInv'
<1>1. \A a : Has(c, 0, a)' <=> Has(c, 0, a)
  <2>1. Holds(c)' <=> Holds(c)
    BY DEF Holds, SameCaller, vars
  <2> QED
    BY <2>1, HasFacts, NextHasFacts DEF BaseAsync, SameCaller
<1>2. ASSUME NEW j \in Nat \ {0, i}, NEW a PROVE Has(c, j, a)' <=> Has(c, j, a)
  <2>1. j \in Nat \ {0} /\ j \in Nat \ {i}
    OBVIOUS
  <2> QED
    BY <2>1, SameHandlerHas
<1>3. \A a : ~Has(c, i, a)'
  BY HasFacts, NextHasFacts DEF BaseAsync
<1>4. ASSUME NEW a \in Address, NEW j \in Nat
      PROVE  /\ Has(c, j, a) => a \in orphaned' \/ Has(c, j, a)'
             /\ Has(c, j, a)' => Has(c, j, a)
  BY <1>1, <1>2, <1>3
<1>5. \A j \in Handlers(c)' : j = i \/ (j \in Handlers(c) /\ handlers'[c][j] = handlers[c][j])
  BY NextHasFacts DEF BaseAsync
<1>6. serving'[c] = serving[c]
  BY DEF SameCaller
<1> QED
  BY <1>4, <1>5, <1>6, ClientStepKeepsOwners
------------------------------------------------------------------------------
\* The actions of a client.  The handlers of the last stub are gone.
LEMMA CreateStubKeepsOwners ==
  ASSUME BaseAsync, BaseAsync', AccountInv, OwnInv, NEW c \in Client, CreateStub(c)
  PROVE  AccountInv' /\ OwnInv'
<1>1. /\ phase[c] = "out" /\ phase' = Set(phase, c, "creating")
      /\ handlers' = Set(handlers, c, <<>>) /\ stopped' = Set(stopped, c, 0)
      /\ request' = Set(request, c, request'[c]) /\ stopped[c] = Len(handlers[c])
      /\ UNCHANGED <<vars, proxy, serving, sent, stale, orphaned>>
  BY DEF CreateStub, Create, Start, Set, faultVars, BaseAsync, AsyncShape
<1>2. phase'[c] = "creating" /\ handlers'[c] = <<>> /\ Handlers(c)' = {} /\ serving'[c] = serving[c]
  BY <1>1 DEF Set, BaseAsync, AsyncShape, Handlers
<1>3. \A d \in Client \ {c} : SameClient(d)
  BY <1>1 DEF Set, BaseAsync, AsyncShape, SameClient, SameCaller
<1>4. \A i \in Handlers(c) : handlers[c][i].at \in Gone
  <2>1. StoppedInv(c) /\ Handlers(c) = 1 .. stopped[c]
    BY <1>1, ShapeFacts DEF BaseAsync
  <2> QED
    BY <2>1 DEF StoppedInv
<1>5. \A a : \A i \in Nat : ~Has(c, i, a) /\ ~Has(c, i, a)'
  BY <1>1, <1>2, <1>4 DEF Has, Holds, Gone
<1> QED
  BY <1>1, <1>2, <1>3, <1>5, ClientStepKeepsOwners

\* A call has the object of the client as its object, which stays.
LEMMA CallsKeepOwners ==
  ASSUME BaseAsync, BaseAsync', AccountInv, OwnInv, NEW c \in Client,
         Synchronously(c \in Calculators /\ Call(c)) \/ Synchronously(Destroy(c))
  PROVE  AccountInv' /\ OwnInv'
<1>1. PICK label, r :
        /\ label \in {"calling", "deleting"} /\ phase[c] = "ready" /\ Start(c, label, r)
        /\ UNCHANGED <<asyncVars, faultVars>>
  BY DEF Synchronously, Call, Destroy
<1>2. /\ phase' = Set(phase, c, label) /\ request' = Set(request, c, r)
      /\ UNCHANGED <<vars, proxy, serving, sent, stale, orphaned, handlers, stopped>>
  BY <1>1 DEF Start, asyncVars, faultVars
<1>3. serving[c] = NoThread
  BY <1>1, IdleCaller DEF Waiting
<1>4. \A d \in Client \ {c} : SameClient(d)
  BY <1>2 DEF Set, BaseAsync, AsyncShape, SameClient, SameCaller
<1>5. phase'[c] = label /\ proxy'[c] = proxy[c] /\ serving'[c] = serving[c]
  BY <1>2 DEF Set, BaseAsync, AsyncShape
<1>6. Holds(c) /\ Holds(c)'
  BY <1>1, <1>3, <1>5 DEF Holds
<1>7. \A a : Has(c, 0, a)' <=> Has(c, 0, a)
  BY <1>5, <1>6, HasFacts, NextHasFacts DEF BaseAsync
<1> QED
  BY <1>2, <1>4, <1>5, <1>7, CallerStepKeepsOwners

\* What is read is the object the client has.
LEMMA AsyncCallsKeepOwners ==
  ASSUME BaseAsync, BaseAsync', AccountInv, OwnInv, NEW c \in Client,
         LongOperationAsync(c) \/ SendPrimitivecDataAsync(c) \/ GetPrimitiveDataAsync(c)
  PROVE  AccountInv' /\ OwnInv'
<1>1. PICK r : /\ InvokeAsync(c, r) /\ phase[c] \in {"out", "ready"}
               /\ \/ /\ c \in Calculators /\ phase[c] = "ready"
                     /\ r = Request(proxy[c], LongOperationDispID, <<EmptyArgument, EmptyArgument>>)
                  \/ /\ c \notin Calculators /\ phase[c] = "out"
                     /\ r = Request(NullHandle, eCreateIntDispId, <<sent[c]>>)
                  \/ /\ c \notin Calculators /\ phase[c] = "ready"
                     /\ r = Request(proxy[c], eCreateIntDispId, <<>>)
  BY DEF LongOperationAsync, SendPrimitivecDataAsync, GetPrimitiveDataAsync
<1>2. /\ IsMessage(r)
      /\ phase[c] = "out" => IsGlobal(r)
      /\ phase[c] = "ready" => ~IsGlobal(r) /\ GetObjectId(r) = proxy[c]
      /\ phase[c] = "ready" /\ c \notin Calculators => Len(r) = 3
  BY <1>1, AsyncRequests
<1>3. PICK label, h :
        /\ label \in {"open", "noThread"}
        /\ h = NewHandler(label, r)
        /\ handlers' = [handlers EXCEPT ![c] = Append(@, h)]
        /\ UNCHANGED <<vars, stale, phase, proxy, request, serving, sent, orphaned, stopped>>
  BY <1>1 DEF InvokeAsync
<1>4. /\ h.at = label /\ h.request = r /\ h.thread = NoThread /\ h.error = ERROR_SUCCESS
      /\ h.response = <<>> /\ h \in HandlerRecord
  <2>1. r \in Seq(Argument) /\ <<>> \in Seq(Argument) /\ ERROR_SUCCESS \in Errors
    BY <1>2 DEF IsMessage, Errors
  <2>2. label \in HandlerLabels
    BY <1>3 DEF HandlerLabels, Gone
  <2> QED
    BY <1>3, <2>1, <2>2 DEF NewHandler, HandlerRecord
<1>5. PICK i : i = Len(handlers[c]) + 1
  OBVIOUS
<1>6. /\ Handlers(c)' = Handlers(c) \cup {i} /\ i \notin Handlers(c)
      /\ handlers'[c][i] = h
      /\ \A j \in Handlers(c) : handlers'[c][j] = handlers[c][j]
      /\ \A d \in Client \ {c} : handlers'[d] = handlers[d]
  BY <1>3, <1>4, <1>5, AppendHandlerFacts DEF BaseAsync
<1>7. i \in Nat \ {0}
  BY <1>5, ShapeFacts DEF BaseAsync
<1>8. (\A d \in Client \ {c} : SameClient(d)) /\ SameCaller(c)
  BY <1>3, <1>6 DEF SameClient, SameCaller
<1>9. \A a : ~Has(c, i, a)
  BY <1>6, <1>7, HasFacts DEF BaseAsync
<1>10. ~stale => ValueRead(c, i)'
  <2> SUFFICES ASSUME ~stale, c \notin Calculators, ~IsGlobal(r)
               PROVE  Points(c, r)'
    BY <1>3, <1>4, <1>6 DEF ValueRead, SendsValue
  <2>1. phase[c] = "ready" /\ GetObjectId(r) = proxy[c] /\ Len(r) = 3 /\ proxy[c] \in Address
    BY <1>1, <1>2 DEF BaseAsync, CallerInv
  <2>2. Has(c, 0, proxy[c]) /\ 0 \in Nat
    BY <2>1 DEF Has, Holds
  <2>3. proxy[c] \in allObjects /\ heap[proxy[c]] = sent[c]
    BY <2>1, <2>2 DEF OwnInv, OwnOK, ContentOK, ClientContent, OwnContent
  <2> QED
    BY <1>3, <2>1, <2>3 DEF Points, vars
<1> QED
  BY <1>3, <1>4, <1>6, <1>7, <1>8, <1>9, <1>10, HandlerStepKeepsOwners

\* Nothing but the history is left of the object of a client that has gone.
LEMMA LeaveScopeKeepsOwners ==
  ASSUME BaseAsync, BaseAsync', AccountInv, OwnInv, NEW c \in Client, LeaveScope(c)
  PROVE  AccountInv' /\ OwnInv'
<1>1. /\ phase' = [phase EXCEPT ![c] = "finished"] /\ proxy' = [proxy EXCEPT ![c] = NullHandle]
      /\ orphaned' = orphaned \cup ({proxy[c]} \ {NullHandle})
      /\ UNCHANGED <<vars, request, serving, sent, stale, handlers, stopped>>
      /\ phase[c] \in {"out", "ready"}
  BY DEF LeaveScope, Set, asyncVars, faultVars
<1>2. \A d \in Client \ {c} : SameClient(d)
  BY <1>1 DEF BaseAsync, AsyncShape, SameClient, SameCaller
<1>3. phase'[c] = "finished"
  BY <1>1 DEF BaseAsync, AsyncShape
<1>4. \A a \in Address : (Has(c, 0, a) => a \in orphaned') /\ ~Has(c, 0, a)'
  <2>1. ~Holds(c)'
    BY <1>3 DEF Holds
  <2> QED
    BY <1>1, <2>1, HasFacts, NextHasFacts, DistinctAssumption DEF BaseAsync
<1> QED
  BY <1>1, <1>2, <1>4, CallerStepKeepsOwners

\* ~RPCClient: a call whose read fails has no response.
LEMMA ClosePipeKeepsOwners ==
  ASSUME BaseAsync, BaseAsync', AccountInv, OwnInv, NEW c \in Client, ClosePipe(c)
  PROVE  AccountInv' /\ OwnInv'
<1>1. PICK i : i = stopped[c] + 1
  OBVIOUS
<1>2. /\ UNCHANGED <<allVars, faultVars, stopped, output>> /\ i \in Handlers(c)
  BY <1>1, ClosePipeFacts
<1>3. /\ UNCHANGED <<vars, sent, serving, phase, proxy, request, orphaned, stale>> /\ SameCaller(c)
  BY <1>2 DEF allVars, clientVars, faultVars, SameCaller
<1>4. CASE UNCHANGED handlers
  <2>1. \A d \in Client \ {c} : SameClient(d)
    BY <1>2, <1>3, <1>4 DEF SameClient, SameCaller
  <2>2. \A a : Has(c, 0, a)' <=> Has(c, 0, a)
    BY <1>3, <1>4, HasFacts, NextHasFacts DEF BaseAsync, Holds, vars
  <2> QED
    BY <1>3, <1>4, <2>1, <2>2, CallerStepKeepsOwners
<1>5. CASE ~UNCHANGED handlers
  <2>1. /\ handlers[c][i].at = "read" /\ Handlers(c)' = Handlers(c)
        /\ handlers'[c][i] \in HandlerRecord /\ SetHandler(c, i, handlers'[c][i])
        /\ handlers'[c][i].at = "callback"
        /\ handlers'[c][i].response = <<>> /\ handlers'[c][i].error = ERROR_RECEIVE_FAILED
        /\ \A j \in Handlers(c) \ {i} : handlers'[c][j] = handlers[c][j]
    BY <1>1, <1>5, ClosePipeFacts
  <2>2. PICK n \in HandlerRecord : SetHandler(c, i, n)
    BY <2>1
  <2>3. \A d \in Client \ {c} : SameClient(d)
    <3>1. \A d \in Client \ {c} : handlers'[d] = handlers[d]
      BY <1>2, <2>2, SetHandlerFacts DEF BaseAsync
    <3> QED
      BY <1>2, <1>3, <3>1 DEF SameClient, SameCaller
  <2>4. i \in Nat \ {0}
    BY <1>2, HandlerRecordFacts
  <2>5. \A a : ~Has(c, i, a) /\ a \notin Brought(handlers'[c][i].response)
    BY <2>1, <2>4 DEF Has, Brought
  <2>6. ValueRead(c, i)'
    BY <2>1 DEF ValueRead, ERROR_RECEIVE_FAILED, ERROR_SUCCESS
  <2> QED
    BY <1>3, <2>1, <2>3, <2>4, <2>5, <2>6, HandlerStepKeepsOwners
<1> QED
  BY <1>4, <1>5

\* A handler that is terminated in its callback takes the handle with it.
LEMMA WaitKeepsOwners ==
  ASSUME BaseAsync, BaseAsync', AccountInv, OwnInv, NEW c \in Client, WaitAndTerminateThread(c)
  PROVE  AccountInv' /\ OwnInv'
<1>1. PICK i : i = stopped[c] + 1
  OBVIOUS
<1>2. /\ UNCHANGED <<vars, stale, phase, proxy, request, serving, sent>> /\ i \in Handlers(c)
      /\ stopped' = [stopped EXCEPT ![c] = i]
  BY <1>1, WaitFacts DEF faultVars
<1>3. SameCaller(c) /\ \A d \in Client \ {c} : stopped'[d] = stopped[d]
  BY <1>2 DEF SameCaller, BaseAsync, AsyncShape
<1>4. CASE UNCHANGED <<handlers, orphaned>>
  <2>1. \A d \in Client \ {c} : SameClient(d)
    BY <1>2, <1>3, <1>4 DEF SameClient, SameCaller
  <2>2. \A a : Has(c, 0, a)' <=> Has(c, 0, a)
    BY <1>2, <1>4, HasFacts, NextHasFacts DEF BaseAsync, Holds, vars
  <2> QED
    BY <1>2, <1>4, <2>1, <2>2, CallerStepKeepsOwners
<1>5. CASE ~UNCHANGED <<handlers, orphaned>>
  <2>1. /\ orphaned' = orphaned \cup Brought(handlers[c][i].response)
        /\ handlers'[c][i] \in HandlerRecord /\ SetHandler(c, i, handlers'[c][i])
        /\ handlers'[c][i].at = "terminated" /\ Handlers(c)' = Handlers(c)
        /\ \A j \in Handlers(c) \ {i} : handlers'[c][j] = handlers[c][j]
    BY <1>1, <1>5, WaitFacts
  <2>2. PICK n \in HandlerRecord : SetHandler(c, i, n)
    BY <2>1
  <2>3. \A d \in Client \ {c} : SameClient(d)
    <3>1. \A d \in Client \ {c} : handlers'[d] = handlers[d]
      BY <1>2, <2>2, SetHandlerFacts DEF BaseAsync
    <3> QED
      BY <1>2, <1>3, <3>1 DEF SameClient, SameCaller
  <2>4. i \in Nat \ {0}
    BY <1>2, HandlerRecordFacts
  <2>5. \A a : Has(c, i, a) => a \in orphaned'
    BY <2>1, <2>4 DEF Has
  <2>6. ValueRead(c, i)'
    BY <2>1 DEF ValueRead
  <2> QED
    BY <1>2, <1>3, <2>1, <2>3, <2>4, <2>5, <2>6, HandlerStepKeepsOwners
<1> QED
  BY <1>4, <1>5

\* What a killed client had is nobody's, unless the server is deleting it.
LEMMA KillKeepsOwners ==
  ASSUME BaseAsync, BaseAsync', AccountInv, OwnInv, NEW c \in Client, Kill(c)
  PROVE  AccountInv' /\ OwnInv'
<1>1. /\ phase'[c] = "killed" /\ serving'[c] = NoThread
      /\ Handlers(c)' = Handlers(c)
      /\ \A i \in Handlers(c) : handlers'[c][i].at = "terminated"
      /\ UNCHANGED <<vars, stale, sent, stopped>>
      /\ \A d \in Client \ {c} : SameClient(d)
  BY KillFacts
<1>2. /\ orphaned \subseteq orphaned'
      /\ \A a \in {proxy[c]} \ {NullHandle} : Deleting(a) \/ a \in orphaned'
      /\ \A i \in Handlers(c) : \A a :
           handlers[c][i].at = "callback" /\ a \in Brought(handlers[c][i].response) => a \in orphaned'
  <2> DEFINE callbacks == {j \in Handlers(c) : handlers[c][j].at = "callback"}
             left == {a \in {proxy[c]} \ {NullHandle} : ~Deleting(a)}
             brought == UNION {Brought(handlers[c][i].response) : i \in callbacks}
  <2>1. orphaned' = orphaned \cup left \cup brought
    BY Zenon DEF Kill
  <2>2. \A i \in callbacks : \A a \in Brought(handlers[c][i].response) : a \in brought
    OBVIOUS
  <2> HIDE DEF brought
  <2> QED
    BY <2>1, <2>2
<1>3. \A a : \A i \in Nat : ~Has(c, i, a)'
  BY <1>1 DEF Has, Holds
<1>4. ASSUME NEW a \in Address, NEW i \in Nat, Has(c, i, a)
      PROVE  a \in orphaned' \/ \E t \in Thread : Frees(t, a)
  <2>1. CASE i = 0
    <3>1. proxy[c] = a /\ a # NullHandle
      BY <1>4, <2>1, HasFacts, DistinctAssumption DEF BaseAsync
    <3>2. Deleting(a) => \E t \in Thread : Frees(t, a)
      BY DEF Deleting, Frees
    <3> QED
      BY <1>2, <3>1, <3>2
  <2>2. CASE i # 0
    BY <1>2, <1>4, <2>2 DEF Has
  <2> QED
    BY <2>1, <2>2
<1>5. \A i \in Handlers(c)' : ValueRead(c, i)'
  BY <1>1 DEF ValueRead
<1>6. orphaned \subseteq orphaned'
  BY <1>2
<1> QED
  BY <1>1, <1>3, <1>4, <1>5, <1>6, ClientStepKeepsOwners

\* A deletion without an answer leaves the object to nobody.
LEMMA FailsKeepOwners ==
  ASSUME BaseAsync, BaseAsync', AccountInv, OwnInv, NEW c \in Client,
         Synchronously(Disconnected(c)) \/ Synchronously(NotServed(c))
  PROVE  AccountInv' /\ OwnInv'
<1>1. PICK e \in TransportError :
        Return(c, e, <<>>) /\ UNCHANGED <<vars, asyncVars, faultVars>>
  BY DEF Synchronously, Disconnected, NotServed, TransportError
<1>2. e # ERROR_SUCCESS
  BY DEF ERROR_SUCCESS, TransportError, ERROR_SERVER_NO_RESPONSE, ERROR_RECEIVE_FAILED
<1>3. /\ FinishCreate(c, e, <<>>) \/ FinishCall(c, e, <<>>) \/ FinishDestroy(c, e)
      /\ request' = Set(request, c, <<>>) /\ serving' = Set(serving, c, NoThread)
      /\ UNCHANGED <<vars, sent, handlers, stopped, stale>>
  BY <1>1 DEF Return, asyncVars, faultVars
<1>4. serving'[c] = NoThread /\ \A d \in Client \ {c} : serving'[d] = serving[d] /\ request'[d] = request[d]
  BY <1>3 DEF Set, BaseAsync, AsyncShape
<1>5. \/ /\ phase[c] = "creating" /\ phase' = Set(phase, c, "out") /\ UNCHANGED <<proxy, orphaned>>
      \/ /\ phase[c] = "calling" /\ phase' = Set(phase, c, "ready") /\ UNCHANGED <<proxy, orphaned>>
      \/ /\ phase[c] = "deleting" /\ phase' = Set(phase, c, "out")
         /\ proxy' = Set(proxy, c, NullHandle) /\ orphaned' = orphaned \cup {proxy[c]}
  BY <1>2, <1>3 DEF FinishCreate, FinishCall, FinishDestroy
<1>6. \A d \in Client \ {c} : SameClient(d)
  BY <1>3, <1>4, <1>5 DEF SameClient, SameCaller, Set, BaseAsync, AsyncShape
<1>7. \/ phase[c] = "creating" /\ phase'[c] = "out"
      \/ phase[c] = "calling" /\ phase'[c] = "ready" /\ proxy'[c] = proxy[c]
      \/ phase[c] = "deleting" /\ phase'[c] = "out" /\ proxy[c] \in orphaned'
  BY <1>5 DEF Set, BaseAsync, AsyncShape
<1>8. ASSUME NEW a \in Address
      PROVE  /\ Has(c, 0, a) => a \in orphaned' \/ Has(c, 0, a)'
             /\ Has(c, 0, a)' => Has(c, 0, a) /\ phase[c] # "deleting"
  BY <1>7, HasFacts, NextHasFacts DEF BaseAsync, Holds
<1>9. orphaned \subseteq orphaned'
  BY <1>5
<1> QED
  BY <1>3, <1>4, <1>6, <1>8, <1>9, CallerStepKeepsOwners

\* A handler whose call fails has nothing to bring.
LEMMA AsyncFailsKeepsOwners ==
  ASSUME BaseAsync, BaseAsync', AccountInv, OwnInv, NEW c \in Client, NEW i \in Handlers(c),
         AsyncNotServed(c, i) \/ AsyncDisconnected(c, i)
  PROVE  AccountInv' /\ OwnInv'
<1>1. PICK e \in Errors : /\ e # ERROR_SUCCESS /\ AsyncReturns(c, i, e, <<>>) /\ UNCHANGED vars
                          /\ handlers[c][i].at \in {"open", "read"}
  BY DEF AsyncNotServed, AsyncDisconnected, Errors, ERROR_SUCCESS, TransportError, ERROR_SERVER_NO_RESPONSE,
         ERROR_RECEIVE_FAILED
<1>2. ResponseOK(c, i, e, <<>>)
  BY <1>1 DEF ResponseOK
<1>3. TypeOK' /\ \A t : SameThread(t)
  BY <1>1 DEF BaseAsync, AsyncShape, TypeOK, vars, SameThread
<1>4. /\ UNCHANGED sent /\ \A d \in Client \ {c} : SameClient(d)
      /\ i \in Handlers(c)' /\ Handlers(c)' = Handlers(c)
      /\ handlers'[c][i].at = "callback" /\ handlers'[c][i].response = <<>>
      /\ handlers'[c][i].error = e
      /\ \A j \in Handlers(c) \ {i} : handlers'[c][j] = handlers[c][j]
  BY <1>1, <1>2, <1>3, AsyncReturnsFacts
<1>5. i \in Nat \ {0}
  BY HandlerRecordFacts
<1>6. SameCaller(c) /\ UNCHANGED <<orphaned, stale>>
  BY <1>1 DEF AsyncReturns, UnchangedByHandler, clientVars, faultVars, SameCaller
<1>7. \A a : ~Has(c, i, a) /\ a \notin Brought(handlers'[c][i].response)
  BY <1>1, <1>4, <1>5 DEF Has, Brought
<1>8. ValueRead(c, i)'
  BY <1>1, <1>4 DEF ValueRead
<1> QED
  BY <1>1, <1>4, <1>5, <1>6, <1>7, <1>8, HandlerStepKeepsOwners

\* The callback of a creation: the client has now what its handler had, unless
\* the client is leaving.
LEMMA CallbackKeepsOwners ==
  ASSUME BaseAsync, BaseAsync', AccountInv, OwnInv, NEW c \in Client, NEW i \in Handlers(c),
         Callback(c, i)
  PROVE  AccountInv' /\ OwnInv'
<1> DEFINE o == handlers[c][i]
           x == LastFunctionParameter(o.response)
<1>1. /\ o.at = "callback"
      /\ UNCHANGED <<vars, faultVars, request, serving, sent, result, got, requests, stopped, closed>>
      /\ Handlers(c)' = Handlers(c)
      /\ handlers'[c][i] \in HandlerRecord /\ SetHandler(c, i, handlers'[c][i])
      /\ handlers'[c][i].at = "ended"
      /\ handlers'[c][i].response = o.response /\ handlers'[c][i].error = o.error
      /\ handlers'[c][i].request = o.request
      /\ \A j \in Handlers(c) \ {i} : handlers'[c][j] = handlers[c][j]
  BY CallbackFacts
<1>2. \/ ~SendsValue(c, i) /\ UNCHANGED <<proxy, phase, orphaned>>
      \/ /\ SendsValue(c, i) /\ phase[c] = "out" /\ x \in Address
         /\ Brought(o.response) = {x}
         /\ proxy' = Set(proxy, c, x) /\ phase' = Set(phase, c, "ready")
         /\ UNCHANGED orphaned
      \/ /\ SendsValue(c, i) /\ orphaned' = orphaned \cup Brought(o.response)
         /\ UNCHANGED <<proxy, phase>>
  BY CallbackFacts
<1> HIDE DEF x
<1>3. i \in Nat \ {0} /\ (~SendsValue(c, i) => Brought(o.response) = {})
  BY HandlerRecordFacts, BroughtFacts
<1>4. UNCHANGED <<vars, sent, stale, serving, stopped, request>>
  BY <1>1 DEF faultVars
<1>5. \A d \in Client \ {c} : SameClient(d)
  <2>1. PICK n \in HandlerRecord : SetHandler(c, i, n)
    BY <1>1
  <2>2. \A d \in Client \ {c} : handlers'[d] = handlers[d]
    BY <2>1, SetHandlerFacts DEF BaseAsync
  <2> QED
    BY <1>2, <1>4, <2>2 DEF SameClient, SameCaller, Set, BaseAsync, AsyncShape
<1>6. ~stale => ValueRead(c, i)'
  BY <1>1, <1>4 DEF OwnInv, OwnOK, ValueRead, SendsValue
<1>7. CASE UNCHANGED <<proxy, phase>>
  <2>1. SameCaller(c) /\ orphaned \subseteq orphaned'
    BY <1>2, <1>4, <1>7 DEF SameCaller
  <2>2. ASSUME NEW a \in Address, Has(c, i, a) PROVE a \in orphaned'
    <3>1. a \in Brought(o.response)
      BY <1>3, <2>2, HasFacts DEF BaseAsync
    <3>2. \/ orphaned' = orphaned \cup Brought(o.response) \/ Brought(o.response) = {}
          \/ phase[c] = "out" /\ phase' = Set(phase, c, "ready")
      BY <1>2, <1>3
    <3> QED
      BY <1>7, <3>1, <3>2 DEF Set, BaseAsync, AsyncShape
  <2> QED
    BY <1>1, <1>3, <1>4, <1>5, <1>6, <2>1, <2>2, HandlerStepKeepsOwners
<1>8. CASE ~UNCHANGED <<proxy, phase>>
  <2>1. /\ phase[c] = "out" /\ x \in Address /\ Brought(o.response) = {x} /\ UNCHANGED orphaned
        /\ proxy' = Set(proxy, c, x) /\ phase' = Set(phase, c, "ready")
    BY <1>2, <1>8
  <2>2. phase'[c] = "ready" /\ proxy'[c] = x
    BY <2>1 DEF Set, BaseAsync, AsyncShape
  <2>3. \A a : ~Has(c, 0, a) /\ (Has(c, 0, a)' <=> a = x)
    BY <2>1, <2>2, HasFacts, NextHasFacts DEF BaseAsync, Holds
  <2>4. \A a : ~Has(c, i, a)' /\ (Has(c, i, a) <=> a = x)
    BY <1>1, <1>3, <2>1 DEF Has
  <2>5. ASSUME NEW j \in Nat \ {0, i}, NEW a PROVE Has(c, j, a)' <=> Has(c, j, a)
    <3>1. j \in Nat \ {0} /\ j # i
      OBVIOUS
    <3> QED
      BY <1>1, <3>1, SameHandlerHas
  <2>6. ASSUME NEW a \in Address, NEW j \in Nat
        PROVE  /\ Has(c, j, a) => \E k \in Nat : Has(c, k, a)'
               /\ Has(c, j, a)' => \E k \in Nat : Has(c, k, a)
    <3>1. 0 \in Nat /\ i \in Nat
      BY <1>3
    <3> QED
      BY <2>3, <2>4, <2>5, <3>1
\* What another handler of c has is not the new object.
  <2>7. ASSUME ~stale, NEW a \in Address, NEW j \in Nat, NEW k \in Nat, Has(c, j, a)', Has(c, k, a)'
        PROVE  j = k \/ (Has(c, j, a) /\ Has(c, k, a))
    <3>1. \A m \in Nat : Has(c, m, x) => m = i
      <4>1. Has(c, i, x) /\ i \in Nat
        BY <1>3, <2>4
      <4> QED
        BY <2>1, <2>7, <4>1 DEF OwnInv, OwnOK, Exclusive
    <3>2. \A m \in Nat : Has(c, m, a)' => m = 0 \/ (m # i /\ Has(c, m, a))
      BY <2>4, <2>5
    <3>3. Has(c, 0, a)' => a = x
      BY <2>3
    <3> QED
      BY <2>7, <3>1, <3>2, <3>3
  <2>8. \A j \in Handlers(c)' :
          (j \in Handlers(c) /\ handlers'[c][j] = handlers[c][j]) \/ j = i
    BY <1>1
  <2>9. serving'[c] = serving[c] /\ orphaned \subseteq orphaned'
    BY <1>4, <2>1
  <2> QED
    BY <1>4, <1>5, <1>6, <2>6, <2>7, <2>8, <2>9, ClientStepKeepsOwners
<1> QED
  BY <1>7, <1>8
------------------------------------------------------------------------------
\* The client c or its handler k hands a request to the thread t, or has its
\* answer: what the client gets is what the thread had.
LEMMA ExchangeKeepsOwners ==
  ASSUME BaseAsync, AccountInv, OwnInv, NEW c \in Client, NEW k \in Nat, NEW t \in Thread,
         UNCHANGED <<heap, allObjects, sent, stale>>,
         \A u \in Thread \ {t} : SameThread(u),
         \A u \in Thread \ {t} : serving'[c] = u <=> serving[c] = u,
         \A d \in Client \ {c} : SameClient(d),
         \A d \in Client \ {c} : \A j \in Nat : ~Reader(d, j, t),
         ~Pending(t), orphaned \subseteq orphaned',
         \A a \in Address :
           /\ Yields(t, a) \/ Frees(t, a) => \E j \in Nat : Has(c, j, a)'
           /\ \A i \in Nat : Has(c, i, a) => \E j \in Nat : Has(c, j, a)',
         ~stale => \A a \in Address :
           /\ ~ThreadHas(t, a)'
           /\ \A i \in Nat : Has(c, i, a)' =>
                Has(c, i, a) \/ (i = k /\ ThreadHas(t, a) /\ ClientContent(c, i, a)'),
         ~stale => \A i \in Handlers(c)' :
           \/ /\ i \in Handlers(c) /\ handlers'[c][i] = handlers[c][i]
              /\ ~(handlers[c][i].at = "read" /\ handlers[c][i].thread = t)
           \/ ValueRead(c, i)'
  PROVE  AccountInv' /\ OwnInv'
<1>1. \A d \in Client \ {c} : \A i, a : Has(d, i, a)' <=> Has(d, i, a)
  <2>1. ASSUME NEW d \in Client \ {c}, serving[d] # NoThread
        PROVE  SameThread(serving[d])
    <3>1. serving[d] \in Thread /\ Reader(d, 0, serving[d])
      BY <2>1, ShapeFacts DEF Reader, BaseAsync
    <3>2. serving[d] # t
      BY <3>1
    <3> QED
      BY <3>1, <3>2
  <2> QED
    BY <2>1, SameClientHas
<1>2. \A u \in Thread \ {t} : \A a :
        /\ Yields(u, a)' <=> Yields(u, a)
        /\ Frees(u, a)' <=> Frees(u, a)
        /\ Pending(u)' <=> Pending(u)
        /\ ThreadHas(u, a)' <=> ThreadHas(u, a)
  <2>1. \A u \in Thread \ {t} : \A d \in Client : serving'[d] = u <=> serving[d] = u
    BY DEF SameClient, SameCaller
  <2> QED
    BY <2>1, SameThreadHas
<1>3. AccountInv'
  <2>1. ASSUME NEW a \in Address
        PROVE  /\ \A u \in Thread : Yields(u, a) \/ Frees(u, a) => Accounted(a)'
               /\ \A d \in Client : \A i \in Nat : Has(d, i, a) => Accounted(a)'
               /\ \A u \in Thread : Pending(u) /\ stub[u] = a => Collected(a)'
    <3>1. (\E j \in Nat : Has(c, j, a)') => Accounted(a)'
      BY DEF Accounted
    <3>2. ASSUME NEW u \in Thread, Yields(u, a) \/ Frees(u, a)
          PROVE  Accounted(a)'
      <4>1. CASE u = t
        BY <3>1, <3>2, <4>1
      <4>2. CASE u # t
        BY <1>2, <3>2, <4>2 DEF Accounted
      <4> QED
        BY <4>1, <4>2
    <3>3. ASSUME NEW d \in Client, NEW i \in Nat, Has(d, i, a)
          PROVE  Accounted(a)'
      <4>1. CASE d = c
        BY <3>1, <3>3, <4>1
      <4>2. CASE d # c
        BY <1>1, <3>3, <4>2 DEF Accounted
      <4> QED
        BY <4>1, <4>2
    <3>4. ASSUME NEW u \in Thread, Pending(u), stub[u] = a
          PROVE  Collected(a)'
      BY <1>2, <3>4 DEF Collected, SameThread
    <3> QED
      BY <3>2, <3>3, <3>4
  <2> QED
    BY <2>1, AccountKept
<1>4. SUFFICES ASSUME ~stale PROVE OwnOK'
  BY <1>3 DEF OwnInv
<1>5. OwnOK
  BY <1>4 DEF OwnInv
<1>6. /\ \A a \in Address : ~ThreadHas(t, a)'
      /\ \A a \in Address : \A i \in Nat : Has(c, i, a)' =>
           Has(c, i, a) \/ (i = k /\ ThreadHas(t, a) /\ ClientContent(c, i, a)')
  BY <1>4
<1>7. ContentOK'
  <2>1. ASSUME NEW u \in Thread, NEW a \in Address
        PROVE  ThreadContent(u, a)'
    <3>1. CASE ThreadHas(u, a)'
      <4>1. u # t /\ ThreadHas(u, a) /\ ThreadContent(u, a)
        BY <1>2, <1>5, <1>6, <3>1 DEF OwnOK, ContentOK
      <4> QED
        BY <4>1, SameThreadHas
    <3>2. CASE ~ThreadHas(u, a)'
      BY <3>2 DEF ThreadContent, ThreadHas
    <3> QED
      BY <3>1, <3>2
  <2>2. ASSUME NEW d \in Client, NEW i \in Nat, NEW a \in Address
        PROVE  ClientContent(d, i, a)'
    <3>1. Has(d, i, a)' => Has(d, i, a) \/ ClientContent(d, i, a)'
      BY <1>1, <1>6
    <3> QED
      BY <1>5, <3>1 DEF OwnOK, ContentOK, ClientContent, OwnContent
  <2> QED
    BY <2>1, <2>2 DEF ContentOK
<1>8. Exclusive'
  <2> SUFFICES ASSUME NEW a \in Address
               PROVE  /\ \A u, v \in Thread : ThreadHas(u, a)' /\ ThreadHas(v, a)' => u = v
                      /\ \A u \in Thread : \A d \in Client : \A i \in Nat : ThreadHas(u, a)' => ~Has(d, i, a)'
                      /\ \A d, e \in Client : \A i, j \in Nat :
                           Has(d, i, a)' /\ Has(e, j, a)' => d = e /\ i = j
    BY DEF Exclusive
  <2>1. /\ \A u, v \in Thread : ThreadHas(u, a) /\ ThreadHas(v, a) => u = v
        /\ \A u \in Thread : \A d \in Client : \A i \in Nat : ThreadHas(u, a) => ~Has(d, i, a)
        /\ \A d, e \in Client : \A i, j \in Nat : Has(d, i, a) /\ Has(e, j, a) => d = e /\ i = j
    BY <1>5 DEF OwnOK, Exclusive
  <2>2. \A u \in Thread : ThreadHas(u, a)' => u # t /\ ThreadHas(u, a)
    BY <1>2, <1>6
  <2>3. \A d \in Client : \A i \in Nat : Has(d, i, a)' =>
          Has(d, i, a) \/ (d = c /\ i = k /\ ThreadHas(t, a))
    BY <1>1, <1>6
  <2> QED
    BY <2>1, <2>2, <2>3
<1>9. ASSUME NEW d \in Client, NEW i \in Handlers(d)'
      PROVE  ValueRead(d, i)'
  <2>1. CASE /\ i \in Handlers(d) /\ handlers'[d][i] = handlers[d][i]
             /\ ~(handlers[d][i].at = "read" /\ handlers[d][i].thread = t)
    <3>1. ValueRead(d, i) /\ \A m : Points(d, m) => (Points(d, m))'
      BY <1>5, <2>1 DEF OwnOK, Points
    <3>2. handlers[d][i].at = "read" => SameThread(handlers[d][i].thread)
      BY <2>1, ReadingHandler
    <3> QED
      BY <2>1, <3>1, <3>2, ValueReadKept
  <2>2. CASE ~(/\ i \in Handlers(d) /\ handlers'[d][i] = handlers[d][i]
               /\ ~(handlers[d][i].at = "read" /\ handlers[d][i].thread = t))
    <3>1. d = c
      <4> SUFFICES ASSUME d # c PROVE FALSE
        OBVIOUS
      <4>1. i \in Handlers(d) /\ handlers'[d][i] = handlers[d][i]
        BY DEF SameClient, Handlers
      <4>2. handlers[d][i].at = "read" => i \in Nat /\ Reader(d, i, handlers[d][i].thread)
        BY <4>1, ReadingHandler
      <4> QED
        BY <2>2, <4>1, <4>2
    <3> QED
      BY <1>4, <2>2, <3>1
  <2> QED
    BY <2>1, <2>2
<1> QED
  BY <1>7, <1>8, <1>9 DEF OwnOK

\* An idle thread has nothing, and one that has answered frees nothing.
LEMMA RestingThread ==
  ASSUME NEW t \in Thread, NEW a
  PROVE  /\ pc[t] = "idle" => ~Yields(t, a) /\ ~Frees(t, a) /\ ~Pending(t)
         /\ pc[t] = "done" => ~Frees(t, a) /\ ~Pending(t)
                              /\ (Yields(t, a) <=> Constructs(msg[t]) /\ stub[t] = a)
         /\ pc'[t] = "idle" => ~ThreadHas(t, a)'
         /\ pc'[t] = "process" => (ThreadHas(t, a)' <=> Frees(t, a)' /\ \A c \in Client : serving'[c] # t)
BY DEF Yields, Frees, Pending, ThreadHas

\* A client that is deleting goes on to have its object until the server has
\* done it.
LEMMA DeliverKeepsOwners ==
  ASSUME BaseAsync, BaseAsync', AccountInv, OwnInv, NEW c \in Client, Synchronously(Deliver(c))
  PROVE  AccountInv' /\ OwnInv'
<1>1. PICK t \in Thread : Receive(t, request[c]) /\ serving' = [serving EXCEPT ![c] = t]
  BY DEF Synchronously, Deliver, Set
<1>2. /\ serving[c] = NoThread /\ UNCHANGED <<heap, allObjects>>
      /\ UNCHANGED <<phase, proxy, request, sent, orphaned, handlers, stopped, stale>>
  BY <1>1 DEF Synchronously, Deliver, asyncVars, faultVars, Receive
<1>3. /\ pc[t] = "idle" /\ pc'[t] = "process" /\ serving'[c] = t
      /\ \A u \in Thread \ {t} : SameThread(u)
  BY <1>1 DEF BaseAsync, AsyncShape, TypeOK, Receive, At, Goto, SameThread
<1>4. \A d \in Client : \A j \in Nat : ~Reader(d, j, t)
  BY <1>3 DEF BaseAsync, ReaderInv
<1>5. \A d \in Client \ {c} : SameClient(d)
  BY <1>1, <1>2 DEF BaseAsync, AsyncShape, SameClient, SameCaller
<1>6. ASSUME NEW i \in Nat, NEW a PROVE Has(c, i, a)' <=> Has(c, i, a)
  <2>1. Holds(c)' <=> Holds(c)
    BY <1>2, <1>3 DEF Holds
  <2>2. CASE i = 0
    BY <1>2, <2>1, <2>2, HasFacts, NextHasFacts DEF BaseAsync
  <2>3. CASE i # 0
    BY <1>2, <2>3, SameHandlerHas DEF Handlers
  <2> QED
    BY <2>2, <2>3
<1>7. \A a : ~Yields(t, a) /\ ~Frees(t, a) /\ ~Pending(t) /\ ~ThreadHas(t, a)'
  BY <1>3, RestingThread
<1>8. \A i \in Handlers(c)' :
        /\ i \in Handlers(c) /\ handlers'[c][i] = handlers[c][i]
        /\ ~(handlers[c][i].at = "read" /\ handlers[c][i].thread = t)
  BY <1>2, <1>4, ReadingHandler DEF Handlers
<1>9. \A u \in Thread \ {t} : serving'[c] = u <=> serving[c] = u
  BY <1>2, <1>3, DistinctAssumption
<1> QED
  BY <1>2, <1>3, <1>4, <1>5, <1>6, <1>7, <1>8, <1>9, ExchangeKeepsOwners, 0 \in Nat

\* The thread that reads a value has the handle of it.
LEMMA AsyncDeliverKeepsOwners ==
  ASSUME BaseAsync, BaseAsync', AccountInv, OwnInv, NEW c \in Client, NEW i \in Handlers(c),
         AsyncDeliver(c, i)
  PROVE  AccountInv' /\ OwnInv'
<1> DEFINE o == handlers[c][i]
<1>1. PICK t \in Thread : /\ Receive(t, o.request)
                          /\ SetHandler(c, i, [o EXCEPT !.at = "read", !.thread = t])
  BY Zenon DEF AsyncDeliver
<1>2. /\ o.at = "open" /\ UNCHANGED <<clientVars, faultVars, stopped, closed, output>>
      /\ o \in HandlerRecord /\ HandlerInv(c, i) /\ i \in Nat \ {0}
      /\ UNCHANGED <<heap, allObjects>>
  BY <1>1, HandlerRecordFacts DEF AsyncDeliver, UnchangedByHandler, Receive
<1>3. PICK h \in HandlerRecord :
        /\ SetHandler(c, i, h) /\ h.at = "read" /\ h.thread = t
        /\ h.request = o.request /\ h.response = o.response /\ h.error = o.error
  <2> DEFINE n == [o EXCEPT !.at = "read", !.thread = t]
  <2>1. /\ n \in HandlerRecord /\ n.at = "read" /\ n.thread = t
        /\ n.request = o.request /\ n.response = o.response /\ n.error = o.error
    BY <1>2 DEF HandlerRecord, HandlerLabels
  <2> HIDE DEF n
  <2> QED
    BY <1>1, <2>1 DEF n
<1>4. /\ pc[t] = "idle" /\ pc'[t] = "process" /\ msg'[t] = o.request
      /\ \A u \in Thread \ {t} : SameThread(u)
  BY <1>1 DEF BaseAsync, AsyncShape, TypeOK, Receive, At, Goto, SameThread
<1>5. \A d \in Client : \A j \in Nat : ~Reader(d, j, t)
  BY <1>4 DEF BaseAsync, ReaderInv
<1>6. /\ handlers'[c][i] = h /\ Handlers(c)' = Handlers(c)
      /\ \A j \in Handlers(c) \ {i} : handlers'[c][j] = handlers[c][j]
      /\ \A d \in Client \ {c} : handlers'[d] = handlers[d]
  BY <1>3, SetHandlerFacts DEF BaseAsync
<1>7. /\ UNCHANGED <<phase, proxy, request, serving, sent, orphaned, stale, stopped>>
      /\ \A d \in Client \ {c} : SameClient(d)
  BY <1>2, <1>6 DEF clientVars, faultVars, SameClient, SameCaller
<1>8. ASSUME NEW j \in Nat, NEW a PROVE Has(c, j, a)' <=> Has(c, j, a)
  <2>1. CASE j = 0
    <3>1. serving[c] # NoThread => Reader(c, 0, serving[c]) /\ serving[c] \in Thread
      BY ShapeFacts DEF Reader, BaseAsync
    <3>2. Holds(c)' <=> Holds(c)
      BY <1>4, <1>5, <1>7, <3>1 DEF Holds, SameThread
    <3> QED
      BY <1>7, <2>1, <3>2, HasFacts, NextHasFacts DEF BaseAsync
  <2>2. CASE j # 0 /\ j # i
    BY <1>6, <2>2, SameHandlerHas
  <2>3. CASE j = i
    BY <1>2, <1>3, <1>6, <2>3 DEF Has
  <2> QED
    BY <2>1, <2>2, <2>3
<1>9. \A a : ~Yields(t, a) /\ ~Frees(t, a) /\ ~Pending(t) /\ ~ThreadHas(t, a)'
  <2>1. ~IsDelete(o.request)
    BY <1>2 DEF HandlerInv, Concerns, Creation, CallsObject, IsDelete, Constructs, GlobalDispId,
                eCreateIntDispId, eCreateStringDispId, eCreateCustomObjectDispId, eDeleteDispId
  <2> QED
    BY <1>4, <2>1, RestingThread DEF Frees
<1>10. ~stale => ValueRead(c, i)'
  <2> SUFFICES ASSUME ~stale, c \notin Calculators, ~SendsValue(c, i)
               PROVE  Points(c, msg[t])'
    BY <1>3, <1>4, <1>6 DEF ValueRead, SendsValue
  <2>1. Points(c, o.request)
    BY <1>2 DEF OwnInv, OwnOK, ValueRead
  <2> QED
    BY <1>2, <1>4, <1>7, <2>1 DEF Points
<1>11. \A j \in Handlers(c)' :
         \/ /\ j \in Handlers(c) /\ handlers'[c][j] = handlers[c][j]
            /\ ~(handlers[c][j].at = "read" /\ handlers[c][j].thread = t)
         \/ j = i
  BY <1>5, <1>6, ReadingHandler
<1> HIDE DEF o
<1> QED
  BY <1>2, <1>4, <1>5, <1>7, <1>8, <1>9, <1>10, <1>11, ExchangeKeepsOwners, 0 \in Nat

\* CreateRemoteInstance takes over the object that the thread has made; a
\* client whose deletion is answered has lost its object before.
LEMMA AnsweredKeepsOwners ==
  ASSUME BaseAsync, BaseAsync', AccountInv, OwnInv, NEW c \in Client, Synchronously(Answered(c))
  PROVE  AccountInv' /\ OwnInv'
<1>1. PICK t : t = serving[c]
  OBVIOUS
<1>2. /\ t # NoThread /\ pc[t] = "done" /\ Return(c, GetErrorCode(msg[t]), msg[t]) /\ End(t)
      /\ UNCHANGED <<asyncVars, faultVars>>
  BY <1>1 DEF Synchronously, Answered, At
<1>3. /\ t \in Thread /\ Reader(c, 0, t) /\ c \in Calculators
      /\ phase[c] = "creating" =>
           /\ Creation(c, msg[t]) /\ CreatedHandle(msg[t]) \in Address
           /\ CreatedHandle(msg[t]) = stub[t] /\ GetErrorCode(msg[t]) = ERROR_SUCCESS
  BY <1>1, <1>2, AnsweredHandle
<1>4. /\ serving' = Set(serving, c, NoThread) /\ request' = Set(request, c, <<>>)
      /\ UNCHANGED <<heap, allObjects, sent, handlers, stopped, stale>>
  BY <1>2 DEF Return, End, asyncVars, faultVars
<1>5. pc'[t] = "idle" /\ \A u \in Thread \ {t} : SameThread(u)
  BY <1>2, <1>3 DEF End, Set, SameThread, BaseAsync, AsyncShape, TypeOK
<1>6. \/ /\ phase[c] = "creating" /\ phase' = Set(phase, c, "ready")
         /\ proxy' = Set(proxy, c, stub[t]) /\ UNCHANGED orphaned
      \/ /\ phase[c] = "calling" /\ phase' = Set(phase, c, "ready") /\ UNCHANGED <<proxy, orphaned>>
      \/ /\ phase[c] = "deleting" /\ phase' = Set(phase, c, "out")
         /\ proxy' = Set(proxy, c, NullHandle) /\ orphaned \subseteq orphaned'
  <2>1. CASE FinishCreate(c, GetErrorCode(msg[t]), msg[t])
    <3>1. phase[c] = "creating"
      BY <2>1 DEF FinishCreate
    <3>2. CreatedHandle(msg[t]) = stub[t] /\ stub[t] # NullHandle /\ GetErrorCode(msg[t]) = ERROR_SUCCESS
      BY <1>3, <3>1, DistinctAssumption
    <3> QED
      BY <2>1, <3>1, <3>2 DEF FinishCreate
  <2>2. CASE FinishCall(c, GetErrorCode(msg[t]), msg[t])
    BY <2>2 DEF FinishCall
  <2>3. CASE FinishDestroy(c, GetErrorCode(msg[t]))
    BY <2>3 DEF FinishDestroy
  <2> QED
    BY <1>2, <2>1, <2>2, <2>3 DEF Return
<1>7. /\ \/ phase[c] = "creating" /\ phase'[c] = "ready" /\ proxy'[c] = stub[t]
         \/ phase[c] = "calling" /\ phase'[c] = "ready" /\ proxy'[c] = proxy[c]
         \/ phase[c] = "deleting" /\ phase'[c] = "out"
      /\ serving'[c] = NoThread
      /\ \A d \in Client \ {c} : SameClient(d)
  BY <1>4, <1>6 DEF SameClient, SameCaller, Set, BaseAsync, AsyncShape
<1>8. orphaned \subseteq orphaned' /\ \A u \in Thread \ {t} : serving'[c] = u <=> serving[c] = u
  BY <1>1, <1>6, <1>7, DistinctAssumption
<1>9. \A d \in Client : \A j \in Nat : Reader(d, j, t) => d = c /\ j = 0
  BY <1>3 DEF BaseAsync, ReaderInv
<1>10. \A i \in Nat \ {0} : \A a : Has(c, i, a)' <=> Has(c, i, a)
  BY <1>4, SameHandlerHas DEF Handlers
<1>11. /\ ~Pending(t)
       /\ \A a : ~Frees(t, a) /\ ~ThreadHas(t, a)' /\ (Yields(t, a) <=> Constructs(msg[t]) /\ stub[t] = a)
  BY <1>2, <1>3, <1>5, RestingThread
<1>12. Constructs(msg[t]) <=> phase[c] = "creating"
  <2>1. Waiting(c) /\ Fits(c, msg[t])
    BY <1>1, <1>2 DEF BaseAsync, CallerInv
  <2> QED
    BY <2>1 DEF Waiting, Fits, Creation, CallOf, CallsObject, Deletion, Constructs, IsDelete, GlobalDispId,
                eCreateIntDispId, eCreateStringDispId, eCreateCustomObjectDispId, eDeleteDispId
<1>13. ASSUME NEW a
       PROVE  /\ Has(c, 0, a) => phase[c] = "calling" /\ proxy[c] = a
              /\ Has(c, 0, a)' <=> \/ phase[c] = "creating" /\ stub[t] = a
                                   \/ phase[c] = "calling" /\ proxy[c] = a
  BY <1>1, <1>2, <1>7, HasFacts, NextHasFacts DEF BaseAsync, Holds
<1>14. ASSUME NEW a \in Address
       PROVE  /\ Yields(t, a) \/ Frees(t, a) => Has(c, 0, a)'
              /\ \A i \in Nat : Has(c, i, a) => Has(c, i, a)'
  BY <1>10, <1>11, <1>12, <1>13
<1>15. ASSUME ~stale, NEW a \in Address, NEW i \in Nat, Has(c, i, a)', ~Has(c, i, a)
       PROVE  i = 0 /\ ThreadHas(t, a) /\ ClientContent(c, i, a)'
  <2>1. i = 0 /\ phase[c] = "creating" /\ stub[t] = a
    BY <1>10, <1>13, <1>15, HasFacts DEF BaseAsync, Holds
  <2>2. Yields(t, a) /\ ThreadHas(t, a)
    BY <1>11, <1>12, <2>1 DEF ThreadHas
  <2>3. heap[a] = OwnContent(c) /\ a \in allObjects
    BY <1>2, <1>3, <1>15, <2>1, <2>2 DEF OwnInv, OwnOK, ContentOK, ThreadContent, Creation
  <2> QED
    BY <1>4, <2>1, <2>2, <2>3 DEF ClientContent, OwnContent
<1>16. \A i \in Handlers(c)' :
         /\ i \in Handlers(c) /\ handlers'[c][i] = handlers[c][i]
         /\ ~(handlers[c][i].at = "read" /\ handlers[c][i].thread = t)
  BY <1>4, <1>9, ReadingHandler DEF Handlers
<1> QED
  BY <1>3, <1>4, <1>5, <1>7, <1>8, <1>9, <1>11, <1>14, <1>15, <1>16, ExchangeKeepsOwners, 0 \in Nat

\* The handler has in its callback what the thread has made.
LEMMA AsyncAnsweredKeepsOwners ==
  ASSUME BaseAsync, BaseAsync', AccountInv, OwnInv, NEW c \in Client, NEW i \in Handlers(c),
         AsyncAnswered(c, i)
  PROVE  AccountInv' /\ OwnInv'
<1>1. PICK t : t = handlers[c][i].thread
  OBVIOUS
<1>2. /\ t \in Thread /\ Reader(c, i, t) /\ i \in Nat \ {0} /\ pc[t] = "done" /\ End(t)
      /\ AsyncReturns(c, i, ERROR_SUCCESS, msg[t])
      /\ UNCHANGED sent /\ \A d \in Client \ {c} : SameClient(d)
      /\ handlers'[c][i].at = "callback" /\ handlers'[c][i].response = msg[t]
      /\ Handlers(c)' = Handlers(c)
      /\ handlers'[c][i].request = handlers[c][i].request
      /\ \A j \in Handlers(c) \ {i} : handlers'[c][j] = handlers[c][j]
      /\ \A u \in Thread \ {t} : SameThread(u)
  BY <1>1, AsyncAnsweredFacts
<1>3. /\ UNCHANGED <<heap, allObjects, phase, proxy, serving, orphaned, stale>> /\ pc'[t] = "idle"
      /\ handlers[c][i].at = "read"
  BY <1>2 DEF AsyncAnswered, AsyncReturns, UnchangedByHandler, End, Set, clientVars, faultVars,
              BaseAsync, AsyncShape, TypeOK
<1>4. \A d \in Client : \A j \in Nat : Reader(d, j, t) => d = c /\ j = i
  BY <1>2 DEF BaseAsync, ReaderInv
<1>5. /\ ~Pending(t)
      /\ \A a : ~Frees(t, a) /\ ~ThreadHas(t, a)' /\ (Yields(t, a) <=> Constructs(msg[t]) /\ stub[t] = a)
  BY <1>2, <1>3, RestingThread
<1>6. Brought(msg[t]) = IF Constructs(msg[t]) THEN {stub[t]} ELSE {}
  BY <1>2, AnswerFacts, MessageNotEmpty DEF Brought
<1>7. \A a : ~Has(c, i, a) /\ (Has(c, i, a)' <=> Yields(t, a))
  BY <1>2, <1>3, <1>5, <1>6 DEF Has
<1>8. ASSUME NEW j \in Nat \ {i}, NEW a PROVE Has(c, j, a)' <=> Has(c, j, a)
  <2>1. CASE j = 0
    <3>1. serving[c] # NoThread => Reader(c, 0, serving[c]) /\ serving[c] \in Thread
      BY ShapeFacts DEF Reader, BaseAsync
    <3>2. Holds(c)' <=> Holds(c)
      BY <1>2, <1>3, <1>4, <3>1 DEF Holds, SameThread
    <3> QED
      BY <1>3, <2>1, <3>2, HasFacts, NextHasFacts DEF BaseAsync
  <2>2. CASE j # 0
    BY <1>2, <2>2, SameHandlerHas
  <2> QED
    BY <2>1, <2>2
<1>9. ASSUME NEW a \in Address
      PROVE  /\ Yields(t, a) \/ Frees(t, a) => \E j \in Nat : Has(c, j, a)'
             /\ \A j \in Nat : Has(c, j, a) => Has(c, j, a)'
  BY <1>2, <1>5, <1>7, <1>8
<1>10. HandlerInv(c, i) /\ Concerns(c, i, msg[t])
  BY <1>1, <1>3 DEF BaseAsync, HandlerInv
<1>11. ASSUME ~stale, NEW a \in Address, NEW j \in Nat, Has(c, j, a)', ~Has(c, j, a)
       PROVE  j = i /\ ThreadHas(t, a) /\ ClientContent(c, j, a)'
  <2>1. j = i /\ Yields(t, a) /\ ThreadHas(t, a) /\ Constructs(msg[t])
    BY <1>5, <1>7, <1>8, <1>11 DEF ThreadHas
  <2>2. Creation(c, msg[t])
    BY <1>10, <2>1 DEF Concerns, CallsObject, Constructs
  <2>3. heap[a] = OwnContent(c) /\ a \in allObjects
    BY <1>2, <1>11, <2>1, <2>2 DEF OwnInv, OwnOK, ContentOK, ThreadContent, Creation
  <2> QED
    BY <1>2, <1>3, <2>1, <2>3 DEF ClientContent, OwnContent
<1>12. ~stale => ValueRead(c, i)'
  <2> SUFFICES ASSUME ~stale, c \notin Calculators, ~SendsValue(c, i)
               PROVE  LastFunctionParameter(msg[t]) = sent[c]
    BY <1>2 DEF ValueRead, SendsValue
  <2>1. ValueRead(c, i)
    BY DEF OwnInv, OwnOK
  <2> QED
    BY <1>1, <1>2, <1>3, <2>1 DEF ValueRead
<1>13. \A j \in Handlers(c)' :
         \/ /\ j \in Handlers(c) /\ handlers'[c][j] = handlers[c][j]
            /\ ~(handlers[c][j].at = "read" /\ handlers[c][j].thread = t)
         \/ j = i
  BY <1>2, <1>4, ReadingHandler
<1> QED
  BY <1>2, <1>3, <1>4, <1>5, <1>9, <1>11, <1>12, <1>13, ExchangeKeepsOwners
------------------------------------------------------------------------------
\* What somebody has is not free.
LEMMA HadIsLive ==
  ASSUME BaseAsync, OwnOK, NEW a \in Address, heap[a] = Free
  PROVE  /\ \A t \in Thread : ~ThreadHas(t, a)
         /\ \A c \in Client : \A i \in Nat : ~Has(c, i, a)
<1>1. ASSUME NEW t \in Thread, ThreadHas(t, a)
      PROVE  FALSE
  <2>1. ThreadContent(t, a)
    BY DEF OwnOK, ContentOK
  <2>2. CASE Yields(t, a)
    <3>1. CreationWork(t)
      BY <2>2, WorkFacts DEF BaseAsync, WorkInv, Yields
    <3>2. GetFunctionParameter(msg[t], 1, EmptyArgument) \in Content
      BY <3>1 DEF CreationWork, Creating
    <3> QED
      BY <2>1, <2>2, <3>2, DistinctAssumption DEF ThreadContent
  <2>3. CASE ~Yields(t, a)
    BY <1>1, <2>1, <2>3, DistinctAssumption DEF ThreadContent, Content
  <2> QED
    BY <2>2, <2>3
<1>2. ASSUME NEW c \in Client, NEW i \in Nat, Has(c, i, a)
      PROVE  FALSE
  <2>1. heap[a] = OwnContent(c)
    BY <1>2 DEF OwnOK, ContentOK, ClientContent
  <2>2. OwnContent(c) \in Content
    BY ShapeFacts DEF BaseAsync, OwnContent, Content
  <2> QED
    BY <2>1, <2>2, DistinctAssumption
<1> QED
  BY <1>1, <1>2

\* A step of the thread t alone, which gets nothing but what was free.
LEMMA ThreadStepKeepsOwn ==
  ASSUME BaseAsync, OwnOK, ClientsUnchanged, NEW t \in Thread,
         \A u \in Thread \ {t} : SameThread(u), allObjects \subseteq allObjects',
         \A a \in Address :
           /\ \A u \in Thread \ {t} : ThreadHas(u, a) => heap'[a] = heap[a]
           /\ \A c \in Client : \A i \in Nat :
                Has(c, i, a)' => Has(c, i, a) /\ heap'[a] = heap[a]
           /\ ThreadContent(t, a)'
           /\ ThreadHas(t, a)' => ThreadHas(t, a) \/ heap[a] = Free,
         \A c \in Client \ Calculators : \A m : Points(c, m) => (Points(c, m))',
         \A c \in Client : \A i \in Handlers(c) :
           handlers[c][i].at = "read" /\ handlers[c][i].thread = t => ValueRead(c, i)'
  PROVE  OwnOK'
<1>1. ASSUME NEW u \in Thread \ {t}, NEW a
      PROVE  ThreadHas(u, a)' <=> ThreadHas(u, a)
  <2>1. serving' = serving
    BY DEF ClientsUnchanged
  <2> QED
    BY <2>1, SameThreadHas
<1>2. ContentOK'
  <2>1. ASSUME NEW u \in Thread \ {t}, NEW a \in Address
        PROVE  ThreadContent(u, a)'
    <3>1. CASE ThreadHas(u, a)
      <4>1. ThreadContent(u, a) /\ heap'[a] = heap[a] /\ (a \in allObjects => a \in allObjects')
        BY <3>1 DEF OwnOK, ContentOK
      <4> QED
        BY <3>1, <4>1, SameThreadHas
    <3>2. CASE ~ThreadHas(u, a)
      BY <1>1, <3>2 DEF ThreadContent, ThreadHas
    <3> QED
      BY <3>1, <3>2
  <2>2. ASSUME NEW d \in Client, NEW i \in Nat, NEW a \in Address
        PROVE  ClientContent(d, i, a)'
    <3>1. ClientContent(d, i, a) /\ OwnContent(d)' = OwnContent(d)
      BY DEF OwnOK, ContentOK, OwnContent, ClientsUnchanged
    <3>2. Has(d, i, a)' => Has(d, i, a) /\ heap'[a] = heap[a]
      OBVIOUS
    <3> QED
      BY <3>1, <3>2 DEF ClientContent
  <2> QED
    BY <2>1, <2>2 DEF ContentOK
<1>3. Exclusive'
  <2> SUFFICES ASSUME NEW a \in Address
               PROVE  /\ \A u, v \in Thread : ThreadHas(u, a)' /\ ThreadHas(v, a)' => u = v
                      /\ \A u \in Thread : \A d \in Client : \A i \in Nat : ThreadHas(u, a)' => ~Has(d, i, a)'
                      /\ \A d, e \in Client : \A i, j \in Nat :
                           Has(d, i, a)' /\ Has(e, j, a)' => d = e /\ i = j
    BY DEF Exclusive
  <2>1. /\ \A u, v \in Thread : ThreadHas(u, a) /\ ThreadHas(v, a) => u = v
        /\ \A u \in Thread : \A d \in Client : \A i \in Nat : ThreadHas(u, a) => ~Has(d, i, a)
        /\ \A d, e \in Client : \A i, j \in Nat : Has(d, i, a) /\ Has(e, j, a) => d = e /\ i = j
    BY DEF OwnOK, Exclusive
  <2>2. \A u \in Thread : ThreadHas(u, a)' =>
          ThreadHas(u, a) \/ (u = t /\ heap[a] = Free)
    BY <1>1
  <2>3. \A d \in Client : \A i \in Nat : Has(d, i, a)' => Has(d, i, a)
    OBVIOUS
  <2>4. heap[a] = Free => /\ \A u \in Thread : ~ThreadHas(u, a)
                          /\ \A d \in Client : \A i \in Nat : ~Has(d, i, a)
    BY HadIsLive
  <2> QED
    BY <2>1, <2>2, <2>3, <2>4
<1>4. ASSUME NEW d \in Client, NEW i \in Handlers(d)'
      PROVE  ValueRead(d, i)'
  <2>1. i \in Handlers(d) /\ handlers'[d][i] = handlers[d][i] /\ UNCHANGED sent
    BY DEF ClientsUnchanged, Handlers
  <2>2. CASE handlers[d][i].at = "read" /\ handlers[d][i].thread = t
    BY <2>1, <2>2
  <2>3. CASE d \in Calculators
    BY <2>3 DEF ValueRead
  <2>4. CASE d \notin Calculators /\ ~(handlers[d][i].at = "read" /\ handlers[d][i].thread = t)
    <3>1. ValueRead(d, i) /\ \A m : Points(d, m) => (Points(d, m))'
      BY <2>1, <2>4 DEF OwnOK
    <3>2. handlers[d][i].at = "read" => SameThread(handlers[d][i].thread)
      BY <2>1, <2>4, ReadingHandler
    <3> QED
      BY <2>1, <3>1, <3>2, ValueReadKept
  <2> QED
    BY <2>2, <2>3, <2>4
<1> QED
  BY <1>2, <1>3, <1>4 DEF OwnOK

\* Nobody waits for the answer, and what it brings is nobody's.
LEMMA DiscardKeepsOwners ==
  ASSUME BaseAsync, BaseAsync', AccountInv, OwnInv, NEW t \in Thread, Discard(t)
  PROVE  AccountInv' /\ OwnInv'
<1>1. /\ End(t) /\ pc[t] = "done" /\ orphaned' = orphaned \cup Brought(msg[t])
      /\ Brought(msg[t]) = (IF Constructs(msg[t]) THEN {stub[t]} ELSE {})
      /\ UNCHANGED <<phase, proxy, request, serving, sent, asyncVars, faultVars>>
      /\ \A u \in Thread \ {t} : SameThread(u)
      /\ \A c \in Client : \A i \in Nat : ~Reader(c, i, t)
  BY DiscardFacts
<1>2. ClientsUnchanged /\ UNCHANGED <<heap, allObjects, stale>> /\ pc'[t] = "idle"
  BY <1>1 DEF ClientsUnchanged, End, Set, asyncVars, faultVars, BaseAsync, AsyncShape, TypeOK
<1>3. \A c \in Client : \A i, a : Has(c, i, a)' <=> Has(c, i, a)
  <2>1. ASSUME NEW c \in Client
        PROVE  SameClient(c) /\ (serving[c] # NoThread => SameThread(serving[c]))
    <3>1. SameClient(c)
      BY <1>2 DEF ClientsUnchanged, SameClient, SameCaller
    <3>2. serving[c] # NoThread => serving[c] \in Thread /\ Reader(c, 0, serving[c])
      BY ShapeFacts DEF Reader, BaseAsync
    <3> QED
      BY <1>1, <3>1, <3>2, 0 \in Nat
  <2> QED
    BY <2>1, SameClientHas
<1>4. /\ ~Pending(t)
      /\ \A a : ~Frees(t, a) /\ ~ThreadHas(t, a)' /\ (Yields(t, a) <=> Constructs(msg[t]) /\ stub[t] = a)
  BY <1>1, <1>2, RestingThread
<1>5. \A u \in Thread \ {t} : \A a :
        /\ Yields(u, a)' <=> Yields(u, a)
        /\ Frees(u, a)' <=> Frees(u, a)
        /\ Pending(u)' <=> Pending(u)
  BY <1>1, SameThreadHas
<1>6. AccountInv'
  <2>1. ASSUME NEW a \in Address
        PROVE  /\ \A u \in Thread : Yields(u, a) \/ Frees(u, a) => Accounted(a)'
               /\ \A d \in Client : \A i \in Nat : Has(d, i, a) => Accounted(a)'
               /\ \A u \in Thread : Pending(u) /\ stub[u] = a => Collected(a)'
    <3>1. Yields(t, a) => a \in orphaned'
      BY <1>1, <1>4
    <3>2. \A u \in Thread : Yields(u, a) \/ Frees(u, a) => Accounted(a)'
      BY <1>4, <1>5, <3>1 DEF Accounted
    <3>3. \A d \in Client : \A i \in Nat : Has(d, i, a) => Accounted(a)'
      BY <1>3 DEF Accounted
    <3>4. \A u \in Thread : Pending(u) /\ stub[u] = a => Collected(a)'
      BY <1>1, <1>4, <1>5 DEF Collected, SameThread
    <3> QED
      BY <3>2, <3>3, <3>4
  <2>2. orphaned \subseteq orphaned'
    BY <1>1
  <2> QED
    BY <1>2, <2>1, <2>2, AccountKept
<1>7. ASSUME ~stale PROVE OwnOK'
  <2>1. OwnOK
    BY <1>7 DEF OwnInv
  <2>2. \A a : ThreadContent(t, a)'
    BY <1>4 DEF ThreadContent, ThreadHas
  <2>3. \A c \in Client : \A m : Points(c, m) => (Points(c, m))'
    BY <1>1, <1>2 DEF Points
  <2>4. \A c \in Client : \A i \in Handlers(c) : ~(handlers[c][i].at = "read" /\ handlers[c][i].thread = t)
    BY <1>1, ReadingHandler
  <2> QED
    BY <1>1, <1>2, <1>3, <1>4, <2>1, <2>2, <2>3, <2>4, ThreadStepKeepsOwn
<1> QED
  BY <1>2, <1>6, <1>7 DEF OwnInv
------------------------------------------------------------------------------
\* What a step of a thread does to what it has, to the collection and to the
\* object at a: a new one is the thread's, and only what it frees is freed.
BusyDeleting(t) == pc[t] \in {"process", "enterDelete", "delete"}
OwnerEffect(t, a) ==
  /\ Yields(t, a) => /\ Yields(t, a)'
                     /\ GetFunctionParameter(msg'[t], 1, EmptyArgument)
                          = GetFunctionParameter(msg[t], 1, EmptyArgument)
                     /\ pc'[t] = "done" => pc[t] = "done" \/ a \in allObjects'
  /\ Yields(t, a)' => \/ Yields(t, a)
                      \/ /\ heap[a] = Free /\ pc'[t] # "done"
                         /\ heap'[a] = GetFunctionParameter(msg'[t], 1, EmptyArgument)
  /\ Frees(t, a)' => Frees(t, a)
  /\ Frees(t, a) => Frees(t, a)' \/ heap'[a] = Free \/ (a \notin allObjects /\ pc[t] = "delete")
  /\ heap'[a] # heap[a] =>
       \/ heap[a] = Free /\ Yields(t, a)' /\ Pending(t)' /\ stub'[t] = a
       \/ heap'[a] = Free /\ Frees(t, a) /\ pc'[t] = "done"
  /\ Pending(t) /\ stub[t] = a => (Pending(t)' /\ stub'[t] = a) \/ a \in allObjects'
  /\ allObjects \subseteq allObjects'
  /\ BusyDeleting(t)' => BusyDeleting(t)

LEMMA EffectOnOwners ==
  ASSUME BaseAsync, NEW t \in Thread, pc[t] # "idle", StepEffect(t), NEW a \in Address
  PROVE  OwnerEffect(t, a)
<1>1. TypeOK /\ (CreationWork(t) \/ DeletionWork(t) \/ CallWork(t))
  BY DEF BaseAsync, AsyncShape, WorkInv
<1>2. CASE Advances(t)
  <2>1. UNCHANGED <<heap, allObjects, msg, stub>>
    BY <1>2 DEF Advances
  <2>2. \/ CreationWork(t) /\ pc[t] = "enterInsert" /\ pc'[t] = "insert"
        \/ DeletionWork(t) /\ pc[t] \in {"process", "enterDelete"} /\ pc'[t] \in {"enterDelete", "delete"}
        \/ /\ CallWork(t) /\ pc[t] \in {"process", "enterFind", "invoke"}
           /\ pc'[t] \in {"enterFind", "find", "sleep"}
    BY <1>1, <1>2 DEF Advances, Goto, TypeOK
  <2> QED
    BY <2>1, <2>2, WorkFacts DEF OwnerEffect, Yields, Frees, Pending, BusyDeleting
<1>3. CASE Makes(t)
  <2>1. PICK b \in Address :
          /\ heap[b] = Free
          /\ heap' = [heap EXCEPT ![b] = GetFunctionParameter(msg[t], 1, EmptyArgument)]
          /\ stub' = [stub EXCEPT ![t] = b]
    BY <1>3 DEF Makes
  <2>2. /\ CreationWork(t) /\ pc[t] = "process" /\ pc'[t] = "enterInsert" /\ stub'[t] = b
        /\ UNCHANGED <<allObjects, msg>>
        /\ heap'[b] = GetFunctionParameter(msg[t], 1, EmptyArgument)
        /\ a # b => heap'[a] = heap[a]
    BY <1>1, <1>3, <2>1 DEF Makes, Goto, TypeOK
  <2> QED
    BY <2>1, <2>2, WorkFacts DEF OwnerEffect, Yields, Frees, Pending, BusyDeleting
<1>4. CASE Registers(t)
  <2>1. PICK m : Alike(m, msg[t]) /\ Finish(t, m)
    BY <1>4 DEF Registers
  <2>2. /\ CreationWork(t) /\ pc[t] = "insert" /\ pc'[t] = "done" /\ msg'[t] = m
        /\ allObjects' = allObjects \cup {stub[t]} /\ UNCHANGED <<heap, stub>>
    BY <1>1, <1>4, <2>1 DEF Registers, Finish, Goto, TypeOK
  <2>3. /\ Constructs(m) /\ ~IsDelete(m)
        /\ GetFunctionParameter(m, 1, EmptyArgument) = GetFunctionParameter(msg[t], 1, EmptyArgument)
    BY <2>1, <2>2, AlikeFacts, WorkFacts
  <2> QED
    BY <2>2, <2>3, WorkFacts DEF OwnerEffect, Yields, Frees, Pending, BusyDeleting
<1>5. CASE Finds(t)
  <2>1. CallWork(t) /\ pc'[t] = "invoke" /\ UNCHANGED <<heap, allObjects, msg>>
    BY <1>1, <1>5 DEF Finds, Goto, TypeOK
  <2> QED
    BY <2>1, WorkFacts DEF OwnerEffect, Yields, Frees, Pending, BusyDeleting, CallWork
<1>6. CASE Removes(t)
  <2>1. PICK m : Alike(m, msg[t]) /\ Finish(t, m)
    BY <1>6 DEF Removes
  <2>2. /\ DeletionWork(t) /\ pc[t] = "delete" /\ pc'[t] = "done" /\ msg'[t] = m
        /\ UNCHANGED <<allObjects, stub>>
    BY <1>1, <1>6, <2>1 DEF Removes, Finish, Goto, TypeOK
  <2>3. ~Constructs(m)
    BY <2>1, <2>2, AlikeFacts, WorkFacts
  <2>4. \/ /\ ObjectToDelete(msg[t]) \in allObjects
           /\ ObjectToDelete(msg[t]) = a => heap'[a] = Free
           /\ ObjectToDelete(msg[t]) # a => heap'[a] = heap[a]
        \/ ObjectToDelete(msg[t]) \notin allObjects /\ heap' = heap
    BY <1>1, <1>6 DEF Removes, TypeOK
  <2> QED
    BY <2>2, <2>3, <2>4, WorkFacts DEF OwnerEffect, Yields, Frees, Pending, BusyDeleting
<1>7. CASE AnswersCall(t)
  <2>1. PICK m : Alike(m, msg[t]) /\ Finish(t, m)
    BY <1>7 DEF AnswersCall
  <2>2. CallWork(t) /\ pc'[t] = "done" /\ msg'[t] = m /\ UNCHANGED <<heap, allObjects, stub>>
    BY <1>1, <1>7, <2>1 DEF AnswersCall, Finish, Goto, TypeOK
  <2>3. ~Constructs(m)
    BY <2>1, <2>2, AlikeFacts, WorkFacts
  <2> QED
    BY <2>2, <2>3, WorkFacts DEF OwnerEffect, Yields, Frees, Pending, BusyDeleting, CallWork
<1>8. CASE Perishes
  <2>1. UNCHANGED <<heap, allObjects, pc, msg, stub>>
    BY <1>8 DEF Perishes
  <2> QED
    BY <2>1 DEF OwnerEffect, Yields, Frees, Pending, BusyDeleting
<1> QED
  BY <1>2, <1>3, <1>4, <1>5, <1>6, <1>7, <1>8 DEF StepEffect

\* An object that a thread frees is had by the thread, or by the client that
\* waits for the deletion.
LEMMA FreedIsHad ==
  ASSUME BaseAsync, NEW t \in Thread, NEW a \in Address, Frees(t, a)
  PROVE  \/ ThreadHas(t, a) /\ ~Yields(t, a)
         \/ \E c \in Calculators :
              serving[c] = t /\ phase[c] = "deleting" /\ Has(c, 0, a)
<1>1. ~Yields(t, a) /\ DeletionWork(t) /\ BusyDeleting(t) /\ ObjectToDelete(msg[t]) = a
  BY WorkFacts DEF Frees, Yields, BusyDeleting, BaseAsync, WorkInv
<1>2. ASSUME NEW c \in Client, serving[c] = t
      PROVE  c \in Calculators /\ phase[c] = "deleting" /\ Has(c, 0, a)
  <2>1. Waiting(c) /\ c \in Calculators /\ Fits(c, msg[t])
    BY <1>2, ShapeFacts DEF BaseAsync, CallerInv
  <2>2. phase[c] = "deleting" /\ proxy[c] = a
    BY <1>1, <2>1, WorkFacts DEF Waiting, Fits, Creation, CallOf, CallsObject, Deletion
  <2>3. Has(c, 0, a)
    BY <1>1, <1>2, <2>2 DEF Has, Holds, BusyDeleting
  <2> QED
    BY <2>1, <2>2, <2>3
<1> QED
  BY <1>1, <1>2 DEF ThreadHas

\* A step of the thread t is no step of a client, but may end that a client
\* has an object.
LEMMA ServedHas ==
  ASSUME BaseAsync, BaseAsync', ClientsUnchanged, NEW t \in Thread,
         \A u \in Thread \ {t} : SameThread(u), BusyDeleting(t)' => BusyDeleting(t),
         NEW c \in Client, NEW i \in Nat, NEW a \in Address
  PROVE  /\ Has(c, i, a)' => Has(c, i, a)
         /\ Has(c, i, a) /\ ~Has(c, i, a)' => Frees(t, a) /\ ~BusyDeleting(t)'
         /\ Has(c, i, a)' /\ serving[c] = t /\ phase[c] = "deleting" /\ i = 0 => BusyDeleting(t)'
<1>1. /\ phase'[c] = phase[c] /\ proxy'[c] = proxy[c] /\ serving'[c] = serving[c]
      /\ handlers'[c] = handlers[c] /\ Handlers(c)' = Handlers(c)
  BY DEF ClientsUnchanged, Handlers
<1>2. CASE i # 0
  <2>1. Has(c, i, a)' <=> Has(c, i, a)
    BY <1>1, <1>2, SameHandlerHas
  <2> QED
    BY <1>2, <2>1
<1>3. CASE i = 0
  <2>1. /\ Has(c, i, a) <=> Holds(c) /\ proxy[c] = a
        /\ Has(c, i, a)' <=> Holds(c)' /\ proxy[c] = a
    BY <1>1, <1>3, HasFacts, NextHasFacts DEF BaseAsync
  <2>2. CASE phase[c] = "deleting" /\ serving[c] = t
    <3>1. (Holds(c) <=> BusyDeleting(t)) /\ (Holds(c)' <=> BusyDeleting(t)')
      BY <1>1, <2>2, DistinctAssumption DEF Holds, BusyDeleting
    <3>2. Fits(c, msg[t])
      BY <2>2, DistinctAssumption DEF BaseAsync, CallerInv
    <3>3. BusyDeleting(t) /\ proxy[c] = a => Frees(t, a)
      BY <2>2, <3>2 DEF Fits, Deletion, Frees, BusyDeleting
    <3> QED
      BY <2>1, <3>1, <3>3
  <2>3. CASE ~(phase[c] = "deleting" /\ serving[c] = t)
    <3>1. serving[c] # NoThread => serving[c] \in Thread
      BY ShapeFacts DEF BaseAsync
    <3>2. Holds(c)' <=> Holds(c)
      BY <1>1, <2>3, <3>1 DEF Holds, SameThread
    <3> QED
      BY <2>1, <2>3, <3>2
  <2> QED
    BY <2>2, <2>3
<1> QED
  BY <1>2, <1>3

\* A value is found and read.
LEMMA ServedValue ==
  ASSUME BaseAsync, BaseAsync', ClientsUnchanged, NEW t \in Thread, StepEffect(t),
         NEW c \in Client, NEW i \in Handlers(c), handlers[c][i].at = "read",
         handlers[c][i].thread = t, ValueRead(c, i),
         c \notin Calculators => \A m : Points(c, m) => (Points(c, m))'
  PROVE  ValueRead(c, i)'
<1>1. /\ handlers'[c][i] = handlers[c][i] /\ sent' = sent /\ TypeOK /\ HandlerInv(c, i)
      /\ (SendsValue(c, i)' <=> SendsValue(c, i))
  BY DEF ClientsUnchanged, BaseAsync, AsyncShape, SendsValue
<1> SUFFICES ASSUME c \notin Calculators, ~SendsValue(c, i)
             PROVE  \/ pc'[t] \in {"process", "enterFind", "find", "invoke"} /\ Points(c, msg[t])'
                    \/ pc'[t] = "done" /\ LastFunctionParameter(msg'[t]) = sent[c]
  BY <1>1 DEF ValueRead
<1>2. \/ pc[t] \in {"process", "enterFind", "find", "invoke"} /\ Points(c, msg[t])
      \/ pc[t] = "done" /\ LastFunctionParameter(msg[t]) = sent[c]
  BY DEF ValueRead
<1>3. CallsObject(msg[t]) /\ pc[t] # "idle"
  BY <1>1, <1>2 DEF HandlerInv, Concerns
<1>4. CallWork(t)
  BY <1>3, WorkFacts DEF BaseAsync, WorkInv, CallsObject
<1>5. sent[c] \in Value
  BY ShapeFacts DEF BaseAsync
<1>6. pc[t] = "invoke" => heap[stub[t]] = sent[c] /\ Len(msg[t]) = 3
  BY <1>2, <1>4 DEF CallWork, Points
<1>7. CASE Advances(t)
  <2>1. \/ pc[t] = "process" /\ Goto(t, "enterFind")
        \/ pc[t] = "enterFind" /\ Goto(t, "find")
    BY <1>4, <1>5, <1>6, <1>7, WorkFacts DEF Advances
  <2>2. pc'[t] \in {"enterFind", "find"} /\ msg' = msg /\ Points(c, msg[t])
    BY <1>1, <1>2, <1>7, <2>1 DEF Advances, Goto, TypeOK
  <2> QED
    BY <2>2
<1>8. CASE Finds(t)
  <2>1. pc'[t] = "invoke" /\ msg' = msg /\ Points(c, msg[t])
    BY <1>1, <1>2, <1>8 DEF Finds, Goto, TypeOK
  <2> QED
    BY <2>1
<1>9. CASE AnswersCall(t)
  <2>1. pc[t] = "invoke"
    BY <1>2, <1>9 DEF AnswersCall, Points
  <2>2. PICK m : LastFunctionParameter(m) = heap[stub[t]] /\ Finish(t, m)
    BY <1>5, <1>6, <1>9, <2>1 DEF AnswersCall
  <2>3. pc'[t] = "done" /\ msg'[t] = m
    BY <1>1, <2>2 DEF Finish, Goto, TypeOK
  <2> QED
    BY <1>6, <2>1, <2>2, <2>3
<1>10. CASE Perishes
  <2>1. UNCHANGED <<heap, allObjects, pc, msg>>
    BY <1>10 DEF Perishes
  <2> QED
    BY <1>2, <2>1
<1> QED
  BY <1>4, <1>7, <1>8, <1>9, <1>10, WorkFacts DEF StepEffect, Makes, Registers, Removes

\* What a thread makes it has, and what it frees nobody else has.
LEMMA ServeKeepsOwners ==
  ASSUME BaseAsync, BaseAsync', AccountInv, OwnInv, NEW t \in Thread, Synchronously(Serve(t))
  PROVE  AccountInv' /\ OwnInv'
<1>1. /\ StepEffect(t) /\ pc[t] # "idle" /\ ClientsUnchanged /\ UNCHANGED <<stale, orphaned>>
      /\ \A u \in Thread \ {t} : SameThread(u)
  <2>1. TypeOK /\ WorkInv(t) /\ Step(t)
    BY DEF BaseAsync, AsyncShape, Synchronously, Serve
  <2>2. StepEffect(t) /\ csOwner' \in Thread \cup {NoThread} /\ pc[t] # "idle"
    BY <2>1, StepHasEffect
  <2>3. ClientsUnchanged /\ UNCHANGED <<stale, orphaned>>
    BY DEF ClientsUnchanged, Synchronously, Serve, clientVars, asyncVars, faultVars
  <2> QED
    BY <2>1, <2>2, <2>3, EffectOnTypes
<1>2. \A a \in Address : OwnerEffect(t, a)
  BY <1>1, EffectOnOwners
<1>3. ASSUME NEW c \in Client, NEW i \in Nat, NEW a \in Address
      PROVE  /\ Has(c, i, a)' => Has(c, i, a)
             /\ Has(c, i, a) /\ ~Has(c, i, a)' => Frees(t, a) /\ ~BusyDeleting(t)'
             /\ Has(c, i, a)' /\ serving[c] = t /\ phase[c] = "deleting" /\ i = 0 => BusyDeleting(t)'
  BY <1>1, <1>2, ServedHas DEF OwnerEffect
<1>4. \A u \in Thread \ {t} : \A a :
        /\ Yields(u, a)' <=> Yields(u, a)
        /\ Frees(u, a)' <=> Frees(u, a)
        /\ Pending(u)' <=> Pending(u)
  BY <1>1, SameThreadHas
<1>5. AccountInv'
  <2>1. ASSUME NEW a \in Address, heap'[a] # Free, Frees(t, a)
        PROVE  Accounted(a)'
    <3>1. CASE Yields(t, a)' \/ Frees(t, a)'
      BY <3>1 DEF Accounted
    <3>2. CASE ~Yields(t, a)' /\ ~Frees(t, a)'
      <4>1. a \notin allObjects /\ pc[t] = "delete" /\ heap[a] # Free
        BY <1>2, <2>1, <3>2 DEF OwnerEffect
      <4>2. PICK u \in Thread : Pending(u) /\ stub[u] = a
        BY <4>1 DEF AccountInv, Collected
      <4>3. u # t /\ Yields(u, a)
        BY <4>1, <4>2, WorkFacts
           DEF Pending, Yields, BaseAsync, WorkInv, CreationWork, DeletionWork, CallWork
      <4> QED
        BY <1>4, <4>3 DEF Accounted
    <3> QED
      BY <3>1, <3>2
  <2>2. ASSUME NEW a \in Address, heap'[a] # Free
        PROVE  /\ \A u \in Thread : Yields(u, a) \/ Frees(u, a) => Accounted(a)'
               /\ \A d \in Client : \A i \in Nat : Has(d, i, a) => Accounted(a)'
               /\ \A u \in Thread : Pending(u) /\ stub[u] = a => Collected(a)'
    <3>1. \A u \in Thread : Yields(u, a) \/ Frees(u, a) => Accounted(a)'
      <4>1. Yields(t, a) => Accounted(a)'
        BY <1>2 DEF Accounted, OwnerEffect
      <4>2. \A u \in Thread \ {t} : Yields(u, a) \/ Frees(u, a) => Accounted(a)'
        BY <1>4 DEF Accounted
      <4> QED
        BY <2>1, <2>2, <4>1, <4>2
    <3>2. ASSUME NEW d \in Client, NEW i \in Nat, Has(d, i, a)
          PROVE  Accounted(a)'
      <4>1. CASE Has(d, i, a)'
        BY <4>1 DEF Accounted
      <4>2. CASE ~Has(d, i, a)'
        BY <1>3, <2>1, <2>2, <3>2, <4>2
      <4> QED
        BY <4>1, <4>2
    <3>3. \A u \in Thread : Pending(u) /\ stub[u] = a => Collected(a)'
      BY <1>1, <1>2, <1>4 DEF Collected, SameThread, OwnerEffect
    <3> QED
      BY <3>1, <3>2, <3>3
  <2>3. ASSUME NEW a \in Address, heap'[a] # Free, heap[a] = Free
        PROVE  Accounted(a)' /\ Collected(a)'
    <3>1. Yields(t, a)' /\ Pending(t)' /\ stub'[t] = a
      BY <1>2, <2>3 DEF OwnerEffect
    <3> QED
      BY <3>1 DEF Accounted, Collected
  <2>4. allObjects \subseteq allObjects' /\ orphaned \subseteq orphaned'
    <3>1. ASSUME NEW b \in allObjects PROVE b \in allObjects'
      <4>1. b \in Address
        BY DEF BaseAsync, AsyncShape, TypeOK
      <4> QED
        BY <1>2, <4>1 DEF OwnerEffect
    <3> QED
      BY <1>1, <3>1
  <2> QED
    BY <2>2, <2>3, <2>4, AccountKept
<1>6. ASSUME ~stale PROVE OwnOK'
  <2>1. OwnOK
    BY <1>6 DEF OwnInv
  <2>2. \A a \in Address : heap[a] = Free =>
          /\ \A u \in Thread : ~ThreadHas(u, a)
          /\ \A c \in Client : \A i \in Nat : ~Has(c, i, a)
    BY <2>1, HadIsLive
  <2>3. ASSUME NEW a \in Address
        PROVE  /\ \A u, v \in Thread : ThreadHas(u, a) /\ ThreadHas(v, a) => u = v
               /\ \A u \in Thread : \A d \in Client : \A i \in Nat : ThreadHas(u, a) => ~Has(d, i, a)
               /\ \A d, e \in Client : \A i, j \in Nat : Has(d, i, a) /\ Has(e, j, a) => d = e /\ i = j
    BY <2>1 DEF OwnOK, Exclusive
  <2>4. ASSUME NEW a \in Address, heap'[a] # heap[a], heap[a] # Free
        PROVE  /\ Frees(t, a) /\ pc'[t] = "done" /\ heap[a] = Calculator
               /\ \/ ThreadHas(t, a)
                  \/ \E c \in Client : serving[c] = t /\ phase[c] = "deleting" /\ Has(c, 0, a)
    <3>1. Frees(t, a) /\ pc'[t] = "done"
      BY <1>2, <2>4 DEF OwnerEffect
    <3>2. CASE ThreadHas(t, a) /\ ~Yields(t, a)
      <4>1. ThreadContent(t, a)
        BY <2>1 DEF OwnOK, ContentOK
      <4> QED
        BY <3>1, <3>2, <4>1 DEF ThreadContent
    <3>3. ASSUME NEW c \in Calculators, serving[c] = t, phase[c] = "deleting", Has(c, 0, a)
          PROVE  heap[a] = Calculator /\ c \in Client
      <4>1. c \in Client /\ ClientContent(c, 0, a)
        BY <2>1, ClientAssumption, 0 \in Nat DEF OwnOK, ContentOK
      <4> QED
        BY <3>3, <4>1 DEF ClientContent, OwnContent
    <3> QED
      BY <3>1, <3>2, <3>3, FreedIsHad
  <2>5. ASSUME NEW a \in Address, NEW u \in Thread \ {t}, ThreadHas(u, a)
        PROVE  heap'[a] = heap[a]
    <3>1. heap[a] # Free /\ ~ThreadHas(t, a) /\ \A c \in Client : ~Has(c, 0, a)
      BY <2>2, <2>3, <2>5, 0 \in Nat
    <3> QED
      BY <2>4, <3>1
  <2>6. ASSUME NEW a \in Address, NEW c \in Client, NEW i \in Nat, Has(c, i, a)'
        PROVE  Has(c, i, a) /\ heap'[a] = heap[a]
    <3>1. Has(c, i, a) /\ heap[a] # Free /\ ~ThreadHas(t, a)
      BY <1>3, <2>2, <2>3, <2>6
    <3>2. ASSUME NEW d \in Client, serving[d] = t, phase[d] = "deleting", Has(d, 0, a), pc'[t] = "done"
          PROVE  FALSE
      <4>1. d = c /\ i = 0
        BY <2>3, <3>1, <3>2, 0 \in Nat
      <4>2. BusyDeleting(t)'
        BY <1>3, <2>6, <3>2, <4>1
      <4> QED
        BY <3>2, <4>2 DEF BusyDeleting
    <3> QED
      BY <2>4, <3>1, <3>2
  <2>7. ASSUME NEW a \in Address
        PROVE  ThreadHas(t, a)' => ThreadHas(t, a) \/ heap[a] = Free
    BY <1>1, <1>2 DEF OwnerEffect, ThreadHas, ClientsUnchanged
  <2>8. ASSUME NEW a \in Address
        PROVE  ThreadContent(t, a)'
    <3>1. ThreadContent(t, a) /\ OwnerEffect(t, a)
      BY <1>2, <2>1 DEF OwnOK, ContentOK
    <3>2. CASE Yields(t, a)' /\ Yields(t, a)
      <4>1. ThreadHas(t, a) /\ heap[a] # Free /\ ~Frees(t, a)
        BY <2>2, <3>2 DEF ThreadHas, Yields, Frees
      <4>2. heap'[a] = heap[a]
        BY <2>4, <4>1
      <4> QED
        BY <3>1, <3>2, <4>2 DEF ThreadContent, OwnerEffect
    <3>3. CASE Yields(t, a)' /\ ~Yields(t, a)
      BY <3>1, <3>3 DEF ThreadContent, OwnerEffect
    <3>4. CASE ~Yields(t, a)' /\ ThreadHas(t, a)'
      <4>1. Frees(t, a)' /\ pc'[t] # "done" /\ ThreadHas(t, a) /\ ~Yields(t, a)
        BY <1>1, <3>1, <3>4 DEF ThreadHas, Frees, Yields, OwnerEffect, ClientsUnchanged
      <4>2. heap'[a] = heap[a]
        BY <2>2, <2>4, <4>1
      <4> QED
        BY <3>1, <3>4, <4>1, <4>2 DEF ThreadContent
    <3>5. CASE ~ThreadHas(t, a)'
      BY <3>5 DEF ThreadContent, ThreadHas
    <3> QED
      BY <3>2, <3>3, <3>4, <3>5
  <2>9. allObjects \subseteq allObjects'
    <3>1. ASSUME NEW b \in allObjects PROVE b \in allObjects'
      <4>1. b \in Address
        BY DEF BaseAsync, AsyncShape, TypeOK
      <4> QED
        BY <1>2, <4>1 DEF OwnerEffect
    <3> QED
      BY <3>1
  <2>10. ASSUME NEW c \in Client \ Calculators, NEW m, Points(c, m)
         PROVE  (Points(c, m))'
    <3>1. sent[c] \in Value
      BY ShapeFacts DEF BaseAsync
    <3>2. heap[GetObjectId(m)] = sent[c] /\ sent[c] # Free /\ sent[c] # Calculator
      BY <2>10, <3>1, ClientAssumption, DistinctAssumption DEF Points, Content
    <3>3. heap'[GetObjectId(m)] = heap[GetObjectId(m)]
      BY <2>4, <2>10, <3>2 DEF Points
    <3> QED
      BY <1>1, <2>9, <2>10, <3>3 DEF Points, ClientsUnchanged
  <2>11. ASSUME NEW c \in Client, NEW i \in Handlers(c), handlers[c][i].at = "read", handlers[c][i].thread = t
         PROVE  ValueRead(c, i)'
    BY <1>1, <2>1, <2>10, <2>11, ServedValue DEF OwnOK
  <2> QED
    BY <1>1, <2>1, <2>5, <2>6, <2>7, <2>8, <2>9, <2>10, <2>11, ThreadStepKeepsOwn
<1> QED
  BY <1>1, <1>5, <1>6 DEF OwnInv
------------------------------------------------------------------------------
\* The server ends, or nothing happens.
LEMMA StayKeepsOwners ==
  ASSUME AccountInv, OwnInv, ClientsUnchanged,
         UNCHANGED <<heap, allObjects, pc, msg, stub, stale, orphaned>>
  PROVE  AccountInv' /\ OwnInv'
<1>1. \A t, a : /\ Yields(t, a)' <=> Yields(t, a)
                /\ Frees(t, a)' <=> Frees(t, a)
                /\ ThreadHas(t, a)' <=> ThreadHas(t, a)
                /\ Pending(t)' <=> Pending(t)
  BY DEF Yields, Frees, ThreadHas, Pending, ClientsUnchanged
<1>2. \A c, i, a : Has(c, i, a)' <=> Has(c, i, a)
  BY DEF Has, Holds, Handlers, ClientsUnchanged
<1>3. AccountInv'
  BY <1>1, <1>2 DEF AccountInv, Accounted, Collected
<1>4. ASSUME ~stale PROVE OwnOK'
  <2>1. OwnOK
    BY <1>4 DEF OwnInv
  <2>2. ContentOK'
    BY <1>1, <1>2, <2>1
       DEF OwnOK, ContentOK, ThreadContent, ClientContent, OwnContent, ClientsUnchanged
  <2>3. Exclusive'
    BY <1>1, <1>2, <2>1 DEF OwnOK, Exclusive
  <2>4. \A c \in Client : \A i \in Handlers(c)' : ValueRead(c, i)'
    BY <2>1 DEF OwnOK, ValueRead, Points, SendsValue, Handlers, ClientsUnchanged
  <2> QED
    BY <2>2, <2>3, <2>4 DEF OwnOK
<1> QED
  BY <1>3, <1>4 DEF OwnInv

LEMMA CrashKeepsOwners == AccountInv /\ OwnInv /\ Crash => AccountInv' /\ OwnInv'
<1> SUFFICES ASSUME AccountInv, OwnInv, Crash PROVE AccountInv' /\ OwnInv'
  OBVIOUS
<1>1. ClientsUnchanged /\ UNCHANGED <<heap, allObjects, pc, msg, stub, stale, orphaned>>
  BY DEF Crash, ClientsUnchanged, clientVars, asyncVars
<1> QED
  BY <1>1, StayKeepsOwners

\* A server that starts has no object, and unless a handle was carried over
\* nobody believes to have one.
LEMMA RestartKeepsOwners ==
  ASSUME BaseAsync, BaseAsync', AccountInv, OwnInv, Restart
  PROVE  AccountInv' /\ OwnInv'
<1>1. /\ \A a \in Address : heap'[a] = Free
      /\ \A t \in Thread : pc'[t] = "idle"
      /\ UNCHANGED <<phase, proxy, sent, handlers>>
  BY DEF Restart, asyncVars
<1>2. AccountInv'
  BY <1>1 DEF AccountInv
<1> SUFFICES ASSUME ~stale' PROVE OwnOK'
  BY <1>2 DEF OwnInv
<1>3. /\ ~stale
      /\ \A c \in Client :
           /\ proxy[c] = NullHandle
           /\ \A i \in Handlers(c) :
                /\ handlers[c][i].at = "open" => IsGlobal(handlers[c][i].request)
                /\ handlers[c][i].at # "callback"
  BY DEF Restart
<1>4. \A c \in Client : \A i \in Handlers(c) : handlers[c][i].at # "read"
  BY ReadingHandler DEF Restart, ReadBy
<1>5. \A t \in Thread : \A a : ~ThreadHas(t, a)'
  BY <1>1, RestingThread
<1>6. ASSUME NEW c \in Client, NEW i \in Nat, NEW a PROVE ~Has(c, i, a)'
  <2>1. phase[c] \notin {"ready", "calling", "deleting"}
    BY <1>3, DistinctAssumption DEF BaseAsync, CallerInv
  <2> QED
    BY <1>1, <1>3, <2>1 DEF Has, Holds, Handlers
<1>7. ASSUME NEW c \in Client, NEW i \in Handlers(c)'
      PROVE  ValueRead(c, i)'
  <2>1. i \in Handlers(c) /\ handlers'[c][i] = handlers[c][i] /\ sent' = sent
    BY <1>1 DEF Handlers
  <2>2. ValueRead(c, i)
    BY <1>3, <2>1 DEF OwnInv, OwnOK
  <2> QED
    BY <1>3, <1>4, <2>1, <2>2 DEF ValueRead, SendsValue
<1> QED
  BY <1>5, <1>6, <1>7 DEF OwnOK, ContentOK, Exclusive, ThreadContent, ThreadHas, ClientContent

LEMMA OwnersInit == AsyncInit => AccountInv /\ OwnInv
<1> SUFFICES ASSUME AsyncInit PROVE AccountInv /\ OwnInv
  OBVIOUS
<1>1. /\ \A a \in Address : heap[a] = Free
      /\ \A t \in Thread : pc[t] = "idle"
      /\ \A c \in Client : phase[c] = "out" /\ Handlers(c) = {}
  BY DEF AsyncInit, ClientInit, Init, Handlers
<1>2. \A t \in Thread : \A a : ~ThreadHas(t, a) /\ ~Yields(t, a)
  BY <1>1 DEF ThreadHas, Yields, Frees
<1>3. \A c \in Client : \A i \in Nat : \A a : ~Has(c, i, a)
  BY <1>1 DEF Has, Holds
<1>4. OwnOK
  BY <1>1, <1>2, <1>3 DEF OwnOK, ContentOK, Exclusive, ThreadContent, ClientContent
<1> QED
  BY <1>1, <1>4 DEF AccountInv, OwnInv
------------------------------------------------------------------------------
LEMMA OwnersStep ==
  BaseAsync /\ BaseAsync' /\ AccountInv /\ OwnInv /\ [AsyncNext]_asyncAllVars
    => AccountInv' /\ OwnInv'
<1> SUFFICES ASSUME BaseAsync, BaseAsync', AccountInv, OwnInv, [AsyncNext]_asyncAllVars
             PROVE  AccountInv' /\ OwnInv'
  OBVIOUS
<1>1. CASE UNCHANGED asyncAllVars
  <2>1. ClientsUnchanged /\ UNCHANGED <<heap, allObjects, pc, msg, stub, stale, orphaned>>
    BY <1>1 DEF ClientsUnchanged, asyncAllVars, allVars, vars, clientVars, asyncVars, faultVars
  <2> QED
    BY <2>1, StayKeepsOwners
<1>2. ASSUME NEW c \in Client, Invokes(c)
      PROVE  AccountInv' /\ OwnInv'
  BY <1>2, CreateStubKeepsOwners, AsyncCallsKeepOwners, LeaveScopeKeepsOwners, CallsKeepOwners
     DEF Invokes
<1>3. ASSUME NEW c \in Client, Destructor(c) \/ Kill(c)
      PROVE  AccountInv' /\ OwnInv'
  BY <1>3, ClosePipeKeepsOwners, WaitKeepsOwners, KillKeepsOwners DEF Destructor
<1>4. ASSUME NEW c \in Client, Synchronously(Transfer(c)) \/ Synchronously(Finishes(c))
      PROVE  AccountInv' /\ OwnInv'
  <2>1. \/ Synchronously(Deliver(c)) \/ Synchronously(NotServed(c))
        \/ Synchronously(Answered(c)) \/ Synchronously(Disconnected(c))
    BY <1>4 DEF Synchronously, Transfer, Finishes
  <2> QED
    BY <2>1, DeliverKeepsOwners, AnsweredKeepsOwners, FailsKeepOwners
<1>5. ASSUME NEW c \in Client, NEW i \in Handlers(c), HandlerThread(c, i)
      PROVE  AccountInv' /\ OwnInv'
  BY <1>5, AsyncDeliverKeepsOwners, AsyncFailsKeepsOwners, AsyncAnsweredKeepsOwners,
     CallbackKeepsOwners DEF HandlerThread
<1>6. ASSUME NEW t \in Thread, ServerThread(t)
      PROVE  AccountInv' /\ OwnInv'
  BY <1>6, ServeKeepsOwners, DiscardKeepsOwners DEF ServerThread
<1> QED
  BY <1>1, <1>2, <1>3, <1>4, <1>5, <1>6, CrashKeepsOwners, RestartKeepsOwners DEF AsyncNext

\* The inductive invariant.
THEOREM AsyncInvHolds == AsyncSpec => []AsyncIInv
<1>1. AsyncInit => AsyncIInv
  BY BaseAsyncInit, OwnersInit DEF AsyncIInv
<1>2. AsyncIInv /\ [AsyncNext]_asyncAllVars => AsyncIInv'
  <2>1. BaseAsync /\ AccountInv /\ OwnInv /\ [AsyncNext]_asyncAllVars => BaseAsync'
    BY BaseAsyncStep
  <2>2. BaseAsync /\ AccountInv /\ OwnInv /\ [AsyncNext]_asyncAllVars => AccountInv' /\ OwnInv'
    BY <2>1, OwnersStep
  <2> QED
    BY <2>1, <2>2 DEF AsyncIInv
<1> QED
  BY <1>1, <1>2, PTL DEF AsyncSpec
------------------------------------------------------------------------------
\* Every variable has a value of its type, and a handler reads exactly while
\* its thread is in SendRequest (ClientMessageHandler.h:103-130).
THEOREM AsyncTypesCorrect == AsyncSpec => []AsyncTypeOK
<1>1. AsyncIInv => AsyncTypeOK
  <2> SUFFICES ASSUME AsyncIInv PROVE AsyncTypeOK
    OBVIOUS
  <2>1. BaseAsync /\ AsyncShape
    BY DEF AsyncIInv, BaseAsync
  <2>2. /\ DOMAIN handlers = Client /\ DOMAIN stopped = Client /\ DOMAIN closed = Client
        /\ \A c \in Client : closed[c] \in BOOLEAN /\ Handlers(c) = 1 .. Len(handlers[c])
    BY <2>1, ShapeFacts DEF AsyncShape
  <2>3. \A c \in Client : stopped[c] \in 0 .. Len(handlers[c])
    BY <2>1, ShapeFacts DEF BaseAsync, StoppedInv
  <2>4. ASSUME NEW c \in Client, NEW i \in Handlers(c)
        PROVE  LET h == handlers[c][i]
               IN /\ h.at \in Gone \cup {"open", "read", "callback"}
                  /\ h.request \in Seq(Argument) /\ h.response \in Seq(Argument)
                  /\ h.error \in {ERROR_SUCCESS} \cup TransportError
                  /\ h.thread \in IF h.at = "read" THEN Thread ELSE {NoThread}
    <3>1. handlers[c][i] \in HandlerRecord /\ HandlerInv(c, i)
      BY <2>1, HandlerRecordFacts
    <3> QED
      BY <3>1 DEF HandlerRecord, HandlerLabels, Errors, HandlerInv
  <2> QED
    BY <2>1, <2>2, <2>3, <2>4 DEF AsyncTypeOK, AsyncShape
<1> QED
  BY <1>1, AsyncInvHolds, PTL

\* What a client holds is its own, registered and live.
LEMMA ClientsHaveObjects ==
  ASSUME AsyncIInv, ~stale, NEW c \in Client, Holds(c)
  PROVE  /\ proxy[c] \in Address /\ Has(c, 0, proxy[c])
         /\ proxy[c] \in allObjects /\ heap[proxy[c]] = OwnContent(c)
<1>1. proxy[c] \in Address
  BY DEF AsyncIInv, BaseAsync, CallerInv, Holds
<1>2. Has(c, 0, proxy[c])
  BY DEF Has
<1>3. ClientContent(c, 0, proxy[c])
  BY <1>1, 0 \in Nat DEF AsyncIInv, OwnInv, OwnOK, ContentOK
<1> QED
  BY <1>1, <1>2, <1>3 DEF ClientContent

\* A handle stands for the client's own object and for nobody else's, with
\* calls in the background, clients that are killed and servers that start
\* again (CalculatorClient.h:29, ObjectManager.cpp:116).
THEOREM HandlesStandForOwn == AsyncSpec => []HandlesStandForOwnObjects
<1>1. AsyncIInv => HandlesStandForOwnObjects
  <2> SUFFICES ASSUME AsyncIInv PROVE HandlesStandForOwnObjects
    OBVIOUS
  <2> SUFFICES ASSUME ~stale PROVE ProxyOwnsObject /\ OwnershipIsExclusive
    BY DEF HandlesStandForOwnObjects
  <2>1. ProxyOwnsObject
    BY ClientsHaveObjects DEF ProxyOwnsObject
  <2>2. ASSUME NEW c \in Client, NEW d \in Client, Holds(c), Holds(d), proxy[c] = proxy[d]
        PROVE  c = d
    <3>1. proxy[c] \in Address /\ Has(c, 0, proxy[c]) /\ Has(d, 0, proxy[c])
      BY <2>2, ClientsHaveObjects
    <3> QED
      BY <3>1, 0 \in Nat DEF AsyncIInv, OwnInv, OwnOK, Exclusive
  <2> QED
    BY <2>1, <2>2 DEF OwnershipIsExclusive
<1> QED
  BY <1>1, AsyncInvHolds, PTL

\* A call somebody waits for is not overtaken by a deletion
\* (ObjectManager.cpp:78, CalculatorClient.h:36).
THEOREM AwaitedCallsAreSafe == AsyncSpec => []AwaitedCallsReachLiveObjects
<1>1. AsyncIInv => AwaitedCallsReachLiveObjects
  <2> SUFFICES ASSUME AsyncIInv PROVE AwaitedCallsReachLiveObjects
    OBVIOUS
  <2> SUFFICES ASSUME NEW c \in Client, ~stale, serving[c] # NoThread, pc[serving[c]] = "invoke"
               PROVE  heap[stub[serving[c]]] # Free
    BY DEF AwaitedCallsReachLiveObjects
  <2>1. PICK t \in Thread : t = serving[c] /\ pc[t] = "invoke"
    BY ShapeFacts DEF AsyncIInv, BaseAsync
  <2>2. CallWork(t) /\ stub[t] = GetObjectId(msg[t])
    BY <2>1 DEF AsyncIInv, BaseAsync, WorkInv, CreationWork, DeletionWork, CallWork
  <2>3. Waiting(c) /\ Fits(c, msg[t])
    BY <2>1 DEF AsyncIInv, BaseAsync, CallerInv
  <2>4. phase[c] = "calling" /\ stub[t] = proxy[c]
    BY <2>2, <2>3, WorkFacts DEF Waiting, Fits, Creation, CallOf, CallsObject, Deletion
  <2>5. heap[proxy[c]] = OwnContent(c)
    BY <2>4, ClientsHaveObjects DEF Holds
  <2>6. OwnContent(c) \in Content
    BY ShapeFacts DEF AsyncIInv, BaseAsync, OwnContent, Content
  <2> QED
    BY <2>1, <2>4, <2>5, <2>6, DistinctAssumption
<1> QED
  BY <1>1, AsyncInvHolds, PTL

\* An object without an owner is one whose handle was lost or whose deletion
\* failed.
THEOREM NoObjectIsForgotten == AsyncSpec => []ObjectsAreAccountedFor
<1>1. AsyncIInv => ObjectsAreAccountedFor
  <2> SUFFICES ASSUME AsyncIInv PROVE ObjectsAreAccountedFor
    OBVIOUS
  <2>1. ASSUME NEW a \in Address, heap[a] # Free
        PROVE  Accounted(a)
    BY <2>1 DEF AsyncIInv, AccountInv
  <2>2. ASSUME NEW a, NEW t \in Thread, Frees(t, a)
        PROVE  Deleting(a)
    BY <2>2 DEF Frees, Deleting
  <2> QED
    BY <2>1, <2>2 DEF ObjectsAreAccountedFor, Accounted, Yields, Has
<1> QED
  BY <1>1, AsyncInvHolds, PTL

\* A callback that is told of success has the response to its own request, and
\* is given the handle of its own object or the value sent to it
\* (ClientMessageHandler.h:103-130).
THEOREM CallbacksHearTheirAnswers == AsyncSpec => []CallbackHearsItsAnswer
<1>1. AsyncIInv => CallbackHearsItsAnswer
  <2> SUFFICES ASSUME AsyncIInv, NEW c \in Client, NEW i \in Handlers(c), ~stale,
                      handlers[c][i].at \in {"callback", "ended"},
                      handlers[c][i].error = ERROR_SUCCESS
               PROVE  LET h == handlers[c][i]
                          o == LastFunctionParameter(h.response)
                      IN /\ SameRequest(h.response, h.request)
                         /\ c \notin Calculators /\ SendsValue(c, i) =>
                              o \in Address /\ (h.at = "callback" => heap[o] = sent[c])
                         /\ c \notin Calculators /\ ~SendsValue(c, i) => o = sent[c]
    BY DEF CallbackHearsItsAnswer, SendsValue, SameRequest
  <2> DEFINE h == handlers[c][i]
             o == LastFunctionParameter(h.response)
  <2>1. BaseAsync /\ HandlerInv(c, i) /\ h.response # <<>> /\ Concerns(c, i, h.response)
    BY DEF AsyncIInv, BaseAsync, HandlerInv
  <2>2. ASSUME SendsValue(c, i), c \notin Calculators
        PROVE  o \in Address /\ (h.at = "callback" => heap[o] = sent[c])
    <3>1. o \in Address /\ Brought(h.response) = {o}
      BY <2>1, <2>2, BroughtFacts
    <3>2. h.at = "callback" => Has(c, i, o)
      BY <3>1 DEF Has
    <3>3. ClientContent(c, i, o)
      BY <2>1, <3>1, ShapeFacts DEF AsyncIInv, OwnInv, OwnOK, ContentOK, BaseAsync
    <3> QED
      BY <2>2, <3>1, <3>2, <3>3 DEF ClientContent, OwnContent
  <2>3. c \notin Calculators /\ ~SendsValue(c, i) => o = sent[c]
    BY DEF AsyncIInv, OwnInv, OwnOK, ValueRead
  <2> QED
    BY <2>1, <2>2, <2>3 DEF Concerns
<1> QED
  BY <1>1, AsyncInvHolds, PTL

\* The handlers ~RPCClient has stopped have no thread left
\* (RPCClient.cpp:18-22, ClientMessageHandler.cpp:66).
THEOREM NoCallbackAfterClient == AsyncSpec => []CallbacksEndWithClient
<1>1. AsyncIInv => CallbacksEndWithClient
  BY DEF AsyncIInv, BaseAsync, StoppedInv, CallbacksEndWithClient
<1> QED
  BY <1>1, AsyncInvHolds, PTL
==============================================================================
