--------------------------- MODULE ClientStubProofs ---------------------------
(***************************************************************************)
(* The composition of clients and server for any number of clients,        *)
(* threads, addresses and requests: synchronous calls keep every object    *)
(* with the client that created it, which is what the server relies on     *)
(* when it follows, and frees, the pointers the clients send.              *)
(*                                                                         *)
(* The inductive invariant pairs clients with the threads that serve them  *)
(* (ServingInv), follows a request from the client through its thread      *)
(* (RequestInv, PlaceInv, ResponseInv), and says whose the objects are     *)
(* (ContentInv, OwnerInv).                                                 *)
(***************************************************************************)
EXTENDS ClientStub, ObjectManagerProofs

\* What the requests of a client, and the responses to them, say.
IsMessage(m) == m \in Seq(Argument) /\ Len(m) >= 3
Creation(c, m) ==
  /\ IsMessage(m) /\ Constructs(m)
  /\ GetFunctionParameter(m, 1, EmptyArgument) = OwnContent(c)
Deletion(c, m) ==
  IsMessage(m) /\ IsDelete(m) /\ ObjectToDelete(m) = proxy[c]
MethodCall(c, m) ==
  /\ IsMessage(m) /\ ~IsGlobal(m) /\ GetObjectId(m) = proxy[c]
  /\ c \in Calculators => GetDispId(m) \in Methods
Success(m) == IsMessage(m) /\ GetErrorCode(m) = ERROR_SUCCESS
CallAnswer(c, m) ==
  Success(m) /\ (c \notin Calculators => \A x : GetFunctionParameter(m, 1, x) = sent[c])

\* A client that waits has a request under way, of the kind it waits for.
Waiting(c) == phase[c] \in {"creating", "calling", "deleting"}
RequestInv(c) ==
  /\ Waiting(c) <=> request[c] # <<>>
  /\ phase[c] = "creating" => Creation(c, request[c])
  /\ phase[c] = "calling" => MethodCall(c, request[c])
  /\ phase[c] = "deleting" => Deletion(c, request[c])
  /\ phase[c] \in {"ready", "calling", "deleting"} => proxy[c] \in Address

\* Where a thread can be on behalf of a client.
Place(c) ==
  CASE phase[c] = "creating" -> {"process", "enterInsert", "insert", "done"}
    [] phase[c] = "calling"  -> {"process", "enterFind", "find", "invoke", "sleep", "done"}
    [] phase[c] = "deleting" -> {"process", "enterDelete", "delete", "done"}
    [] OTHER                 -> {}
PlaceInv(c) ==
  serving[c] # NoThread =>
    LET t == serving[c]
    IN /\ pc[t] \in Place(c)
       /\ pc[t] # "done" => msg[t] = request[c]
       /\ pc[t] = "invoke" => stub[t] = proxy[c]
       /\ pc[t] = "sleep" => c \in Calculators

\* What the response says.
ResponseInv(c) ==
  serving[c] # NoThread /\ pc[serving[c]] = "done" =>
    LET m == msg[serving[c]]
    IN /\ Success(m)
       /\ phase[c] = "creating" =>
            CreatedHandle(m) = stub[serving[c]] /\ stub[serving[c]] \in allObjects
       /\ phase[c] = "calling" => CallAnswer(c, m)

\* c has the object at a, or it is on its way to c.
Brings(c, a) ==
  /\ phase[c] = "creating" /\ serving[c] # NoThread
  /\ pc[serving[c]] \in {"enterInsert", "insert", "done"}
  /\ stub[serving[c]] = a
Owns(c, a) == Brings(c, a) \/ (Holds(c) /\ proxy[c] = a)
ContentInv(c) ==
  /\ \A a : Owns(c, a) => a \in Address /\ heap[a] = OwnContent(c)
  /\ Holds(c) => proxy[c] \in allObjects

ResultInv(c) ==
  /\ result[c] \in {ERROR_SUCCESS} \cup TransportError
  /\ c \notin Calculators => got[c] \in {EmptyArgument, sent[c]}

ClientInv(c) ==
  RequestInv(c) /\ PlaceInv(c) /\ ResponseInv(c) /\ ContentInv(c) /\ ResultInv(c)

\* Clients and busy threads go together in pairs.
ServingInv ==
  /\ \A c \in Client : serving[c] # NoThread => pc[serving[c]] # "idle"
  /\ \A c, d \in Client : serving[c] = serving[d] /\ serving[c] # NoThread => c = d
  /\ \A t \in Thread : pc[t] # "idle" => \E c \in Client : serving[c] = t

\* No two clients have the same object, and no object is nobody's but those
\* whose deletion failed.
OwnerInv ==
  /\ \A c, d \in Client : \A a : Owns(c, a) /\ Owns(d, a) => c = d
  /\ \A a \in Address : heap[a] # Free => a \in orphaned \/ \E c \in Client : Owns(c, a)

IInv ==
  /\ ClientTypeOK /\ ServerSurvives
  /\ ServingInv /\ OwnerInv
  /\ \A c \in Client : ClientInv(c)
------------------------------------------------------------------------------
\* The contents a client gives to its object.
LEMMA OwnContentTypes ==
  ASSUME NEW c \in Client, c \notin Calculators => sent[c] \in Value
  PROVE  /\ OwnContent(c) \in Content /\ OwnContent(c) # Free
         /\ OwnContent(c) \in Argument
         /\ c \in Calculators <=> OwnContent(c) = Calculator
         /\ c \notin Calculators => sent[c] \in Value /\ OwnContent(c) = sent[c]
BY ClientAssumption, DistinctAssumption DEF OwnContent, Content, Argument

LEMMA OwnContentFacts ==
  ASSUME ClientTypeOK, NEW c \in Client
  PROVE  /\ OwnContent(c) \in Content /\ OwnContent(c) # Free
         /\ OwnContent(c) \in Argument
         /\ c \in Calculators <=> OwnContent(c) = Calculator
         /\ c \notin Calculators => sent[c] \in Value /\ OwnContent(c) = sent[c]
BY OwnContentTypes DEF ClientTypeOK

\* The request of CreateRemoteInstance and of SendPrimitiveData.
LEMMA CreationRequest ==
  ASSUME NEW c \in Client, c \notin Calculators => sent[c] \in Value, NEW r,
         r = IF c \in Calculators
             THEN Request(NullHandle, eCreateCustomObjectDispId, <<Calculator>>)
             ELSE Request(NullHandle, eCreateIntDispId, <<sent[c]>>)
  PROVE  r \in AllRequests /\ Creation(c, r) /\ Len(r) = 4
<1> DEFINE d == IF c \in Calculators THEN eCreateCustomObjectDispId ELSE eCreateIntDispId
           x == OwnContent(c)
<1>1. r = Request(NullHandle, d, <<x>>) /\ x \in Argument
  BY OwnContentTypes DEF OwnContent
<1>2. r \in AllRequests
  BY OwnContentTypes DEF AllRequests, CreatePrimitiveRequests, CreateCustomRequests
<1>3. NullHandle \in Argument /\ d \in Argument
  BY ConstantFacts DEF Handle, Argument, eCreateCustomObjectDispId, eCreateIntDispId
<1> HIDE DEF d, x
<1>4. PICK s \in Seq(Argument) : s = <<x>> /\ Len(s) = 1 /\ s[1] = x
  <2>1. <<x>> \in Seq(Argument) /\ Len(<<x>>) = 1 /\ <<x>>[1] = x
    BY <1>1
  <2> QED
    BY <2>1, Zenon
<1>5. /\ IsMessage(r) /\ GetObjectId(r) = NullHandle /\ GetDispId(r) = d /\ Len(r) = 4
      /\ \A y : GetFunctionParameter(r, 1, y) = x
  <2>1. LET q == Request(NullHandle, d, s)
        IN /\ q \in Seq(Argument) /\ Len(q) >= 3 /\ Len(q) = 3 + Len(s)
           /\ GetObjectId(q) = NullHandle /\ GetDispId(q) = d
           /\ \A y : GetFunctionParameter(q, 1, y) = s[1]
    <3>1. s \in Seq(Argument) /\ Len(s) >= 1
      BY <1>4
    <3> QED
      BY <1>3, <3>1, RequestFacts
  <2> QED
    BY <1>1, <1>4, <2>1 DEF IsMessage
<1>6. Constructs(r)
  BY <1>5, OwnContentTypes DEF Constructs, IsGlobal, GlobalDispId, ClassName, d, x
<1> QED
  BY <1>2, <1>5, <1>6 DEF Creation, x

LEMMA CreationFacts ==
  ASSUME ClientTypeOK, NEW c \in Client, NEW r,
         r = IF c \in Calculators
             THEN Request(NullHandle, eCreateCustomObjectDispId, <<Calculator>>)
             ELSE Request(NullHandle, eCreateIntDispId, <<sent[c]>>)
  PROVE  r \in AllRequests /\ Creation(c, r)
BY CreationRequest DEF ClientTypeOK

\* The request of a method, and of GetPrimitiveData.
LEMMA MethodCallFacts ==
  ASSUME ClientTypeOK, NEW c \in Client, proxy[c] \in Address, NEW r,
         \/ c \in Calculators
            /\ \E d \in Methods : r = Request(proxy[c], d, MethodArguments)
         \/ c \notin Calculators /\ r = Request(proxy[c], eCreateIntDispId, <<>>)
  PROVE  r \in AllRequests /\ MethodCall(c, r)
<1>1. PICK d \in AddDispID .. MaxDispID, s \in {<<>>, MethodArguments} :
        r = Request(proxy[c], d, s) /\ (c \in Calculators => d \in Methods)
  BY DEF Methods, AddDispID, MaxDispID, eCreateIntDispId
<1>2. r \in AllRequests
  BY <1>1 DEF AllRequests, CallRequests, MethodArguments
<1>3. d \in Argument /\ proxy[c] \in Argument /\ proxy[c] # NullHandle
  BY DistinctAssumption DEF Argument, Handle, AddDispID, MaxDispID
<1>4. s \in Seq(Argument)
  <2>1. <<>> \in Seq(Argument)
    OBVIOUS
  <2>2. MethodArguments \in Seq(Argument)
    BY ConstantFacts DEF MethodArguments
  <2> QED
    BY <1>1, <2>1, <2>2
<1>5. IsMessage(r) /\ GetObjectId(r) = proxy[c] /\ GetDispId(r) = d
  BY <1>1, <1>3, <1>4, RequestFacts DEF IsMessage
<1> QED
  BY <1>1, <1>2, <1>3, <1>5 DEF MethodCall, IsGlobal

\* The request of the destructor.
LEMMA DeletionFacts ==
  ASSUME NEW c \in Client, proxy[c] \in Address, NEW r,
         r = Request(NullHandle, eDeleteDispId, <<proxy[c]>>)
  PROVE  r \in AllRequests /\ Deletion(c, r)
<1>1. proxy[c] \in Handle /\ proxy[c] \in Argument /\ NullHandle \in Argument
  BY ConstantFacts DEF Handle
<1>2. r \in AllRequests
  BY <1>1 DEF AllRequests, DeleteRequests
<1>3. eDeleteDispId \in Argument
  BY DEF Argument, eDeleteDispId
<1>4. PICK s \in Seq(Argument) : s = <<proxy[c]>> /\ Len(s) >= 1 /\ s[1] = proxy[c]
  <2>1. <<proxy[c]>> \in Seq(Argument) /\ Len(<<proxy[c]>>) >= 1 /\ <<proxy[c]>>[1] = proxy[c]
    BY <1>1
  <2> QED
    BY <2>1, Zenon
<1>5. /\ IsMessage(r) /\ GetObjectId(r) = NullHandle /\ GetDispId(r) = eDeleteDispId
      /\ \A y : GetFunctionParameter(r, 1, y) = proxy[c]
  <2>1. LET q == Request(NullHandle, eDeleteDispId, s)
        IN /\ q \in Seq(Argument) /\ Len(q) >= 3
           /\ GetObjectId(q) = NullHandle /\ GetDispId(q) = eDeleteDispId
           /\ \A y : GetFunctionParameter(q, 1, y) = s[1]
    BY <1>1, <1>3, <1>4, RequestFacts
  <2> QED
    BY <1>4, <2>1 DEF IsMessage
<1> QED
  BY <1>2, <1>5 DEF Deletion, IsDelete, IsGlobal, GlobalDispId, ObjectToDelete

\* A request is not empty.
LEMMA MessageNotEmpty == ASSUME NEW m, IsMessage(m) PROVE m # <<>>
BY DEF IsMessage

\* The responses: setting an error code, and a parameter before it.
LEMMA SuccessFacts ==
  ASSUME NEW m, IsMessage(m)
  PROVE  /\ Success(SetErrorCode(m, ERROR_SUCCESS))
         /\ \A i \in 1 .. 3, x \in Argument :
              LET s == SetErrorCode(SetFunctionParameter(m, i, x), ERROR_SUCCESS)
              IN Success(s) /\ \A y : GetFunctionParameter(s, i, y) = x
<1>1. ERROR_SUCCESS \in ServerErrorCode
  BY ConstantFacts
<1>2. Success(SetErrorCode(m, ERROR_SUCCESS))
  BY <1>1, SetErrorCodeFacts DEF Success, IsMessage
<1>3. ASSUME NEW i \in 1 .. 3, NEW x \in Argument
      PROVE  LET s == SetErrorCode(SetFunctionParameter(m, i, x), ERROR_SUCCESS)
             IN Success(s) /\ \A y : GetFunctionParameter(s, i, y) = x
  <2> DEFINE p == SetFunctionParameter(m, i, x)
  <2>1. /\ p \in Seq(Argument) /\ Len(p) >= 3
        /\ \A y : GetFunctionParameter(p, i, y) = x
    BY SetFunctionParameterFacts DEF IsMessage
  <2> HIDE DEF p
  <2>2. LET s == SetErrorCode(p, ERROR_SUCCESS)
        IN Success(s) /\ \A y : GetFunctionParameter(s, i, y) = x
    BY <1>1, <2>1, SetErrorCodeFacts DEF Success, IsMessage
  <2> QED
    BY <2>2 DEF p
<1> QED
  BY <1>2, <1>3
------------------------------------------------------------------------------
\* What the thread of a client does for it, one kind of step after the other.
Walks(c, t, label) ==
  /\ \/ phase[c] = "creating" /\ pc[t] = "enterInsert" /\ label = "insert"
     \/ phase[c] = "calling" /\ pc[t] = "process" /\ label = "enterFind"
     \/ phase[c] = "calling" /\ pc[t] = "enterFind" /\ label = "find"
     \/ phase[c] = "calling" /\ pc[t] = "invoke" /\ label = "sleep" /\ c \in Calculators
     \/ phase[c] = "deleting" /\ pc[t] = "process" /\ label = "enterDelete"
     \/ phase[c] = "deleting" /\ pc[t] = "enterDelete" /\ label = "delete"
  /\ Goto(t, label)
  /\ UNCHANGED <<heap, allObjects, msg, stub, alive>>
Constructed(c, t, a) ==
  /\ phase[c] = "creating" /\ pc[t] = "process"
  /\ heap[a] = Free
  /\ heap' = [heap EXCEPT ![a] = OwnContent(c)]
  /\ stub' = [stub EXCEPT ![t] = a]
  /\ Goto(t, "enterInsert")
  /\ UNCHANGED <<allObjects, msg, alive>>
Registered(c, t, m) ==
  /\ phase[c] = "creating" /\ pc[t] = "insert"
  /\ allObjects' = allObjects \cup {stub[t]}
  /\ Success(m) /\ CreatedHandle(m) = stub[t]
  /\ Finish(t, m)
  /\ UNCHANGED <<heap, stub, alive>>
Found(c, t) ==
  /\ phase[c] = "calling" /\ pc[t] = "find"
  /\ stub' = [stub EXCEPT ![t] = proxy[c]]
  /\ Goto(t, "invoke")
  /\ UNCHANGED <<heap, allObjects, msg, alive>>
Answers(c, t, m) ==
  /\ phase[c] = "calling" /\ pc[t] \in {"invoke", "sleep"}
  /\ CallAnswer(c, m)
  /\ Finish(t, m)
  /\ UNCHANGED <<heap, allObjects, stub, alive>>
Removed(c, t, m) ==
  /\ phase[c] = "deleting" /\ pc[t] = "delete"
  /\ heap' = [heap EXCEPT ![proxy[c]] = Free]
  /\ Success(m)
  /\ Finish(t, m)
  /\ UNCHANGED <<allObjects, stub, alive>>
Serves(c, t) ==
  \/ \E label \in Labels : Walks(c, t, label)
  \/ \E a \in Address : Constructed(c, t, a)
  \/ \E m : Registered(c, t, m) \/ Answers(c, t, m) \/ Removed(c, t, m)
  \/ Found(c, t)

\* What is known of a client and the thread that serves it.
LEMMA PairFacts ==
  ASSUME IInv, NEW c \in Client, NEW t \in Thread, serving[c] = t
  PROVE  /\ t # NoThread /\ Waiting(c)
         /\ pc[t] \in Place(c) /\ IsMessage(request[c])
         /\ pc[t] # "done" => msg[t] = request[c]
         /\ phase[c] = "creating" => Creation(c, request[c])
         /\ phase[c] = "calling" =>
              MethodCall(c, request[c]) /\ proxy[c] \in allObjects /\ Holds(c)
         /\ phase[c] = "deleting" => Deletion(c, request[c]) /\ proxy[c] \in Address
         /\ Holds(c) =>
              /\ proxy[c] \in allObjects /\ proxy[c] \in Address
              /\ heap[proxy[c]] = OwnContent(c)
<1>1. t # NoThread
  BY DistinctAssumption
<1>2. ClientInv(c)
  BY DEF IInv
<1>3. Waiting(c) /\ pc[t] \in Place(c) /\ (pc[t] # "done" => msg[t] = request[c])
  BY <1>1, <1>2 DEF ClientInv, PlaceInv, Place, Waiting
<1>4. Holds(c) => /\ proxy[c] \in allObjects /\ proxy[c] \in Address
                  /\ heap[proxy[c]] = OwnContent(c)
  BY <1>2 DEF ClientInv, ContentInv, Owns
<1>5. phase[c] = "calling" => Holds(c)
  BY DEF Holds
<1>6. /\ phase[c] = "creating" => Creation(c, request[c])
      /\ phase[c] = "calling" => MethodCall(c, request[c])
      /\ phase[c] = "deleting" => Deletion(c, request[c]) /\ proxy[c] \in Address
  BY <1>2 DEF ClientInv, RequestInv
<1>7. IsMessage(request[c])
  BY <1>3, <1>6 DEF Waiting, Creation, MethodCall, Deletion
<1> QED
  BY <1>1, <1>3, <1>4, <1>5, <1>6, <1>7

\* A request is of one kind.
LEMMA KindFacts ==
  ASSUME NEW c \in Client, NEW m
  PROVE  /\ Creation(c, m) => Constructs(m) /\ IsGlobal(m) /\ ~IsDelete(m)
         /\ MethodCall(c, m) => ~Constructs(m) /\ ~IsGlobal(m) /\ ~IsDelete(m)
         /\ Deletion(c, m) => IsDelete(m) /\ IsGlobal(m) /\ ~Constructs(m)
BY DEF Creation, MethodCall, Deletion, Constructs, IsDelete, IsGlobal, GlobalDispId,
       eCreateIntDispId, eCreateStringDispId, eCreateCustomObjectDispId, eDeleteDispId

\* A creation: construct, then register.
LEMMA ServesCreation ==
  ASSUME IInv, NEW c \in Client, NEW t \in Thread, serving[c] = t, Step(t),
         phase[c] = "creating"
  PROVE  Serves(c, t)
<1>1. /\ pc[t] \in {"process", "enterInsert", "insert", "done"}
      /\ pc[t] # "done" => msg[t] = request[c]
      /\ Creation(c, request[c]) /\ IsMessage(request[c])
  BY PairFacts DEF Place
<1>2. Constructs(request[c]) /\ IsGlobal(request[c]) /\ ~IsDelete(request[c])
  BY <1>1, KindFacts
<1>3. Construct(t) \/ Enter(t) \/ Insert(t)
  BY <1>1, <1>2 DEF Step, At, Inside, RejectGlobal, BeginDelete, BeginCall, Find, Delete,
                    Invoke, InvokeFreed, LongOperation
<1>4. CASE Construct(t)
  BY <1>1, <1>4 DEF Construct, At, Creation, Constructed, Serves
<1>5. CASE Enter(t)
  <2>1. pc[t] = "enterInsert" /\ Goto(t, "insert")
    BY <1>1, <1>5 DEF Enter, Inside
  <2>2. Walks(c, t, "insert")
    BY <1>5, <2>1 DEF Enter, Walks
  <2> QED
    BY <2>2 DEF Serves, Labels
<1>6. CASE Insert(t)
  <2> DEFINE m == SetErrorCode(SetFunctionParameter(request[c], 2, stub[t]), ERROR_SUCCESS)
  <2>1. pc[t] = "insert" /\ Finish(t, m)
    BY <1>1, <1>6 DEF Insert, At
  <2>2. stub[t] \in Argument
    BY ConstantFacts DEF IInv, ClientTypeOK, TypeOK
  <2>3. Success(m) /\ CreatedHandle(m) = stub[t]
    BY <1>1, <2>2, SuccessFacts DEF CreatedHandle
  <2> HIDE DEF m
  <2>4. Registered(c, t, m)
    BY <1>6, <2>1, <2>3 DEF Insert, Registered
  <2> QED
    BY <2>4 DEF Serves
<1> QED
  BY <1>3, <1>4, <1>5, <1>6

\* A call: find the object, which is there, and run the method.
LEMMA ServesCall ==
  ASSUME IInv, NEW c \in Client, NEW t \in Thread, serving[c] = t, Step(t),
         phase[c] = "calling"
  PROVE  Serves(c, t)
<1>1. /\ pc[t] \in {"process", "enterFind", "find", "invoke", "sleep", "done"}
      /\ pc[t] # "done" => msg[t] = request[c]
      /\ MethodCall(c, request[c]) /\ IsMessage(request[c])
      /\ proxy[c] \in allObjects /\ heap[proxy[c]] = OwnContent(c)
  BY PairFacts DEF Place
<1>2. ~Constructs(request[c]) /\ ~IsGlobal(request[c]) /\ ~IsDelete(request[c])
  BY <1>1, KindFacts
<1>3. /\ pc[t] = "invoke" => stub[t] = proxy[c]
      /\ pc[t] = "sleep" => c \in Calculators
  BY PairFacts DEF IInv, ClientInv, PlaceInv
<1>4. /\ OwnContent(c) \in Content /\ OwnContent(c) # Free /\ OwnContent(c) \in Argument
      /\ c \in Calculators <=> OwnContent(c) = Calculator
      /\ c \notin Calculators => OwnContent(c) = sent[c]
  BY OwnContentFacts DEF IInv
<1>5. BeginCall(t) \/ Enter(t) \/ Find(t) \/ Invoke(t) \/ LongOperation(t)
  BY <1>1, <1>2, <1>3, <1>4
     DEF Step, At, Inside, Construct, RejectGlobal, BeginDelete, Insert, Delete, InvokeFreed
<1>6. CASE BeginCall(t)
  <2>1. Walks(c, t, "enterFind")
    BY <1>1, <1>6 DEF BeginCall, At, Walks
  <2> QED
    BY <2>1 DEF Serves, Labels
<1>7. CASE Enter(t)
  <2>1. pc[t] = "enterFind" /\ Goto(t, "find")
    BY <1>1, <1>7 DEF Enter, Inside
  <2>2. Walks(c, t, "find")
    BY <1>7, <2>1 DEF Enter, Walks
  <2> QED
    BY <2>2 DEF Serves, Labels
<1>8. CASE Find(t)
  <2>1. pc[t] = "find" /\ GetObjectId(msg[t]) = proxy[c]
    BY <1>1, <1>8 DEF Find, At, MethodCall
  <2> QED
    BY <1>1, <1>8, <2>1 DEF Find, Found, Serves
<1>9. ASSUME c \in Calculators, pc[t] \in {"invoke", "sleep"}, Finish(t, Computes(msg[t]))
      PROVE  \E m : CallAnswer(c, m) /\ Finish(t, m)
  <2>1. \A d : OutParameter(d) \in 1 .. 3
    BY DEF OutParameter
  <2>2. Success(Computes(request[c]))
    BY <1>1, <2>1, SuccessFacts, ConstantFacts DEF Computes
  <2> QED
    BY <1>1, <1>9, <2>2 DEF CallAnswer
<1>10. CASE Invoke(t)
  <2>1. pc[t] = "invoke" /\ InvokeOn(t, OwnContent(c)) /\ msg[t] = request[c]
    BY <1>1, <1>3, <1>10 DEF Invoke, At
  <2>2. CASE c \notin Calculators
    <3> DEFINE m == SetErrorCode(SetFunctionParameter(request[c], 1, OwnContent(c)), ERROR_SUCCESS)
    <3>1. Finish(t, m)
      BY <1>4, <2>1, <2>2 DEF InvokeOn
    <3>2. CallAnswer(c, m)
      BY <1>1, <1>4, <2>2, SuccessFacts DEF CallAnswer
    <3> HIDE DEF m
    <3>3. Answers(c, t, m)
      BY <1>10, <2>1, <3>1, <3>2 DEF Invoke, Answers
    <3> QED
      BY <3>3 DEF Serves
  <2>3. CASE c \in Calculators
    <3>1. GetDispId(request[c]) \in Methods
      BY <1>1, <2>3 DEF MethodCall
    <3>2. Finish(t, Computes(msg[t])) \/ (Goto(t, "sleep") /\ UNCHANGED msg)
      BY <1>4, <2>1, <2>3, <3>1 DEF InvokeOn
    <3>3. CASE Finish(t, Computes(msg[t]))
      BY <1>9, <1>10, <2>1, <2>3, <3>3 DEF Invoke, Answers, Serves
    <3>4. CASE Goto(t, "sleep") /\ UNCHANGED msg
      <4>1. Walks(c, t, "sleep")
        BY <1>10, <2>1, <2>3, <3>4 DEF Invoke, Walks
      <4> QED
        BY <4>1 DEF Serves, Labels
    <3> QED
      BY <3>2, <3>3, <3>4
  <2> QED
    BY <2>2, <2>3
<1>11. CASE LongOperation(t)
  <2>1. pc[t] = "sleep" /\ c \in Calculators /\ Finish(t, Computes(msg[t]))
    BY <1>3, <1>11 DEF LongOperation, At
  <2> QED
    BY <1>9, <1>11, <2>1 DEF LongOperation, Answers, Serves
<1> QED
  BY <1>5, <1>6, <1>7, <1>8, <1>10, <1>11

\* A deletion: free the object, which is there.
LEMMA ServesDeletion ==
  ASSUME IInv, NEW c \in Client, NEW t \in Thread, serving[c] = t, Step(t),
         phase[c] = "deleting"
  PROVE  Serves(c, t)
<1>1. /\ pc[t] \in {"process", "enterDelete", "delete", "done"}
      /\ pc[t] # "done" => msg[t] = request[c] /\ Holds(c)
      /\ Deletion(c, request[c]) /\ IsMessage(request[c]) /\ proxy[c] \in Address
  BY PairFacts DEF Place, Holds
<1>2. IsDelete(request[c]) /\ IsGlobal(request[c]) /\ ~Constructs(request[c])
  BY <1>1, KindFacts
<1>3. ObjectToDelete(request[c]) = proxy[c] /\ proxy[c] # NullHandle
  BY <1>1, DistinctAssumption DEF Deletion
<1>4. BeginDelete(t) \/ Enter(t) \/ Delete(t)
  BY <1>1, <1>2 DEF Step, At, Inside, Construct, RejectGlobal, BeginCall, Find, Insert,
                    Invoke, InvokeFreed, LongOperation
<1>5. CASE BeginDelete(t)
  <2>1. Walks(c, t, "enterDelete")
    BY <1>1, <1>3, <1>5 DEF BeginDelete, At, Walks
  <2> QED
    BY <2>1 DEF Serves, Labels
<1>6. CASE Enter(t)
  <2>1. pc[t] = "enterDelete" /\ Goto(t, "delete")
    BY <1>1, <1>6 DEF Enter, Inside
  <2>2. Walks(c, t, "delete")
    BY <1>6, <2>1 DEF Enter, Walks
  <2> QED
    BY <2>2 DEF Serves, Labels
<1>7. CASE Delete(t)
  <2> DEFINE m == SetErrorCode(request[c], ERROR_SUCCESS)
  <2>1. pc[t] = "delete" /\ msg[t] = request[c] /\ Holds(c)
    BY <1>1, <1>7 DEF Delete, At
  <2>2. proxy[c] \in allObjects /\ heap[proxy[c]] # Free
    BY <2>1, PairFacts, OwnContentFacts DEF IInv
  <2>3. /\ heap' = [heap EXCEPT ![proxy[c]] = Free] /\ alive' = TRUE
        /\ Finish(t, m) /\ UNCHANGED <<allObjects, stub>>
    BY <1>3, <1>7, <2>1, <2>2 DEF Delete
  <2>4. alive = TRUE
    BY <1>7 DEF Delete, At, IInv, ClientTypeOK, TypeOK
  <2>5. Success(m)
    BY <1>1, SuccessFacts
  <2> HIDE DEF m
  <2>6. Removed(c, t, m)
    BY <2>1, <2>3, <2>4, <2>5 DEF Removed
  <2> QED
    BY <2>6 DEF Serves
<1> QED
  BY <1>4, <1>5, <1>6, <1>7

\* A busy thread serves a client, and what it does is one of the above.
LEMMA ServesAClient ==
  ASSUME IInv, NEW t \in Thread, Step(t)
  PROVE  /\ \E c \in Client : serving[c] = t /\ Serves(c, t)
         /\ csOwner' \in Thread \cup {NoThread}
<1>1. pc[t] # "idle"
  BY DEF Step, At, Inside, Construct, RejectGlobal, BeginDelete, BeginCall, Enter, Insert, Find,
         Delete, Invoke, InvokeFreed, LongOperation
<1>2. PICK c \in Client : serving[c] = t
  BY <1>1 DEF IInv, ServingInv
<1>3. Serves(c, t)
  BY <1>2, PairFacts, ServesCreation, ServesCall, ServesDeletion DEF Waiting
<1>4. csOwner \in Thread \cup {NoThread}
  BY DEF IInv, ClientTypeOK, TypeOK
<1>5. csOwner' \in {csOwner, t, NoThread}
  BY DEF Step, Construct, RejectGlobal, BeginDelete, BeginCall, Enter, Insert, Find,
         Delete, Invoke, InvokeFreed, LongOperation, Leave
<1> QED
  BY <1>2, <1>3, <1>4, <1>5
------------------------------------------------------------------------------
\* A step of c, or of the thread that serves c, leaves the others alone: their
\* variables, their threads and the objects they have.
Same(d) ==
  /\ phase'[d] = phase[d] /\ proxy'[d] = proxy[d] /\ request'[d] = request[d]
  /\ serving'[d] = serving[d] /\ result'[d] = result[d] /\ got'[d] = got[d]
SameThread(u) == pc'[u] = pc[u] /\ msg'[u] = msg[u] /\ stub'[u] = stub[u]
Apart(c) ==
  /\ UNCHANGED sent /\ allObjects \subseteq allObjects'
  /\ \A d \in Client \ {c} :
       /\ Same(d)
       /\ serving[d] # NoThread => SameThread(serving[d])
       /\ \A a \in Address : Owns(d, a) => heap'[a] = heap[a]

\* So they keep what is true of them, and have what they had.
LEMMA OthersKeep ==
  ASSUME IInv, NEW c \in Client, Apart(c), NEW d \in Client, d # c
  PROVE  ClientInv(d)' /\ \A a : Owns(d, a)' <=> Owns(d, a)
<1>1. /\ Same(d) /\ (serving[d] # NoThread => SameThread(serving[d]))
      /\ sent' = sent /\ allObjects \subseteq allObjects'
      /\ \A a \in Address : Owns(d, a) => heap'[a] = heap[a]
  BY DEF Apart
<1>2. RequestInv(d) /\ PlaceInv(d) /\ ResponseInv(d) /\ ContentInv(d) /\ ResultInv(d)
  BY DEF IInv, ClientInv
<1>3. RequestInv(d)'
  BY <1>1, <1>2 DEF RequestInv, Same, Waiting, Creation, MethodCall, Deletion, OwnContent
<1>4. PlaceInv(d)'
  BY <1>1, <1>2 DEF PlaceInv, Place, Same, SameThread
<1>5. ResponseInv(d)'
  BY <1>1, <1>2 DEF ResponseInv, CallAnswer, Same, SameThread
<1>6. \A a : Owns(d, a)' <=> Owns(d, a)
  BY <1>1 DEF Owns, Brings, Holds, Same, SameThread
<1>7. ContentInv(d)'
  <2>1. ASSUME NEW a, Owns(d, a)'
        PROVE  a \in Address /\ heap'[a] = OwnContent(d)'
    BY <1>1, <1>2, <1>6, <2>1 DEF ContentInv, OwnContent
  <2>2. Holds(d)' => proxy'[d] \in allObjects'
    BY <1>1, <1>2 DEF ContentInv, Holds, Same, SameThread
  <2> QED
    BY <2>1, <2>2 DEF ContentInv
<1>8. ResultInv(d)'
  BY <1>1, <1>2 DEF ResultInv, Same
<1> QED
  BY <1>3, <1>4, <1>5, <1>6, <1>7, <1>8 DEF ClientInv

\* The step takes no object another client has, and leaves none behind.
TakesOnlyFree(c) ==
  /\ \A a : Owns(c, a)' => Owns(c, a) \/ heap[a] = Free
  /\ orphaned \subseteq orphaned'
  /\ \A a \in Address :
       heap'[a] # Free => a \in orphaned' \/ Owns(c, a)' \/ (heap[a] # Free /\ ~Owns(c, a))

LEMMA OwnersKeep ==
  ASSUME IInv, NEW c \in Client, Apart(c), TakesOnlyFree(c)
  PROVE  OwnerInv'
<1>1. \A d \in Client : d # c => \A a : Owns(d, a)' <=> Owns(d, a)
  BY OthersKeep
<1>2. ASSUME NEW d \in Client, NEW a, Owns(d, a)
      PROVE  heap[a] # Free
  <2>1. heap[a] = OwnContent(d)
    BY <1>2 DEF IInv, ClientInv, ContentInv
  <2> QED
    BY <2>1, OwnContentFacts DEF IInv
<1>3. ASSUME NEW d \in Client, NEW e \in Client, NEW a, Owns(d, a)', Owns(e, a)'
      PROVE  d = e
  <2>1. \A x, y \in Client : Owns(x, a) /\ Owns(y, a) => x = y
    BY DEF IInv, OwnerInv
  <2>2. Owns(c, a)' => Owns(c, a) \/ heap[a] = Free
    BY DEF TakesOnlyFree
  <2> QED
    BY <1>1, <1>2, <1>3, <2>1, <2>2
<1>4. ASSUME NEW a \in Address, heap'[a] # Free
      PROVE  a \in orphaned' \/ \E d \in Client : Owns(d, a)'
  <2>1. /\ orphaned \subseteq orphaned'
        /\ a \in orphaned' \/ Owns(c, a)' \/ (heap[a] # Free /\ ~Owns(c, a))
    BY <1>4 DEF TakesOnlyFree
  <2>2. heap[a] # Free => a \in orphaned \/ \E d \in Client : Owns(d, a)
    BY DEF IInv, OwnerInv
  <2> QED
    BY <1>1, <2>1, <2>2
<1> QED
  BY <1>3, <1>4 DEF OwnerInv

\* What remains to be shown of a step.
LEMMA Assemble ==
  ASSUME IInv, NEW c \in Client, Apart(c), TakesOnlyFree(c), ClientInv(c)',
         ClientTypeOK', UNCHANGED alive, ServingInv'
  PROVE  IInv'
<1>1. \A d \in Client : ClientInv(d)'
  BY OthersKeep
<1>2. OwnerInv'
  BY OwnersKeep
<1>3. ServerSurvives'
  BY DEF IInv, ServerSurvives
<1> QED
  BY <1>1, <1>2, <1>3 DEF IInv
------------------------------------------------------------------------------
\* A step of the thread that serves c keeps the pairs and leaves others alone.
LEMMA ServeFrame ==
  ASSUME IInv, NEW c \in Client, NEW t \in Thread, serving[c] = t, UNCHANGED clientVars,
         \A u \in Thread \ {t} : SameThread(u), pc'[t] # "idle",
         allObjects \subseteq allObjects',
         \A a \in Address : heap'[a] = heap[a] \/ heap[a] = Free \/ Owns(c, a)
  PROVE  Apart(c) /\ ServingInv'
<1>1. t # NoThread
  BY DistinctAssumption
<1>2. \A d \in Client \ {c} :
        /\ serving[d] # t
        /\ serving[d] # NoThread => serving[d] \in Thread \ {t} /\ SameThread(serving[d])
  BY <1>1 DEF IInv, ServingInv, ClientTypeOK
<1>3. ASSUME NEW d \in Client \ {c}, NEW a \in Address, Owns(d, a)
      PROVE  heap'[a] = heap[a]
  <2>1. heap[a] = OwnContent(d) /\ OwnContent(d) # Free
    BY <1>3, OwnContentFacts DEF IInv, ClientInv, ContentInv
  <2>2. ~Owns(c, a)
    BY <1>3 DEF IInv, OwnerInv
  <2> QED
    BY <2>1, <2>2
<1>4. Apart(c)
  BY <1>2, <1>3 DEF Apart, Same, clientVars
<1>5. ServingInv'
  <2>1. /\ serving' = serving /\ serving[c] = t /\ pc'[t] # "idle"
        /\ \A u \in Thread \ {t} : pc'[u] = pc[u]
    BY DEF SameThread, clientVars
  <2>2. ServingInv
    BY DEF IInv
  <2>3. \A d \in Client : serving[d] # NoThread => pc'[serving[d]] # "idle"
    BY <1>2, <2>1, <2>2 DEF ServingInv, SameThread
  <2>4. \A u \in Thread : pc'[u] # "idle" => \E d \in Client : serving[d] = u
    BY <2>1, <2>2 DEF ServingInv
  <2> QED
    BY <2>1, <2>2, <2>3, <2>4 DEF ServingInv
<1> QED
  BY <1>4, <1>5

\* The thread of a client keeps the types.
LEMMA ServeTypes ==
  ASSUME IInv, NEW c \in Client, NEW t \in Thread, serving[c] = t, Serves(c, t),
         UNCHANGED clientVars, csOwner' \in Thread \cup {NoThread}
  PROVE  ClientTypeOK' /\ \A u \in Thread \ {t} : SameThread(u)
<1>1. TypeOK
  BY DEF IInv, ClientTypeOK
<1>2. /\ \E label \in Labels : pc' = [pc EXCEPT ![t] = label]
      /\ msg' = msg \/ \E m : IsMessage(m) /\ msg' = [msg EXCEPT ![t] = m]
      /\ stub' = stub \/ stub' = [stub EXCEPT ![t] = proxy[c]]
           \/ \E a \in Address : stub' = [stub EXCEPT ![t] = a]
      /\ alive' = alive
  BY DEF Serves, Walks, Constructed, Registered, Found, Answers, Removed, Goto, Finish, Success,
         CallAnswer, Labels
<1>3. pc' \in [Thread -> Labels] /\ msg' \in [Thread -> Seq(Argument)]
  <2>1. pc' \in [Thread -> Labels]
    BY <1>1, <1>2 DEF TypeOK
  <2>2. msg' = msg \/ \E m \in Seq(Argument) : msg' = [msg EXCEPT ![t] = m]
    BY <1>2 DEF IsMessage
  <2>3. msg' \in [Thread -> Seq(Argument)]
    BY <1>1, <2>2 DEF TypeOK
  <2> QED
    BY <2>1, <2>3
<1>4. stub' \in [Thread -> Handle]
  <2>1. proxy[c] \in Handle /\ Address \subseteq Handle
    BY DEF IInv, ClientTypeOK, Handle
  <2> QED
    BY <1>1, <1>2, <2>1 DEF TypeOK
<1>5. heap' \in [Address -> Content \cup {Free}]
  <2>1. OwnContent(c) \in Content
    BY OwnContentFacts DEF IInv
  <2>2. heap' = heap \/ \E a, x : x \in Content \cup {Free} /\ heap' = [heap EXCEPT ![a] = x]
    BY <2>1 DEF Serves, Walks, Constructed, Registered, Found, Answers, Removed
  <2> QED
    BY <1>1, <2>2 DEF TypeOK
<1>6. allObjects' \subseteq Address
  <2>1. allObjects' = allObjects \/ \E m : Registered(c, t, m)
    BY DEF Serves, Walks, Constructed, Found, Answers, Removed
  <2>2. ASSUME NEW m, Registered(c, t, m)
        PROVE  stub[t] \in Address /\ allObjects' = allObjects \cup {stub[t]}
    <3>1. Owns(c, stub[t])
      BY <2>2, DistinctAssumption DEF Registered, Owns, Brings
    <3> QED
      BY <2>2, <3>1 DEF IInv, ClientInv, ContentInv, Registered
  <2> QED
    BY <1>1, <2>1, <2>2 DEF TypeOK
<1>7. TypeOK'
  BY <1>1, <1>2, <1>3, <1>4, <1>5, <1>6 DEF TypeOK
<1>8. \A u \in Thread \ {t} : SameThread(u)
  BY <1>1, <1>2 DEF TypeOK, SameThread
<1> QED
  BY <1>7, <1>8 DEF IInv, ClientTypeOK, clientVars

\* What the client knows before a step of its thread that leaves the client's
\* variables as they are.
LEMMA ServedClient ==
  ASSUME IInv, NEW c \in Client, NEW t \in Thread, serving[c] = t, UNCHANGED clientVars
  PROVE  /\ t # NoThread
         /\ RequestInv(c)' /\ ResultInv(c)' /\ OwnContent(c)' = OwnContent(c)
         /\ \A a : Owns(c, a) => a \in Address /\ heap[a] = OwnContent(c)
         /\ Holds(c) => proxy[c] \in allObjects /\ proxy[c] \in Address
         /\ pc[t] # "done" => msg[t] = request[c]
         /\ pc[t] = "invoke" => stub[t] = proxy[c]
<1>1. t # NoThread
  BY DistinctAssumption
<1>2. ClientInv(c)
  BY DEF IInv
<1>3. RequestInv(c)'
  BY <1>2 DEF ClientInv, RequestInv, Waiting, Creation, MethodCall, Deletion, OwnContent, clientVars
<1>4. ResultInv(c)' /\ OwnContent(c)' = OwnContent(c)
  BY <1>2 DEF ClientInv, ResultInv, OwnContent, clientVars
<1> QED
  BY <1>1, <1>2, <1>3, <1>4, PairFacts DEF ClientInv, ContentInv, PlaceInv

\* A step of a message thread.
LEMMA ServePreserves ==
  ASSUME IInv, NEW t \in Thread, Serve(t)
  PROVE  IInv'
<1>1. UNCHANGED clientVars
  BY DEF Serve
<1>2. PICK c \in Client : serving[c] = t /\ Serves(c, t) /\ csOwner' \in Thread \cup {NoThread}
  BY ServesAClient DEF Serve
<1>3. ClientTypeOK' /\ \A u \in Thread \ {t} : SameThread(u)
  BY <1>1, <1>2, ServeTypes
<1>4. /\ pc \in [Thread -> Labels] /\ msg \in [Thread -> Seq(Argument)]
      /\ stub \in [Thread -> Handle] /\ heap \in [Address -> Content \cup {Free}]
  BY DEF IInv, ClientTypeOK, TypeOK
<1>5. /\ t # NoThread
      /\ RequestInv(c)' /\ ResultInv(c)' /\ OwnContent(c)' = OwnContent(c)
      /\ \A a : Owns(c, a) => a \in Address /\ heap[a] = OwnContent(c)
      /\ Holds(c) => proxy[c] \in allObjects /\ proxy[c] \in Address
      /\ pc[t] # "done" => msg[t] = request[c]
      /\ pc[t] = "invoke" => stub[t] = proxy[c]
  BY <1>1, <1>2, ServedClient
<1>6. /\ phase' = phase /\ proxy' = proxy /\ request' = request /\ serving' = serving
      /\ sent' = sent /\ orphaned' = orphaned
  BY <1>1 DEF clientVars
<1>7. CASE \E label \in Labels : Walks(c, t, label)
  <2>1. PICK label \in Labels : Walks(c, t, label)
    BY <1>7
  <2>2. /\ pc'[t] = label
        /\ label \in {"insert", "enterFind", "find", "sleep", "enterDelete", "delete"}
        /\ msg' = msg /\ stub' = stub /\ heap' = heap /\ allObjects' = allObjects /\ alive' = alive
    BY <1>4, <2>1 DEF Walks, Goto
  <2>3. \A a : Owns(c, a)' <=> Owns(c, a)
    BY <1>2, <1>5, <1>6, <2>1, <2>2 DEF Owns, Brings, Holds, Walks
  <2>4. Apart(c) /\ ServingInv'
    BY <1>1, <1>2, <1>3, <2>2, ServeFrame
  <2>5. TakesOnlyFree(c)
    BY <1>6, <2>2, <2>3 DEF TakesOnlyFree
  <2>6. PlaceInv(c)'
    BY <1>2, <1>5, <1>6, <2>1, <2>2 DEF PlaceInv, Place, Walks
  <2>7. ResponseInv(c)'
    BY <1>2, <1>6, <2>2 DEF ResponseInv
  <2>8. ContentInv(c)'
    BY <1>2, <1>5, <1>6, <2>1, <2>2, <2>3 DEF ContentInv, Holds, Walks
  <2> QED
    BY <1>3, <1>5, <2>2, <2>4, <2>5, <2>6, <2>7, <2>8, Assemble DEF ClientInv
<1>8. CASE \E a \in Address : Constructed(c, t, a)
  <2>1. PICK a \in Address : Constructed(c, t, a)
    BY <1>8
  <2>2. /\ pc'[t] = "enterInsert" /\ stub'[t] = a /\ heap[a] = Free /\ heap'[a] = OwnContent(c)
        /\ \A b \in Address : b # a => heap'[b] = heap[b]
        /\ msg' = msg /\ allObjects' = allObjects /\ alive' = alive
        /\ phase[c] = "creating" /\ pc[t] = "process"
    BY <1>4, <2>1 DEF Constructed, Goto
  <2>3. \A b : ~Owns(c, b) /\ (Owns(c, b)' <=> b = a)
    BY <1>2, <1>5, <1>6, <2>2 DEF Owns, Brings, Holds
  <2>4. Apart(c) /\ ServingInv'
    BY <1>1, <1>2, <1>3, <2>2, ServeFrame
  <2>5. TakesOnlyFree(c)
    BY <1>6, <2>2, <2>3 DEF TakesOnlyFree
  <2>6. PlaceInv(c)'
    BY <1>2, <1>5, <1>6, <2>2 DEF PlaceInv, Place
  <2>7. ResponseInv(c)'
    BY <1>2, <1>6, <2>2 DEF ResponseInv
  <2>8. ContentInv(c)'
    BY <1>5, <1>6, <2>2, <2>3 DEF ContentInv, Holds
  <2> QED
    BY <1>3, <1>5, <2>2, <2>4, <2>5, <2>6, <2>7, <2>8, Assemble DEF ClientInv
<1>9. CASE \E m : Registered(c, t, m)
  <2>1. PICK m : Registered(c, t, m)
    BY <1>9
  <2>2. /\ pc'[t] = "done" /\ msg'[t] = m /\ stub' = stub /\ heap' = heap /\ alive' = alive
        /\ allObjects' = allObjects \cup {stub[t]}
        /\ phase[c] = "creating" /\ pc[t] = "insert"
        /\ Success(m) /\ CreatedHandle(m) = stub[t]
    BY <1>4, <2>1 DEF Registered, Finish, Goto
  <2>3. \A a : Owns(c, a)' <=> Owns(c, a)
    BY <1>2, <1>5, <1>6, <2>2 DEF Owns, Brings, Holds
  <2>4. Apart(c) /\ ServingInv'
    BY <1>1, <1>2, <1>3, <2>2, ServeFrame
  <2>5. TakesOnlyFree(c)
    BY <1>6, <2>2, <2>3 DEF TakesOnlyFree
  <2>6. PlaceInv(c)'
    BY <1>2, <1>5, <1>6, <2>2 DEF PlaceInv, Place
  <2>7. ResponseInv(c)'
    BY <1>2, <1>6, <2>2 DEF ResponseInv
  <2>8. ContentInv(c)'
    BY <1>5, <1>6, <2>2, <2>3 DEF ContentInv, Holds
  <2> QED
    BY <1>3, <1>5, <2>2, <2>4, <2>5, <2>6, <2>7, <2>8, Assemble DEF ClientInv
<1>10. CASE Found(c, t)
  <2>1. /\ pc'[t] = "invoke" /\ stub'[t] = proxy[c] /\ heap' = heap /\ allObjects' = allObjects
        /\ msg' = msg /\ alive' = alive
        /\ phase[c] = "calling" /\ pc[t] = "find"
    BY <1>4, <1>10 DEF Found, Goto
  <2>2. \A a : Owns(c, a)' <=> Owns(c, a)
    BY <1>2, <1>5, <1>6, <2>1 DEF Owns, Brings, Holds
  <2>3. Apart(c) /\ ServingInv'
    BY <1>1, <1>2, <1>3, <2>1, ServeFrame
  <2>4. TakesOnlyFree(c)
    BY <1>6, <2>1, <2>2 DEF TakesOnlyFree
  <2>5. PlaceInv(c)'
    BY <1>2, <1>5, <1>6, <2>1 DEF PlaceInv, Place
  <2>6. ResponseInv(c)'
    BY <1>2, <1>6, <2>1 DEF ResponseInv
  <2>7. ContentInv(c)'
    BY <1>5, <1>6, <2>1, <2>2 DEF ContentInv, Holds
  <2> QED
    BY <1>3, <1>5, <2>1, <2>3, <2>4, <2>5, <2>6, <2>7, Assemble DEF ClientInv
<1>11. CASE \E m : Answers(c, t, m)
  <2>1. PICK m : Answers(c, t, m)
    BY <1>11
  <2>2. /\ pc'[t] = "done" /\ msg'[t] = m /\ stub' = stub /\ heap' = heap /\ alive' = alive
        /\ allObjects' = allObjects
        /\ phase[c] = "calling" /\ CallAnswer(c, m)
    BY <1>4, <2>1 DEF Answers, Finish, Goto
  <2>3. \A a : Owns(c, a)' <=> Owns(c, a)
    BY <1>2, <1>5, <1>6, <2>2 DEF Owns, Brings, Holds
  <2>4. Apart(c) /\ ServingInv'
    BY <1>1, <1>2, <1>3, <2>2, ServeFrame
  <2>5. TakesOnlyFree(c)
    BY <1>6, <2>2, <2>3 DEF TakesOnlyFree
  <2>6. PlaceInv(c)'
    BY <1>2, <1>5, <1>6, <2>2 DEF PlaceInv, Place
  <2>7. ResponseInv(c)'
    BY <1>2, <1>6, <2>2 DEF ResponseInv, CallAnswer
  <2>8. ContentInv(c)'
    BY <1>5, <1>6, <2>2, <2>3 DEF ContentInv, Holds
  <2> QED
    BY <1>3, <1>5, <2>2, <2>4, <2>5, <2>6, <2>7, <2>8, Assemble DEF ClientInv
<1>12. CASE \E m : Removed(c, t, m)
  <2>1. PICK m : Removed(c, t, m)
    BY <1>12
  <2>2. Holds(c) /\ proxy[c] \in Address
    BY <1>2, <1>5, <2>1 DEF Removed, Holds
  <2>3. /\ pc'[t] = "done" /\ msg'[t] = m /\ stub' = stub /\ alive' = alive
        /\ heap'[proxy[c]] = Free
        /\ \A a \in Address : a # proxy[c] => heap'[a] = heap[a]
        /\ allObjects' = allObjects
        /\ phase[c] = "deleting" /\ pc[t] = "delete" /\ Success(m)
    BY <1>4, <2>1, <2>2 DEF Removed, Finish, Goto
  <2>4. \A a : ~Owns(c, a)' /\ (Owns(c, a) <=> a = proxy[c])
    BY <1>2, <1>5, <1>6, <2>2, <2>3 DEF Owns, Brings, Holds
  <2>5. Apart(c) /\ ServingInv'
    BY <1>1, <1>2, <1>3, <2>3, <2>4, ServeFrame
  <2>6. TakesOnlyFree(c)
    BY <1>6, <2>3, <2>4 DEF TakesOnlyFree
  <2>7. PlaceInv(c)'
    BY <1>2, <1>5, <1>6, <2>3 DEF PlaceInv, Place
  <2>8. ResponseInv(c)'
    BY <1>2, <1>6, <2>3 DEF ResponseInv
  <2>9. ContentInv(c)'
    BY <1>2, <1>5, <1>6, <2>3, <2>4 DEF ContentInv, Holds
  <2> QED
    BY <1>3, <1>5, <2>3, <2>5, <2>6, <2>7, <2>8, <2>9, Assemble DEF ClientInv
<1> QED
  BY <1>2, <1>7, <1>8, <1>9, <1>10, <1>11, <1>12 DEF Serves
------------------------------------------------------------------------------
\* A client starts a call: it has a request now, of the kind its phase says,
\* and the objects it had.
LEMMA StartPreserves ==
  ASSUME IInv, NEW c \in Client, NEW label \in {"creating", "calling", "deleting"},
         NEW r \in AllRequests, Start(c, label, r),
         \/ phase[c] = "out" /\ label = "creating" /\ Creation(c, r)
         \/ phase[c] = "ready" /\ label = "calling" /\ MethodCall(c, r)
         \/ phase[c] = "ready" /\ label = "deleting" /\ Deletion(c, r)
  PROVE  IInv'
<1>1. ClientTypeOK /\ ClientInv(c) /\ ServingInv
  BY DEF IInv
<1>2. /\ phase' = [phase EXCEPT ![c] = label] /\ request' = [request EXCEPT ![c] = r]
      /\ requests' = [requests EXCEPT ![c] = requests[c] - 1] /\ requests[c] > 0
      /\ UNCHANGED <<vars, proxy, serving, sent, result, got, orphaned>>
  BY DEF Start, Set
<1>3. /\ heap' = heap /\ allObjects' = allObjects /\ csOwner' = csOwner /\ pc' = pc
      /\ msg' = msg /\ stub' = stub /\ alive' = alive
  BY <1>2 DEF vars
<1>4. phase'[c] = label /\ request'[c] = r
  BY <1>1, <1>2 DEF ClientTypeOK
<1>5. serving[c] = NoThread
  BY <1>1 DEF ClientInv, PlaceInv, Place
<1>6. ClientTypeOK'
  <2>1. requests' \in [Client -> Nat]
    BY <1>1, <1>2 DEF ClientTypeOK
  <2>2. phase' \in [Client -> {"out", "creating", "ready", "calling", "deleting"}]
    BY <1>1, <1>2 DEF ClientTypeOK
  <2>3. request' \in [Client -> {<<>>} \cup AllRequests]
    <3> DEFINE Typed == {<<>>} \cup AllRequests
    <3>1. request \in [Client -> Typed] /\ r \in Typed
      BY <1>1 DEF ClientTypeOK
    <3> HIDE DEF Typed
    <3>2. request' \in [Client -> Typed]
      BY <1>2, <3>1
    <3> QED
      BY <3>2 DEF Typed
  <2>4. TypeOK'
    BY <1>1, <1>3 DEF ClientTypeOK, TypeOK
  <2> QED
    BY <1>1, <1>2, <2>1, <2>2, <2>3, <2>4 DEF ClientTypeOK
<1>7. \A a : Owns(c, a)' <=> Owns(c, a)
  BY <1>2, <1>4, <1>5 DEF Owns, Brings, Holds
<1>8. Apart(c)
  <2>1. \A d \in Client \ {c} : Same(d)
    BY <1>1, <1>2 DEF Same, ClientTypeOK
  <2> QED
    BY <1>2, <1>3, <2>1 DEF Apart, SameThread
<1>9. TakesOnlyFree(c)
  BY <1>2, <1>3, <1>7 DEF TakesOnlyFree
<1>10. RequestInv(c)'
  <2>1. r # <<>>
    BY MessageNotEmpty DEF Creation, MethodCall, Deletion
  <2>2. /\ label = "creating" => Creation(c, r)'
        /\ label = "calling" => MethodCall(c, r)'
        /\ label = "deleting" => Deletion(c, r)'
    BY <1>2 DEF Creation, MethodCall, Deletion, OwnContent
  <2>3. label # "creating" => proxy'[c] \in Address
    BY <1>1, <1>2 DEF ClientInv, RequestInv
  <2>4. Waiting(c)' /\ request'[c] # <<>>
    BY <1>4, <2>1 DEF Waiting
  <2>5. /\ phase'[c] = "creating" => Creation(c, request[c])'
        /\ phase'[c] = "calling" => MethodCall(c, request[c])'
        /\ phase'[c] = "deleting" => Deletion(c, request[c])'
    BY <1>4, <2>2 DEF Creation, MethodCall, Deletion
  <2> QED
    BY <1>4, <2>3, <2>4, <2>5 DEF RequestInv
<1>11. PlaceInv(c)' /\ ResponseInv(c)'
  BY <1>2, <1>5 DEF PlaceInv, ResponseInv
<1>12. ContentInv(c)'
  <2>1. ContentInv(c) /\ OwnContent(c)' = OwnContent(c)
    BY <1>1, <1>2 DEF ClientInv, OwnContent
  <2>2. Holds(c)' => Holds(c)
    BY <1>4 DEF Holds
  <2> QED
    BY <1>2, <1>3, <1>7, <2>1, <2>2 DEF ContentInv
<1>13. ResultInv(c)'
  BY <1>1, <1>2 DEF ClientInv, ResultInv
<1>14. ServingInv'
  BY <1>1, <1>2, <1>3 DEF ServingInv
<1> QED
  BY <1>3, <1>6, <1>8, <1>9, <1>10, <1>11, <1>12, <1>13, <1>14, Assemble DEF ClientInv

\* The three calls a client can start.
LEMMA CallsPreserve ==
  ASSUME IInv, NEW c \in Client, Create(c) \/ Call(c) \/ Destroy(c)
  PROVE  IInv'
<1>1. ClientTypeOK /\ (phase[c] = "ready" => proxy[c] \in Address)
  BY DEF IInv, ClientInv, RequestInv
<1>2. CASE Create(c)
  <2>1. PICK r : /\ r = (IF c \in Calculators
                         THEN Request(NullHandle, eCreateCustomObjectDispId, <<Calculator>>)
                         ELSE Request(NullHandle, eCreateIntDispId, <<sent[c]>>))
                 /\ phase[c] = "out" /\ Start(c, "creating", r)
    BY <1>2 DEF Create
  <2>2. r \in AllRequests /\ Creation(c, r)
    BY <1>1, <2>1, CreationFacts
  <2> QED
    BY <2>1, <2>2, StartPreserves
<1>3. CASE Call(c)
  <2>1. PICK r : /\ \/ /\ c \in Calculators
                       /\ \E d \in Methods : r = Request(proxy[c], d, MethodArguments)
                    \/ c \notin Calculators /\ r = Request(proxy[c], eCreateIntDispId, <<>>)
                 /\ phase[c] = "ready" /\ Start(c, "calling", r)
    BY <1>3 DEF Call
  <2>2. r \in AllRequests /\ MethodCall(c, r)
    BY <1>1, <2>1, MethodCallFacts
  <2> QED
    BY <2>1, <2>2, StartPreserves
<1>4. CASE Destroy(c)
  <2>1. PICK r : /\ r = Request(NullHandle, eDeleteDispId, <<proxy[c]>>)
                 /\ phase[c] = "ready" /\ Start(c, "deleting", r)
    BY <1>4 DEF Destroy
  <2>2. r \in AllRequests /\ Deletion(c, r)
    BY <1>1, <2>1, DeletionFacts
  <2> QED
    BY <2>1, <2>2, StartPreserves
<1> QED
  BY <1>2, <1>3, <1>4

\* A thread that serves nobody reads the request.
LEMMA DeliverPreserves ==
  ASSUME IInv, NEW c \in Client, Deliver(c)
  PROVE  IInv'
<1>1. ClientTypeOK /\ ClientInv(c) /\ ServingInv
  BY DEF IInv
<1>2. PICK t \in Thread :
        /\ pc[t] = "idle" /\ pc' = [pc EXCEPT ![t] = "process"]
        /\ msg' = [msg EXCEPT ![t] = request[c]]
        /\ serving' = [serving EXCEPT ![c] = t]
        /\ UNCHANGED <<heap, allObjects, csOwner, stub, alive>>
  BY DEF Deliver, Receive, At, Goto, Set
<1>3. /\ serving[c] = NoThread /\ request[c] # <<>>
      /\ UNCHANGED <<phase, proxy, request, sent, result, got, requests, orphaned>>
  BY DEF Deliver
<1>4. /\ pc'[t] = "process" /\ msg'[t] = request[c] /\ serving'[c] = t /\ t # NoThread
      /\ \A u \in Thread \ {t} : SameThread(u)
      /\ \A d \in Client \ {c} : serving'[d] = serving[d] /\ serving[d] # t
  <2>1. pc'[t] = "process" /\ msg'[t] = request[c] /\ serving'[c] = t /\ t # NoThread
    BY <1>1, <1>2, DistinctAssumption DEF ClientTypeOK, TypeOK
  <2>2. \A u \in Thread \ {t} : SameThread(u)
    BY <1>1, <1>2 DEF ClientTypeOK, TypeOK, SameThread
  <2>3. \A d \in Client \ {c} : serving'[d] = serving[d] /\ serving[d] # t
    BY <1>1, <1>2, <2>1 DEF ClientTypeOK, ServingInv
  <2> QED
    BY <2>1, <2>2, <2>3
<1>5. Waiting(c) /\ IsMessage(request[c])
  BY <1>1, <1>3 DEF ClientInv, RequestInv, Waiting, Creation, MethodCall, Deletion
<1>6. ClientTypeOK'
  <2>1. pc' \in [Thread -> Labels]
    BY <1>1, <1>2 DEF ClientTypeOK, TypeOK, Labels
  <2>2. msg' \in [Thread -> Seq(Argument)]
    BY <1>1, <1>2, <1>5 DEF ClientTypeOK, TypeOK, IsMessage
  <2>3. serving' \in [Client -> Thread \cup {NoThread}]
    BY <1>1, <1>2 DEF ClientTypeOK
  <2>4. TypeOK'
    BY <1>1, <1>2, <2>1, <2>2 DEF ClientTypeOK, TypeOK
  <2> QED
    BY <1>1, <1>3, <2>3, <2>4 DEF ClientTypeOK
<1>7. \A a : Owns(c, a)' <=> Owns(c, a)
  BY <1>3, <1>4 DEF Owns, Brings, Holds
<1>8. Apart(c)
  <2>1. \A d \in Client \ {c} : serving[d] # NoThread => SameThread(serving[d])
    BY <1>1, <1>4 DEF ClientTypeOK
  <2> QED
    BY <1>2, <1>3, <1>4, <2>1 DEF Apart, Same
<1>9. TakesOnlyFree(c)
  BY <1>2, <1>3, <1>7 DEF TakesOnlyFree
<1>10. RequestInv(c)' /\ ResultInv(c)'
  BY <1>1, <1>3 DEF ClientInv, RequestInv, ResultInv, Waiting, Creation, MethodCall, Deletion,
                    OwnContent
<1>11. PlaceInv(c)' /\ ResponseInv(c)'
  BY <1>3, <1>4, <1>5 DEF PlaceInv, ResponseInv, Place, Waiting
<1>12. ContentInv(c)'
  <2>1. ContentInv(c) /\ OwnContent(c)' = OwnContent(c)
    BY <1>1, <1>3 DEF ClientInv, OwnContent
  <2>2. Holds(c)' => Holds(c)
    BY <1>3 DEF Holds
  <2> QED
    BY <1>2, <1>3, <1>7, <2>1, <2>2 DEF ContentInv
<1>13. ServingInv'
  <2>1. \A d \in Client : serving'[d] # NoThread => pc'[serving'[d]] # "idle"
    BY <1>1, <1>4 DEF ServingInv, ClientTypeOK, SameThread
  <2>2. \A d, e \in Client : serving'[d] = serving'[e] /\ serving'[d] # NoThread => d = e
    BY <1>1, <1>4 DEF ServingInv
  <2>3. ASSUME NEW u \in Thread, pc'[u] # "idle"
        PROVE  \E d \in Client : serving'[d] = u
    <3>1. CASE u = t
      BY <1>4, <3>1
    <3>2. CASE u # t
      <4>1. PICK d \in Client : serving[d] = u
        BY <1>1, <1>4, <2>3, <3>2 DEF ServingInv, SameThread
      <4>2. d # c
        BY <1>3, <4>1, DistinctAssumption
      <4> QED
        BY <1>4, <4>1, <4>2
    <3> QED
      BY <3>1, <3>2
  <2> QED
    BY <2>1, <2>2, <2>3 DEF ServingInv
<1> QED
  BY <1>2, <1>6, <1>8, <1>9, <1>10, <1>11, <1>12, <1>13, Assemble DEF ClientInv
------------------------------------------------------------------------------
\* A call returns.  The client has no request and no thread any more.
LEMMA ReturnFrame ==
  ASSUME IInv, NEW c \in Client, NEW error, NEW m, Return(c, error, m),
         pc' \in [Thread -> Labels], msg' \in [Thread -> Seq(Argument)],
         stub' \in [Thread -> Handle],
         UNCHANGED <<heap, allObjects, csOwner, alive>>,
         \A u \in Thread : serving[c] # u => SameThread(u),
         \A u \in Thread : serving[c] = u => pc'[u] = "idle"
  PROVE  /\ Apart(c) /\ ServingInv' /\ TypeOK'
         /\ serving'[c] = NoThread /\ request'[c] = <<>> /\ UNCHANGED <<sent, requests>>
         /\ request' \in [Client -> {<<>>} \cup AllRequests]
         /\ serving' \in [Client -> Thread \cup {NoThread}]
<1>1. ClientTypeOK /\ ServingInv
  BY DEF IInv
<1>2. /\ request' = [request EXCEPT ![c] = <<>>] /\ serving' = [serving EXCEPT ![c] = NoThread]
      /\ UNCHANGED <<sent, requests>>
  BY DEF Return, Set
<1>3. /\ serving'[c] = NoThread /\ request'[c] = <<>>
      /\ serving' \in [Client -> Thread \cup {NoThread}]
      /\ \A d \in Client \ {c} : serving'[d] = serving[d] /\ request'[d] = request[d]
  BY <1>1, <1>2 DEF ClientTypeOK
<1>4. request' \in [Client -> {<<>>} \cup AllRequests]
  <2> DEFINE Typed == {<<>>} \cup AllRequests
  <2>1. request \in [Client -> Typed] /\ <<>> \in Typed
    BY <1>1 DEF ClientTypeOK
  <2> HIDE DEF Typed
  <2>2. request' \in [Client -> Typed]
    BY <1>2, <2>1
  <2> QED
    BY <2>2 DEF Typed
<1>5. \A d \in Client \ {c} :
        phase'[d] = phase[d] /\ proxy'[d] = proxy[d] /\ result'[d] = result[d] /\ got'[d] = got[d]
  BY <1>1 DEF Return, FinishCreate, FinishCall, FinishDestroy, Set, ClientTypeOK
<1>6. \A d \in Client \ {c} :
        serving[d] # NoThread => serving[d] # serving[c] /\ serving[d] \in Thread
  BY <1>1 DEF ServingInv, ClientTypeOK
<1>7. Apart(c)
  BY <1>2, <1>3, <1>5, <1>6 DEF Apart, Same
<1>8. ServingInv'
  <2>1. \A d \in Client : serving'[d] # NoThread => pc'[serving'[d]] # "idle"
    BY <1>1, <1>3, <1>6 DEF ServingInv, SameThread
  <2>2. \A d, e \in Client : serving'[d] = serving'[e] /\ serving'[d] # NoThread => d = e
    BY <1>1, <1>3 DEF ServingInv
  <2>3. ASSUME NEW u \in Thread, pc'[u] # "idle"
        PROVE  \E d \in Client : serving'[d] = u
    <3>1. serving[c] # u /\ pc[u] # "idle"
      BY <2>3 DEF SameThread
    <3>2. PICK d \in Client : serving[d] = u
      BY <1>1, <3>1 DEF ServingInv
    <3> QED
      BY <1>3, <3>1, <3>2
  <2> QED
    BY <2>1, <2>2, <2>3 DEF ServingInv
<1>9. TypeOK'
  BY <1>1 DEF ClientTypeOK, TypeOK
<1> QED
  BY <1>2, <1>3, <1>4, <1>7, <1>8, <1>9

\* A creation that returns has brought its object, or none.
LEMMA FinishCreatePreserves ==
  ASSUME IInv, NEW c \in Client, NEW error, NEW m, FinishCreate(c, error, m),
         Apart(c), ServingInv', TypeOK', serving'[c] = NoThread, request'[c] = <<>>,
         UNCHANGED <<heap, allObjects, alive, sent, requests>>,
         request' \in [Client -> {<<>>} \cup AllRequests],
         serving' \in [Client -> Thread \cup {NoThread}],
         \/ serving[c] = NoThread /\ error \in TransportError
         \/ /\ serving[c] # NoThread /\ pc[serving[c]] = "done"
            /\ error = ERROR_SUCCESS /\ m = msg[serving[c]]
  PROVE  IInv'
<1>1. ClientTypeOK /\ ClientInv(c)
  BY DEF IInv
<1>2. phase[c] = "creating" /\ UNCHANGED <<result, got, orphaned>>
  BY DEF FinishCreate
<1>3. OwnContent(c)' = OwnContent(c)
  BY DEF OwnContent
<1>4. CASE phase' = [phase EXCEPT ![c] = "out"] /\ UNCHANGED proxy
           /\ serving[c] = NoThread
  <2>1. \A a : ~Owns(c, a) /\ ~Owns(c, a)'
    BY <1>1, <1>2, <1>4 DEF Owns, Brings, Holds, ClientTypeOK
  <2>2. phase'[c] = "out"
    BY <1>1, <1>4 DEF ClientTypeOK
  <2>3. ClientTypeOK'
    BY <1>1, <1>2, <1>4 DEF ClientTypeOK
  <2>4. TakesOnlyFree(c)
    BY <1>2, <2>1 DEF TakesOnlyFree
  <2>5. ClientInv(c)'
    BY <1>1, <1>2, <2>1, <2>2
       DEF ClientInv, RequestInv, Waiting, PlaceInv, ResponseInv, ContentInv, ResultInv, Holds
  <2> QED
    BY <2>3, <2>4, <2>5, Assemble
<1>5. CASE phase' = [phase EXCEPT ![c] = "ready"] /\ proxy' = [proxy EXCEPT ![c] = stub[serving[c]]]
           /\ serving[c] # NoThread /\ pc[serving[c]] = "done"
  <2> DEFINE a == stub[serving[c]]
  <2>1. Owns(c, a) /\ \A b : Owns(c, b) => b = a
    BY <1>2, <1>5 DEF Owns, Brings, Holds
  <2>2. a \in Address /\ heap[a] = OwnContent(c) /\ a \in allObjects
    BY <1>1, <1>2, <1>5, <2>1 DEF ClientInv, ContentInv, ResponseInv
  <2> HIDE DEF a
  <2>3. phase'[c] = "ready" /\ proxy'[c] = a
    BY <1>1, <1>5 DEF ClientTypeOK, a
  <2>4. Holds(c)' /\ \A b : Owns(c, b)' <=> b = a
    BY <2>3 DEF Owns, Brings, Holds
  <2>5. ClientTypeOK'
    <3>1. proxy' \in [Client -> Handle]
      BY <1>1, <1>5, <2>2 DEF ClientTypeOK, Handle, a
    <3> QED
      BY <1>1, <1>2, <1>5, <3>1 DEF ClientTypeOK
  <2>6. TakesOnlyFree(c)
    BY <1>2, <2>1, <2>4 DEF TakesOnlyFree
  <2>7. ClientInv(c)'
    BY <1>1, <1>2, <1>3, <2>2, <2>3, <2>4
       DEF ClientInv, RequestInv, Waiting, PlaceInv, ResponseInv, ContentInv, ResultInv
  <2> QED
    BY <2>5, <2>6, <2>7, Assemble
<1>6. CASE serving[c] = NoThread
  <2>1. error # ERROR_SUCCESS
    BY <1>6 DEF ERROR_SUCCESS, TransportError, ERROR_SERVER_NO_RESPONSE, ERROR_RECEIVE_FAILED
  <2> QED
    BY <1>4, <1>6, <2>1 DEF FinishCreate, Set
<1>7. CASE serving[c] # NoThread
  <2>1. CreatedHandle(m) = stub[serving[c]] /\ stub[serving[c]] \in allObjects
    BY <1>1, <1>2, <1>7 DEF ClientInv, ResponseInv
  <2>2. CreatedHandle(m) # NullHandle
    BY <1>1, <2>1, DistinctAssumption DEF ClientTypeOK, TypeOK
  <2> QED
    BY <1>5, <1>7, <2>1, <2>2 DEF FinishCreate, Set
<1> QED
  BY <1>6, <1>7

\* A method that returns has told the truth.
LEMMA FinishCallPreserves ==
  ASSUME IInv, NEW c \in Client, NEW error, NEW m, FinishCall(c, error, m),
         Apart(c), ServingInv', TypeOK', serving'[c] = NoThread, request'[c] = <<>>,
         UNCHANGED <<heap, allObjects, alive, sent, requests>>,
         request' \in [Client -> {<<>>} \cup AllRequests],
         serving' \in [Client -> Thread \cup {NoThread}],
         \/ serving[c] = NoThread /\ error \in TransportError
         \/ /\ serving[c] # NoThread /\ pc[serving[c]] = "done"
            /\ error = ERROR_SUCCESS /\ m = msg[serving[c]]
  PROVE  IInv'
<1>1. ClientTypeOK /\ ClientInv(c)
  BY DEF IInv
<1>2. /\ phase[c] = "calling" /\ phase' = [phase EXCEPT ![c] = "ready"]
      /\ result' = [result EXCEPT ![c] = error]
      /\ got' = got \/ (error = ERROR_SUCCESS
                          /\ got' = [got EXCEPT ![c] = GetFunctionParameter(m, 1, got[c])])
      /\ UNCHANGED <<proxy, orphaned>>
  BY DEF FinishCall, Set
<1>3. OwnContent(c)' = OwnContent(c)
  BY DEF OwnContent
<1>4. phase'[c] = "ready" /\ result'[c] = error
  BY <1>1, <1>2 DEF ClientTypeOK
<1>5. Holds(c) /\ Holds(c)' /\ \A a : Owns(c, a)' <=> Owns(c, a)
  BY <1>2, <1>4 DEF Owns, Brings, Holds
<1>6. ASSUME error = ERROR_SUCCESS
      PROVE  /\ GetFunctionParameter(m, 1, got[c]) \in Argument
             /\ c \notin Calculators => GetFunctionParameter(m, 1, got[c]) = sent[c]
  <2>1. CallAnswer(c, m)
    BY <1>1, <1>2, <1>6 DEF ClientInv, ResponseInv, ERROR_SUCCESS, TransportError, ERROR_SERVER_NO_RESPONSE,
                           ERROR_RECEIVE_FAILED
  <2>2. m \in Seq(Argument) /\ Len(m) >= 3 /\ got[c] \in Argument
    BY <1>1, <2>1 DEF ClientTypeOK, CallAnswer, Success, IsMessage
  <2>3. GetFunctionParameter(m, 1, got[c]) \in Argument
    BY <2>2 DEF GetFunctionParameter, GetParameter, eDispIdPosition
  <2> QED
    BY <2>1, <2>3 DEF CallAnswer
<1>7. ClientTypeOK'
  <2>1. got' \in [Client -> Argument]
    BY <1>1, <1>2, <1>6 DEF ClientTypeOK
  <2>2. result' \in [Client -> ServerErrorCode \cup TransportError]
    <3>1. error \in ServerErrorCode \cup TransportError
      BY ConstantFacts
    <3> QED
      BY <1>1, <1>2, <3>1 DEF ClientTypeOK
  <2>3. phase' \in [Client -> {"out", "creating", "ready", "calling", "deleting"}]
    BY <1>1, <1>2 DEF ClientTypeOK
  <2> QED
    BY <1>1, <1>2, <2>1, <2>2, <2>3 DEF ClientTypeOK
<1>8. TakesOnlyFree(c)
  BY <1>2, <1>5 DEF TakesOnlyFree
<1>9. ResultInv(c)'
  <2>1. got'[c] = got[c] \/ (error = ERROR_SUCCESS /\ got'[c] = GetFunctionParameter(m, 1, got[c]))
    BY <1>1, <1>2 DEF ClientTypeOK
  <2> QED
    BY <1>1, <1>4, <1>6, <2>1 DEF ClientInv, ResultInv
<1>10. RequestInv(c)' /\ PlaceInv(c)' /\ ResponseInv(c)'
  BY <1>1, <1>2, <1>4 DEF ClientInv, RequestInv, Waiting, PlaceInv, ResponseInv
<1>11. ContentInv(c)'
  BY <1>1, <1>2, <1>3, <1>5 DEF ClientInv, ContentInv
<1> QED
  BY <1>7, <1>8, <1>9, <1>10, <1>11, Assemble DEF ClientInv

\* A destructor that returns leaves an object behind only if it failed.
LEMMA FinishDestroyPreserves ==
  ASSUME IInv, NEW c \in Client, NEW error, FinishDestroy(c, error),
         Apart(c), ServingInv', TypeOK', serving'[c] = NoThread, request'[c] = <<>>,
         UNCHANGED <<heap, allObjects, alive, sent, requests>>,
         request' \in [Client -> {<<>>} \cup AllRequests],
         serving' \in [Client -> Thread \cup {NoThread}],
         \/ serving[c] = NoThread /\ error \in TransportError
         \/ serving[c] # NoThread /\ pc[serving[c]] = "done" /\ error = ERROR_SUCCESS
  PROVE  IInv'
<1>1. ClientTypeOK /\ ClientInv(c)
  BY DEF IInv
<1>2. /\ phase[c] = "deleting" /\ phase' = [phase EXCEPT ![c] = "out"]
      /\ proxy' = [proxy EXCEPT ![c] = NullHandle]
      /\ orphaned' = IF error = ERROR_SUCCESS THEN orphaned ELSE orphaned \cup {proxy[c]}
      /\ UNCHANGED <<result, got>>
  BY DEF FinishDestroy, Set
<1>3. phase'[c] = "out" /\ proxy[c] \in Address
  BY <1>1, <1>2 DEF ClientTypeOK, ClientInv, RequestInv
<1>4. \A a : ~Owns(c, a)' /\ ~Holds(c)'
  BY <1>3 DEF Owns, Brings, Holds
<1>5. \A a : Owns(c, a) => a = proxy[c] /\ serving[c] = NoThread
  BY <1>2 DEF Owns, Brings, Holds
<1>6. ClientTypeOK'
  <2>1. proxy' \in [Client -> Handle]
    BY <1>1, <1>2 DEF ClientTypeOK, Handle
  <2>2. orphaned' \subseteq Address
    BY <1>1, <1>2, <1>3 DEF ClientTypeOK
  <2>3. phase' \in [Client -> {"out", "creating", "ready", "calling", "deleting"}]
    BY <1>1, <1>2 DEF ClientTypeOK
  <2> QED
    BY <1>1, <1>2, <2>1, <2>2, <2>3 DEF ClientTypeOK
<1>7. TakesOnlyFree(c)
  <2>1. ASSUME NEW a, Owns(c, a)
        PROVE  a \in orphaned'
    BY <1>2, <1>5, <2>1 DEF ERROR_SUCCESS, TransportError, ERROR_SERVER_NO_RESPONSE, ERROR_RECEIVE_FAILED
  <2>2. orphaned \subseteq orphaned'
    BY <1>2
  <2> QED
    BY <1>4, <2>1, <2>2 DEF TakesOnlyFree
<1>8. ClientInv(c)'
  BY <1>1, <1>2, <1>3, <1>4
     DEF ClientInv, RequestInv, Waiting, PlaceInv, ResponseInv, ContentInv, ResultInv
<1> QED
  BY <1>6, <1>7, <1>8, Assemble
------------------------------------------------------------------------------
\* A call returns from a thread, or without having reached one.
LEMMA ReturnsPreserve ==
  ASSUME IInv, NEW c \in Client, Answered(c) \/ NotServed(c)
  PROVE  IInv'
<1>1. ClientTypeOK /\ ClientInv(c)
  BY DEF IInv
<1>2. PICK error, m :
        /\ Return(c, error, m)
        /\ \/ /\ serving[c] = NoThread /\ error \in TransportError
              /\ UNCHANGED vars
           \/ /\ serving[c] # NoThread /\ pc[serving[c]] = "done"
              /\ error = ERROR_SUCCESS /\ m = msg[serving[c]]
              /\ End(serving[c])
  <2>1. CASE Answered(c)
    <3>1. GetErrorCode(msg[serving[c]]) = ERROR_SUCCESS
      BY <1>1, <2>1 DEF Answered, At, ClientInv, ResponseInv, Success
    <3> QED
      BY <2>1, <3>1 DEF Answered, At
  <2>2. CASE NotServed(c)
    BY <2>2 DEF NotServed
  <2> QED
    BY <2>1, <2>2
<1>3. /\ pc' \in [Thread -> Labels] /\ msg' \in [Thread -> Seq(Argument)]
      /\ stub' \in [Thread -> Handle]
      /\ UNCHANGED <<heap, allObjects, csOwner, alive>>
      /\ \A u \in Thread : serving[c] # u => SameThread(u)
      /\ \A u \in Thread : serving[c] = u => pc'[u] = "idle"
  <2>1. CASE UNCHANGED vars /\ serving[c] = NoThread
    BY <1>1, <2>1, DistinctAssumption DEF ClientTypeOK, TypeOK, vars, SameThread
  <2>2. CASE serving[c] # NoThread /\ End(serving[c])
    <3> DEFINE t == serving[c]
    <3>1. /\ pc' = [pc EXCEPT ![t] = "idle"] /\ msg' = [msg EXCEPT ![t] = <<>>]
          /\ stub' = [stub EXCEPT ![t] = NullHandle]
          /\ UNCHANGED <<heap, allObjects, csOwner, alive>>
      BY <2>2 DEF End, Set
    <3>2. /\ pc \in [Thread -> Labels] /\ msg \in [Thread -> Seq(Argument)]
          /\ stub \in [Thread -> Handle] /\ t \in Thread /\ NullHandle \in Handle
      BY <1>1, <2>2 DEF ClientTypeOK, TypeOK, Handle
    <3> HIDE DEF t
    <3>3. pc' \in [Thread -> Labels] /\ stub' \in [Thread -> Handle]
      BY <3>1, <3>2 DEF Labels
    <3>4. msg' \in [Thread -> Seq(Argument)]
      BY <3>1, <3>2
    <3>5. /\ \A u \in Thread : t # u => SameThread(u)
          /\ \A u \in Thread : t = u => pc'[u] = "idle"
      BY <3>1, <3>2 DEF SameThread
    <3> QED
      BY <3>1, <3>3, <3>4, <3>5 DEF t
  <2> QED
    BY <1>2, <2>1, <2>2
<1>4. /\ Apart(c) /\ ServingInv' /\ TypeOK'
      /\ serving'[c] = NoThread /\ request'[c] = <<>> /\ UNCHANGED <<sent, requests>>
      /\ request' \in [Client -> {<<>>} \cup AllRequests]
      /\ serving' \in [Client -> Thread \cup {NoThread}]
  BY <1>2, <1>3, ReturnFrame
<1>5. CASE FinishCreate(c, error, m)
  BY <1>2, <1>3, <1>4, <1>5, FinishCreatePreserves
<1>6. CASE FinishCall(c, error, m)
  BY <1>2, <1>3, <1>4, <1>6, FinishCallPreserves
<1>7. CASE FinishDestroy(c, error)
  BY <1>2, <1>3, <1>4, <1>7, FinishDestroyPreserves
<1> QED
  BY <1>2, <1>5, <1>6, <1>7 DEF Return

\* In the beginning nobody has anything.
LEMMA IInvInit == ClientInit => IInv
<1> SUFFICES ASSUME ClientInit
             PROVE  IInv
  OBVIOUS
<1>1. /\ heap = [a \in Address |-> Free] /\ allObjects = {} /\ csOwner = NoThread
      /\ pc = [t \in Thread |-> "idle"] /\ msg = [t \in Thread |-> <<>>]
      /\ stub = [t \in Thread |-> NullHandle] /\ alive = TRUE
  BY DEF ClientInit, Init
<1>2. TypeOK
  BY <1>1 DEF TypeOK, Labels, Handle
<1>3. /\ phase = [c \in Client |-> "out"] /\ proxy = [c \in Client |-> NullHandle]
      /\ request = [c \in Client |-> <<>>] /\ serving = [c \in Client |-> NoThread]
      /\ sent \in [Client \ Calculators -> Value]
      /\ result = [c \in Client |-> ERROR_SUCCESS] /\ got = [c \in Client |-> EmptyArgument]
      /\ requests \in Workloads /\ orphaned = {}
  BY DEF ClientInit
<1>4. ClientTypeOK
  <2>1. result \in [Client -> ServerErrorCode \cup TransportError]
    BY <1>3, ConstantFacts
  <2>2. got \in [Client -> Argument]
    BY <1>3, ConstantFacts
  <2>3. requests \in [Client -> Nat]
    BY <1>3, ClientAssumption
  <2>4. request \in [Client -> {<<>>} \cup AllRequests]
    <3> DEFINE Typed == {<<>>} \cup AllRequests
    <3>1. <<>> \in Typed
      OBVIOUS
    <3> HIDE DEF Typed
    <3>2. request \in [Client -> Typed]
      BY <1>3, <3>1
    <3> QED
      BY <3>2 DEF Typed
  <2> QED
    BY <1>2, <1>3, <2>1, <2>2, <2>3, <2>4 DEF ClientTypeOK, Handle
<1>5. \A c \in Client : ~Holds(c) /\ \A a : ~Owns(c, a)
  BY <1>3 DEF Owns, Brings, Holds
<1>6. \A c \in Client : ClientInv(c)
  BY <1>3, <1>5
     DEF ClientInv, RequestInv, Waiting, PlaceInv, ResponseInv, ContentInv, ResultInv
<1>7. ServingInv
  BY <1>1, <1>3 DEF ServingInv
<1>8. OwnerInv
  BY <1>1, <1>5 DEF OwnerInv
<1> QED
  BY <1>1, <1>4, <1>6, <1>7, <1>8 DEF IInv, ServerSurvives

\* A step that changes nothing.
LEMMA IInvStutter == IInv /\ UNCHANGED allVars => IInv'
<1> SUFFICES ASSUME IInv, UNCHANGED allVars
             PROVE  IInv'
  OBVIOUS
<1>1. UNCHANGED vars /\ UNCHANGED clientVars
  BY DEF allVars
<1>2. ClientTypeOK' /\ ServerSurvives' /\ ServingInv'
  BY <1>1 DEF IInv, ClientTypeOK, TypeOK, ServerSurvives, ServingInv, vars, clientVars
<1>3. \A c \in Client : \A a : Owns(c, a)' <=> Owns(c, a)
  BY <1>1 DEF Owns, Brings, Holds, vars, clientVars
<1>4. OwnerInv'
  BY <1>1, <1>3 DEF IInv, OwnerInv, vars, clientVars
<1>5. ASSUME NEW c \in Client
      PROVE  ClientInv(c)'
  <2>1. ClientInv(c)
    BY DEF IInv
  <2>2. RequestInv(c)' /\ ResultInv(c)'
    BY <1>1, <2>1 DEF ClientInv, RequestInv, ResultInv, Waiting, Creation, MethodCall, Deletion,
                      OwnContent, clientVars
  <2>3. PlaceInv(c)' /\ ResponseInv(c)'
    BY <1>1, <2>1 DEF ClientInv, PlaceInv, Place, ResponseInv, CallAnswer, vars, clientVars
  <2>4. ContentInv(c)'
    BY <1>1, <1>3, <2>1 DEF ClientInv, ContentInv, Holds, OwnContent, vars, clientVars
  <2> QED
    BY <2>2, <2>3, <2>4 DEF ClientInv
<1> QED
  BY <1>2, <1>4, <1>5 DEF IInv

\* The inductive invariant holds in every state of every execution.
THEOREM ClientsInvHolds == SyncSpec => []IInv
<1>1. ClientInit => IInv
  BY IInvInit
<1>2. IInv /\ [SyncNext]_allVars => IInv'
  <2> SUFFICES ASSUME IInv, [SyncNext]_allVars
               PROVE  IInv'
    OBVIOUS
  <2>1. ASSUME NEW c \in Client, Create(c) \/ Call(c) \/ Destroy(c) \/ Transfer(c) \/ Answered(c)
        PROVE  IInv'
    BY <2>1, CallsPreserve, DeliverPreserves, ReturnsPreserve DEF Transfer
  <2>2. ASSUME NEW t \in Thread, Serve(t)
        PROVE  IInv'
    BY <2>2, ServePreserves
  <2>3. CASE UNCHANGED allVars
    BY <2>3, IInvStutter
  <2> QED
    BY <2>1, <2>2, <2>3 DEF SyncNext
<1> QED
  BY <1>1, <1>2, PTL DEF SyncSpec
------------------------------------------------------------------------------
\* The types of all variables, of the clients and of the server.
THEOREM ClientTypesCorrect == SyncSpec => []ClientTypeOK
<1>1. IInv => ClientTypeOK
  BY DEF IInv
<1> QED
  BY <1>1, ClientsInvHolds, PTL

\* The object behind a client's handle is registered and is the client's own
\* (CalculatorClient.h keeps the handle CreateObject has registered).
THEOREM HandlesStayTrue == SyncSpec => []ProxyOwnsObject
<1>1. IInv => ProxyOwnsObject
  BY DEF IInv, ClientInv, ContentInv, Owns, ProxyOwnsObject
<1> QED
  BY <1>1, ClientsInvHolds, PTL

\* No two clients hold the same object, however addresses are used again.
THEOREM ObjectsAreNotShared == SyncSpec => []OwnershipIsExclusive
<1>1. IInv => OwnershipIsExclusive
  BY DEF IInv, OwnerInv, Owns, OwnershipIsExclusive
<1> QED
  BY <1>1, ClientsInvHolds, PTL

\* An object without a client is one whose deletion failed.
THEOREM NoObjectIsAbandoned == SyncSpec => []ObjectsHaveOwners
<1>1. IInv => ObjectsHaveOwners
  BY DEF IInv, OwnerInv, Owns, Brings, Arriving, ObjectsHaveOwners
<1> QED
  BY <1>1, ClientsInvHolds, PTL

\* The server frees no freed memory and dies of no use of it
\* (ObjectManager.cpp:78, 145).
THEOREM ServerStaysAlive == SyncSpec => []ServerSurvives
<1>1. IInv => ServerSurvives
  BY DEF IInv
<1> QED
  BY <1>1, ClientsInvHolds, PTL

\* A call follows a pointer to a live stub, though clients delete.
THEOREM CallsFindLiveObjects == SyncSpec => []CallsReachLiveObjects
<1>1. ASSUME IInv, NEW t \in Thread, pc[t] = "invoke"
      PROVE  heap[stub[t]] # Free
  <2>1. PICK c \in Client : serving[c] = t
    BY <1>1 DEF IInv, ServingInv
  <2>2. phase[c] = "calling"
    BY <1>1, <2>1, PairFacts DEF Place
  <2>3. stub[t] = proxy[c]
    BY <1>1, <2>1, PairFacts DEF IInv, ClientInv, PlaceInv
  <2> QED
    BY <1>1, <2>1, <2>2, <2>3, PairFacts, OwnContentFacts DEF IInv
<1>2. IInv => CallsReachLiveObjects
  BY <1>1 DEF CallsReachLiveObjects
<1> QED
  BY <1>2, ClientsInvHolds, PTL

\* A call that the server has read succeeds with the truth; only one that no
\* thread has read fails.
THEOREM CallsTellTheTruth == SyncSpec => []ServedCallsSucceed
<1>1. IInv => ServedCallsSucceed
  BY DEF IInv, ClientInv, ResultInv, ServedCallsSucceed
<1> QED
  BY <1>1, ClientsInvHolds, PTL
==============================================================================
