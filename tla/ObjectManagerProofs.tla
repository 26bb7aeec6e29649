-------------------------- MODULE ObjectManagerProofs --------------------------
(***************************************************************************)
(* The safety of ObjectManager for any number of message threads, any      *)
(* requests a client can send and any number of addresses.                 *)
(***************************************************************************)
EXTENDS ObjectManager, TLAPS, SequenceTheorems

\* The numbers of Constants, and what is needed to know of their sets.
LEMMA ConstantFacts ==
  /\ ServerErrorCode \subseteq Int
  /\ ServerErrorCode \subseteq Argument
  /\ EmptyArgument \in Argument /\ Computed \in Argument
  /\ Handle \subseteq Argument /\ Content \subseteq Argument
  /\ {ERROR_SUCCESS, ERROR_NO_OBJECT_FOUND, ERROR_DISPID_INVALID,
      ERROR_PARAMETER_INVALID, ERROR_OBJECT_NOT_REGISTERED} \subseteq ServerErrorCode
  /\ ERROR_SUCCESS \notin {ERROR_NO_OBJECT_FOUND, ERROR_DISPID_INVALID,
                           ERROR_PARAMETER_INVALID, ERROR_OBJECT_NOT_REGISTERED}
BY DEF ServerErrorCode, Argument, ERROR_SUCCESS, ERROR_NO_OBJECT_FOUND,
       ERROR_DISPID_INVALID, ERROR_PARAMETER_INVALID, ERROR_OBJECT_NOT_REGISTERED

\* Marshaller::SetParameter keeps a message a message, sets the position it is
\* given and keeps every other one.
LEMMA SetParameterFacts ==
  ASSUME NEW m \in Seq(Argument), NEW index \in Nat \ {0}, NEW x \in Argument
  PROVE  /\ SetParameter(m, index, x) \in Seq(Argument)
         /\ Len(SetParameter(m, index, x)) = IF index > Len(m) THEN index ELSE Len(m)
         /\ SetParameter(m, index, x)[index] = x
         /\ \A i \in 1 .. Len(m) : i # index => SetParameter(m, index, x)[i] = m[i]
<1> DEFINE n == IF index > Len(m) THEN index ELSE Len(m)
           s == SetParameter(m, index, x)
<1>1. n \in Nat /\ index \in 1 .. n /\ Len(m) \in Nat /\ Len(m) <= n
  OBVIOUS
<1>2. \A i \in 1 .. Len(m) : m[i] \in Argument
  OBVIOUS
<1>3. s = [i \in 1 .. n |-> IF i = index THEN x ELSE IF i <= Len(m) THEN m[i] ELSE EmptyArgument]
  BY DEF SetParameter
<1>4. s \in [1 .. n -> Argument]
  BY <1>1, <1>2, <1>3, ConstantFacts
<1>5. s \in Seq(Argument) /\ Len(s) = n
  BY <1>1, <1>4, SeqDef
<1>6. s[index] = x /\ \A i \in 1 .. Len(m) : i # index => s[i] = m[i]
  BY <1>1, <1>3
<1> QED
  BY <1>5, <1>6

\* The fields of a message that tell what it asks for.
SameRequest(s, m) ==
  /\ GetObjectId(s) = GetObjectId(m)
  /\ GetDispId(s) = GetDispId(m)

\* SetErrorCode sets the error code of a message and nothing else.
LEMMA SetErrorCodeFacts ==
  ASSUME NEW m \in Seq(Argument), Len(m) >= 3, NEW error \in ServerErrorCode
  PROVE  /\ SetErrorCode(m, error) \in Seq(Argument)
         /\ Len(SetErrorCode(m, error)) = Len(m)
         /\ GetErrorCode(SetErrorCode(m, error)) = error
         /\ SameRequest(SetErrorCode(m, error), m)
         /\ \A i \in 1 .. 3 : \A x :
              GetFunctionParameter(SetErrorCode(m, error), i, x) = GetFunctionParameter(m, i, x)
<1> DEFINE s == SetErrorCode(m, error)
<1>1. s = SetParameter(m, 1, error)
  BY DEF SetErrorCode, eResultPosition
<1>2. /\ s \in Seq(Argument) /\ Len(s) = Len(m) /\ s[1] = error
      /\ \A i \in 1 .. Len(m) : i # 1 => s[i] = m[i]
  <2>1. 1 \in Nat \ {0} /\ error \in Argument
    BY ConstantFacts
  <2>2. /\ SetParameter(m, 1, error) \in Seq(Argument)
        /\ Len(SetParameter(m, 1, error)) = IF 1 > Len(m) THEN 1 ELSE Len(m)
        /\ SetParameter(m, 1, error)[1] = error
        /\ \A i \in 1 .. Len(m) : i # 1 => SetParameter(m, 1, error)[i] = m[i]
    BY <2>1, SetParameterFacts
  <2>3. Len(m) \in Nat /\ ~(1 > Len(m))
    OBVIOUS
  <2> HIDE DEF s
  <2> QED
    BY <1>1, <2>2, <2>3
<1> HIDE DEF s
<1>3. GetErrorCode(s) = error
  BY <1>2 DEF GetErrorCode, GetParameter, eResultPosition
<1>4. SameRequest(s, m)
  BY <1>2 DEF SameRequest, GetObjectId, GetDispId, GetParameter, eObjectIdPosition, eDispIdPosition
<1>5. \A i \in 1 .. 3 : \A x : GetFunctionParameter(s, i, x) = GetFunctionParameter(m, i, x)
  BY <1>2 DEF GetFunctionParameter, GetParameter, eDispIdPosition
<1> QED
  BY <1>2, <1>3, <1>4, <1>5 DEF s

\* SetFunctionParameter sets its parameter and leaves the request as it is.
LEMMA SetFunctionParameterFacts ==
  ASSUME NEW m \in Seq(Argument), Len(m) >= 3, NEW index \in 1 .. 3, NEW x \in Argument
  PROVE  /\ SetFunctionParameter(m, index, x) \in Seq(Argument)
         /\ Len(SetFunctionParameter(m, index, x)) >= 3
         /\ SameRequest(SetFunctionParameter(m, index, x), m)
         /\ \A y : GetFunctionParameter(SetFunctionParameter(m, index, x), index, y) = x
<1> DEFINE s == SetFunctionParameter(m, index, x)
<1>1. s = SetParameter(m, 3 + index, x)
  BY DEF SetFunctionParameter, eDispIdPosition
<1>2. /\ s \in Seq(Argument)
      /\ Len(s) = IF 3 + index > Len(m) THEN 3 + index ELSE Len(m)
      /\ s[3 + index] = x
      /\ \A i \in 1 .. Len(m) : i # 3 + index => s[i] = m[i]
  <2>1. 3 + index \in Nat \ {0}
    OBVIOUS
  <2> HIDE DEF s
  <2> QED
    BY <1>1, <2>1, SetParameterFacts
<1> HIDE DEF s
<1>3. Len(s) >= 3 /\ Len(s) >= 3 + index
  BY <1>2
<1>4. SameRequest(s, m)
  BY <1>2, <1>3 DEF SameRequest, GetObjectId, GetDispId, GetParameter, eObjectIdPosition,
                    eDispIdPosition
<1>5. \A y : GetFunctionParameter(s, index, y) = x
  BY <1>2, <1>3 DEF GetFunctionParameter, GetParameter, eDispIdPosition
<1> QED
  BY <1>2, <1>3, <1>4, <1>5 DEF s

\* A request is a message of at least three arguments, in their positions.
LEMMA RequestFacts ==
  ASSUME NEW id \in Argument, NEW d \in Argument, NEW arguments \in Seq(Argument)
  PROVE  LET r == Request(id, d, arguments)
         IN /\ r \in Seq(Argument) /\ Len(r) >= 3 /\ Len(r) = 3 + Len(arguments)
            /\ GetObjectId(r) = id
            /\ GetDispId(r) = d /\ GetErrorCode(r) = ERROR_SUCCESS
            /\ Len(arguments) >= 1 =>
                 \A x : GetFunctionParameter(r, 1, x) = arguments[1]
<1> DEFINE header == <<ERROR_SUCCESS, id, d>>
           r == Request(id, d, arguments)
<1>1. header \in Seq(Argument) /\ Len(header) = 3
  <2>1. ERROR_SUCCESS \in Argument
    BY ConstantFacts
  <2> QED
    BY <2>1
<1>2. r = header \o arguments
  BY DEF Request
<1>3. /\ r \in Seq(Argument) /\ Len(r) = 3 + Len(arguments)
      /\ r[1] = ERROR_SUCCESS /\ r[2] = id /\ r[3] = d
      /\ Len(arguments) >= 1 => r[4] = arguments[1]
  BY <1>1, <1>2
<1> HIDE DEF r
<1>4. GetObjectId(r) = id /\ GetDispId(r) = d /\ GetErrorCode(r) = ERROR_SUCCESS
  BY <1>3 DEF GetObjectId, GetDispId, GetErrorCode, GetParameter, eObjectIdPosition,
              eDispIdPosition, eResultPosition
<1>5. Len(arguments) >= 1 => \A x : GetFunctionParameter(r, 1, x) = arguments[1]
  BY <1>3 DEF GetFunctionParameter, GetParameter, eDispIdPosition
<1> QED
  BY <1>3, <1>4, <1>5 DEF r

\* What a thread may assume of the request it reads.
WellFormed(r) ==
  /\ r \in Seq(Argument) /\ Len(r) >= 3
  /\ Constructs(r) => GetFunctionParameter(r, 1, EmptyArgument) \in Content
  /\ IsDelete(r) => r \in DeleteRequests

\* Every request a client can send is one.
LEMMA RequestsAreWellFormed ==
  ASSUME NEW r \in Requests
  PROVE  WellFormed(r)
<1> USE DEF eCreateIntDispId, eCreateStringDispId, eCreateCustomObjectDispId, eDeleteDispId,
            AddDispID, MaxDispID
<1>1. /\ NullHandle \in Argument /\ Calculator \in Content /\ Value \subseteq Content
      /\ Value \subseteq Argument /\ Calculator \in Argument /\ Unregistered \in Argument
  BY DEF Argument, Handle, Content
<1>2. \A d \in -1 .. 4 : d \in Argument
  BY DEF Argument
<1>3. \A x \in Argument : <<x>> \in Seq(Argument) /\ Len(<<x>>) = 1 /\ <<x>>[1] = x
  OBVIOUS
<1>4. ASSUME NEW d \in -1 .. 4, NEW x \in Argument, r = Request(NullHandle, d, <<x>>)
      PROVE  /\ r \in Seq(Argument) /\ Len(r) >= 3
             /\ GetObjectId(r) = NullHandle /\ GetDispId(r) = d
             /\ \A y : GetFunctionParameter(r, 1, y) = x
  <2>1. PICK s \in Seq(Argument) : s = <<x>> /\ Len(s) >= 1 /\ s[1] = x
    <3>1. <<x>> \in Seq(Argument) /\ Len(<<x>>) >= 1 /\ <<x>>[1] = x
      BY <1>3
    <3> QED
      BY <3>1, Zenon
  <2>2. NullHandle \in Argument /\ d \in Argument
    BY <1>1, <1>2
  <2>3. LET q == Request(NullHandle, d, s)
        IN /\ q \in Seq(Argument) /\ Len(q) >= 3
           /\ GetObjectId(q) = NullHandle /\ GetDispId(q) = d
           /\ \A y : GetFunctionParameter(q, 1, y) = s[1]
    BY <2>1, <2>2, RequestFacts
  <2> QED
    BY <1>4, <2>1, <2>3
<1>5. CASE r \in CreatePrimitiveRequests
  <2>1. PICK d \in {1, 2}, v \in Value : r = Request(NullHandle, d, <<v>>)
    BY <1>5 DEF CreatePrimitiveRequests
  <2>2. d \in -1 .. 4 /\ v \in Argument /\ v \in Content
    BY <1>1
  <2> QED
    BY <1>4, <2>1, <2>2 DEF WellFormed, IsDelete, GlobalDispId
<1>6. CASE r \in CreateCustomRequests
  <2>1. PICK n \in {Calculator, Unregistered} : r = Request(NullHandle, 0, <<n>>)
    BY <1>6 DEF CreateCustomRequests
  <2>2. 0 \in -1 .. 4 /\ n \in Argument
    BY <1>1
  <2>3. /\ r \in Seq(Argument) /\ Len(r) >= 3 /\ GetDispId(r) = 0
        /\ \A y : GetFunctionParameter(r, 1, y) = n
    BY <1>4, <2>1, <2>2
  <2> QED
    BY <1>1, <2>3 DEF WellFormed, IsDelete, GlobalDispId, Constructs, ClassName
<1>7. CASE r \in DeleteRequests
  <2>1. PICK h \in Handle : r = Request(NullHandle, 3, <<h>>)
    BY <1>7 DEF DeleteRequests
  <2>2. 3 \in -1 .. 4 /\ h \in Argument
    BY ConstantFacts
  <2>3. r \in Seq(Argument) /\ Len(r) >= 3 /\ GetDispId(r) = 3
    BY <1>4, <2>1, <2>2
  <2> QED
    BY <1>7, <2>3 DEF WellFormed, GlobalDispId, Constructs
<1>8. CASE r \in CallRequests
  <2>1. PICK a \in Address, d \in AddDispID .. MaxDispID,
             arguments \in {<<>>, <<EmptyArgument, EmptyArgument, EmptyArgument>>} :
          r = Request(a, d, arguments)
    BY <1>8 DEF CallRequests
  <2>2. a \in Argument /\ a # NullHandle
    BY DistinctAssumption DEF Argument, Handle
  <2>3. EmptyArgument \in Argument
    BY ConstantFacts
  <2>4. arguments \in Seq(Argument)
    <3>1. <<>> \in Seq(Argument)
      OBVIOUS
    <3>2. <<EmptyArgument, EmptyArgument, EmptyArgument>> \in Seq(Argument)
      BY <2>3
    <3> QED
      BY <3>1, <3>2
  <2>5. d \in Argument
    BY <1>2
  <2>6. r \in Seq(Argument) /\ Len(r) >= 3 /\ GetObjectId(r) = a
    BY <2>1, <2>2, <2>4, <2>5, RequestFacts
  <2> QED
    BY <2>2, <2>6 DEF WellFormed, Constructs, IsDelete, IsGlobal
<1>9. CASE r \in BadGlobalRequests
  <2>1. r = Request(NullHandle, 4, <<>>)
    BY <1>9 DEF BadGlobalRequests
  <2>2. 4 \in Argument /\ <<>> \in Seq(Argument)
    BY <1>2
  <2>3. r \in Seq(Argument) /\ Len(r) >= 3 /\ GetDispId(r) = 4
    BY <1>1, <2>1, <2>2, RequestFacts
  <2> QED
    BY <2>3 DEF WellFormed, Constructs, IsDelete, GlobalDispId
<1> QED
  BY <1>5, <1>6, <1>7, <1>8, <1>9, RequestsAssumption DEF AllRequests
------------------------------------------------------------------------------
\* What a thread knows of its message and of its pointer where it is.
ThreadInv ==
  \A t \in Thread :
    /\ pc[t] = "process" => msg[t] \in Requests
    /\ pc[t] # "idle" => Len(msg[t]) >= 3
    /\ Pending(t) => stub[t] \in Address
    /\ pc[t] \in {"enterFind", "find", "invoke", "sleep"} => ~IsGlobal(msg[t])
    /\ pc[t] \in {"enterDelete", "delete"} => IsDelete(msg[t])

\* The inductive invariant all others rest on.
BaseInv == TypeOK /\ ThreadInv /\ FoundStaysRegistered

\* Two messages with the same object and dispatch id are both global or not,
\* and both deletions or not.
LEMMA SameRequestKind ==
  ASSUME NEW s, NEW m, SameRequest(s, m)
  PROVE  (IsGlobal(s) <=> IsGlobal(m)) /\ (IsDelete(s) <=> IsDelete(m))
BY DEF SameRequest, IsGlobal, IsDelete, GlobalDispId

\* t replies: the reply is a message for the same request as the thread had.
Replies(t) ==
  \E m \in Seq(Argument) :
    /\ Len(m) >= 3 /\ SameRequest(m, msg[t])
    /\ Finish(t, m)

\* Setting only an error code is a reply.
LEMMA ErrorReplies ==
  ASSUME BaseInv, NEW t \in Thread, pc[t] # "idle", NEW error \in ServerErrorCode,
         Finish(t, SetErrorCode(msg[t], error))
  PROVE  Replies(t)
<1>1. msg[t] \in Seq(Argument) /\ Len(msg[t]) >= 3
  BY DEF BaseInv, TypeOK, ThreadInv
<1> DEFINE s == SetErrorCode(msg[t], error)
<1>2. s \in Seq(Argument) /\ Len(s) >= 3 /\ SameRequest(s, msg[t])
  BY <1>1, SetErrorCodeFacts
<1> QED
  BY <1>2 DEF Replies

\* Setting an out parameter and an error code is a reply.
LEMMA ParameterReplies ==
  ASSUME BaseInv, NEW t \in Thread, pc[t] # "idle", NEW error \in ServerErrorCode,
         NEW i \in 1 .. 3, NEW x \in Argument,
         Finish(t, SetErrorCode(SetFunctionParameter(msg[t], i, x), error))
  PROVE  Replies(t)
<1> DEFINE p == SetFunctionParameter(msg[t], i, x)
           s == SetErrorCode(p, error)
<1>1. msg[t] \in Seq(Argument) /\ Len(msg[t]) >= 3
  BY DEF BaseInv, TypeOK, ThreadInv
<1>2. p \in Seq(Argument) /\ Len(p) >= 3 /\ SameRequest(p, msg[t])
  BY <1>1, SetFunctionParameterFacts
<1>3. s \in Seq(Argument) /\ Len(s) >= 3 /\ SameRequest(s, p)
  <2> HIDE DEF p
  <2> QED
    BY <1>2, SetErrorCodeFacts
<1>4. SameRequest(s, msg[t])
  BY <1>2, <1>3 DEF SameRequest
<1> QED
  BY <1>3, <1>4 DEF Replies

\* A method of an object replies, or it is LongOperation and sleeps first.
LEMMA InvokeReplies ==
  ASSUME BaseInv, NEW t \in Thread, pc[t] = "invoke", NEW content \in Content,
         InvokeOn(t, content)
  PROVE  Replies(t) \/ (Goto(t, "sleep") /\ UNCHANGED msg)
<1>1. \A d : OutParameter(d) \in 1 .. 3
  BY DEF OutParameter
<1>2. content \in Argument /\ Computed \in Argument
  BY ConstantFacts
<1>3. ERROR_SUCCESS \in ServerErrorCode /\ ERROR_DISPID_INVALID \in ServerErrorCode
  BY ConstantFacts
<1>4. CASE Finish(t, SetErrorCode(SetFunctionParameter(msg[t], 1, content), ERROR_SUCCESS))
  BY <1>2, <1>3, <1>4, ParameterReplies
<1>5. CASE Finish(t, SetErrorCode(msg[t], ERROR_DISPID_INVALID))
  BY <1>3, <1>5, ErrorReplies
<1>6. CASE Finish(t, Computes(msg[t]))
  BY <1>1, <1>2, <1>3, <1>6, ParameterReplies DEF Computes
<1>7. CASE Goto(t, "sleep") /\ UNCHANGED msg
  BY <1>7
<1> QED
  BY <1>4, <1>5, <1>6, <1>7 DEF InvokeOn

\* A reply keeps what threads know, whatever else happens to the objects.
LEMMA RepliesPreserve ==
  ASSUME BaseInv, NEW t \in Thread, Replies(t), UNCHANGED stub,
         allObjects \subseteq allObjects'
  PROVE  ThreadInv' /\ FoundStaysRegistered' /\ pc' \in [Thread -> Labels]
           /\ msg' \in [Thread -> Seq(Argument)]
<1>1. PICK m \in Seq(Argument) : Len(m) >= 3 /\ SameRequest(m, msg[t]) /\ Finish(t, m)
  BY DEF Replies
<1>2. /\ pc' = [pc EXCEPT ![t] = "done"]
      /\ msg' = [msg EXCEPT ![t] = m]
      /\ stub' = stub
  BY <1>1 DEF Finish, Goto
<1>3. pc' \in [Thread -> Labels] /\ msg' \in [Thread -> Seq(Argument)]
  BY <1>2 DEF BaseInv, TypeOK, Labels
<1>4. ThreadInv'
  BY <1>1, <1>2 DEF BaseInv, TypeOK, ThreadInv, Pending
<1>5. FoundStaysRegistered'
  BY <1>2 DEF BaseInv, TypeOK, FoundStaysRegistered
<1> QED
  BY <1>3, <1>4, <1>5

\* BaseInv holds of the server that has just been started.
LEMMA BaseInit == Init => BaseInv
<1> SUFFICES ASSUME Init PROVE BaseInv
  OBVIOUS
<1>1. TypeOK
  <2>1. <<>> \in Seq(Argument)
    OBVIOUS
  <2> QED
    BY <2>1 DEF Init, TypeOK, Handle, Labels
<1>2. ThreadInv /\ FoundStaysRegistered
  BY DEF Init, ThreadInv, Pending, FoundStaysRegistered
<1> QED
  BY <1>1, <1>2 DEF BaseInv

\* Every step of a message thread keeps BaseInv.
LEMMA BaseStep == BaseInv /\ [Next]_vars => BaseInv'
<1> SUFFICES ASSUME BaseInv, [Next]_vars PROVE BaseInv'
  OBVIOUS
<1> USE DEF BaseInv
<1>1. ASSUME NEW t \in Thread, NEW r \in Requests, Receive(t, r)
      PROVE  BaseInv'
  <2>1. r \in Seq(Argument) /\ Len(r) >= 3
    BY RequestsAreWellFormed DEF WellFormed
  <2>2. TypeOK'
    BY <1>1, <2>1 DEF Receive, Goto, TypeOK, Labels
  <2>3. ThreadInv'
    BY <1>1, <2>1 DEF Receive, At, Goto, TypeOK, ThreadInv, Pending
  <2>4. FoundStaysRegistered'
    BY <1>1 DEF Receive, At, Goto, TypeOK, FoundStaysRegistered
  <2> QED
    BY <2>2, <2>3, <2>4
<1>2. ASSUME NEW t \in Thread, Construct(t) PROVE BaseInv'
  <2>1. PICK a \in Address :
          /\ heap' = [heap EXCEPT ![a] = GetFunctionParameter(msg[t], 1, EmptyArgument)]
          /\ stub' = [stub EXCEPT ![t] = a]
    BY <1>2 DEF Construct
  <2>2. GetFunctionParameter(msg[t], 1, EmptyArgument) \in Content
    BY <1>2, RequestsAreWellFormed DEF WellFormed, Construct, At, ThreadInv
  <2>3. a \in Handle
    BY DEF Handle
  <2>4. TypeOK'
    BY <1>2, <2>1, <2>2, <2>3 DEF Construct, Goto, TypeOK, Labels
  <2>5. ThreadInv'
    BY <1>2, <2>1 DEF Construct, At, Goto, TypeOK, ThreadInv, Pending
  <2>6. FoundStaysRegistered'
    BY <1>2, <2>1 DEF Construct, At, Goto, TypeOK, FoundStaysRegistered
  <2> QED
    BY <2>4, <2>5, <2>6
<1>3. ASSUME NEW t \in Thread, RejectGlobal(t) PROVE BaseInv'
  <2> DEFINE e == SetErrorCode(msg[t], ERROR_OBJECT_NOT_REGISTERED)
  <2>1. pc[t] = "process" /\ msg[t] \in Seq(Argument) /\ Len(msg[t]) >= 3
    BY <1>3 DEF RejectGlobal, At, TypeOK, ThreadInv
  <2>2. \/ Finish(t, SetErrorCode(e, ERROR_DISPID_INVALID))
        \/ Finish(t, SetErrorCode(msg[t], ERROR_DISPID_INVALID))
    BY <1>3 DEF RejectGlobal
  <2>3. e \in Seq(Argument) /\ Len(e) >= 3 /\ SameRequest(e, msg[t])
    BY <2>1, SetErrorCodeFacts, ConstantFacts
  <2>4. LET s == SetErrorCode(e, ERROR_DISPID_INVALID)
        IN s \in Seq(Argument) /\ Len(s) >= 3 /\ SameRequest(s, e)
    <3> HIDE DEF e
    <3> QED
      BY <2>3, SetErrorCodeFacts, ConstantFacts
  <2>5. Replies(t)
    <3>1. CASE Finish(t, SetErrorCode(msg[t], ERROR_DISPID_INVALID))
      BY <2>1, <3>1, ErrorReplies, ConstantFacts
    <3>2. CASE Finish(t, SetErrorCode(e, ERROR_DISPID_INVALID))
      <4>1. SameRequest(SetErrorCode(e, ERROR_DISPID_INVALID), msg[t])
        BY <2>3, <2>4 DEF SameRequest
      <4> QED
        BY <2>4, <3>2, <4>1 DEF Replies
    <3> QED
      BY <2>2, <3>1, <3>2
  <2>6. ThreadInv' /\ FoundStaysRegistered' /\ pc' \in [Thread -> Labels]
          /\ msg' \in [Thread -> Seq(Argument)]
    BY <1>3, <2>5, RepliesPreserve DEF RejectGlobal
  <2> QED
    BY <1>3, <2>6 DEF RejectGlobal, TypeOK
<1>4. ASSUME NEW t \in Thread, BeginDelete(t) PROVE BaseInv'
  <2>1. CASE Finish(t, SetErrorCode(msg[t], ERROR_PARAMETER_INVALID))
    <3>1. Replies(t)
      BY <1>4, <2>1, ErrorReplies, ConstantFacts DEF BeginDelete, At
    <3>2. ThreadInv' /\ FoundStaysRegistered' /\ pc' \in [Thread -> Labels]
            /\ msg' \in [Thread -> Seq(Argument)]
      BY <1>4, <3>1, RepliesPreserve DEF BeginDelete
    <3> QED
      BY <1>4, <3>2 DEF BeginDelete, TypeOK
  <2>2. CASE Goto(t, "enterDelete") /\ UNCHANGED msg
    <3>1. TypeOK'
      BY <1>4, <2>2 DEF BeginDelete, Goto, TypeOK, Labels
    <3>2. ThreadInv'
      BY <1>4, <2>2 DEF BeginDelete, At, Goto, TypeOK, ThreadInv, Pending
    <3>3. FoundStaysRegistered'
      BY <1>4, <2>2 DEF BeginDelete, Goto, TypeOK, FoundStaysRegistered
    <3> QED
      BY <3>1, <3>2, <3>3
  <2> QED
    BY <1>4, <2>1, <2>2 DEF BeginDelete
<1>5. ASSUME NEW t \in Thread, BeginCall(t) PROVE BaseInv'
  <2>1. /\ pc[t] = "process" /\ ~IsGlobal(msg[t])
        /\ \/ pc' = [pc EXCEPT ![t] = "done"]
           \/ pc' = [pc EXCEPT ![t] = "enterFind"]
        /\ UNCHANGED <<heap, allObjects, csOwner, msg, stub, alive>>
    BY <1>5 DEF BeginCall, At, Goto
  <2>2. TypeOK'
    BY <2>1 DEF TypeOK, Labels
  <2>3. ThreadInv'
    BY <2>1 DEF TypeOK, ThreadInv, Pending
  <2>4. FoundStaysRegistered'
    BY <2>1 DEF TypeOK, FoundStaysRegistered
  <2> QED
    BY <2>2, <2>3, <2>4
<1>6. ASSUME NEW t \in Thread, Enter(t) PROVE BaseInv'
  <2>1. /\ csOwner' = t
        /\ \/ pc[t] = "enterInsert" /\ pc' = [pc EXCEPT ![t] = "insert"]
           \/ pc[t] = "enterDelete" /\ pc' = [pc EXCEPT ![t] = "delete"]
           \/ pc[t] = "enterFind" /\ pc' = [pc EXCEPT ![t] = "find"]
        /\ UNCHANGED <<heap, allObjects, msg, stub, alive>>
    <3>1. DOMAIN Inside = {"enterInsert", "enterDelete", "enterFind"}
      BY DEF Inside
    <3>2. /\ Inside["enterInsert"] = "insert"
          /\ Inside["enterDelete"] = "delete"
          /\ Inside["enterFind"] = "find"
      BY DEF Inside
    <3> QED
      BY <1>6, <3>1, <3>2 DEF Enter, Goto
  <2>2. TypeOK'
    BY <2>1 DEF TypeOK, Labels
  <2>3. ThreadInv'
    BY <2>1 DEF TypeOK, ThreadInv, Pending
  <2>4. FoundStaysRegistered'
    BY <2>1 DEF TypeOK, FoundStaysRegistered
  <2> QED
    BY <2>2, <2>3, <2>4
<1>7. ASSUME NEW t \in Thread, Insert(t) PROVE BaseInv'
  <2>1. stub[t] \in Address /\ stub[t] \in Argument
    BY <1>7, ConstantFacts DEF Insert, At, ThreadInv, Pending, Handle
  <2>2. Replies(t)
    BY <1>7, <2>1, ParameterReplies, ConstantFacts DEF Insert, At
  <2>3. ThreadInv' /\ FoundStaysRegistered' /\ pc' \in [Thread -> Labels]
          /\ msg' \in [Thread -> Seq(Argument)]
    BY <1>7, <2>2, RepliesPreserve DEF Insert
  <2> QED
    BY <1>7, <2>1, <2>3 DEF Insert, Leave, TypeOK
<1>8. ASSUME NEW t \in Thread, Find(t) PROVE BaseInv'
  <2>1. CASE GetObjectId(msg[t]) \in allObjects
    <3>1. /\ pc[t] = "find" /\ pc' = [pc EXCEPT ![t] = "invoke"]
          /\ stub' = [stub EXCEPT ![t] = GetObjectId(msg[t])]
          /\ csOwner' = NoThread
          /\ UNCHANGED <<heap, allObjects, msg, alive>>
      BY <1>8, <2>1 DEF Find, At, Goto, Leave
    <3>2. GetObjectId(msg[t]) \in Handle
      BY <2>1 DEF TypeOK, Handle
    <3>3. TypeOK'
      BY <3>1, <3>2 DEF TypeOK, Labels
    <3>4. ThreadInv'
      BY <3>1 DEF TypeOK, ThreadInv, Pending
    <3>5. FoundStaysRegistered'
      BY <2>1, <3>1 DEF TypeOK, FoundStaysRegistered
    <3> QED
      BY <3>3, <3>4, <3>5
  <2>2. CASE GetObjectId(msg[t]) \notin allObjects
    <3>1. /\ Finish(t, SetErrorCode(msg[t], ERROR_NO_OBJECT_FOUND))
          /\ csOwner' = NoThread
          /\ UNCHANGED <<heap, allObjects, stub, alive>>
      BY <1>8, <2>2 DEF Find, Leave
    <3>2. Replies(t)
      BY <1>8, <3>1, ErrorReplies, ConstantFacts DEF Find, At
    <3>3. ThreadInv' /\ FoundStaysRegistered' /\ pc' \in [Thread -> Labels]
            /\ msg' \in [Thread -> Seq(Argument)]
      BY <3>1, <3>2, RepliesPreserve
    <3> QED
      BY <3>1, <3>3 DEF TypeOK
  <2> QED
    BY <2>1, <2>2
<1>9. ASSUME NEW t \in Thread, Delete(t) PROVE BaseInv'
  <2>1. \/ Finish(t, SetErrorCode(msg[t], ERROR_SUCCESS))
        \/ Finish(t, SetErrorCode(msg[t], ERROR_NO_OBJECT_FOUND))
    BY <1>9 DEF Delete
  <2>2. Replies(t)
    BY <1>9, <2>1, ErrorReplies, ConstantFacts DEF Delete, At
  <2>3. ThreadInv' /\ FoundStaysRegistered' /\ pc' \in [Thread -> Labels]
          /\ msg' \in [Thread -> Seq(Argument)]
    BY <1>9, <2>2, RepliesPreserve DEF Delete
  <2>4. heap' \in [Address -> Content \cup {Free}] /\ alive' \in BOOLEAN
    BY <1>9 DEF Delete, TypeOK
  <2> QED
    BY <1>9, <2>3, <2>4 DEF Delete, Leave, TypeOK
<1>10. ASSUME NEW t \in Thread, NEW content \in Content, pc[t] = "invoke", InvokeOn(t, content),
              UNCHANGED <<heap, allObjects, csOwner, stub, alive>>
       PROVE  BaseInv'
  <2>1. CASE Replies(t)
    <3>1. ThreadInv' /\ FoundStaysRegistered' /\ pc' \in [Thread -> Labels]
            /\ msg' \in [Thread -> Seq(Argument)]
      BY <1>10, <2>1, RepliesPreserve
    <3> QED
      BY <1>10, <3>1 DEF TypeOK
  <2>2. CASE Goto(t, "sleep") /\ UNCHANGED msg
    <3>1. TypeOK'
      BY <1>10, <2>2 DEF Goto, TypeOK, Labels
    <3>2. ThreadInv'
      BY <1>10, <2>2 DEF Goto, TypeOK, ThreadInv, Pending
    <3>3. FoundStaysRegistered'
      BY <1>10, <2>2 DEF Goto, TypeOK, FoundStaysRegistered
    <3> QED
      BY <3>1, <3>2, <3>3
  <2> QED
    BY <1>10, <2>1, <2>2, InvokeReplies
<1>11. ASSUME NEW t \in Thread, Invoke(t) PROVE BaseInv'
  <2>1. heap[stub[t]] \in Content
    BY <1>11 DEF Invoke, At, FoundStaysRegistered, TypeOK
  <2> QED
    BY <1>10, <1>11, <2>1 DEF Invoke, At
<1>12. ASSUME NEW t \in Thread, InvokeFreed(t) PROVE BaseInv'
  <2>1. CASE Dies /\ UNCHANGED <<pc, msg>>
    <3>1. UNCHANGED <<heap, allObjects, csOwner, pc, msg, stub>> /\ alive' = FALSE
      BY <1>12, <2>1 DEF InvokeFreed, Dies
    <3> QED
      BY <3>1 DEF TypeOK, ThreadInv, Pending, FoundStaysRegistered
  <2>2. CASE UNCHANGED alive /\ \E content \in Content : InvokeOn(t, content)
    BY <1>10, <1>12, <2>2 DEF InvokeFreed, At
  <2> QED
    BY <1>12, <2>1, <2>2 DEF InvokeFreed
<1>13. ASSUME NEW t \in Thread, LongOperation(t) PROVE BaseInv'
  <2>1. OutParameter(GetDispId(msg[t])) \in 1 .. 3
    BY DEF OutParameter
  <2>2. Replies(t)
    BY <1>13, <2>1, ParameterReplies, ConstantFacts DEF LongOperation, At, Computes
  <2>3. ThreadInv' /\ FoundStaysRegistered' /\ pc' \in [Thread -> Labels]
          /\ msg' \in [Thread -> Seq(Argument)]
    BY <1>13, <2>2, RepliesPreserve DEF LongOperation
  <2> QED
    BY <1>13, <2>3 DEF LongOperation, TypeOK
<1>14. CASE UNCHANGED vars
  BY <1>14 DEF vars, TypeOK, ThreadInv, Pending, FoundStaysRegistered
<1> QED
  BY <1>1, <1>2, <1>3, <1>4, <1>5, <1>6, <1>7, <1>8, <1>9, <1>11, <1>12, <1>13, <1>14
     DEF Next, Step

\* BaseInv always holds.
LEMMA BaseCorrect == Spec => []BaseInv
<1> QED
  BY BaseInit, BaseStep, PTL DEF Spec

\* Every variable keeps its type, whatever clients send and however the
\* message threads interleave.
THEOREM TypeCorrect == Spec => []TypeOK
<1>1. BaseInv => TypeOK
  BY DEF BaseInv
<1> QED
  BY <1>1, BaseCorrect, PTL

\* The entry a thread has found is in the collection when it follows it.
THEOREM IteratorsStayValid == Spec => []FoundStaysRegistered
<1>1. BaseInv => FoundStaysRegistered
  BY DEF BaseInv
<1> QED
  BY <1>1, BaseCorrect, PTL
------------------------------------------------------------------------------
\* t is at an access that m_csAllObjects protects.
InCriticalSection(t) == pc[t] \in {"insert", "delete", "find"}

\* Every step keeps mutual exclusion: it enters a free critical section, leaves
\* the one it owns, or is outside and stays there.
LEMMA MutualExclusionStep ==
  BaseInv /\ MutualExclusion /\ [Next]_vars => MutualExclusion'
<1> SUFFICES ASSUME BaseInv, MutualExclusion, [Next]_vars
             PROVE  MutualExclusion'
  OBVIOUS
<1> USE DEF MutualExclusion, Goto
<1>1. pc \in [Thread -> Labels]
  BY DEF BaseInv, TypeOK
<1>2. ASSUME NEW t \in Thread, ~InCriticalSection(t), UNCHANGED csOwner,
             NEW label \in Labels \ {"insert", "delete", "find"}, Goto(t, label)
      PROVE  MutualExclusion'
  BY <1>1, <1>2 DEF InCriticalSection
<1>3. ASSUME NEW t \in Thread, InCriticalSection(t), Leave,
             NEW label \in Labels \ {"insert", "delete", "find"}, Goto(t, label)
      PROVE  MutualExclusion'
  BY <1>1, <1>3, DistinctAssumption DEF InCriticalSection, Leave
<1>4. ASSUME NEW t \in Thread, Enter(t)
      PROVE  MutualExclusion'
  <2>1. \A u \in Thread : pc[u] \notin {"insert", "delete", "find"}
    BY <1>4, DistinctAssumption DEF Enter
  <2>2. Inside[pc[t]] \in {"insert", "delete", "find"}
    <3>1. DOMAIN Inside = {"enterInsert", "enterDelete", "enterFind"}
      BY DEF Inside
    <3>2. /\ Inside["enterInsert"] = "insert"
          /\ Inside["enterDelete"] = "delete"
          /\ Inside["enterFind"] = "find"
      BY DEF Inside
    <3> QED
      BY <1>4, <3>1, <3>2 DEF Enter
  <2> QED
    BY <1>1, <1>4, <2>1, <2>2 DEF Enter
<1>5. ASSUME NEW t \in Thread, NEW r \in Requests, Receive(t, r)
      PROVE  MutualExclusion'
  BY <1>2, <1>5 DEF Receive, At, InCriticalSection, Labels
<1>6. ASSUME NEW t \in Thread, Construct(t) \/ RejectGlobal(t) \/ BeginDelete(t) \/ BeginCall(t)
      PROVE  MutualExclusion'
  <2>1. pc[t] = "process" /\ UNCHANGED csOwner
    BY <1>6 DEF Construct, RejectGlobal, BeginDelete, BeginCall, At
  <2>2. PICK label \in {"enterInsert", "enterDelete", "enterFind", "done"} : Goto(t, label)
    BY <1>6 DEF Construct, RejectGlobal, BeginDelete, BeginCall, Finish
  <2> QED
    BY <1>2, <2>1, <2>2 DEF InCriticalSection, Labels
<1>7. ASSUME NEW t \in Thread, Insert(t) \/ Find(t) \/ Delete(t)
      PROVE  MutualExclusion'
  <2>1. InCriticalSection(t) /\ Leave
    BY <1>7 DEF Insert, Find, Delete, At, InCriticalSection
  <2>2. PICK label \in {"invoke", "done"} : Goto(t, label)
    BY <1>7 DEF Insert, Find, Delete, Finish
  <2> QED
    BY <1>3, <2>1, <2>2 DEF Labels
<1>8. ASSUME NEW t \in Thread, NEW content \in Content, pc[t] = "invoke", InvokeOn(t, content),
             UNCHANGED csOwner
      PROVE  MutualExclusion'
  <2>1. PICK label \in {"sleep", "done"} : Goto(t, label)
    BY <1>8 DEF InvokeOn, Finish
  <2> QED
    BY <1>2, <1>8, <2>1 DEF InCriticalSection, Labels
<1>9. ASSUME NEW t \in Thread, Invoke(t)
      PROVE  MutualExclusion'
  <2>1. heap[stub[t]] \in Content
    BY <1>9 DEF Invoke, At, FoundStaysRegistered, BaseInv, TypeOK
  <2> QED
    BY <1>8, <1>9, <2>1 DEF Invoke, At
<1>10. ASSUME NEW t \in Thread, InvokeFreed(t)
       PROVE  MutualExclusion'
  <2>1. CASE UNCHANGED pc
    BY <1>10, <2>1 DEF InvokeFreed
  <2>2. CASE \E content \in Content : InvokeOn(t, content)
    BY <1>8, <1>10, <2>2 DEF InvokeFreed, At
  <2> QED
    BY <1>10, <2>1, <2>2 DEF InvokeFreed
<1>11. ASSUME NEW t \in Thread, LongOperation(t)
       PROVE  MutualExclusion'
  BY <1>2, <1>11 DEF LongOperation, At, Finish, InCriticalSection, Labels
<1>12. CASE UNCHANGED vars
  BY <1>12 DEF vars
<1> QED
  BY <1>4, <1>5, <1>6, <1>7, <1>9, <1>10, <1>11, <1>12 DEF Next, Step

\* No two message threads are inside m_csAllObjects, and none leaves without
\* giving it up.
THEOREM CriticalSectionExcludes == Spec => []MutualExclusion
<1>1. Init => MutualExclusion
  BY DistinctAssumption DEF Init, MutualExclusion
<1> QED
  BY <1>1, BaseCorrect, MutualExclusionStep, PTL DEF Spec

\* Every step keeps live objects registered or on the way to be.
LEMMA LiveStep ==
  BaseInv /\ LiveObjectsAreRegistered /\ [Next]_vars => LiveObjectsAreRegistered'
<1> SUFFICES ASSUME BaseInv, LiveObjectsAreRegistered, [Next]_vars, NEW a \in Address,
                    heap'[a] # Free, a \notin allObjects'
             PROVE  \E t \in Thread : Pending(t)' /\ stub'[t] = a
  BY DEF LiveObjectsAreRegistered
<1> USE DEF Goto, Finish, Pending
<1>1. /\ heap \in [Address -> Content \cup {Free}] /\ pc \in [Thread -> Labels]
      /\ stub \in [Thread -> Handle]
  BY DEF BaseInv, TypeOK
<1>2. allObjects \subseteq allObjects'
  BY DEF Next, Step, vars, Receive, Construct, RejectGlobal, BeginDelete, BeginCall, Enter,
         Insert, Find, Delete, Invoke, InvokeFreed, LongOperation
<1>3. ASSUME NEW t \in Thread, Construct(t), heap[a] = Free
      PROVE  Pending(t)' /\ stub'[t] = a
  BY <1>1, <1>3 DEF Construct
<1>4. CASE heap[a] # Free
  <2>1. PICK u \in Thread : Pending(u) /\ stub[u] = a
    BY <1>2, <1>4 DEF LiveObjectsAreRegistered
  <2>2. CASE UNCHANGED <<pc, stub>>
    BY <2>1, <2>2
  <2>4. ASSUME NEW t \in Thread, NEW r \in Requests, Receive(t, r)
        PROVE  Pending(u)' /\ stub'[u] = a
    BY <1>1, <2>1, <2>4 DEF Receive, At
  <2>5. ASSUME NEW t \in Thread, Construct(t)
        PROVE  Pending(u)' /\ stub'[u] = a
    BY <1>1, <2>1, <2>5 DEF Construct, At
  <2>6. ASSUME NEW t \in Thread, RejectGlobal(t) \/ BeginDelete(t) \/ BeginCall(t)
        PROVE  Pending(u)' /\ stub'[u] = a
    BY <1>1, <2>1, <2>6 DEF RejectGlobal, BeginDelete, BeginCall, At
  <2>7. ASSUME NEW t \in Thread, Enter(t)
        PROVE  Pending(u)' /\ stub'[u] = a
    <3>1. DOMAIN Inside = {"enterInsert", "enterDelete", "enterFind"}
            /\ Inside["enterInsert"] = "insert"
      BY DEF Inside
    <3> QED
      BY <1>1, <2>1, <2>7, <3>1 DEF Enter
  <2>8. ASSUME NEW t \in Thread, Insert(t)
        PROVE  Pending(u)' /\ stub'[u] = a
    BY <1>1, <2>1, <2>8 DEF Insert, At
  <2>9. ASSUME NEW t \in Thread, Find(t) \/ Delete(t) \/ LongOperation(t)
        PROVE  Pending(u)' /\ stub'[u] = a
    BY <1>1, <2>1, <2>9 DEF Find, Delete, LongOperation, At
  <2>10. ASSUME NEW t \in Thread, Invoke(t) \/ InvokeFreed(t)
         PROVE  Pending(u)' /\ stub'[u] = a
    BY <1>1, <2>1, <2>10 DEF Invoke, InvokeFreed, InvokeOn, At
  <2> QED
    BY <2>2, <2>4, <2>5, <2>6, <2>7, <2>8, <2>9, <2>10 DEF Next, Step, vars
<1>5. CASE heap[a] = Free
  <2>1. \E t \in Thread : Construct(t)
    BY <1>1, <1>5 DEF Next, Step, vars, Receive, RejectGlobal, BeginDelete, BeginCall, Enter,
                      Insert, Find, Delete, Invoke, InvokeFreed, LongOperation
  <2> QED
    BY <1>3, <1>5, <2>1
<1> QED
  BY <1>4, <1>5

\* No object a client has created is lost from the collection.
THEOREM NoObjectIsLost == Spec => []LiveObjectsAreRegistered
<1>1. Init => LiveObjectsAreRegistered
  BY DEF Init, LiveObjectsAreRegistered
<1> QED
  BY <1>1, BaseCorrect, LiveStep, PTL DEF Spec
------------------------------------------------------------------------------
\* A reply to anything but a creation does not claim to have created.
LEMMA OtherRepliesDoNotCreate ==
  ASSUME BaseInv, NEW t \in Thread, Replies(t), ~IsGlobal(msg[t]) \/ IsDelete(msg[t])
  PROVE  ~Created(t)'
<1>1. PICK m \in Seq(Argument) : SameRequest(m, msg[t]) /\ Finish(t, m)
  BY DEF Replies
<1>2. msg'[t] = m
  BY <1>1 DEF Finish, BaseInv, TypeOK
<1>3. ~IsGlobal(m) \/ IsDelete(m)
  BY <1>1, SameRequestKind
<1>4. ~Constructs(m)
  BY <1>3 DEF Constructs, IsDelete, GlobalDispId, eDeleteDispId, eCreateIntDispId,
              eCreateStringDispId, eCreateCustomObjectDispId
<1> QED
  BY <1>2, <1>4 DEF Created

\* Every step keeps the handles of finished creations registered.
LEMMA CreatedStep ==
  BaseInv /\ CreatedHandleIsRegistered /\ [Next]_vars => CreatedHandleIsRegistered'
<1> SUFFICES ASSUME BaseInv, CreatedHandleIsRegistered, [Next]_vars, NEW u \in Thread, Created(u)'
             PROVE  CreatedHandle(msg'[u]) \in allObjects'
  BY DEF CreatedHandleIsRegistered
<1> USE DEF Goto, Finish, At
<1>1. pc \in [Thread -> Labels] /\ msg \in [Thread -> Seq(Argument)]
  BY DEF BaseInv, TypeOK
<1>2. allObjects \subseteq allObjects'
  BY DEF Next, Step, vars, Receive, Construct, RejectGlobal, BeginDelete, BeginCall, Enter,
         Insert, Find, Delete, Invoke, InvokeFreed, LongOperation
<1>3. pc'[u] = "done"
  BY DEF Created, Replied
<1>4. CASE pc'[u] = pc[u] /\ msg'[u] = msg[u]
  <2>1. Created(u)
    BY <1>4 DEF Created, Replied
  <2> QED
    BY <1>2, <1>4, <2>1 DEF CreatedHandleIsRegistered
<1>5. CASE Replies(u) /\ (~IsGlobal(msg[u]) \/ IsDelete(msg[u]))
  BY <1>5, OtherRepliesDoNotCreate
<1>6. ASSUME NEW t \in Thread, NEW r \in Requests, Receive(t, r)
      PROVE  pc'[u] = pc[u] /\ msg'[u] = msg[u]
  BY <1>1, <1>3, <1>6 DEF Receive
<1>7. ASSUME NEW t \in Thread, Construct(t) \/ Enter(t)
      PROVE  pc'[u] = pc[u] /\ msg'[u] = msg[u]
  <2>1. DOMAIN Inside = {"enterInsert", "enterDelete", "enterFind"}
    BY DEF Inside
  <2>2. "done" \notin {Inside["enterInsert"], Inside["enterDelete"], Inside["enterFind"]}
    BY DEF Inside
  <2> QED
    BY <1>1, <1>3, <1>7, <2>1, <2>2 DEF Construct, Enter
<1>8. ASSUME NEW t \in Thread, RejectGlobal(t)
      PROVE  pc'[u] = pc[u] /\ msg'[u] = msg[u]
  <2>1. CASE t = u
    <3> DEFINE e == SetErrorCode(msg[t], ERROR_OBJECT_NOT_REGISTERED)
    <3>1. msg[t] \in Seq(Argument) /\ Len(msg[t]) >= 3
      BY <1>1, <1>8 DEF RejectGlobal, BaseInv, ThreadInv
    <3>2. e \in Seq(Argument) /\ Len(e) >= 3
      BY <3>1, SetErrorCodeFacts, ConstantFacts
    <3>3. \/ msg'[t] = SetErrorCode(msg[t], ERROR_DISPID_INVALID)
          \/ msg'[t] = SetErrorCode(e, ERROR_DISPID_INVALID)
      BY <1>1, <1>8 DEF RejectGlobal
    <3>4. GetErrorCode(msg'[t]) = ERROR_DISPID_INVALID
      <4> HIDE DEF e
      <4> QED
        BY <3>1, <3>2, <3>3, SetErrorCodeFacts, ConstantFacts
    <3> QED
      BY <2>1, <3>4, ConstantFacts DEF Created, Replied
  <2>2. CASE t # u
    BY <1>1, <1>8, <2>2 DEF RejectGlobal
  <2> QED
    BY <2>1, <2>2
<1>9. ASSUME NEW t \in Thread, BeginDelete(t) \/ Delete(t), t = u
      PROVE  Replies(u) /\ IsDelete(msg[u])
  <2>1. pc[u] # "idle" /\ IsDelete(msg[u])
    BY <1>9 DEF BeginDelete, Delete, BaseInv, ThreadInv
  <2>2. PICK error \in ServerErrorCode : Finish(u, SetErrorCode(msg[u], error))
    BY <1>1, <1>3, <1>9, ConstantFacts DEF BeginDelete, Delete
  <2> QED
    BY <2>1, <2>2, ErrorReplies
<1>10. ASSUME NEW t \in Thread, BeginCall(t), t = u
       PROVE  FALSE
  <2>1. ~IsGlobal(msg'[u])
    BY <1>10 DEF BeginCall
  <2> QED
    BY <2>1 DEF Created, Constructs
<1>11. ASSUME NEW t \in Thread, Insert(t), t = u
       PROVE  CreatedHandle(msg'[u]) \in allObjects'
  <2> DEFINE p == SetFunctionParameter(msg[u], 2, stub[u])
             s == SetErrorCode(p, ERROR_SUCCESS)
  <2>1. msg[u] \in Seq(Argument) /\ Len(msg[u]) >= 3 /\ stub[u] \in Argument
    BY <1>1, <1>11, ConstantFacts DEF Insert, BaseInv, ThreadInv, Pending, Handle
  <2>2. /\ p \in Seq(Argument) /\ Len(p) >= 3
        /\ \A y : GetFunctionParameter(p, 2, y) = stub[u]
    <3>1. 2 \in 1 .. 3
      OBVIOUS
    <3> QED
      BY <2>1, <3>1, SetFunctionParameterFacts
  <2>3. \A y : GetFunctionParameter(s, 2, y) = GetFunctionParameter(p, 2, y)
    <3>1. 2 \in 1 .. 3
      OBVIOUS
    <3> HIDE DEF p
    <3> QED
      BY <2>2, <3>1, SetErrorCodeFacts, ConstantFacts
  <2>4. msg'[u] = s /\ stub[u] \in allObjects'
    BY <1>1, <1>11 DEF Insert
  <2> QED
    BY <2>2, <2>3, <2>4 DEF CreatedHandle
<1>12. ASSUME NEW t \in Thread, Find(t), t = u
       PROVE  Replies(u) /\ ~IsGlobal(msg[u])
  <2>1. pc[u] # "idle" /\ ~IsGlobal(msg[u])
    BY <1>12 DEF Find, BaseInv, ThreadInv
  <2>2. Finish(u, SetErrorCode(msg[u], ERROR_NO_OBJECT_FOUND))
    BY <1>1, <1>3, <1>12 DEF Find
  <2> QED
    BY <2>1, <2>2, ErrorReplies, ConstantFacts
<1>13. ASSUME NEW t \in Thread, NEW content \in Content, pc[t] = "invoke", InvokeOn(t, content), t = u
       PROVE  Replies(u) /\ ~IsGlobal(msg[u])
  <2>1. ~IsGlobal(msg[u])
    BY <1>13 DEF BaseInv, ThreadInv
  <2>2. ~(pc' = [pc EXCEPT ![u] = "sleep"])
    BY <1>1, <1>3
  <2> QED
    BY <1>13, <2>1, <2>2, InvokeReplies
<1>14. ASSUME NEW t \in Thread, Invoke(t) \/ InvokeFreed(t), t = u
       PROVE  Replies(u) /\ ~IsGlobal(msg[u])
  <2>1. CASE Invoke(t)
    <3>1. heap[stub[t]] \in Content
      BY <2>1 DEF Invoke, FoundStaysRegistered, BaseInv, TypeOK
    <3> QED
      BY <1>13, <1>14, <2>1, <3>1 DEF Invoke
  <2>2. CASE InvokeFreed(t)
    <3>1. ~UNCHANGED pc
      BY <1>3, <1>14, <2>2 DEF InvokeFreed
    <3> QED
      BY <1>13, <1>14, <2>2, <3>1 DEF InvokeFreed
  <2> QED
    BY <1>14, <2>1, <2>2
<1>15. ASSUME NEW t \in Thread, LongOperation(t), t = u
       PROVE  Replies(u) /\ ~IsGlobal(msg[u])
  <2>1. pc[u] # "idle" /\ ~IsGlobal(msg[u])
    BY <1>15 DEF LongOperation, BaseInv, ThreadInv
  <2>2. OutParameter(GetDispId(msg[u])) \in 1 .. 3
    BY DEF OutParameter
  <2> QED
    BY <1>15, <2>1, <2>2, ParameterReplies, ConstantFacts DEF LongOperation, Computes
<1>16. ASSUME NEW t \in Thread, t # u,
              BeginDelete(t) \/ BeginCall(t) \/ Insert(t) \/ Find(t) \/ Delete(t)
       PROVE  pc'[u] = pc[u] /\ msg'[u] = msg[u]
  BY <1>1, <1>16 DEF BeginDelete, BeginCall, Insert, Find, Delete
<1>17. ASSUME NEW t \in Thread, t # u, Invoke(t) \/ InvokeFreed(t) \/ LongOperation(t)
       PROVE  pc'[u] = pc[u] /\ msg'[u] = msg[u]
  BY <1>1, <1>17 DEF Invoke, InvokeFreed, InvokeOn, LongOperation
<1>18. CASE UNCHANGED vars
  BY <1>4, <1>18 DEF vars
<1> QED
  BY <1>4, <1>5, <1>6, <1>7, <1>8, <1>9, <1>10, <1>11, <1>12, <1>14, <1>15, <1>16, <1>17, <1>18
     DEF Next, Step

\* The handle a client is given is in the collection from then on.
THEOREM HandlesAreRegistered == Spec => []CreatedHandleIsRegistered
<1>1. Init => CreatedHandleIsRegistered
  BY DEF Init, CreatedHandleIsRegistered, Created, Replied
<1> QED
  BY <1>1, BaseCorrect, CreatedStep, PTL DEF Spec
------------------------------------------------------------------------------
\* The address of a stub that is registered or about to be.
Listed(a) == a \in allObjects \/ \E t \in Thread : Pending(t) /\ stub[t] = a

\* DanglingOnlyByDelete, for the stubs on their way to the collection as well.
DanglingInv ==
  \A a \in Address : Listed(a) /\ heap[a] = Free => \E u \in Thread : Deleted(u, a)

\* A deletion that worked is never forgotten.
LEMMA DeletedStays ==
  ASSUME BaseInv, [Next]_vars, NEW u \in Thread, NEW a, Deleted(u, a)
  PROVE  Deleted(u, a)'
<1> USE DEF Goto, Finish, At
<1>1. pc \in [Thread -> Labels] /\ msg \in [Thread -> Seq(Argument)] /\ pc[u] = "done"
  BY DEF BaseInv, TypeOK, Deleted, Replied
<1>2. DOMAIN Inside = {"enterInsert", "enterDelete", "enterFind"}
  BY DEF Inside
<1>3. ASSUME NEW t \in Thread, NEW r \in Requests, Receive(t, r)
      PROVE  pc'[u] = pc[u] /\ msg'[u] = msg[u]
  BY <1>1, <1>3 DEF Receive
<1>4. ASSUME NEW t \in Thread,
             Construct(t) \/ RejectGlobal(t) \/ BeginDelete(t) \/ BeginCall(t) \/ Enter(t)
      PROVE  pc'[u] = pc[u] /\ msg'[u] = msg[u]
  BY <1>1, <1>2, <1>4 DEF Construct, RejectGlobal, BeginDelete, BeginCall, Enter
<1>5. ASSUME NEW t \in Thread, Insert(t) \/ Find(t) \/ Delete(t)
      PROVE  pc'[u] = pc[u] /\ msg'[u] = msg[u]
  BY <1>1, <1>5 DEF Insert, Find, Delete
<1>6. ASSUME NEW t \in Thread, Invoke(t) \/ InvokeFreed(t) \/ LongOperation(t)
      PROVE  pc'[u] = pc[u] /\ msg'[u] = msg[u]
  BY <1>1, <1>6 DEF Invoke, InvokeFreed, InvokeOn, LongOperation
<1>7. pc'[u] = pc[u] /\ msg'[u] = msg[u]
  BY <1>3, <1>4, <1>5, <1>6 DEF Next, Step, vars
<1> QED
  BY <1>7 DEF Deleted, Replied

\* The reply to a deletion of a registered object says that it is deleted.
LEMMA DeleteReplies ==
  ASSUME BaseInv, NEW t \in Thread, Delete(t), NEW a \in allObjects,
         ObjectToDelete(msg[t]) = a
  PROVE  Deleted(t, a)'
<1> DEFINE s == SetErrorCode(msg[t], ERROR_SUCCESS)
<1>1. msg[t] \in Seq(Argument) /\ Len(msg[t]) >= 3 /\ IsDelete(msg[t])
  BY DEF Delete, At, BaseInv, TypeOK, ThreadInv
<1>2. /\ GetErrorCode(s) = ERROR_SUCCESS /\ SameRequest(s, msg[t])
      /\ \A x : GetFunctionParameter(s, 1, x) = GetFunctionParameter(msg[t], 1, x)
  <2>1. 1 \in 1 .. 3
    OBVIOUS
  <2> QED
    BY <1>1, <2>1, SetErrorCodeFacts, ConstantFacts
<1>3. msg'[t] = s /\ pc'[t] = "done"
  BY DEF Delete, Finish, Goto, BaseInv, TypeOK
<1> HIDE DEF s
<1>4. IsDelete(s) /\ ObjectToDelete(s) = a
  BY <1>1, <1>2, SameRequestKind DEF ObjectToDelete
<1> QED
  BY <1>2, <1>3, <1>4 DEF Deleted, Replied

\* Every step keeps DanglingInv.
LEMMA DanglingStep ==
  BaseInv /\ DanglingInv /\ [Next]_vars => DanglingInv'
<1> SUFFICES ASSUME BaseInv, DanglingInv, [Next]_vars, NEW a \in Address,
                    Listed(a)', heap'[a] = Free
             PROVE  \E u \in Thread : Deleted(u, a)'
  BY DEF DanglingInv
<1> USE DEF Goto, Finish, At, Pending
<1>1. /\ heap \in [Address -> Content \cup {Free}] /\ pc \in [Thread -> Labels]
      /\ stub \in [Thread -> Handle] /\ allObjects \subseteq Address
  BY DEF BaseInv, TypeOK
<1>2. ASSUME Listed(a), heap[a] = Free
      PROVE  \E u \in Thread : Deleted(u, a)'
  BY <1>2, DeletedStays DEF DanglingInv
<1>3. ASSUME UNCHANGED <<heap, allObjects, stub>>,
             \A u \in Thread : Pending(u)' => Pending(u)
      PROVE  \E u \in Thread : Deleted(u, a)'
  BY <1>2, <1>3 DEF Listed
<1>4. ASSUME NEW t \in Thread, NEW r \in Requests, Receive(t, r)
      PROVE  \E u \in Thread : Deleted(u, a)'
  BY <1>1, <1>3, <1>4 DEF Receive
<1>5. ASSUME NEW t \in Thread, Construct(t)
      PROVE  \E u \in Thread : Deleted(u, a)'
  <2>1. GetFunctionParameter(msg[t], 1, EmptyArgument) # Free
    BY <1>5, RequestsAreWellFormed, DistinctAssumption
       DEF Construct, BaseInv, ThreadInv, WellFormed
  <2>2. PICK b \in Address :
          /\ heap' = [heap EXCEPT ![b] = GetFunctionParameter(msg[t], 1, EmptyArgument)]
          /\ stub' = [stub EXCEPT ![t] = b]
    BY <1>5 DEF Construct
  <2>3. a # b /\ heap[a] = Free
    BY <1>1, <2>1, <2>2
  <2>4. pc' = [pc EXCEPT ![t] = "enterInsert"] /\ allObjects' = allObjects
    BY <1>5 DEF Construct
  <2>5. Listed(a)
    BY <1>1, <2>2, <2>3, <2>4 DEF Listed
  <2> QED
    BY <1>2, <2>3, <2>5
<1>6. ASSUME NEW t \in Thread, RejectGlobal(t) \/ BeginDelete(t) \/ BeginCall(t)
      PROVE  \E u \in Thread : Deleted(u, a)'
  BY <1>1, <1>3, <1>6 DEF RejectGlobal, BeginDelete, BeginCall
<1>7. ASSUME NEW t \in Thread, Enter(t)
      PROVE  \E u \in Thread : Deleted(u, a)'
  <2>1. DOMAIN Inside = {"enterInsert", "enterDelete", "enterFind"}
          /\ Inside["enterDelete"] = "delete" /\ Inside["enterFind"] = "find"
    BY DEF Inside
  <2>2. \A u \in Thread : Pending(u)' => Pending(u)
    BY <1>1, <1>7, <2>1 DEF Enter
  <2> QED
    BY <1>3, <1>7, <2>2 DEF Enter
<1>8. ASSUME NEW t \in Thread, Insert(t)
      PROVE  \E u \in Thread : Deleted(u, a)'
  <2>1. Listed(a) /\ heap[a] = Free
    BY <1>1, <1>8 DEF Insert, Listed
  <2> QED
    BY <1>2, <2>1
<1>9. ASSUME NEW t \in Thread, Find(t)
      PROVE  \E u \in Thread : Deleted(u, a)'
  <2>1. PICK label \in {"invoke", "done"} : Goto(t, label)
    BY <1>9 DEF Find
  <2>2. /\ UNCHANGED <<heap, allObjects>>
        /\ \A u \in Thread \ {t} : stub'[u] = stub[u]
    BY <1>1, <1>9 DEF Find
  <2>3. Listed(a) /\ heap[a] = Free
    BY <1>1, <2>1, <2>2 DEF Listed
  <2> QED
    BY <1>2, <2>3
<1>10. ASSUME NEW t \in Thread, Delete(t)
       PROVE  \E u \in Thread : Deleted(u, a)'
  <2>1. CASE ObjectToDelete(msg[t]) = a /\ a \in allObjects
    BY <1>10, <2>1, DeleteReplies
  <2>2. CASE ~(ObjectToDelete(msg[t]) = a /\ a \in allObjects)
    <3>1. heap'[a] = heap[a] /\ UNCHANGED <<allObjects, stub>>
      BY <1>1, <1>10, <2>2 DEF Delete
    <3>2. \A u \in Thread : Pending(u)' => Pending(u)
      BY <1>1, <1>10 DEF Delete
    <3> QED
      BY <1>2, <3>1, <3>2 DEF Listed
  <2> QED
    BY <2>1, <2>2
<1>11. ASSUME NEW t \in Thread, Invoke(t) \/ InvokeFreed(t) \/ LongOperation(t)
       PROVE  \E u \in Thread : Deleted(u, a)'
  BY <1>1, <1>3, <1>11 DEF Invoke, InvokeFreed, InvokeOn, LongOperation
<1>12. CASE UNCHANGED vars
  BY <1>3, <1>12 DEF vars
<1> QED
  BY <1>4, <1>5, <1>6, <1>7, <1>8, <1>9, <1>10, <1>11, <1>12 DEF Next, Step

\* Only deletions that were reported as such leave dangling entries behind.
THEOREM OnlyDeletionsDangle == Spec => []DanglingOnlyByDelete
<1>1. Init => DanglingInv
  BY DEF Init, DanglingInv, Listed, Pending
<1>2. BaseInv /\ DanglingInv => DanglingOnlyByDelete
  BY DEF BaseInv, TypeOK, DanglingInv, Listed, DanglingOnlyByDelete
<1> QED
  BY <1>1, <1>2, BaseCorrect, DanglingStep, PTL DEF Spec
==============================================================================
