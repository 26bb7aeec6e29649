---------------------------- MODULE MarshallerCodec ----------------------------
(***************************************************************************)
(* The text of a message, for one client and the calls it makes one after  *)
(* another: GetWireFormat joins the parameters with a delimiter, NamedPipe *)
(* carries a C string of limited length, InitHelper takes the text apart   *)
(* token by token, the server works on the tokens, and the response goes   *)
(* back the same way.  A parameter is a text: a sequence of characters.    *)
(*                                                                         *)
(* Decimal is what std::stringstream writes for a number; INT_MAX is the   *)
(* largest int.  A handle is written with a fixed number of digits: one    *)
(* character stands for them.  Characters of string parameters are free:   *)
(* the delimiter and NUL are among them.  The others are hexadecimal       *)
(* digits, so that a piece of a string that is read as a handle is one,    *)
(* of no object; zeros, or no digits, are NULL.                            *)
(***************************************************************************)
EXTENDS Marshaller, SequencesExt, TLC

CONSTANTS
  Char,           \* characters
  Text,           \* string parameters
  Greeting,       \* the string LongOperation answers with
  WaitTime,       \* the times in milliseconds it is called with
  Decimal,        \* numbers as texts
  INT_MAX,        \* the largest int
  PIPE_BUFFER_SIZE

ASSUME CodecAssumption ==
  /\ INT_MAX \in Nat /\ PIPE_BUFFER_SIZE \in Nat /\ WaitTime \subseteq Nat
  /\ EmptyArgument = <<>>

VARIABLES
  call,     \* the function the client is in, and its arguments
  at,       \* where the call is
  side,     \* who reads the text: server or client
  src,      \* the text that has come through the pipe
  start,    \* where Tokenize goes on in it
  params,   \* m_allParameters of the Marshaller in use
  stored,   \* the value of the primitive object on the server
  handle,   \* the handle the client has been given for it
  got,      \* what the call has returned
  error,    \* the error code it has returned
  sent      \* history: the value given to SendPrimitiveData

vars == <<call, at, side, src, start, params, stored, handle, got, error, sent>>
callVars == <<call, stored, handle, got, error, sent>>

WIRE_DELIMITER == "?"
NUL == "NUL"
npos == 0  \* positions are 1 based here
Null == <<"0">>
Primitive == <<"primitive">>    \* the text of the handle of the primitive object
Calculator == <<"calculator">>  \* and of that of the calculator
Other == <<"other">>            \* and of a handle that stands for nothing
None == <<"none">>

INT_MIN == -INT_MAX - 1
Ints == INT_MIN .. INT_MAX
IntValues == 2 * (INT_MAX + 1)
Numeral(i) == Decimal[i]
Number(text) == CHOOSE i \in Ints : Numeral(i) = text
Wrap(i) == ((i - INT_MIN) % IntValues) + INT_MIN

\* The numbers a message has.
Numbers ==
  Ints \cup WaitTime \cup ServerErrorCode
    \cup {eCreateStringDispId, AddDispID, ReverseNameDispID, LongOperationDispID}

\* A number is not written with a delimiter, nor like another one.
ASSUME CharacterAssumption ==
  /\ {WIRE_DELIMITER, NUL, "0", "primitive", "calculator", "other", "none"} \subseteq Char
  /\ Decimal \in [Numbers -> Seq(Char \ {WIRE_DELIMITER, NUL})]
  /\ \A i, j \in Numbers : Decimal[i] = Decimal[j] => i = j
  /\ Text \subseteq Seq(Char)
  /\ Greeting \in Seq(Char \ {WIRE_DELIMITER, NUL})

Init ==
  /\ call = [function |-> "none", arguments |-> <<>>]
  /\ at = "idle" /\ side = "server"
  /\ src = <<>> /\ start = 1 /\ params = <<>>
  /\ stored = None /\ handle = None /\ got = None /\ error = ERROR_SUCCESS
  /\ sent = None

\* The part of a text before the first c, all of it when there is none.
Before(text, c) ==
  LET i == SelectInSeq(text, LAMBDA x : x = c)
  IN IF i = 0 THEN text ELSE SubSeq(text, 1, i - 1)
------------------------------------------------------------------------------
\* Marshaller::GetWireFormat

GetWireFormat(m) ==
  LET text[i \in 1 .. Len(m)] ==
        IF i = 1 THEN m[1] ELSE text[i - 1] \o <<WIRE_DELIMITER>> \o m[i]
  IN text[Len(m)]

GetLastFunctionParameterIndex(m) == Len(m) - eDispIdPosition

\* NamedPipe::Write compares the length, then copies up to the first NUL, with
\* room for a NUL of its own; NamedPipe::Read reads up to the first NUL.
PipeAccepts(text) ==
  Len(text) <= PIPE_BUFFER_SIZE /\ Len(Before(text, NUL)) < PIPE_BUFFER_SIZE

\* A message starts with an error code, the handle of the object and a dispatch id.
Message(code, object, id, arguments) ==
  <<Numeral(code), object, Numeral(id)>> \o arguments

\* The pipe has room for every message whose parameters are numbers, handles and
\* the greeting: they have less than 100 characters, and the pipe takes 511.
ASSUME RoomAssumption ==
  /\ \A e \in ServerErrorCode :
       PipeAccepts(GetWireFormat(Message(e, Other, eCreateStringDispId, <<>>)))
  /\ \A x, y, z \in Ints :
       PipeAccepts(GetWireFormat(Message(ERROR_SUCCESS, Calculator, AddDispID,
                                         <<Numeral(x), Numeral(y), Numeral(z)>>)))
  /\ \A w \in WaitTime :
       PipeAccepts(GetWireFormat(Message(ERROR_SUCCESS, Calculator, LongOperationDispID,
                                         <<Numeral(w), Greeting>>)))

\* The text of m goes through the pipe to a new Marshaller.
Send(m, to) ==
  /\ PipeAccepts(GetWireFormat(m))
  /\ src' = Before(GetWireFormat(m), NUL)
  /\ start' = 1 /\ params' = <<>>
  /\ side' = to /\ at' = "parse"
  /\ UNCHANGED error
------------------------------------------------------------------------------
\* The calls of the client.  Without the request the message thread goes on
\* reading, and so does the caller (Transport has this hang).
Begin(function, arguments, object, dispId) ==
  LET m == Message(ERROR_SUCCESS, object, dispId, arguments)
  IN /\ call' = [function |-> function, arguments |-> arguments]
     /\ got' = None
     /\ \/ Send(m, "server")
        \/ /\ ~PipeAccepts(GetWireFormat(m))
           /\ at' = "hangs"
           /\ UNCHANGED <<side, src, start, params, error>>
     /\ UNCHANGED <<stored, handle>>

\* SendPrimitiveData<string>, and the same asynchronously.
SendPrimitiveData ==
  /\ at = "idle"
  /\ \E t \in Text, f \in {"send", "sendAsync"} :
       Begin(f, <<t>>, Null, eCreateStringDispId) /\ sent' = t

\* GetPrimitiveData<string>
GetPrimitiveData ==
  /\ at = "returned" /\ handle # None
  /\ \/ /\ handle # Null
        /\ Begin("get", <<>>, handle, eCreateStringDispId)
     \/ /\ handle = Null
        /\ call' = [function |-> "get", arguments |-> <<>>]
        /\ got' = None /\ error' = ERROR_NULL_OBJECT
        /\ UNCHANGED <<at, side, src, start, params, stored, handle>>
  /\ UNCHANGED sent

\* ClientStub<ICalculator>::Add, ReverseName and LongOperation, the last one also
\* asynchronously.  They leave nothing behind that a later call could read: each
\* is the first call here.
Add ==
  /\ at = "idle"
  /\ \E x, y, z \in Ints :
       Begin("add", <<Numeral(x), Numeral(y), Numeral(z)>>, Calculator, AddDispID)
  /\ UNCHANGED sent
ReverseName ==
  /\ at = "idle"
  /\ \E t \in Text : Begin("reverse", <<t>>, Calculator, ReverseNameDispID)
  /\ UNCHANGED sent
LongOperation ==
  /\ at = "idle"
  /\ \E w \in WaitTime, t \in Text, f \in {"long", "longAsync"} :
       Begin(f, <<Numeral(w), t>>, Calculator, LongOperationDispID)
  /\ UNCHANGED sent
------------------------------------------------------------------------------
\* Marshaller::InitHelper: one call of StringUtils::Tokenize.

\* Fault: the position behind the last token is not npos.
TokenizePastEnd ==
  /\ at = "parse" /\ start # npos /\ start <= Len(src) + 1
  /\ LET token == Before(SubSeq(src, start, Len(src)), WIRE_DELIMITER)
     IN /\ params' = Append(params, token)
        /\ start' = start + Len(token) + 1
  /\ UNCHANGED <<callVars, at, side, src>>

\* Fault: delimiters are skipped before a token is read, as strtok does.
TokenizeNonempty ==
  /\ at = "parse" /\ start # npos /\ start <= Len(src) + 1
  /\ IF start <= Len(src) /\ src[start] = WIRE_DELIMITER
     THEN start' = start + 1 /\ UNCHANGED params
     ELSE LET token == Before(SubSeq(src, start, Len(src)), WIRE_DELIMITER)
              end == start + Len(token)
          IN /\ params' = Append(params, token)
             /\ start' = IF end > Len(src) THEN npos ELSE end + 1
  /\ UNCHANGED <<callVars, at, side, src>>

\* Fault: a text that ends with a delimiter has no empty token behind it.
TokenizeUnlessEmpty ==
  /\ at = "parse" /\ start # npos /\ start <= Len(src) + 1
  /\ LET token == Before(SubSeq(src, start, Len(src)), WIRE_DELIMITER)
         end == start + Len(token)
     IN /\ params' = Append(params, token)
        /\ start' = IF end >= Len(src) THEN npos ELSE end + 1
  /\ UNCHANGED <<callVars, at, side, src>>

Tokenize ==
  /\ at = "parse" /\ start # npos /\ start <= Len(src) + 1
  /\ LET token == Before(SubSeq(src, start, Len(src)), WIRE_DELIMITER)
         end == start + Len(token)
     IN /\ params' = Append(params, token)
        /\ start' = IF end > Len(src) THEN npos ELSE end + 1
  /\ UNCHANGED <<callVars, at, side, src>>

\* Tokenize returns false.
InitHelperReturns ==
  /\ at = "parse" /\ (start = npos \/ start > Len(src) + 1)
  /\ at' = IF side = "server" THEN "process" ELSE "return"
  /\ UNCHANGED <<callVars, side, src, start, params>>
------------------------------------------------------------------------------
\* The server on the tokens: ObjectManager, ServerStub, and Calculator.

Parameter(i) == GetFunctionParameter(params, i, EmptyArgument)

\* Fault: the sum is written back over the second parameter.
InvokeAddInPlace ==
  SetFunctionParameter(params, 2, Numeral(Wrap(Number(Parameter(1)) + Number(Parameter(2)))))

\* ICalculator::InvokeAdd writes all three parameters back; the sum wraps on x86.
InvokeAdd ==
  LET z == Numeral(Wrap(Number(Parameter(1)) + Number(Parameter(2))))
  IN SetFunctionParameter(SetFunctionParameter(SetFunctionParameter(params, 3, z),
                                               2, Parameter(2)), 1, Parameter(1))

\* Fault: the result gets a parameter of its own.
InvokeReverseNameOut == SetFunctionParameter(params, 2, Reverse(Parameter(1)))

InvokeReverseName == SetFunctionParameter(params, 1, Reverse(Parameter(1)))

\* Whatever the string has been, the answer is the greeting.
InvokeLongOperation ==
  SetFunctionParameter(SetFunctionParameter(params, 2, Greeting), 1, Parameter(1))

\* The request is for a new string, for the string, for the calculator, or for
\* a handle that stands for nothing.  When the response does not go through the
\* pipe the message thread closes it, and the caller cannot read.
Respond(m, code) ==
  LET response == SetErrorCode(m, Numeral(code))
  IN \/ Send(response, "client")
     \/ /\ ~PipeAccepts(GetWireFormat(response))
        /\ error' = ERROR_RECEIVE_FAILED
        /\ at' = "returned"
        /\ UNCHANGED <<side, src, start, params>>
ProcessRequest ==
  /\ at = "process"
  /\ LET object == GetObjectId(params)
         id == GetDispId(params)
     IN \/ /\ object = Null
           /\ stored' = Parameter(1)
           /\ Respond(SetFunctionParameter(params, 2, Primitive), ERROR_SUCCESS)
        \/ /\ object = Primitive
           /\ Respond(SetFunctionParameter(params, 1, stored), ERROR_SUCCESS)
           /\ UNCHANGED stored
        \/ /\ object = Calculator /\ id = Numeral(AddDispID)
           /\ Respond(InvokeAdd, ERROR_SUCCESS)
           /\ UNCHANGED stored
        \/ /\ object = Calculator /\ id = Numeral(ReverseNameDispID)
           /\ Respond(InvokeReverseName, ERROR_SUCCESS)
           /\ UNCHANGED stored
        \/ /\ object = Calculator /\ id = Numeral(LongOperationDispID)
           /\ Respond(InvokeLongOperation, ERROR_SUCCESS)
           /\ UNCHANGED stored
        \/ /\ object \notin {Null, Primitive, Calculator}
           /\ Respond(params, ERROR_NO_OBJECT_FOUND)
           /\ UNCHANGED stored
  /\ UNCHANGED <<call, handle, got, sent>>
------------------------------------------------------------------------------
\* Fault: the result is taken from the last position in all cases.
ResultPositionLast == GetLastFunctionParameterIndex(params)

\* Where the client finds the result: a new handle and the string of
\* LongOperation, which the callback of an asynchronous call is given from the
\* last position, and the out parameter.
ResultPosition ==
  CASE call.function \in {"send", "long"} -> 2
    [] call.function \in {"sendAsync", "longAsync"} -> GetLastFunctionParameterIndex(params)
    [] call.function = "add" -> 3
    [] OTHER -> 1

\* What HANDLE reads from a text.
HandleOf(text) ==
  IF \A i \in DOMAIN text : text[i] = "0" THEN Null
  ELSE IF text = Primitive THEN Primitive ELSE Other

ReturnResult ==
  /\ at = "return"
  /\ at' = "returned"
  /\ error' \in ServerErrorCode /\ Numeral(error') = GetErrorCode(params)
  /\ IF call.function \in {"send", "sendAsync"}
     THEN got' = HandleOf(Parameter(ResultPosition)) /\ handle' = got'
     ELSE /\ got' = IF error' = ERROR_SUCCESS THEN Parameter(ResultPosition) ELSE None
          /\ UNCHANGED handle
  /\ UNCHANGED <<call, side, src, start, params, stored, sent>>

Next ==
  \/ SendPrimitiveData \/ GetPrimitiveData \/ Add \/ ReverseName \/ LongOperation
  \/ Tokenize \/ InitHelperReturns \/ ProcessRequest \/ ReturnResult

Spec == Init /\ [][Next]_vars
------------------------------------------------------------------------------
Returned(functions) == at = "returned" /\ call.function \in functions /\ error = ERROR_SUCCESS

\* Every variable has a value of its type; the server reads three parameters
\* before those of the function, whatever their texts are.
TypeOK ==
  /\ call.function \in
       {"none", "send", "sendAsync", "get", "add", "reverse", "long", "longAsync"}
  /\ call.arguments \in Seq(Seq(Char))
  /\ at \in {"idle", "parse", "process", "return", "returned", "hangs"}
  /\ side \in {"server", "client"}
  /\ src \in Seq(Char) /\ params \in Seq(Seq(Char))
  /\ start \in {npos} \cup 1 .. Len(src) + 1
  /\ error \in ServerErrorCode \cup {ERROR_RECEIVE_FAILED, ERROR_NULL_OBJECT}
  /\ {stored, handle, got, sent} \subseteq Seq(Char)
  /\ at \in {"process", "return"} => Len(params) >= eDispIdPosition

\* While a text is taken apart the tokens so far and the rest of the text are
\* the text: nothing is lost, not even an empty parameter at its end
\* (Utils.h:50-63, Marshaller.cpp:39-42).
TokensAndRestAreText ==
  at \in {"parse", "process", "return"} /\ params # <<>> =>
    src = GetWireFormat(params)
            \o IF start = npos THEN <<>> ELSE <<WIRE_DELIMITER>> \o SubSeq(src, start, Len(src))

\* What is left of a string on its way: the part before a NUL, and of that the
\* part before a delimiter.
Arrives(t) == Before(Before(t, NUL), WIRE_DELIMITER)

Delimiters(t) == Cardinality({i \in DOMAIN t : t[i] = WIRE_DELIMITER})

\* The characters of a value cannot change which object it is stored in, nor
\* the handle SendPrimitiveData returns: the server sets the second parameter
\* of the function, whatever the value has put there (ObjectManager.cpp:121).
\* The callback of SendPrimitivecDataAsync gets the last parameter instead, and
\* so the handle when nothing of the value is behind the second parameter
\* (ClientMessageHandler.h:115-117).
HandleArrives ==
  /\ Returned({"send"}) => got = Primitive
  /\ Returned({"sendAsync"}) /\ Delimiters(Before(call.arguments[1], NUL)) <= 1 =>
       got = Primitive

\* What GetPrimitiveData reads back, and what ReverseName reverses, is the part
\* of the string that arrives; strings without delimiter and NUL come through
\* unchanged, the empty one included.  LongOperation's string comes back whole,
\* and to a callback when the string it replaces was one parameter.
StringsAreCut ==
  /\ Returned({"get"}) => got = Arrives(sent)
  /\ Returned({"reverse"}) => got = Reverse(Arrives(call.arguments[1]))
  /\ Returned({"long"}) => got = Greeting
  /\ Returned({"longAsync"}) /\ Delimiters(Before(call.arguments[2], NUL)) = 0 =>
       got = Greeting

\* A callback that is told of success is given what the operation returns, the
\* handle of the new object or the string (RPC.h:10-20).  It is not when the
\* string that was sent is more than one parameter for the server.
CallbackGetsResult ==
  /\ Returned({"sendAsync"}) => got = Primitive
  /\ Returned({"longAsync"}) => got = Greeting

\* Add returns the sum, modulo the width of an int (Calculator.cpp:9), from the
\* position the client reads it from (Calculator.h:52, CalculatorClient.h:69).
AddIsSum ==
  Returned({"add"}) =>
    LET sum == Number(call.arguments[1]) + Number(call.arguments[2])
    IN /\ sum \in Ints => Number(got) = sum
       /\ (Number(got) - sum) % IntValues = 0

\* A call the server has executed is reported as failed, for the length of its
\* response, only when the server has made the message longer: the handle of a
\* new object is a parameter more, and LongOperation's string may take the place
\* of a shorter one while the rest of the string that was sent stays behind it.
\* Sums and error codes never do, and the strings a client could send it can
\* also read back (NamedPipe.cpp:114-134).
Outgrows(t) == Delimiters(Before(t, NUL)) > 0 /\ Len(Arrives(t)) < Len(Greeting)
OnlyGrowingResponsesFail ==
  at = "returned" /\ error = ERROR_RECEIVE_FAILED =>
    \/ call.function \in {"send", "sendAsync"}
    \/ call.function \in {"long", "longAsync"} /\ Outgrows(call.arguments[2])
==============================================================================
