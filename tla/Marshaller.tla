------------------------------ MODULE Marshaller ------------------------------
(***************************************************************************)
(* RPC::Marshaller (Common/include/Marshaller.h, Common/Marshaller.cpp):   *)
(* a message is the vector m_allParameters, here a sequence of arguments   *)
(* whose first three positions are the return value, the object id and the *)
(* dispatch id.  Positions are 1 based, as in the code.                    *)
(* An argument is what one token of the wire stands for; every getter is   *)
(* called with the type its setter was called with, so that the text form  *)
(* of an argument need not be told apart from the argument.                *)
(***************************************************************************)
EXTENDS Constants, Sequences

CONSTANTS
  EmptyArgument,   \* the empty string vector::resize fills a gap with
  InvalidHandle    \* INVALID_HANDLE_VALUE, the default of GetObjectId

eResultPosition   == 1
eObjectIdPosition == 2
eDispIdPosition   == 3

\* The default t is returned for a position the message does not have.
GetParameter(m, index, t) == IF index > Len(m) THEN t ELSE m[index]

\* Fault: the vector is not resized, and the parameter is lost.
SetParameterInPlace(m, index, t) ==
  [ i \in 1 .. Len(m) |-> IF i = index THEN t ELSE m[i] ]

\* Setting a position past the end first resizes the vector to end there.
SetParameter(m, index, t) ==
  [ i \in 1 .. (IF index > Len(m) THEN index ELSE Len(m)) |->
      IF i = index THEN t ELSE IF i <= Len(m) THEN m[i] ELSE EmptyArgument ]

\* Function parameters are numbered from 1 after the dispatch id.
GetFunctionParameter(m, index, t) ==
  IF index = 0 THEN t ELSE GetParameter(m, eDispIdPosition + index, t)

SetFunctionParameter(m, index, t) ==
  IF index = 0 THEN m ELSE SetParameter(m, eDispIdPosition + index, t)

GetObjectId(m) == GetParameter(m, eObjectIdPosition, InvalidHandle)
GetDispId(m)   == GetParameter(m, eDispIdPosition, eInvalidDispId)

GetErrorCode(m)        == GetParameter(m, eResultPosition, -1)
SetErrorCode(m, error) == SetParameter(m, eResultPosition, error)

\* Marshaller(0, objectId, dispId), then one SetFunctionParameter per argument.
Request(objectId, dispId, arguments) ==
  <<ERROR_SUCCESS, objectId, dispId>> \o arguments
=============================================================================
