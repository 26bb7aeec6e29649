------------------------------ MODULE Constants ------------------------------
(***************************************************************************)
(* The numbers the two processes agree on: the error codes of              *)
(* Common/include/Constants.h, the dispatch ids of the global functions    *)
(* (Common/include/RPC.h) and those of ICalculator                         *)
(* (Common/include/Calculator.h), which __COUNTER__ numbers from 0.        *)
(***************************************************************************)
EXTENDS Integers

ERROR_SUCCESS               == 0
ERROR_NO_OBJECT_FOUND       == 50001
ERROR_DISPID_INVALID        == 50002
ERROR_PARAMETER_INVALID     == 50003
ERROR_OBJECT_NOT_REGISTERED == 50004
ERROR_SEND_FAILED           == 50006
ERROR_RECEIVE_FAILED        == 50007
ERROR_NULL_OBJECT           == 50008
ERROR_SERVER_NO_RESPONSE    == 50010

\* What the server can put in the first position of a response.
ServerErrorCode ==
  { ERROR_SUCCESS, ERROR_NO_OBJECT_FOUND, ERROR_DISPID_INVALID,
    ERROR_PARAMETER_INVALID, ERROR_OBJECT_NOT_REGISTERED }

eInvalidDispId            == -1
eCreateCustomObjectDispId == 0
eCreateIntDispId          == 1
eCreateStringDispId       == 2
eDeleteDispId             == 3

AddDispID           == 0
ReverseNameDispID   == 1
LongOperationDispID == 2
MaxDispID           == 3
=============================================================================
