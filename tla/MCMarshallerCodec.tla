--------------------------- MODULE MCMarshallerCodec ---------------------------
(***************************************************************************)
(* The instance of MarshallerCodec that TLC checks: all strings of up to   *)
(* four characters, two digits and the two that matter, and longer         *)
(* ones: of seven and eight the creation's response does not go through    *)
(* the pipe, of nine no request with them does.  Numbers have their        *)
(* decimal digits; the greeting just fits.                                 *)
(***************************************************************************)
EXTENDS MarshallerCodec

Empty == <<>>
Hello == <<"h", "e", "l", "l", "o">>
InvalidText == <<"invalid">>
Digits[n \in Nat] ==
  IF n < 10 THEN <<ToString(n)>> ELSE Append(Digits[n \div 10], ToString(n % 10))
Decimals == [i \in Numbers |-> IF i < 0 THEN <<"-">> \o Digits[-i] ELSE Digits[i]]
Characters ==
  {"a", "-", WIRE_DELIMITER, NUL, "primitive", "calculator", "other", "none"}
    \cup {ToString(i) : i \in 0 .. 9} \cup {Hello[i] : i \in DOMAIN Hello}
Texts ==
  UNION {[1 .. n -> {"a", "0", WIRE_DELIMITER, NUL}] : n \in 0 .. 4}
    \cup {[i \in 1 .. n |-> "a"] : n \in 5 .. 9}
Waits == {1, 10}
==============================================================================
