--------------------------- MODULE MCServerShutdown ---------------------------
(***************************************************************************)
(* The instances of ServerShutdown that TLC checks.                        *)
(***************************************************************************)
EXTENDS ServerShutdown, TLC
==============================================================================
