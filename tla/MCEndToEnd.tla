----------------------------- MODULE MCEndToEnd -----------------------------
(***************************************************************************)
(* A small instance of EndToEnd: two devices, messages with one and two    *)
(* readings, the first with a timestamp that misses a digit.               *)
(***************************************************************************)
EXTENDS EndToEnd

CONSTANTS d1, d2

MCMessages ==
  {[name |-> d1, keys |-> {"voltage"}, padded |-> FALSE],
   [name |-> d2, keys |-> {"current", "voltage"}, padded |-> TRUE]}
=============================================================================
