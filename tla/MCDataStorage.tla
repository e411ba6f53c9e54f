--------------------------- MODULE MCDataStorage ---------------------------
(***************************************************************************)
(* A small instance of DataStorage: three devices, two of which share a    *)
(* hash, and messages with none, some and all of the measured values.      *)
(***************************************************************************)
EXTENDS DataStorage

CONSTANTS d1, d2, d3, h1, h2

MCNames == {d1, d2, d3}

MCHash == [d \in MCNames |-> IF d = d3 THEN h2 ELSE h1]

MCMessages ==
  {[name |-> d1, keys |-> {}],
   [name |-> d1, keys |-> {"current", "temperature"}],
   [name |-> d2, keys |-> {"current", "voltage", "temperature"}],
   [name |-> d3, keys |-> {"voltage"}]}
=============================================================================
