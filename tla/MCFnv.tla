------------------------------- MODULE MCFnv -------------------------------
(***************************************************************************)
(* The names Fnv is checked on: the keys of the measured values and the    *)
(* devices of the simulator, as their bytes, and all short strings over    *)
(* bytes at the boundaries of ASCII and of a signed char.                  *)
(***************************************************************************)
EXTENDS Fnv, SequencesExt

Current == <<99, 117, 114, 114, 101, 110, 116>>
Voltage == <<118, 111, 108, 116, 97, 103, 101>>
Temperature == <<116, 101, 109, 112, 101, 114, 97, 116, 117, 114, 101>>

\* device-1 to device-4
Device(n) == <<100, 101, 118, 105, 99, 101, 45, 48 + n>>

MCStrings ==
  {Current, Voltage, Temperature} \cup {Device(n) : n \in 1 .. 4}
    \cup SeqOf({0, 1, 65, 127, 128, 195, 255}, 3)
=============================================================================
