------------------------------- MODULE Tally -------------------------------
(***************************************************************************)
(* What the data storage promises: it counts messages in all, messages per *)
(* device and readings per device and measured value, a whole message at a *)
(* time, and a report shows all counts at one moment.  Only a message the  *)
(* storage gave up on may be counted in part.  Module DataStorage, with    *)
(* its map, its lock and its steps, is shown to implement this.            *)
(***************************************************************************)
EXTENDS Naturals, Functions

CONSTANTS
  Messages,   \* records [name, keys]: the device and the values it measured
  Keys,       \* the names of the measured values
  Hash,       \* the identity of a device, a function of its name
  MayFail     \* the storage may give up on a message half way

Ids == Range(Hash)

VARIABLES
  total,         \* messages counted in all
  deviceTotal,   \* messages counted per device
  measured,      \* readings counted per device and measured value
  reported       \* the three counts when the last report was made

tallyVars == <<total, deviceTotal, measured, reported>>

Counts == <<total, deviceTotal, measured>>

Zero ==
  <<0, [id \in Ids |-> 0], [id \in Ids |-> [k \in Keys |-> 0]]>>

Init ==
  /\ total = Zero[1] /\ deviceTotal = Zero[2] /\ measured = Zero[3]
  /\ reported = Zero

\* One more message, of which the readings ks are counted.
Count(m, ks) ==
  /\ total' = total + 1
  /\ deviceTotal' = [deviceTotal EXCEPT ![Hash[m.name]] = @ + 1]
  /\ measured' = [measured EXCEPT ![Hash[m.name]] =
                    [k \in Keys |-> @[k] + IF k \in ks THEN 1 ELSE 0]]
  /\ UNCHANGED reported

Add(m) == Count(m, m.keys)

\* The storage gave up: the device or some readings are not counted.
AddPart(m) ==
  /\ MayFail
  /\ \/ total' = total + 1 /\ UNCHANGED <<deviceTotal, measured, reported>>
     \/ \E ks \in SUBSET m.keys : Count(m, ks)

Report ==
  /\ reported' = Counts
  /\ UNCHANGED Counts

Next ==
  \/ \E m \in Messages : Add(m) \/ AddPart(m)
  \/ Report

Spec == Init /\ [][Next]_tallyVars
=============================================================================
