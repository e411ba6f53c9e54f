-------------------------- MODULE MessageDelivery --------------------------
(***************************************************************************)
(* What a queue between threads promises about its messages, with no       *)
(* threads, locks or notifications: a message is accepted at most once,    *)
(* accepted messages are stored in the order they were accepted, each one  *)
(* once, and nothing is stored that was not accepted.  The message queue   *)
(* of module Backend and the list of module Logger implement it.           *)
(***************************************************************************)
EXTENDS Naturals, Sequences, Functions

CONSTANT Messages    \* the messages, each one distinct

VARIABLES
  accepted,   \* the messages taken in since the start, in order
  stored      \* the messages stored or written, in order

deliveryVars == <<accepted, stored>>

Init ==
  /\ accepted = <<>>
  /\ stored = <<>>

Accept(m) ==
  /\ m \notin Range(accepted)
  /\ accepted' = Append(accepted, m)
  /\ UNCHANGED stored

Store ==
  /\ Len(stored) < Len(accepted)
  /\ stored' = Append(stored, accepted[Len(stored) + 1])
  /\ UNCHANGED accepted

Next ==
  \/ \E m \in Messages : Accept(m)
  \/ Store

Spec == Init /\ [][Next]_deliveryVars
=============================================================================
