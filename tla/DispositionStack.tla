-------------------------- MODULE DispositionStack --------------------------
(***************************************************************************)
(* What libsignalhandler promises: each signal has a stack of dispositions *)
(* and the last one is in force.  A new handler covers the one before, and *)
(* removing it brings that one back, so that the disposition the process   *)
(* inherited stays at the bottom.  Only where memory runs out may the new  *)
(* handler replace the one before.  Module SignalHandler implements this.  *)
(***************************************************************************)
EXTENDS Naturals, Sequences

CONSTANTS
  Signals,       \* the signals that can be handled
  Dispositions,  \* handlers, SIG_DFL and SIG_IGN
  SaveMayFail    \* memory may run out

VARIABLES
  stack,     \* the dispositions of each signal, the one in force last
  forgotten  \* those that were in force and are not on the stack for it

stackVars == <<stack, forgotten>>

Init ==
  /\ stack \in [Signals -> {<<d>> : d \in Dispositions}]
  /\ forgotten = [s \in Signals |-> {}]

Last(s) == stack[s][Len(stack[s])]
Front(s) == SubSeq(stack[s], 1, Len(stack[s]) - 1)

Push(s, d) ==
  /\ stack' = [stack EXCEPT ![s] = Append(@, d)]
  /\ UNCHANGED forgotten

Pop(s) ==
  /\ Len(stack[s]) > 1
  /\ stack' = [stack EXCEPT ![s] = Front(s)]
  /\ UNCHANGED forgotten

Replace(s, d) ==
  /\ SaveMayFail
  /\ stack' = [stack EXCEPT ![s] = Append(Front(s), d)]
  /\ forgotten' = [forgotten EXCEPT ![s] = @ \cup {Last(s)}]

Next ==
  \E s \in Signals :
    \/ Pop(s)
    \/ \E d \in Dispositions : Push(s, d) \/ Replace(s, d)

Spec == Init /\ [][Next]_stackVars
=============================================================================
