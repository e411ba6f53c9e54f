------------------------ MODULE SignalHandlerProofs ------------------------
(***************************************************************************)
(* Proofs about SignalHandler, for every range of signals, every set of    *)
(* functions and stacks of any length: its inductive invariant, and that   *)
(* the map of stacks under the kernel's dispositions is a DispositionStack.*)
(***************************************************************************)
EXTENDS SignalHandler, TLAPS

\* Appending to a sequence, as pushHandler does, and removing the last
\* element again.
LEMMA AppendFacts ==
  ASSUME NEW S, NEW q \in Seq(S), NEW d \in S
  PROVE  /\ Append(q, d) \in Seq(S)
         /\ Len(Append(q, d)) = Len(q) + 1
         /\ Append(q, d)[Len(q) + 1] = d
         /\ \A i \in 1 .. Len(q) : Append(q, d)[i] = q[i]
         /\ q = <<>> => Append(q, d)[1] = d
  OBVIOUS

\* Removing the last element, as popHandler does, and appending it again.
LEMMA FrontFacts ==
  ASSUME NEW S, NEW q \in Seq(S), q # <<>>
  PROVE  /\ Len(q) \in Nat /\ Len(q) > 0
         /\ q[Len(q)] \in S
         /\ SubSeq(q, 1, Len(q) - 1) \in Seq(S)
         /\ Append(SubSeq(q, 1, Len(q) - 1), q[Len(q)]) = q
  OBVIOUS

\* Appending and removing again.
LEMMA UnappendFacts ==
  ASSUME NEW S, NEW q \in Seq(S), NEW d \in S
  PROVE  SubSeq(Append(q, d), 1, Len(Append(q, d)) - 1) = q
  OBVIOUS

-----------------------------------------------------------------------------
(***************************************************************************)
(* A step does one of four things to the dispositions: nothing, or, to one *)
(* signal, what pushHandler or popHandler does.                            *)
(***************************************************************************)
Effect ==
  \/ NothingPushed
  \/ \E n \in Signals :
       \/ handlers[n] # <<>> /\ Popped(n)
       \/ \E h \in Dispositions : Pushed(n, h) \/ SaveThrows(n, h)

\* Each action has one of the four effects.
LEMMA StepEffect ==
  ASSUME TypeOK, [Next]_vars
  PROVE  Effect
  <1> USE DEF Effect, NothingPushed
  <1>1. ASSUME NEW n \in Numbers, NEW h \in Dispositions,
               \/ PushRejected(n, h) \/ PushSignalFails(n, h)
               \/ PushHandler(n, h) \/ PushHandlerThrows(n, h)
        PROVE  Effect
    <2>1. isValidSignalNumber(n) => n \in Signals
      BY <1>1, SignalAssumption DEF isValidSignalNumber, Signals, Numbers,
                                    MIN_SIG_ID
    <2> QED
      BY <1>1, <2>1 DEF PushRejected, PushSignalFails, PushHandler,
                        PushHandlerThrows
  <1>2. ASSUME NEW n \in Numbers,
               \/ PopRejected(n) \/ PopEmpty(n) \/ PopSignalFails(n)
               \/ PopHandler(n)
        PROVE  Effect
    <2>1. isValidSignalNumber(n) => n \in Signals
      BY <1>2, SignalAssumption DEF isValidSignalNumber, Signals, Numbers,
                                    MIN_SIG_ID
    <2> QED
      BY <1>2, <2>1 DEF PopRejected, PopEmpty, PopSignalFails, PopHandler
  <1>3. ASSUME NEW h \in Dispositions, SetAllHandlers(h)
        PROVE  Effect
    BY <1>3 DEF SetAllHandlers, auxVars
  <1>4. ASSUME Loop
        PROVE  Effect
    BY <1>4 DEF Loop, Sweep, SweepContinues, SweepRejected, SweepSignalFails,
                SweepThrows, SweepEnds, TypeOK
  <1>5. ASSUME UNCHANGED vars
        PROVE  Effect
    BY <1>5 DEF vars, auxVars, signalVars
  <1> QED
    BY <1>1, <1>2, <1>3, <1>4, <1>5 DEF Next, Call

-----------------------------------------------------------------------------
(***************************************************************************)
(* The inductive invariant.                                                *)
(***************************************************************************)
\* The dispositions and stacks keep their types under each effect.
LEMMA EffectTypes ==
  ASSUME TypeOK, Effect
  PROVE  /\ disposition' \in [Signals -> Dispositions]
         /\ handlers' \in [Signals -> Seq(Dispositions)]
         /\ lost' \in [Signals -> SUBSET Dispositions]
  <1> USE DEF TypeOK
  <1>1. CASE NothingPushed
    BY <1>1 DEF NothingPushed, signalVars
  <1>2. ASSUME NEW n \in Signals, NEW h \in Dispositions, Pushed(n, h)
        PROVE  /\ disposition' \in [Signals -> Dispositions]
               /\ handlers' \in [Signals -> Seq(Dispositions)]
               /\ lost' \in [Signals -> SUBSET Dispositions]
    BY <1>2, AppendFacts DEF Pushed
  <1>3. ASSUME NEW n \in Signals, NEW h \in Dispositions, SaveThrows(n, h)
        PROVE  /\ disposition' \in [Signals -> Dispositions]
               /\ handlers' \in [Signals -> Seq(Dispositions)]
               /\ lost' \in [Signals -> SUBSET Dispositions]
    BY <1>3 DEF SaveThrows
  <1>4. ASSUME NEW n \in Signals, handlers[n] # <<>>, Popped(n)
        PROVE  /\ disposition' \in [Signals -> Dispositions]
               /\ handlers' \in [Signals -> Seq(Dispositions)]
               /\ lost' \in [Signals -> SUBSET Dispositions]
    BY <1>4, FrontFacts DEF Popped
  <1> QED
    BY <1>1, <1>2, <1>3, <1>4 DEF Effect

\* The variables keep their types.
LEMMA TypePreserved ==
  ASSUME TypeOK, [Next]_vars
  PROVE  TypeOK'
  <1>1. /\ disposition' \in [Signals -> Dispositions]
        /\ handlers' \in [Signals -> Seq(Dispositions)]
        /\ lost' \in [Signals -> SUBSET Dispositions]
    BY StepEffect, EffectTypes
  <1>2. /\ result' \in {0, -1, -2, -3, BadAlloc}
        /\ sweep' \in 0 .. MAX_SIG_ID
        /\ sweepHandler' \in Dispositions
        /\ before' \in [disposition : [Signals -> Dispositions],
                        handlers : [Signals -> Seq(Dispositions)]]
        /\ inherited' \in [Signals -> {SIG_DFL, SIG_IGN}]
    <2> USE SignalAssumption DEF TypeOK, sweepVars, MIN_SIG_ID
    <2>1. ASSUME NEW n \in Numbers, NEW h \in Dispositions,
                 \/ PushRejected(n, h) \/ PushSignalFails(n, h)
                 \/ PushHandler(n, h) \/ PushHandlerThrows(n, h)
          PROVE  <1>2!:
      BY <2>1 DEF PushRejected, PushSignalFails, PushHandler,
                  PushHandlerThrows, Return
    <2>2. ASSUME NEW n \in Numbers,
                 \/ PopRejected(n) \/ PopEmpty(n) \/ PopSignalFails(n)
                 \/ PopHandler(n)
          PROVE  <1>2!:
      BY <2>2 DEF PopRejected, PopEmpty, PopSignalFails, PopHandler, Return
    <2>3. ASSUME NEW h \in Dispositions, SetAllHandlers(h)
          PROVE  <1>2!:
      BY <2>3 DEF SetAllHandlers, auxVars
    <2>4. Nothing \in [disposition : [Signals -> Dispositions],
                       handlers : [Signals -> Seq(Dispositions)]]
      BY DEF Nothing, NoStacks, Dispositions
    <2>5. SIG_DFL \in Dispositions
      BY DEF Dispositions
    <2>6. ASSUME Sweep \/ SweepContinues
          PROVE  <1>2!:
      BY <2>6 DEF Sweep, SweepContinues, Signals
    <2>7. ASSUME SweepRejected \/ SweepSignalFails \/ SweepThrows \/ SweepEnds
          PROVE  <1>2!:
      BY <2>4, <2>5, <2>7 DEF SweepRejected, SweepSignalFails, SweepThrows,
                              SweepEnds, SweepReturns
    <2>8. ASSUME UNCHANGED vars
          PROVE  <1>2!:
      BY <2>8 DEF vars, auxVars
    <2> QED
      BY <2>1, <2>2, <2>3, <2>6, <2>7, <2>8 DEF Next, Call, Loop
  <1> QED
    BY <1>1, <1>2 DEF TypeOK

\* Each effect keeps the inherited disposition within reach.
LEMMA InheritedPreserved ==
  ASSUME IInv, [Next]_vars
  PROVE  InheritedIsKept'
  <1> USE DEF IInv, TypeOK
  <1>0. inherited' = inherited
    BY DEF Next, Call, Loop, vars, auxVars, PushRejected, PushSignalFails,
           PushHandler, PushHandlerThrows, PopRejected, PopEmpty,
           PopSignalFails, PopHandler, Return, SetAllHandlers, Sweep,
           SweepContinues, SweepRejected, SweepSignalFails, SweepThrows,
           SweepEnds, SweepReturns
  <1> SUFFICES ASSUME NEW s \in Signals
               PROVE  \/ Stack'[s][1] = inherited[s]
                      \/ inherited[s] \in lost'[s]
    BY <1>0 DEF InheritedIsKept
  <1>1. \/ Append(handlers[s], disposition[s])[1] = inherited[s]
        \/ inherited[s] \in lost[s]
    BY DEF InheritedIsKept, Stack
  <1>2. Stack'[s] = Append(handlers'[s], disposition'[s])
    BY DEF Stack
  <1>3. handlers[s] \in Seq(Dispositions) /\ disposition[s] \in Dispositions
    OBVIOUS
  <1>4. CASE NothingPushed
    BY <1>1, <1>2, <1>4 DEF NothingPushed, signalVars
  <1>5. ASSUME NEW n \in Signals, NEW h \in Dispositions, Pushed(n, h)
        PROVE  \/ Stack'[s][1] = inherited[s]
               \/ inherited[s] \in lost'[s]
    <2>1. CASE n # s
      BY <1>1, <1>2, <1>5, <2>1 DEF Pushed
    <2>2. CASE n = s
      <3> DEFINE q == Append(handlers[s], disposition[s])
      <3>1. Stack'[s] = Append(q, h) /\ lost' = lost
        BY <1>2, <1>5, <2>2 DEF Pushed
      <3>2. q \in Seq(Dispositions) /\ Len(q) = Len(handlers[s]) + 1
            /\ Len(handlers[s]) \in Nat
        BY <1>3, AppendFacts
      <3>3. Append(q, h)[1] = q[1]
        <4> HIDE DEF q
        <4> QED
          BY <3>2, AppendFacts
      <3> QED
        BY <1>1, <3>1, <3>3
    <2> QED
      BY <2>1, <2>2
  <1>6. ASSUME NEW n \in Signals, NEW h \in Dispositions, SaveThrows(n, h)
        PROVE  \/ Stack'[s][1] = inherited[s]
               \/ inherited[s] \in lost'[s]
    <2>1. CASE n # s
      BY <1>1, <1>2, <1>6, <2>1 DEF SaveThrows
    <2>2. CASE n = s
      <3>1. /\ Stack'[s] = Append(handlers[s], h)
            /\ lost'[s] = lost[s] \cup {disposition[s]}
        BY <1>2, <1>6, <2>2 DEF SaveThrows
      <3>2. CASE handlers[s] = <<>>
        BY <1>1, <1>3, <3>1, <3>2, AppendFacts
      <3>3. CASE handlers[s] # <<>>
        <4>1. Len(handlers[s]) \in Nat /\ Len(handlers[s]) > 0
          BY <1>3, <3>3, FrontFacts
        <4>2. /\ Append(handlers[s], h)[1] = handlers[s][1]
              /\ Append(handlers[s], disposition[s])[1] = handlers[s][1]
          BY <1>3, <4>1, AppendFacts
        <4> QED
          BY <1>1, <3>1, <4>2
      <3> QED
        BY <3>2, <3>3
    <2> QED
      BY <2>1, <2>2
  <1>7. ASSUME NEW n \in Signals, handlers[n] # <<>>, Popped(n)
        PROVE  \/ Stack'[s][1] = inherited[s]
               \/ inherited[s] \in lost'[s]
    <2>1. CASE n # s
      BY <1>1, <1>2, <1>7, <2>1 DEF Popped
    <2>2. CASE n = s
      <3>1. Len(handlers[s]) \in Nat /\ Len(handlers[s]) > 0
        BY <1>3, <1>7, <2>2, FrontFacts
      <3>2. Stack'[s] = handlers[s] /\ lost' = lost
        BY <1>2, <1>3, <1>7, <2>2, FrontFacts DEF Popped
      <3>3. Append(handlers[s], disposition[s])[1] = handlers[s][1]
        BY <1>3, <3>1, AppendFacts
      <3> QED
        BY <1>1, <3>2, <3>3
    <2> QED
      BY <2>1, <2>2
  <1> QED
    BY <1>4, <1>5, <1>6, <1>7, StepEffect DEF Effect

\* The loop of setAllHandlers changes the signals in order, one a round.
LEMMA SweepPreserved ==
  ASSUME IInv, [Next]_vars
  PROVE  SweepIsUndoable'
  <1> USE DEF IInv, TypeOK
  <1>1. CASE sweep = 0 /\ ~(\E h \in Dispositions : SetAllHandlers(h))
    <2>1. ~Loop
      BY <1>1, SignalAssumption
         DEF Loop, Signals, MIN_SIG_ID, Sweep, SweepContinues, SweepRejected,
             SweepSignalFails, SweepThrows, SweepEnds
    <2>2. sweep' = 0
      BY <1>1, <2>1
         DEF Next, Call, vars, sweepVars, PushRejected, PushSignalFails,
             PushHandler, PushHandlerThrows, PopRejected, PopEmpty,
             PopSignalFails, PopHandler, Return
    <2> QED
      BY <2>2 DEF SweepIsUndoable
  <1>2. ASSUME NEW h \in Dispositions, SetAllHandlers(h)
        PROVE  SweepIsUndoable'
    BY <1>2, SignalAssumption
       DEF SetAllHandlers, SweepIsUndoable, Untouched, Signals,
           isValidSignalNumber, MIN_SIG_ID, signalVars
  <1>3. CASE sweep # 0 /\ Loop
    <2>1. CASE Sweep
      <3> SUFFICES ASSUME NEW s \in Signals
                   PROVE  IF s < sweep + 1 THEN Covered(s, sweepHandler)'
                                           ELSE Untouched(s)'
        BY <2>1 DEF SweepIsUndoable, Sweep, Covered
      <3>1. s \in Nat /\ sweep \in Nat
        BY SignalAssumption DEF Signals, MIN_SIG_ID
      <3>2. IF s < sweep THEN Covered(s, sweepHandler) ELSE Untouched(s)
        BY <1>3 DEF SweepIsUndoable
      <3>3. CASE s = sweep
        BY <2>1, <3>1, <3>2, <3>3 DEF Sweep, Pushed, Covered, Untouched
      <3>4. CASE s # sweep
        BY <2>1, <3>1, <3>2, <3>4 DEF Sweep, Pushed, Covered, Untouched
      <3> QED
        BY <3>3, <3>4
    <2>2. CASE SweepContinues
      <3> SUFFICES ASSUME NEW s \in Signals
                   PROVE  IF s < sweep + 1 THEN Covered(s, sweepHandler)'
                                           ELSE Untouched(s)'
        BY <2>2 DEF SweepIsUndoable, SweepContinues, Covered
      <3>1. s \in Nat /\ sweep \in Nat /\ s # sweep
        BY <2>2, SignalAssumption DEF Signals, MIN_SIG_ID, SweepContinues,
                                      isValidSignalNumber
      <3>2. IF s < sweep THEN Covered(s, sweepHandler) ELSE Untouched(s)
        BY <1>3 DEF SweepIsUndoable
      <3> QED
        BY <2>2, <3>1, <3>2 DEF SweepContinues, NothingPushed, signalVars,
                                Covered, Untouched
    <2>3. CASE SweepRejected \/ SweepSignalFails \/ SweepThrows \/ SweepEnds
      BY <2>3 DEF SweepRejected, SweepSignalFails, SweepThrows, SweepEnds,
                  SweepReturns, SweepIsUndoable
    <2> QED
      BY <1>3, <2>1, <2>2, <2>3 DEF Loop
  <1>4. CASE sweep # 0 /\ ~Loop
    <2>1. UNCHANGED vars
      BY <1>4 DEF Next, Call, PushRejected, PushSignalFails, PushHandler,
                  PushHandlerThrows, PopRejected, PopEmpty, PopSignalFails,
                  PopHandler, Return, SetAllHandlers
    <2> QED
      BY <2>1 DEF vars, signalVars, sweepVars, SweepIsUndoable, Covered,
                  Untouched
  <1>5. CASE sweep = 0 /\ Loop
    BY <1>1, <1>2, <1>5
  <1> QED
    BY <1>1, <1>2, <1>3, <1>4, <1>5

\* The initial states satisfy the invariant.
LEMMA InitInvariant ==
  ASSUME Init
  PROVE  IInv
  <1>1. TypeOK
    BY SignalAssumption DEF Init, TypeOK, Dispositions, NoStacks, Nothing
  <1>2. SweepIsUndoable
    BY DEF Init, SweepIsUndoable
  <1>3. InheritedIsKept
    BY AppendFacts DEF Init, InheritedIsKept, Stack, NoStacks
  <1> QED
    BY <1>1, <1>2, <1>3 DEF IInv

\* Every variable of SignalHandler keeps its type, setAllHandlers can be
\* undone at every round, and popHandler can bring back the disposition the
\* process started with unless a save of it threw.
THEOREM SignalInvariant == Spec => []IInv
  <1>1. Init => IInv
    BY InitInvariant
  <1>2. IInv /\ [Next]_vars => IInv'
    BY TypePreserved, InheritedPreserved, SweepPreserved DEF IInv
  <1> QED
    BY <1>1, <1>2, PTL DEF Spec

\* At every round of setAllHandlers exactly the signals passed are covered,
\* each over its old disposition.
THEOREM SetAllIsUndoable == Spec => []SweepIsUndoable
  <1>1. IInv => SweepIsUndoable
    BY DEF IInv
  <1> QED
    BY <1>1, SignalInvariant, PTL

-----------------------------------------------------------------------------
(***************************************************************************)
(* The refinement: each effect is a step of DispositionStack or none.      *)
(***************************************************************************)
LEMMA EffectRefines ==
  ASSUME TypeOK, TypeOK', Effect
  PROVE  [Dispositioned!Next]_(Dispositioned!stackVars)
  <1> USE DEF TypeOK
  <1>1. CASE NothingPushed
    BY <1>1 DEF NothingPushed, signalVars, Stack, Dispositioned!stackVars
  <1>2. ASSUME NEW n \in Signals, NEW h \in Dispositions, Pushed(n, h)
        PROVE  Dispositioned!Push(n, h)
    <2>1. ASSUME NEW s \in Signals
          PROVE  Append(handlers'[s], disposition'[s])
                   = IF s = n THEN Append(Stack[n], h) ELSE Stack[s]
      BY <1>2, <2>1 DEF Pushed, Stack
    <2> QED
      BY <1>2, <2>1 DEF Pushed, Stack, Dispositioned!Push
  <1>3. ASSUME NEW n \in Signals, NEW h \in Dispositions, SaveThrows(n, h)
        PROVE  Dispositioned!Replace(n, h)
    <2>1. /\ SubSeq(Stack[n], 1, Len(Stack[n]) - 1) = handlers[n]
          /\ Stack[n][Len(Stack[n])] = disposition[n]
      BY AppendFacts, UnappendFacts DEF Stack
    <2>2. ASSUME NEW s \in Signals
          PROVE  Append(handlers'[s], disposition'[s])
                   = IF s = n
                       THEN Append(Dispositioned!Front(n), h) ELSE Stack[s]
      BY <1>3, <2>1, <2>2 DEF SaveThrows, Stack, Dispositioned!Front
    <2>3. Stack' = [Stack EXCEPT ![n] = Append(Dispositioned!Front(n), h)]
      BY <1>3, <2>2 DEF Stack
    <2>4. lost' = [lost EXCEPT ![n] = @ \cup {Dispositioned!Last(n)}]
      BY <1>3, <2>1 DEF SaveThrows, Dispositioned!Last
    <2> QED
      BY <1>3, <2>3, <2>4 DEF SaveThrows, Dispositioned!Replace
  <1>4. ASSUME NEW n \in Signals, handlers[n] # <<>>, Popped(n)
        PROVE  Dispositioned!Pop(n)
    <2>1. /\ SubSeq(Stack[n], 1, Len(Stack[n]) - 1) = handlers[n]
          /\ Len(Stack[n]) > 1
      BY <1>4, AppendFacts, UnappendFacts, FrontFacts DEF Stack
    <2>2. ASSUME NEW s \in Signals
          PROVE  Append(handlers'[s], disposition'[s])
                   = IF s = n THEN Dispositioned!Front(n) ELSE Stack[s]
      <3>1. CASE s = n
        <4>1. /\ handlers'[n] = SubSeq(handlers[n], 1, Len(handlers[n]) - 1)
              /\ disposition'[n] = handlers[n][Len(handlers[n])]
          BY <1>4 DEF Popped
        <4>2. Append(handlers'[n], disposition'[n]) = handlers[n]
          BY <1>4, <4>1, FrontFacts
        <4> QED
          BY <2>1, <3>1, <4>2 DEF Dispositioned!Front
      <3>2. CASE s # n
        BY <1>4, <2>2, <3>2 DEF Popped, Stack
      <3> QED
        BY <3>1, <3>2
    <2>3. Stack' = [Stack EXCEPT ![n] = Dispositioned!Front(n)]
      BY <1>4, <2>2 DEF Stack
    <2> QED
      BY <1>4, <2>1, <2>3 DEF Popped, Dispositioned!Pop
  <1> QED
    BY <1>1, <1>2, <1>3, <1>4 DEF Effect, Dispositioned!Next

\* The map of stacks, changed in two steps the second of which may fail,
\* keeps the promise of DispositionStack.
THEOREM ImplementsDispositionStack == Spec => StackSpec
  <1>1. Init => Dispositioned!Init
    <2> SUFFICES ASSUME Init PROVE Dispositioned!Init
      OBVIOUS
    <2>1. ASSUME NEW s \in Signals
          PROVE  Append(handlers[s], disposition[s]) = <<disposition[s]>>
      BY DEF Init, NoStacks
    <2>2. disposition \in [Signals -> Dispositions]
      BY DEF Init, Dispositions
    <2> QED
      BY <2>1, <2>2 DEF Init, Stack, Dispositioned!Init
  <1>2. IInv /\ IInv' /\ [Next]_vars
          => [Dispositioned!Next]_(Dispositioned!stackVars)
    BY StepEffect, EffectRefines DEF IInv
  <1> QED
    BY <1>1, <1>2, SignalInvariant, PTL
       DEF Spec, StackSpec, Dispositioned!Spec

\* The inherited disposition of a signal stays at the bottom of its stack.
THEOREM InheritedStays == Spec => []InheritedIsKept
  <1>1. IInv => InheritedIsKept
    BY DEF IInv
  <1> QED
    BY <1>1, SignalInvariant, PTL
=============================================================================
