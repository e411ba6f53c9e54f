--------------------------- MODULE SignalHandler ---------------------------
(***************************************************************************)
(* libsignalhandler: the singleton SignalHandler keeps, for each signal,   *)
(* the stack of the dispositions that were in force before, while the      *)
(* kernel keeps the one that is.  pushHandler and popHandler change both,  *)
(* in two steps of which the second may fail; setAllHandlers pushes one    *)
(* handler on every signal, in the order of their numbers, and gives up at *)
(* the first failure.  One thread at a time uses the singleton; a signal   *)
(* can arrive between two rounds of the loop, so each round is a step.     *)
(***************************************************************************)
EXTENDS Integers, Sequences

CONSTANTS
  MAX_SIG_ID,    \* __SIGRTMIN, the first number that is not valid any more
  Unmaskable,    \* SIGKILL and SIGSTOP
  Routines,      \* the functions a program installs
  SIG_DFL,       \* the null pointer
  SIG_IGN,
  SaveMayFail,   \* std::stack::push may throw std::bad_alloc
  BadAlloc,      \* an exception instead of a return code
  MaxDepth       \* bound on the length of a stack

MIN_SIG_ID == 1

Dispositions == Routines \cup {SIG_DFL, SIG_IGN}

ASSUME SignalAssumption ==
  /\ MAX_SIG_ID \in Nat /\ MAX_SIG_ID > MIN_SIG_ID
  /\ Unmaskable \subseteq MIN_SIG_ID .. (MAX_SIG_ID - 1)
  /\ SIG_DFL \notin Routines \cup {SIG_IGN}
  /\ SaveMayFail \in BOOLEAN
  /\ BadAlloc \notin Int
  /\ MaxDepth \in Nat

isValidSignalNumber(n) ==
  /\ MIN_SIG_ID <= n /\ n < MAX_SIG_ID
  /\ n \notin Unmaskable

Signals == {n \in MIN_SIG_ID .. (MAX_SIG_ID - 1) : isValidSignalNumber(n)}

\* The stacks at the start, and what stands for them outside the loop.
NoStacks == [s \in Signals |-> <<>>]
Nothing == [disposition |-> [s \in Signals |-> SIG_DFL], handlers |-> NoStacks]

VARIABLES
  disposition,   \* what the kernel does with each signal
  handlers,      \* SignalHandler::handlers: the stacks, the top last
  result,        \* what the last call returned, or BadAlloc
  sweep,         \* signalNumber of the loop in setAllHandlers, 0 outside
  sweepHandler,  \* its parameter
  before,        \* auxiliary: disposition and handlers when the loop began
  inherited,     \* auxiliary: the dispositions the process started with
  lost           \* auxiliary: the dispositions forgotten for each signal

signalVars == <<disposition, handlers>>
sweepVars == <<sweep, sweepHandler, before>>
auxVars == <<inherited, lost>>
vars == <<signalVars, result, sweepVars, auxVars>>

-----------------------------------------------------------------------------
(***************************************************************************)
(* What pushHandler and popHandler do to a valid signal.                   *)
(***************************************************************************)
\* Mutant: the handler is saved, and not the one before it.
PushedSavesNew(n, h) ==
  /\ disposition' = [disposition EXCEPT ![n] = h]
  /\ handlers' = [handlers EXCEPT ![n] = Append(@, h)]
  /\ UNCHANGED lost

Pushed(n, h) ==
  /\ disposition' = [disposition EXCEPT ![n] = h]
  /\ handlers' = [handlers EXCEPT ![n] = Append(@, disposition[n])]
  /\ UNCHANGED lost

\* Mutant: a save that throws drops what was saved before as well.
SaveThrowsDropsAll(n, h) ==
  /\ SaveMayFail
  /\ disposition' = [disposition EXCEPT ![n] = h]
  /\ handlers' = [handlers EXCEPT ![n] = <<>>]
  /\ lost' = [lost EXCEPT ![n] = @ \cup {disposition[n]}]

\* The handler is in force when push throws: the one before is forgotten.
SaveThrows(n, h) ==
  /\ SaveMayFail
  /\ disposition' = [disposition EXCEPT ![n] = h]
  /\ lost' = [lost EXCEPT ![n] = @ \cup {disposition[n]}]
  /\ UNCHANGED handlers

\* Mutant: the restored disposition stays on the stack.
PoppedKeepsTop(n) ==
  /\ disposition' = [disposition EXCEPT ![n] = handlers[n][Len(handlers[n])]]
  /\ UNCHANGED <<handlers, lost>>

\* What popHandler does with a stack that is not empty.
Popped(n) ==
  /\ disposition' = [disposition EXCEPT ![n] = handlers[n][Len(handlers[n])]]
  /\ handlers' = [handlers EXCEPT ![n] = SubSeq(@, 1, Len(@) - 1)]
  /\ UNCHANGED lost

\* signal returned SIG_ERR, or pushHandler rejected its arguments.
NothingPushed == UNCHANGED <<signalVars, lost>>

-----------------------------------------------------------------------------
(***************************************************************************)
(* pushHandler and popHandler.                                             *)
(***************************************************************************)
Return(rc) ==
  /\ sweep = 0
  /\ result' = rc
  /\ UNCHANGED <<sweepVars, inherited>>

\* A null pointer is rejected, and SIG_DFL is one.
PushRejected(n, h) ==
  /\ ~isValidSignalNumber(n) \/ h = SIG_DFL
  /\ Return(-1) /\ NothingPushed

PushSignalFails(n, h) ==
  /\ isValidSignalNumber(n) /\ h # SIG_DFL
  /\ Return(-2) /\ NothingPushed

PushHandler(n, h) ==
  /\ isValidSignalNumber(n) /\ h # SIG_DFL
  /\ Len(handlers[n]) < MaxDepth
  /\ Return(0) /\ Pushed(n, h)

PushHandlerThrows(n, h) ==
  /\ isValidSignalNumber(n) /\ h # SIG_DFL
  /\ Return(BadAlloc) /\ SaveThrows(n, h)

PopRejected(n) ==
  /\ ~isValidSignalNumber(n)
  /\ Return(-1) /\ NothingPushed

PopEmpty(n) ==
  /\ isValidSignalNumber(n) /\ handlers[n] = <<>>
  /\ Return(-2) /\ NothingPushed

PopSignalFails(n) ==
  /\ isValidSignalNumber(n) /\ handlers[n] # <<>>
  /\ Return(-3) /\ NothingPushed

PopHandler(n) ==
  /\ isValidSignalNumber(n) /\ handlers[n] # <<>>
  /\ Return(0) /\ Popped(n)

-----------------------------------------------------------------------------
(***************************************************************************)
(* setAllHandlers.                                                         *)
(***************************************************************************)
SetAllHandlers(h) ==
  /\ sweep = 0
  /\ \A s \in Signals : Len(handlers[s]) < MaxDepth
  /\ sweep' = MIN_SIG_ID
  /\ sweepHandler' = h
  /\ before' = [disposition |-> disposition, handlers |-> handlers]
  /\ UNCHANGED <<signalVars, result, auxVars>>

Sweep ==
  /\ sweep \in Signals /\ sweepHandler # SIG_DFL
  /\ Pushed(sweep, sweepHandler)
  /\ sweep' = sweep + 1
  /\ UNCHANGED <<result, sweepHandler, before, inherited>>

\* Numbers that are not valid are skipped.
SweepContinues ==
  /\ sweep \in Unmaskable
  /\ sweep' = sweep + 1
  /\ NothingPushed
  /\ UNCHANGED <<result, sweepHandler, before, inherited>>

\* The loop is left with the signals before this one changed.
SweepReturns(rc) ==
  /\ result' = rc
  /\ sweep' = 0
  /\ sweepHandler' = SIG_DFL
  /\ before' = Nothing
  /\ UNCHANGED inherited

SweepRejected ==
  /\ sweep \in Signals /\ sweepHandler = SIG_DFL
  /\ SweepReturns(-1) /\ NothingPushed

\* Mutant: the loop goes on where pushHandler failed.
SweepSkips ==
  /\ sweep \in Signals
  /\ sweep' = sweep + 1
  /\ NothingPushed
  /\ UNCHANGED <<result, sweepHandler, before, inherited>>

SweepSignalFails ==
  /\ sweep \in Signals /\ sweepHandler # SIG_DFL
  /\ SweepReturns(-2) /\ NothingPushed

SweepThrows ==
  /\ sweep \in Signals /\ sweepHandler # SIG_DFL
  /\ SweepReturns(BadAlloc) /\ SaveThrows(sweep, sweepHandler)

SweepEnds ==
  /\ sweep = MAX_SIG_ID
  /\ SweepReturns(0) /\ NothingPushed

-----------------------------------------------------------------------------
\* A process starts with signals in their default or ignored.
Init ==
  /\ disposition \in [Signals -> {SIG_DFL, SIG_IGN}]
  /\ handlers = NoStacks
  /\ result = 0
  /\ sweep = 0
  /\ sweepHandler = SIG_DFL
  /\ before = Nothing
  /\ inherited = disposition
  /\ lost = [s \in Signals |-> {}]

Numbers == (MIN_SIG_ID - 1) .. MAX_SIG_ID

Call ==
  \/ \E n \in Numbers :
       \/ \E h \in Dispositions :
            \/ PushRejected(n, h) \/ PushSignalFails(n, h)
            \/ PushHandler(n, h) \/ PushHandlerThrows(n, h)
       \/ PopRejected(n) \/ PopEmpty(n) \/ PopSignalFails(n) \/ PopHandler(n)
  \/ \E h \in Dispositions : SetAllHandlers(h)

Loop ==
  \/ Sweep \/ SweepContinues \/ SweepRejected \/ SweepSignalFails
  \/ SweepThrows \/ SweepEnds

Next == Call \/ Loop

Spec == Init /\ [][Next]_vars

-----------------------------------------------------------------------------
(***************************************************************************)
(* Properties.                                                             *)
(***************************************************************************)
\* The variables have their types.
TypeOK ==
  /\ disposition \in [Signals -> Dispositions]
  /\ handlers \in [Signals -> Seq(Dispositions)]
  /\ result \in {0, -1, -2, -3, BadAlloc}
  /\ sweep \in 0 .. MAX_SIG_ID
  /\ sweepHandler \in Dispositions
  /\ before \in [disposition : [Signals -> Dispositions],
                 handlers : [Signals -> Seq(Dispositions)]]
  /\ inherited \in [Signals -> {SIG_DFL, SIG_IGN}]
  /\ lost \in [Signals -> SUBSET Dispositions]

\* What pushHandler makes of a signal.
Covered(s, h) ==
  /\ disposition[s] = h
  /\ handlers[s] = Append(before.handlers[s], before.disposition[s])

Untouched(s) ==
  /\ disposition[s] = before.disposition[s]
  /\ handlers[s] = before.handlers[s]

\* At every round of setAllHandlers, and so wherever it gives up, exactly the
\* signals passed carry the new handler, each over its old disposition, and
\* the others are as they were: popping the signals passed undoes the call.
\* When it ends, no valid signal was missed.
SweepIsUndoable ==
  sweep # 0 =>
    \A s \in Signals :
      IF s < sweep THEN Covered(s, sweepHandler) ELSE Untouched(s)

Stack == [s \in Signals |-> Append(handlers[s], disposition[s])]

\* However often handlers were pushed, popped and forgotten, popHandler can
\* still bring back the disposition the process started with, unless a save
\* threw when it was that one's turn to be saved.
InheritedIsKept ==
  \A s \in Signals : Stack[s][1] = inherited[s] \/ inherited[s] \in lost[s]

\* The inductive invariant.
IInv ==
  /\ TypeOK
  /\ SweepIsUndoable
  /\ InheritedIsKept

\* The saved dispositions under the kernel's one are a DispositionStack.
Dispositioned ==
  INSTANCE DispositionStack WITH stack <- Stack, forgotten <- lost

StackSpec == Dispositioned!Spec
=============================================================================
