------------------------------- MODULE Logger -------------------------------
(***************************************************************************)
(* liblogger: threads call logWriteMessage_f, which links a message into a *)
(* list guarded by queueLock; the logger thread takes messages from the    *)
(* list and writes them; main initialises the logger and, at exit, calls   *)
(* logDestroy_f, which stops the thread and writes what is left.           *)
(*                                                                         *)
(* The sections under loggerDataLock take no other lock and are one step,  *)
(* enabled when it is free; it stays taken only where the code forgets to  *)
(* release it.  Unlocking it while it is free has no effect in glibc, and  *)
(* locking the destroyed queueLock fails with EINVAL.  A message is its    *)
(* list node; its text and the formatting of writeMessage are left out.    *)
(***************************************************************************)
EXTENDS Naturals, Sequences, Functions

CONSTANTS
  Others,         \* the threads that log, besides main
  Messages,       \* the messages logged, each one by one call
  Levels,         \* logSeverityLevel_t
  Severity,       \* the severity of each message
  CallersAtExit,  \* other threads still log while main is in logDestroy_f
  NULL

Callers == Others \cup {"main"}
Threads == Callers \cup {"logger"}

ASSUME LoggerAssumption ==
  /\ Others \cap {"main", "logger"} = {}
  /\ Levels \subseteq Nat
  /\ Severity \in [Messages -> Levels]
  /\ CallersAtExit \in BOOLEAN
  /\ NULL \notin Messages
  /\ Callers \cap {"free", "destroyed"} = {}

VARIABLES
  pc,             \* where each thread is
  message,        \* the message in the hands of each thread
  dataLock,       \* loggerDataLock: its holder or "free"
  queueLock,      \* loggerData.queueLock, likewise, or "destroyed"
  level,          \* loggerData.level
  isInitialized, runLogThread,
  first, last, next, queueLength,   \* the list
  queue,          \* auxiliary: the messages in the list, in order
  result,         \* what logWriteMessage_f returned for each message
  written,        \* the messages written to the stream, in order
  streamOpen      \* fclose was not called

dataVars == <<level, isInitialized, runLogThread>>
listVars == <<first, last, next, queueLength, queue>>
outVars == <<result, written, streamOpen>>
vars == <<pc, message, dataLock, queueLock, dataVars, listVars, outVars>>

Goto(t, from, to) == pc[t] = from /\ pc' = [pc EXCEPT ![t] = to]

\* pthread_cond_signal, called on thread t.
SignalLogger(t, from, to) ==
  /\ pc[t] = from
  /\ pc' = [pc EXCEPT ![t] = to,
                      !["logger"] = IF @ = "waiting" THEN "woken" ELSE @]

InCall == {"idle", "lockData", "lockQueue", "enqueue"}

\* Thread c exists and may call the logger.
Running(c) ==
  \/ pc["main"] \in InCall
  \/ CallersAtExit /\ c # "main" /\ pc["main"] \notin {"init", "exited"}

-----------------------------------------------------------------------------
(***************************************************************************)
(* logWriteMessage_f and logSetLevel_f on thread c.                        *)
(***************************************************************************)
Returns(c, rc) ==
  /\ result' = [result EXCEPT ![message[c]] = rc]
  /\ message' = [message EXCEPT ![c] = NULL]

Call(c, m) ==
  /\ Goto(c, "idle", "lockData")
  /\ Running(c)
  /\ result[m] = "none" /\ \A t \in Threads : message[t] # m
  /\ message' = [message EXCEPT ![c] = m]
  /\ UNCHANGED <<dataLock, queueLock, dataVars, listVars, outVars>>

NotInitialized(c) ==
  /\ Goto(c, "lockData", "idle")
  /\ dataLock = "free"
  /\ ~isInitialized
  /\ Returns(c, "FAILURE")
  /\ UNCHANGED <<dataLock, queueLock, dataVars, listVars, written, streamOpen>>

\* Under the level: LOG_EXIT_SUCCESS, and there is nothing to write.
BelowLevel(c) ==
  /\ Goto(c, "lockData", "idle")
  /\ dataLock = "free"
  /\ isInitialized
  /\ Severity[message[c]] < level
  /\ Returns(c, "filtered")
  /\ UNCHANGED <<dataLock, queueLock, dataVars, listVars, written, streamOpen>>

PassesLevel(c) ==
  /\ Goto(c, "lockData", "lockQueue")
  /\ dataLock = "free"
  /\ isInitialized
  /\ Severity[message[c]] >= level
  /\ UNCHANGED <<message, dataLock, queueLock, dataVars, listVars, outVars>>

\* calloc returned NULL, or queueLock is destroyed.  The mutex is asked for
\* after calloc, and nothing obliges calloc to fail.
CannotQueue(c) ==
  /\ Goto(c, "lockQueue", "idle")
  /\ Returns(c, "FAILURE")
  /\ UNCHANGED <<dataLock, queueLock, dataVars, listVars, written, streamOpen>>

LockQueue(c) ==
  /\ Goto(c, "lockQueue", "enqueue")
  /\ queueLock = "free"
  /\ queueLock' = c
  /\ UNCHANGED <<message, dataLock, dataVars, listVars, outVars>>

\* Mutant: the end of the list is not moved on.
EnqueueKeepsLast(c) ==
  /\ SignalLogger(c, "enqueue", "idle")
  /\ IF queueLength = 0
       THEN first' = message[c] /\ last' = message[c] /\ UNCHANGED next
       ELSE /\ next' = [next EXCEPT ![last] = message[c]]
            /\ UNCHANGED <<first, last>>
  /\ queueLength' = queueLength + 1
  /\ queue' = Append(queue, message[c])
  /\ queueLock' = "free"
  /\ Returns(c, "SUCCESS")
  /\ UNCHANGED <<dataLock, dataVars, written, streamOpen>>

\* Mutant: the new message goes to the front.
EnqueueAtFront(c) ==
  /\ SignalLogger(c, "enqueue", "idle")
  /\ next' = [next EXCEPT ![message[c]] = first]
  /\ first' = message[c]
  /\ last' = IF queueLength = 0 THEN message[c] ELSE last
  /\ queueLength' = queueLength + 1
  /\ queue' = <<message[c]>> \o queue
  /\ queueLock' = "free"
  /\ Returns(c, "SUCCESS")
  /\ UNCHANGED <<dataLock, dataVars, written, streamOpen>>

\* Mutant: the logger thread is not signalled.
EnqueueWithoutSignal(c) ==
  /\ Goto(c, "enqueue", "idle")
  /\ IF queueLength = 0
       THEN first' = message[c] /\ last' = message[c] /\ UNCHANGED next
       ELSE /\ next' = [next EXCEPT ![last] = message[c]]
            /\ last' = message[c]
            /\ UNCHANGED first
  /\ queueLength' = queueLength + 1
  /\ queue' = Append(queue, message[c])
  /\ queueLock' = "free"
  /\ Returns(c, "SUCCESS")
  /\ UNCHANGED <<dataLock, dataVars, written, streamOpen>>

\* Mutant: queueLock is not released.
EnqueueKeepsLock(c) ==
  /\ SignalLogger(c, "enqueue", "idle")
  /\ IF queueLength = 0
       THEN first' = message[c] /\ last' = message[c] /\ UNCHANGED next
       ELSE /\ next' = [next EXCEPT ![last] = message[c]]
            /\ last' = message[c]
            /\ UNCHANGED first
  /\ queueLength' = queueLength + 1
  /\ queue' = Append(queue, message[c])
  /\ Returns(c, "SUCCESS")
  /\ UNCHANGED <<dataLock, queueLock, dataVars, written, streamOpen>>

\* Link the message, signal, unlock.
Enqueue(c) ==
  /\ SignalLogger(c, "enqueue", "idle")
  /\ IF queueLength = 0
       THEN first' = message[c] /\ last' = message[c] /\ UNCHANGED next
       ELSE /\ next' = [next EXCEPT ![last] = message[c]]
            /\ last' = message[c]
            /\ UNCHANGED first
  /\ queueLength' = queueLength + 1
  /\ queue' = Append(queue, message[c])
  /\ queueLock' = "free"
  /\ Returns(c, "SUCCESS")
  /\ UNCHANGED <<dataLock, dataVars, written, streamOpen>>

SetLevel(c, l) ==
  /\ pc[c] = "idle" /\ Running(c)
  /\ dataLock = "free"
  /\ level' = l
  /\ UNCHANGED <<pc, message, dataLock, queueLock, isInitialized,
                 runLogThread, listVars, outVars>>

-----------------------------------------------------------------------------
(***************************************************************************)
(* loggerThreadBody, with popMessage and writeMessage.                     *)
(***************************************************************************)
ReadLoggerData ==
  /\ Goto("logger", "readData",
          IF isInitialized /\ runLogThread THEN "popMessage" ELSE "done")
  /\ dataLock = "free"
  /\ UNCHANGED <<message, dataLock, queueLock, dataVars, listVars, outVars>>

\* popMessage finds nothing and waits, releasing queueLock in one step.
WaitForMessage ==
  /\ Goto("logger", "popMessage", "waiting")
  /\ queueLock = "free"
  /\ queueLength = 0
  /\ UNCHANGED <<message, dataLock, queueLock, dataVars, listVars, outVars>>

SpuriousWakeup ==
  /\ Goto("logger", "waiting", "woken")
  /\ UNCHANGED <<message, dataLock, queueLock, dataVars, listVars, outVars>>

\* Woken with no message: popMessage returns NULL and the loop starts over.
PopNothing ==
  /\ Goto("logger", "woken", "readData")
  /\ queueLock = "free"
  /\ queueLength = 0
  /\ UNCHANGED <<message, dataLock, queueLock, dataVars, listVars, outVars>>

\* popMessage takes the first message, at once or after the wait.
PopMessage ==
  /\ pc["logger"] \in {"popMessage", "woken"}
  /\ queueLock = "free"
  /\ queueLength > 0
  /\ message' = [message EXCEPT !["logger"] = first]
  /\ IF queueLength = 1
       THEN first' = NULL /\ last' = NULL
       ELSE first' = next[first] /\ UNCHANGED last
  /\ queueLength' = queueLength - 1
  /\ queue' = Tail(queue)
  /\ pc' = [pc EXCEPT !["logger"] = "writeMessage"]
  /\ UNCHANGED <<dataLock, queueLock, dataVars, next, outVars>>

\* writeMessage, then free.
WriteMessage ==
  /\ Goto("logger", "writeMessage", "readData")
  /\ written' = Append(written, message["logger"])
  /\ message' = [message EXCEPT !["logger"] = NULL]
  /\ UNCHANGED <<dataLock, queueLock, dataVars, listVars, result, streamOpen>>

-----------------------------------------------------------------------------
(***************************************************************************)
(* logInitialize_f and logDestroy_f on the main thread.                    *)
(***************************************************************************)
EmptyList ==
  /\ first' = NULL /\ last' = NULL /\ queueLength' = 0 /\ queue' = <<>>
  /\ UNCHANGED next

LogInitialize ==
  /\ pc["main"] = "init" /\ dataLock = "free"
  /\ pc' = [pc EXCEPT !["main"] = "idle", !["logger"] = "readData"]
  /\ level' \in Levels
  /\ isInitialized' = TRUE /\ runLogThread' = TRUE
  /\ queueLock' = "free"
  /\ EmptyList
  /\ UNCHANGED <<message, dataLock, outVars>>

\* No mutex or no condition variable: the stream is closed, main goes on.
LogInitializeFails ==
  /\ Goto("main", "init", "idle") /\ dataLock = "free"
  /\ level' \in Levels
  /\ EmptyList
  /\ streamOpen' = FALSE
  /\ UNCHANGED <<message, dataLock, queueLock, isInitialized, runLogThread,
                 result, written>>

\* No thread: returns without unlocking loggerDataLock.
LogThreadFails ==
  /\ Goto("main", "init", "idle") /\ dataLock = "free"
  /\ level' \in Levels
  /\ runLogThread' = TRUE
  /\ EmptyList
  /\ streamOpen' = FALSE
  /\ dataLock' = "main"
  /\ UNCHANGED <<message, queueLock, isInitialized, result, written>>

\* main returns and exit calls logDestroy_f.
Exit ==
  /\ Goto("main", "idle", "logDestroy")
  /\ CallersAtExit \/ \A c \in Others : pc[c] = "idle"
  /\ UNCHANGED <<message, dataLock, queueLock, dataVars, listVars, outVars>>

DestroyNothing ==
  /\ Goto("main", "logDestroy", "exited")
  /\ dataLock = "free"
  /\ ~isInitialized
  /\ UNCHANGED <<message, dataLock, queueLock, dataVars, listVars, outVars>>

\* Mutant: the thread is not told to end.
KeepLogThread ==
  /\ Goto("main", "logDestroy", "signal")
  /\ dataLock = "free"
  /\ isInitialized
  /\ UNCHANGED <<message, dataLock, queueLock, dataVars, listVars, outVars>>

StopLogThread ==
  /\ Goto("main", "logDestroy", "signal")
  /\ dataLock = "free"
  /\ isInitialized
  /\ runLogThread' = FALSE
  /\ UNCHANGED <<message, dataLock, queueLock, level, isInitialized, listVars,
                 outVars>>

\* Signal without queueLock.
SignalStop ==
  /\ SignalLogger("main", "signal", "join")
  /\ UNCHANGED <<message, dataLock, queueLock, dataVars, listVars, outVars>>

JoinLogger ==
  /\ Goto("main", "join", "destroy")
  /\ pc["logger"] = "done"
  /\ UNCHANGED <<message, dataLock, queueLock, dataVars, listVars, outVars>>

\* pthread_mutex_destroy refuses a mutex that is locked, and main goes on.
DestroyQueueLock ==
  /\ Goto("main", "destroy", "drain")
  /\ queueLock' = IF queueLock = "free" THEN "destroyed" ELSE queueLock
  /\ UNCHANGED <<message, dataLock, dataVars, listVars, outVars>>

\* Mutant: remaining messages are freed, not written.
DiscardOne ==
  /\ pc["main"] = "drain"
  /\ first # NULL
  /\ first' = next[first]
  /\ queue' = Tail(queue)
  /\ UNCHANGED <<pc, message, dataLock, queueLock, dataVars, last, next,
                 queueLength, outVars>>

\* Write a remaining message, without any lock.
DrainOne ==
  /\ pc["main"] = "drain"
  /\ first # NULL
  /\ written' = Append(written, first)
  /\ first' = next[first]
  /\ queue' = Tail(queue)
  /\ UNCHANGED <<pc, message, dataLock, queueLock, dataVars, last, next,
                 queueLength, result, streamOpen>>

DrainEnds ==
  /\ Goto("main", "drain", "close")
  /\ first = NULL
  /\ EmptyList
  /\ UNCHANGED <<message, dataLock, queueLock, dataVars, outVars>>

\* fclose, the flag, and an unlock of loggerDataLock, which main does not hold.
CloseStream ==
  /\ Goto("main", "close", "exited")
  /\ streamOpen' = FALSE
  /\ isInitialized' = FALSE
  /\ dataLock' = "free"
  /\ UNCHANGED <<message, queueLock, level, runLogThread, listVars, result,
                 written>>

-----------------------------------------------------------------------------
Init ==
  /\ pc = [t \in Threads |->
             CASE t = "main" -> "init" [] t = "logger" -> "none"
               [] OTHER -> "idle"]
  /\ message = [t \in Threads |-> NULL]
  /\ dataLock = "free"
  /\ queueLock = "destroyed"
  /\ level \in Levels
  /\ isInitialized = FALSE
  /\ runLogThread = FALSE
  /\ first = NULL /\ last = NULL /\ queueLength = 0 /\ queue = <<>>
  /\ next = [m \in Messages |-> NULL]
  /\ result = [m \in Messages |-> "none"]
  /\ written = <<>>
  /\ streamOpen = TRUE

CallStep(c) ==
  \/ NotInitialized(c) \/ BelowLevel(c) \/ PassesLevel(c)
  \/ LockQueue(c) \/ Enqueue(c)

LoggerStep ==
  \/ ReadLoggerData \/ WaitForMessage \/ PopNothing \/ PopMessage
  \/ WriteMessage

MainStep ==
  \/ LogInitialize \/ LogInitializeFails \/ LogThreadFails
  \/ DestroyNothing \/ StopLogThread \/ SignalStop \/ JoinLogger
  \/ DestroyQueueLock \/ DrainOne \/ DrainEnds \/ CloseStream

Next ==
  \/ \E c \in Callers, m \in Messages : Call(c, m)
  \/ \E c \in Callers : CallStep(c) \/ CannotQueue(c)
  \/ \E c \in Callers, l \in Levels : SetLevel(c, l)
  \/ LoggerStep
  \/ SpuriousWakeup
  \/ MainStep
  \/ Exit

Spec == Init /\ [][Next]_vars

\* A thread that can run is scheduled.  Neither a call nor the exit is owed,
\* nor is a calloc that fails.
Fairness ==
  /\ WF_vars(LoggerStep)
  /\ WF_vars(MainStep)
  /\ \A c \in Callers : WF_vars(CallStep(c))

FairSpec == Spec /\ Fairness

-----------------------------------------------------------------------------
(***************************************************************************)
(* Properties.                                                             *)
(***************************************************************************)
MainLabel == InCall \cup {"init", "logDestroy", "signal", "join", "destroy",
                          "drain", "close", "exited"}

LoggerLabel == {"none", "readData", "popMessage", "waiting", "woken",
                "writeMessage", "done"}

\* The variables have their types.
TypeOK ==
  /\ pc \in [Threads -> MainLabel \cup LoggerLabel]
  /\ pc["main"] \in MainLabel /\ pc["logger"] \in LoggerLabel
  /\ \A c \in Others : pc[c] \in InCall
  /\ message \in [Threads -> Messages \cup {NULL}]
  /\ dataLock \in {"free", "main"}
  /\ queueLock \in {"free", "destroyed"} \cup Callers
  /\ level \in Levels
  /\ isInitialized \in BOOLEAN /\ runLogThread \in BOOLEAN
  /\ first \in Messages \cup {NULL} /\ last \in Messages \cup {NULL}
  /\ next \in [Messages -> Messages \cup {NULL}]
  /\ queueLength \in Nat
  /\ queue \in Seq(Messages) /\ written \in Seq(Messages)
  /\ result \in [Messages -> {"none", "SUCCESS", "FAILURE", "filtered"}]
  /\ streamOpen \in BOOLEAN

\* The message the logger thread took and has not written yet.
InHand == IF pc["logger"] = "writeMessage" THEN <<message["logger"]>> ELSE <<>>

\* Every message ever linked, in order.
Queued == written \o InHand \o queue

\* The list represents the queue: first, the next pointers and last run
\* through its messages in order and end in NULL, and queueLength counts them.
\* While logDestroy_f takes the list apart, without queueLock and without
\* counting, a message linked behind the last one taken is out of its reach.
ListRepresentsQueue ==
  /\ first # NULL => queue # <<>> /\ first = queue[1]
  /\ first = NULL => queue = <<>> \/ (CallersAtExit /\ pc["main"] = "drain")
  /\ \A i \in 1 .. Len(queue) :
       next[queue[i]] = IF i = Len(queue) THEN NULL ELSE queue[i + 1]
  /\ queue # <<>> => last = queue[Len(queue)]
  /\ IF pc["main"] = "drain" THEN queueLength >= Len(queue)
                            ELSE queueLength = Len(queue)

\* A node that is not linked has no successor and is not the last one.
NodesAreFresh ==
  /\ \A m \in Messages : result[m] # "SUCCESS" => next[m] = NULL
  /\ last # NULL => result[last] = "SUCCESS"

\* Each caller has the message of its call, a message is in the hands of one
\* thread and not answered yet, and queueLock is held where a message is
\* linked, and nowhere else.
CallInv ==
  /\ \A c \in Callers : pc[c] \in {"lockData", "lockQueue", "enqueue"}
       <=> message[c] # NULL
  /\ pc["logger"] = "writeMessage" <=> message["logger"] # NULL
  /\ \A t, u \in Threads :
       message[t] = message[u] /\ message[t] # NULL => t = u
  /\ \A c \in Callers : message[c] # NULL => result[message[c]] = "none"
  /\ \A c \in Callers : pc[c] = "enqueue" <=> queueLock = c

\* The answer of logWriteMessage_f is the truth: exactly the messages it
\* answered LOG_EXIT_SUCCESS for, and did not filter, were linked, each once.
\* logDestroy_f may drop some if others still log.
SuccessIsQueued ==
  /\ \A m \in Messages : m \in Range(Queued) => result[m] = "SUCCESS"
  /\ ~(CallersAtExit /\ pc["main"] \in {"close", "exited"}) =>
       \A m \in Messages : result[m] = "SUCCESS" => m \in Range(Queued)
  /\ IsInjective(Queued)

\* The logger thread runs only while the logger is initialised, and once
\* joined it is gone.
LoggerInv ==
  /\ pc["logger"] \in LoggerLabel \ {"none", "done"}
       => /\ isInitialized /\ streamOpen /\ queueLock # "destroyed"
          /\ pc["main"] \in InCall \cup {"logDestroy", "signal", "join"}
  /\ pc["main"] = "init" => pc["logger"] = "none"
  /\ pc["main"] \in {"destroy", "drain", "close"} => pc["logger"] = "done"

\* No lost wake-up for messages: the thread sleeps on an empty list only.
NoLostWakeup == pc["logger"] = "waiting" => queue = <<>>

\* Before the logger is initialised there is nothing to write.  When nobody
\* else logs at exit, nothing is left either once logDestroy_f is through.
ExitInv ==
  /\ pc["main"] = "init"
       => ~isInitialized /\ streamOpen /\ queue = <<>>
          /\ \A c \in Callers : pc[c] \in {"idle", "init"}
  /\ ~CallersAtExit =>
       /\ pc["main"] \notin InCall => \A c \in Others : pc[c] = "idle"
       /\ pc["main"] \in {"close", "exited"} => queue = <<>>
       /\ ~isInitialized =>
            queue = <<>> /\ \A c \in Callers :
                              pc[c] \notin {"lockQueue", "enqueue"}

\* The logger thread and its flag follow main: the thread runs, and is told
\* to, once the logger is initialised and until logDestroy_f ends it; where it
\* never ran there is nothing in the list.
ThreadOrder ==
  /\ pc["logger"] = "none"
       => /\ ~isInitialized /\ queue = <<>>
          /\ \A c \in Callers : pc[c] \notin {"lockQueue", "enqueue"}
  /\ pc["logger"] # "none" /\ pc["main"] \in InCall \cup {"logDestroy"}
       => isInitialized /\ runLogThread /\ pc["logger"] # "done"
  /\ pc["main"] \in {"signal", "join"} => pc["logger"] # "none" /\ ~runLogThread

\* The inductive invariant.
IInv ==
  /\ TypeOK
  /\ ListRepresentsQueue
  /\ NodesAreFresh
  /\ CallInv
  /\ SuccessIsQueued
  /\ LoggerInv
  /\ NoLostWakeup
  /\ ExitInv
  /\ ThreadOrder

\* Messages are written once each, in the order they were linked: the linked
\* list, its lock and the drain of logDestroy_f keep the promise of
\* MessageDelivery.
Log == INSTANCE MessageDelivery WITH accepted <- Queued, stored <- written

DeliverySpec == Log!Spec

\* Logger.hpp, line 30: logDestroy_f writes all remaining messages.  Every
\* message that logWriteMessage_f answered LOG_EXIT_SUCCESS for is written
\* when logDestroy_f returns.  It holds when no thread logs during
\* logDestroy_f and is violated otherwise.
AllWritten ==
  pc["main"] = "exited" =>
    \A m \in Messages : result[m] = "SUCCESS" => m \in Range(written)

\* logDestroy_f signalled between the thread's test of the flag and its wait.
StopMissed ==
  pc["main"] = "join" /\ pc["logger"] = "waiting" /\ ~runLogThread

\* The thread has no next step of its own: it owes none, or waits for a mutex,
\* a message or the end of another thread.  A calloc that fails is no way out.
CallerWaits(c) ==
  \/ pc[c] \notin {"lockData", "lockQueue", "enqueue"}
  \/ pc[c] = "lockData" /\ dataLock # "free"
  \/ pc[c] = "lockQueue" /\ queueLock \in Callers

LoggerWaits ==
  \/ pc["logger"] \in {"none", "done", "waiting"}
  \/ pc["logger"] = "readData" /\ dataLock # "free"
  \/ pc["logger"] \in {"popMessage", "woken"} /\ queueLock # "free"

MainWaits ==
  \/ pc["main"] \in InCall /\ CallerWaits("main")
  \/ pc["main"] \in {"init", "logDestroy"} /\ dataLock # "free"
  \/ pc["main"] = "join" /\ pc["logger"] # "done"
  \/ pc["main"] = "exited"

\* No call is on its way, and every message answered LOG_EXIT_SUCCESS for is
\* written; after logDestroy_f it may be lost if others went on logging.
AtRest ==
  /\ \A c \in Callers : pc[c] \in {"idle", "exited"}
  /\ \/ CallersAtExit /\ pc["main"] = "exited"
     \/ \A m \in Messages : result[m] = "SUCCESS" => m \in Range(written)

\* When all threads wait, the logger is at rest with everything written, or
\* hangs in one of two ways: in the signal of logDestroy_f that came too
\* early, or at the mutex that logInitialize_f kept.
OnlyKnownStandstills ==
  (\A c \in Others : CallerWaits(c)) /\ LoggerWaits /\ MainWaits
    => AtRest \/ StopMissed \/ dataLock = "main"

\* A linked message gets written, by the thread or by logDestroy_f.
QueuedIsWritten ==
  \A m \in Messages : m \in Range(queue) ~> m \in Range(written)

\* A call that asks for loggerDataLock gets through both mutexes and returns,
\* whoever else asks for them, unless logInitialize_f kept loggerDataLock.  No
\* failing calloc is needed for it to return.
CallReturnsUnlessLocked ==
  \A c \in Callers : pc[c] = "lockData" ~> (pc[c] = "idle" \/ dataLock = "main")

\* logDestroy_f returns, unless its signal was missed or logInitialize_f kept
\* loggerDataLock.
DestroyReturnsUnlessStuck ==
  pc["main"] = "logDestroy"
    ~> (pc["main"] = "exited" \/ StopMissed \/ dataLock = "main")

\* Logger.cpp, line 500: the signal of logDestroy_f reaches the thread in case
\* it is waiting, so that the thread ends.  Violated: StopMissed.
SignalEndsLogger == pc["main"] = "signal" ~> pc["logger"] = "done"
=============================================================================
