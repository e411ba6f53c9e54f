---------------------------- MODULE LoggerProofs ----------------------------
(***************************************************************************)
(* The invariant IInv of Logger is inductive, for any threads, messages    *)
(* and levels, and whether or not threads still log at the exit.  When     *)
(* none does, the logger implements MessageDelivery and writes everything. *)
(***************************************************************************)
EXTENDS Logger, DataLemmas, TLAPS

\* Every step keeps the types.
LEMMA TypePreserved ==
  ASSUME IInv, [Next]_vars
  PROVE  TypeOK'
  <1> USE LoggerAssumption
      DEF IInv, TypeOK, Threads, Callers, MainLabel, LoggerLabel, InCall,
          Goto, SignalLogger, Returns, vars, dataVars, listVars, outVars
  <1>1. CASE UNCHANGED vars
    BY <1>1
  <1>2. ASSUME NEW c \in Callers, NEW m \in Messages, Call(c, m)
        PROVE  TypeOK'
    BY <1>2 DEF Call
  <1>3. ASSUME NEW c \in Callers, CallStep(c) \/ CannotQueue(c)
        PROVE  TypeOK'
    <2>1. CASE NotInitialized(c)
      BY <1>3, <2>1 DEF NotInitialized
    <2>2. CASE BelowLevel(c)
      BY <1>3, <2>2 DEF BelowLevel
    <2>3. CASE PassesLevel(c)
      BY <1>3, <2>3 DEF PassesLevel
    <2>4. CASE CannotQueue(c)
      BY <1>3, <2>4 DEF CannotQueue
    <2>5. CASE LockQueue(c)
      BY <1>3, <2>5 DEF LockQueue
    <2>6. CASE Enqueue(c)
      <3>1. message[c] \in Messages
        BY <2>6 DEF Enqueue, CallInv
      <3>2. /\ pc' \in [Threads -> MainLabel \cup LoggerLabel]
            /\ pc'["main"] \in MainLabel /\ pc'["logger"] \in LoggerLabel
            /\ \A d \in Others : pc'[d] \in InCall
        BY <2>6 DEF Enqueue
      <3>3. /\ next' \in [Messages -> Messages \cup {NULL}]
            /\ first' \in Messages \cup {NULL} /\ last' \in Messages \cup {NULL}
            /\ queueLength' \in Nat /\ queue' \in Seq(Messages)
        BY <2>6, <3>1 DEF Enqueue
      <3> QED
        BY <2>6, <3>1, <3>2, <3>3 DEF Enqueue
    <2> QED
      BY <1>3, <2>1, <2>2, <2>3, <2>4, <2>5, <2>6 DEF CallStep
  <1>4. ASSUME NEW c \in Callers, NEW l \in Levels, SetLevel(c, l)
        PROVE  TypeOK'
    BY <1>4 DEF SetLevel
  <1>5. CASE LoggerStep
    <2>1. CASE ReadLoggerData
      BY <2>1 DEF ReadLoggerData
    <2>2. CASE WaitForMessage
      BY <2>2 DEF WaitForMessage
    <2>3. CASE PopNothing
      BY <2>3 DEF PopNothing
    <2>4. CASE PopMessage
      BY <2>4 DEF PopMessage, ListRepresentsQueue, LoggerInv
    <2>5. CASE WriteMessage
      BY <2>5 DEF WriteMessage, CallInv
    <2> QED
      BY <1>5, <2>1, <2>2, <2>3, <2>4, <2>5 DEF LoggerStep
  <1>6. CASE SpuriousWakeup
    BY <1>6 DEF SpuriousWakeup
  <1>7. CASE MainStep
    <2>1. CASE LogInitialize
      <3>1. /\ isInitialized' \in BOOLEAN /\ runLogThread' \in BOOLEAN
            /\ streamOpen' \in BOOLEAN
        BY <2>1, Zenon DEF LogInitialize
      <3> QED
        BY <2>1, <3>1 DEF LogInitialize, EmptyList
    <2>2. CASE LogInitializeFails
      <3>1. /\ isInitialized' \in BOOLEAN /\ runLogThread' \in BOOLEAN
            /\ streamOpen' \in BOOLEAN
        BY <2>2, Zenon DEF LogInitializeFails
      <3> QED
        BY <2>2, <3>1 DEF LogInitializeFails, EmptyList
    <2>3. CASE LogThreadFails
      <3>1. /\ isInitialized' \in BOOLEAN /\ runLogThread' \in BOOLEAN
            /\ streamOpen' \in BOOLEAN
        BY <2>3, Zenon DEF LogThreadFails
      <3> QED
        BY <2>3, <3>1 DEF LogThreadFails, EmptyList
    <2>4. CASE DestroyNothing
      BY <2>4 DEF DestroyNothing
    <2>5. CASE StopLogThread
      BY <2>5 DEF StopLogThread
    <2>6. CASE SignalStop
      BY <2>6 DEF SignalStop
    <2>7. CASE JoinLogger
      BY <2>7 DEF JoinLogger
    <2>8. CASE DestroyQueueLock
      BY <2>8 DEF DestroyQueueLock
    <2>9. CASE DrainOne
      BY <2>9 DEF DrainOne, ListRepresentsQueue
    <2>10. CASE DrainEnds
      BY <2>10 DEF DrainEnds, EmptyList
    <2>11. CASE CloseStream
      BY <2>11 DEF CloseStream
    <2> QED
      BY <1>7, <2>1, <2>2, <2>3, <2>4, <2>5, <2>6, <2>7, <2>8, <2>9, <2>10,
         <2>11 DEF MainStep
  <1>8. CASE Exit
    BY <1>8 DEF Exit
  <1> QED
    BY <1>1, <1>2, <1>3, <1>4, <1>5, <1>6, <1>7, <1>8 DEF Next

\* What is in the list was answered LOG_EXIT_SUCCESS, is there once, and is
\* not in the hand of the logger thread.
LEMMA QueueFacts ==
  ASSUME IInv
  PROVE  /\ \A i \in 1 .. Len(queue) :
              queue[i] \in Messages /\ result[queue[i]] = "SUCCESS"
         /\ \A i, j \in 1 .. Len(queue) : queue[i] = queue[j] => i = j
         /\ first # NULL => result[first] = "SUCCESS" /\ first \in Messages
         /\ Len(queue) \in Nat
         /\ written \in Seq(Messages) /\ InHand \in Seq(Messages)
         /\ Queued \in Seq(Messages)
  <1>1. InHand \in Seq(Messages)
    BY LoggerAssumption DEF InHand, IInv, TypeOK, CallInv, Threads
  <1> DEFINE front == written \o InHand
  <1>2. /\ written \in Seq(Messages) /\ queue \in Seq(Messages)
        /\ front \in Seq(Messages) /\ Queued \in Seq(Messages)
        /\ Len(queue) \in Nat /\ Len(front) \in Nat
        /\ Queued = front \o queue
    BY <1>1, ConcatProperties, LenProperties DEF IInv, TypeOK, Queued
  <1> HIDE DEF front
  <1>3. /\ DOMAIN Queued = 1 .. Len(front) + Len(queue)
        /\ \A i \in 1 .. Len(queue) : Queued[Len(front) + i] = queue[i]
    <2>1. Len(front \o queue) = Len(front) + Len(queue)
      BY ONLY <1>2, ConcatProperties
    <2>2. \A i \in 1 .. Len(front) + Len(queue) :
            (front \o queue)[i] = IF i <= Len(front) THEN front[i]
                                  ELSE queue[i - Len(front)]
      BY ONLY <1>2, <2>1, ConcatProperties
    <2> QED
      BY <1>2, <2>1, <2>2, LenProperties
  <1>4. \A i \in 1 .. Len(queue) :
          queue[i] \in Messages /\ result[queue[i]] = "SUCCESS"
    <2> TAKE i \in 1 .. Len(queue)
    <2>1. queue[i] \in Messages
      BY <1>2, ElementOfSeq
    <2>2. Len(front) + i \in DOMAIN Queued /\ queue[i] = Queued[Len(front) + i]
      BY <1>2, <1>3
    <2>3. queue[i] \in Range(Queued)
      BY ONLY <2>2 DEF Range
    <2> QED
      BY <2>1, <2>3 DEF IInv, SuccessIsQueued
  <1>5. \A i, j \in 1 .. Len(queue) : queue[i] = queue[j] => i = j
    <2> TAKE i, j \in 1 .. Len(queue)
    <2> HAVE queue[i] = queue[j]
    <2>1. /\ Len(front) + i \in DOMAIN Queued
          /\ Len(front) + j \in DOMAIN Queued
          /\ Queued[Len(front) + i] = Queued[Len(front) + j]
      BY <1>2, <1>3
    <2>2. Len(front) + i = Len(front) + j
      BY ONLY <2>1, IInv DEF IInv, SuccessIsQueued, IsInjective
    <2> QED
      BY ONLY <1>2, <2>2
  <1>6. first # NULL => result[first] = "SUCCESS" /\ first \in Messages
    <2>1. queue # <<>> => 1 \in 1 .. Len(queue)
      BY <1>2, EmptySeq, LenProperties
    <2> QED
      BY <1>4, <2>1 DEF IInv, ListRepresentsQueue
  <1> QED
    BY <1>1, <1>2, <1>4, <1>5, <1>6

\* Every step keeps the calls, the holder of queueLock and the life of the
\* logger thread in order.
LEMMA CallsPreserved ==
  ASSUME IInv, [Next]_vars
  PROVE  CallInv' /\ LoggerInv'
  <1> USE LoggerAssumption
      DEF IInv, TypeOK, CallInv, LoggerInv, Threads, Callers, MainLabel, LoggerLabel,
          InCall, Goto, SignalLogger, Returns, vars, dataVars, listVars, outVars
  <1>1. CASE UNCHANGED vars
    BY <1>1
  <1>2. ASSUME NEW c \in Callers, NEW m \in Messages, Call(c, m)
        PROVE  CallInv' /\ LoggerInv'
    BY <1>2 DEF Call
  <1>3. ASSUME NEW c \in Callers, CallStep(c) \/ CannotQueue(c)
        PROVE  CallInv' /\ LoggerInv'
    <2>1. CASE NotInitialized(c)
      BY <1>3, <2>1 DEF NotInitialized
    <2>2. CASE BelowLevel(c)
      BY <1>3, <2>2 DEF BelowLevel
    <2>3. CASE PassesLevel(c)
      BY <1>3, <2>3 DEF PassesLevel
    <2>4. CASE CannotQueue(c)
      BY <1>3, <2>4 DEF CannotQueue
    <2>5. CASE LockQueue(c)
      BY <1>3, <2>5 DEF LockQueue
    <2>6. CASE Enqueue(c)
      <3> USE <1>3, <2>6 DEF Enqueue
      <3>1. /\ pc'[c] = "idle" /\ message'[c] = NULL
            /\ \A t \in Threads \ {c, "logger"} : pc'[t] = pc[t]
            /\ \A t \in Threads \ {c} : message'[t] = message[t]
            /\ pc'["logger"] # "writeMessage" <=> pc["logger"] # "writeMessage"
            /\ queueLock = c /\ queueLock' = "free"
        OBVIOUS
      <3>2. /\ \A d \in Callers :
                 pc'[d] \in {"lockData", "lockQueue", "enqueue"}
                   <=> message'[d] # NULL
            /\ pc'["logger"] = "writeMessage" <=> message'["logger"] # NULL
        BY <3>1
      <3>3. /\ \A t, u \in Threads :
                 message'[t] = message'[u] /\ message'[t] # NULL => t = u
            /\ \A d \in Callers :
                 message'[d] # NULL => result'[message'[d]] = "none"
        BY <3>1
      <3>4. \A d \in Callers : pc'[d] = "enqueue" <=> queueLock' = d
        <4>1. c # "logger" /\ "free" \notin Callers /\ "logger" \notin Callers
          OBVIOUS
        <4>2. \A d \in Callers \ {c} : pc'[d] # "enqueue"
          BY <3>1, <4>1
        <4> QED
          BY ONLY <3>1, <4>1, <4>2
      <3>5. LoggerInv'
        BY <3>1
      <3> QED
        BY <3>2, <3>3, <3>4, <3>5
    <2> QED
      BY <1>3, <2>1, <2>2, <2>3, <2>4, <2>5, <2>6 DEF CallStep
  <1>4. ASSUME NEW c \in Callers, NEW l \in Levels, SetLevel(c, l)
        PROVE  CallInv' /\ LoggerInv'
    BY <1>4 DEF SetLevel
  <1>5. CASE LoggerStep
    <2>1. CASE ReadLoggerData
      BY <2>1 DEF ReadLoggerData
    <2>2. CASE WaitForMessage
      BY <2>2 DEF WaitForMessage
    <2>3. CASE PopNothing
      BY <2>3 DEF PopNothing
    <2>4. CASE PopMessage
      BY <2>4, QueueFacts DEF PopMessage, ListRepresentsQueue
    <2>5. CASE WriteMessage
      BY <2>5 DEF WriteMessage
    <2> QED
      BY <1>5, <2>1, <2>2, <2>3, <2>4, <2>5 DEF LoggerStep
  <1>6. CASE SpuriousWakeup
    BY <1>6 DEF SpuriousWakeup
  <1>7. CASE MainStep
    <2>1. CASE LogInitialize
      BY <2>1 DEF LogInitialize, EmptyList, ExitInv
    <2>2. CASE LogInitializeFails
      BY <2>2 DEF LogInitializeFails, EmptyList, ExitInv
    <2>3. CASE LogThreadFails
      BY <2>3 DEF LogThreadFails, EmptyList, ExitInv
    <2>4. CASE DestroyNothing
      BY <2>4 DEF DestroyNothing
    <2>5. CASE StopLogThread
      <3>1. /\ pc["main"] = "logDestroy" /\ pc' = [pc EXCEPT !["main"] = "signal"]
            /\ UNCHANGED <<message, result, queueLock, isInitialized,
                           streamOpen>>
        BY <2>5, Zenon DEF StopLogThread
      <3> QED
        BY <3>1
    <2>6. CASE SignalStop
      BY <2>6 DEF SignalStop
    <2>7. CASE JoinLogger
      BY <2>7 DEF JoinLogger
    <2>8. CASE DestroyQueueLock
      <3>1. CallInv'
        <4>1. /\ UNCHANGED <<message, result>>
              /\ \A t \in Threads \ {"main"} : pc'[t] = pc[t]
              /\ pc["main"] = "destroy" /\ pc'["main"] = "drain"
          BY <2>8 DEF DestroyQueueLock
        <4>2. queueLock' = IF queueLock = "free" THEN "destroyed" ELSE queueLock
          BY <2>8 DEF DestroyQueueLock
        <4> QED
          BY <4>1, <4>2
      <3>2. LoggerInv'
        BY <2>8 DEF DestroyQueueLock
      <3> QED
        BY <3>1, <3>2
    <2>9. CASE DrainOne
      BY <2>9 DEF DrainOne
    <2>10. CASE DrainEnds
      BY <2>10 DEF DrainEnds, EmptyList
    <2>11. CASE CloseStream
      BY <2>11 DEF CloseStream
    <2> QED
      BY <1>7, <2>1, <2>2, <2>3, <2>4, <2>5, <2>6,
         <2>7, <2>8, <2>9, <2>10, <2>11 DEF MainStep
  <1>8. CASE Exit
    BY <1>8 DEF Exit
  <1> QED
    BY <1>1, <1>2, <1>3, <1>4, <1>5, <1>6, <1>7, <1>8 DEF Next

\* A step that neither links, takes nor writes a message keeps the list and
\* the messages answered LOG_EXIT_SUCCESS.
KeepsAnswers ==
  \A m \in Messages : result'[m] = "SUCCESS" <=> result[m] = "SUCCESS"

KeepsMessages ==
  /\ UNCHANGED <<listVars, written, InHand>>
  /\ KeepsAnswers
  /\ pc'["main"] # pc["main"] =>
       pc["main"] \notin {"drain", "close"} /\ pc'["main"] # "close"
  /\ pc'["logger"] = "waiting" => pc["logger"] = "waiting" \/ queueLength = 0
  /\ pc["main"] = "exited" => pc'["main"] = "exited"

\* The list is emptied, at the start or when nothing can be reached from
\* its first message.
EmptiesList ==
  /\ EmptyList
  /\ UNCHANGED <<written, InHand>>
  /\ KeepsAnswers
  /\ pc["main"] \in {"init", "drain"} /\ pc'["main"] \in {"idle", "close"}
  /\ queue = <<>> \/ (CallersAtExit /\ pc'["main"] = "close")

\* What a step does to the messages: only these actions touch them.
LEMMA MovesOfMessages ==
  ASSUME IInv, [Next]_vars
  PROVE  \/ \E c \in Callers : Enqueue(c)
         \/ PopMessage \/ WriteMessage \/ DrainOne \/ CloseStream
         \/ EmptiesList
         \/ KeepsMessages
  <1> USE LoggerAssumption
      DEF IInv, TypeOK, Threads, Callers, MainLabel, LoggerLabel, InCall, Goto,
          SignalLogger, Returns, InHand, vars, dataVars, listVars, outVars,
          KeepsMessages, KeepsAnswers
  <1>1. CASE UNCHANGED vars
    BY <1>1
  <1>2. ASSUME NEW c \in Callers, NEW m \in Messages, Call(c, m)
        PROVE  KeepsMessages \/ Enqueue(c)
    BY <1>2 DEF Call, CallInv
  <1>3. ASSUME NEW c \in Callers, CallStep(c) \/ CannotQueue(c)
        PROVE  KeepsMessages \/ Enqueue(c)
    <2>1. CASE NotInitialized(c)
      BY <1>3, <2>1 DEF NotInitialized, CallInv
    <2>2. CASE BelowLevel(c)
      BY <1>3, <2>2 DEF BelowLevel, CallInv
    <2>3. CASE PassesLevel(c)
      BY <1>3, <2>3 DEF PassesLevel
    <2>4. CASE CannotQueue(c)
      BY <1>3, <2>4 DEF CannotQueue, CallInv
    <2>5. CASE LockQueue(c)
      BY <1>3, <2>5 DEF LockQueue
    <2>6. CASE Enqueue(c)
      BY <1>3, <2>6 DEF Enqueue
    <2> QED
      BY <1>3, <2>1, <2>2, <2>3, <2>4, <2>5, <2>6 DEF CallStep
  <1>4. ASSUME NEW c \in Callers, NEW l \in Levels, SetLevel(c, l)
        PROVE  KeepsMessages \/ Enqueue(c)
    BY <1>4 DEF SetLevel
  <1>5. CASE LoggerStep
    <2>1. CASE ReadLoggerData
      BY <2>1 DEF ReadLoggerData
    <2>2. CASE WaitForMessage
      BY <2>2 DEF WaitForMessage
    <2>3. CASE PopNothing
      BY <2>3 DEF PopNothing
    <2>4. CASE PopMessage
      BY <2>4 DEF PopMessage
    <2>5. CASE WriteMessage
      BY <2>5 DEF WriteMessage
    <2> QED
      BY <1>5, <2>1, <2>2, <2>3, <2>4, <2>5 DEF LoggerStep
  <1>6. CASE SpuriousWakeup
    BY <1>6 DEF SpuriousWakeup
  <1>7. CASE MainStep
    <2>1. CASE LogInitialize
      BY <2>1 DEF LogInitialize, EmptyList, EmptiesList, ExitInv, LoggerInv
    <2>2. CASE LogInitializeFails
      BY <2>2 DEF LogInitializeFails, EmptyList, EmptiesList, ExitInv
    <2>3. CASE LogThreadFails
      BY <2>3 DEF LogThreadFails, EmptyList, EmptiesList, ExitInv
    <2>4. CASE DestroyNothing
      BY <2>4 DEF DestroyNothing
    <2>5. CASE StopLogThread
      BY <2>5 DEF StopLogThread
    <2>6. CASE SignalStop
      BY <2>6 DEF SignalStop
    <2>7. CASE JoinLogger
      BY <2>7 DEF JoinLogger
    <2>8. CASE DestroyQueueLock
      BY <2>8 DEF DestroyQueueLock
    <2>9. CASE DrainOne
      BY <2>9 DEF DrainOne
    <2>10. CASE DrainEnds
      BY <2>10 DEF DrainEnds, EmptyList, EmptiesList, ListRepresentsQueue, LoggerInv
    <2>11. CASE CloseStream
      BY <2>11 DEF CloseStream
    <2> QED
      BY <1>7, <2>1, <2>2, <2>3, <2>4, <2>5, <2>6,
         <2>7, <2>8, <2>9, <2>10, <2>11 DEF MainStep
  <1>8. CASE Exit
    BY <1>8 DEF Exit
  <1> QED
    BY <1>1, <1>2, <1>3, <1>4, <1>5, <1>6, <1>7, <1>8 DEF Next

\* Linking the message of the caller at the end of the list.
LEMMA EnqueueLinks ==
  ASSUME IInv, NEW c \in Callers, Enqueue(c)
  PROVE  ListRepresentsQueue' /\ NodesAreFresh'
  <1> DEFINE m == message[c]
             n == Len(queue)
  <1>1. /\ m \in Messages /\ result[m] = "none" /\ next[m] = NULL
        /\ m # NULL /\ result' = [result EXCEPT ![m] = "SUCCESS"]
        /\ result \in [Messages -> {"none", "SUCCESS", "FAILURE", "filtered"}]
        /\ next \in [Messages -> Messages \cup {NULL}]
        /\ last \in Messages \cup {NULL}
        /\ queueLength \in Nat /\ queueLength' = queueLength + 1
        /\ last' = m /\ queue' = Append(queue, m)
        /\ pc'["main"] = "drain" <=> pc["main"] = "drain"
    BY LoggerAssumption
       DEF IInv, TypeOK, CallInv, NodesAreFresh, Enqueue, Returns, Threads,
           SignalLogger, Callers
  <1>2. /\ n \in Nat /\ Len(queue') = n + 1 /\ queue'[n + 1] = m
        /\ \A i \in 1 .. n : queue'[i] = queue[i]
        /\ n = 0 <=> queue = <<>>
        /\ queue' # <<>>
    <2>1. queue \in Seq(Messages)
      BY DEF IInv, TypeOK
    <2> QED
      BY ONLY <1>1, <2>1, AppendProperties, LenProperties, EmptySeq
  <1>3. \A i \in 1 .. n : queue[i] \in Messages /\ queue[i] # m
    BY <1>1, QueueFacts
  <1>4. \A i \in 1 .. n : i < n => queue[i] # queue[n]
    BY <1>2, QueueFacts
  <1> HIDE DEF m, n
  <1>5. /\ next' \in [Messages -> Messages \cup {NULL}] /\ next'[m] = NULL
        /\ n > 0 => next'[queue[n]] = m
        /\ \A i \in 1 .. n : i < n => next'[queue[i]] = next[queue[i]]
        /\ \A k \in Messages : k # last => next'[k] = next[k]
    <2>1. CASE queueLength = 0
      <3>1. n = 0 /\ next' = next
        BY <1>2, <2>1 DEF n, IInv, ListRepresentsQueue, Enqueue
      <3> QED
        BY <1>1, <1>2, <3>1
    <2>2. CASE queueLength # 0
      <3>1. /\ next' = [next EXCEPT ![last] = m]
            /\ last # m
            /\ n > 0 => last = queue[n]
        BY <1>1, <1>2, <2>2
           DEF n, m, IInv, ListRepresentsQueue, NodesAreFresh, Enqueue
      <3>2. last # NULL => last \in Messages
        BY <1>1
      <3>3. CASE n = 0
        <4>1. CASE last = NULL
          <5>1. next' = next
            BY <1>1, <3>1, <4>1, LoggerAssumption
          <5> QED
            BY <1>1, <1>2, <3>3, <5>1
        <4>2. CASE last \in Messages
          BY <1>1, <1>2, <3>1, <3>3, <4>2
        <4> QED
          BY <1>1, <4>1, <4>2
      <3>4. CASE n > 0
        <4>1. last = queue[n] /\ last \in Messages
          BY <1>2, <1>3, <3>1, <3>4
        <4> QED
          BY <1>1, <1>2, <1>3, <1>4, <3>1, <3>4, <4>1
      <3> QED
        BY <1>2, <3>3, <3>4
    <2> QED
      BY <2>1, <2>2
  <1>6. \A i \in 1 .. n + 1 :
          next'[queue'[i]] = IF i = n + 1 THEN NULL ELSE queue'[i + 1]
    <2>1. \A i \in 1 .. n :
            next[queue[i]] = IF i = n THEN NULL ELSE queue[i + 1]
      BY DEF n, IInv, ListRepresentsQueue
    <2> TAKE i \in 1 .. n + 1
    <2>2. CASE i = n + 1
      BY <1>1, <1>2, <1>5, <2>2
    <2>3. CASE i = n /\ n > 0
      BY <1>2, <1>5, <2>3
    <2>4. CASE i < n
      BY <1>2, <1>5, <2>1, <2>4
    <2> QED
      BY <1>2, <2>2, <2>3, <2>4
  <1>7. /\ first' # NULL => first' = queue'[1]
        /\ first' = NULL => CallersAtExit /\ pc["main"] = "drain"
    <2>1. CASE queueLength = 0
      <3>1. n = 0 /\ first' = m
        BY <1>2, <2>1 DEF m, n, IInv, ListRepresentsQueue, Enqueue
      <3> QED
        BY <1>1, <1>2, <3>1
    <2>2. CASE queueLength # 0
      <3>1. first' = first
        BY <2>2 DEF Enqueue
      <3>2. CASE first # NULL
        BY <1>2, <3>1, <3>2 DEF n, IInv, ListRepresentsQueue
      <3>3. CASE first = NULL
        <4>1. pc["main"] # "drain" => queueLength = n
          BY DEF n, IInv, ListRepresentsQueue
        <4>2. pc["main"] = "drain"
          BY <1>2, <2>2, <3>1, <3>3, <4>1 DEF IInv, ListRepresentsQueue
        <4>3. pc[c] = "enqueue"
          BY DEF Enqueue, SignalLogger
        <4>4. CallersAtExit
          BY <4>2, <4>3 DEF IInv, ExitInv, InCall, Callers
        <4> QED
          BY <3>1, <3>3, <4>2, <4>4
      <3> QED
        BY <3>2, <3>3
    <2> QED
      BY <2>1, <2>2
  <1>8. IF pc'["main"] = "drain" THEN queueLength' >= n + 1
                                 ELSE queueLength' = n + 1
    BY <1>1, <1>2 DEF n, IInv, ListRepresentsQueue
  <1>9. ListRepresentsQueue'
    BY <1>1, <1>2, <1>6, <1>7, <1>8 DEF ListRepresentsQueue
  <1>10. NodesAreFresh'
    <2>1. \A k \in Messages : result'[k] # "SUCCESS" => next'[k] = NULL
      <3> SUFFICES ASSUME NEW k \in Messages, result'[k] # "SUCCESS"
                   PROVE  next'[k] = NULL
        OBVIOUS
      <3>1. result[k] # "SUCCESS" /\ k # m
        BY <1>1
      <3>2. next[k] = NULL /\ k # last
        BY <1>1, <3>1, LoggerAssumption DEF IInv, NodesAreFresh
      <3> QED
        BY <1>5, <3>2
    <2> QED
      BY <1>1, <2>1 DEF NodesAreFresh
  <1> QED
    BY <1>9, <1>10

\* Taking the first message off the list leaves a list in the same order.
LEMMA TakingFirst ==
  ASSUME IInv, first # NULL, queue' = Tail(queue), UNCHANGED next
  PROVE  /\ Len(queue) \in Nat /\ Len(queue) > 0
         /\ Len(queue') = Len(queue) - 1
         /\ \A i \in 1 .. Len(queue') :
              next'[queue'[i]] = IF i = Len(queue') THEN NULL
                                                   ELSE queue'[i + 1]
         /\ queue' # <<>> => queue[Len(queue)] = queue'[Len(queue')]
         /\ next[first] = IF queue' = <<>> THEN NULL ELSE queue'[1]
         /\ queue' = <<>> <=> Len(queue) = 1
         /\ queue' # <<>> => queue'[1] # NULL
  <1> DEFINE n == Len(queue)
             t == queue'
  <1>1. /\ queue \in Seq(Messages) /\ queue # <<>> /\ first = queue[1]
        /\ \A i \in 1 .. n :
             next[queue[i]] = IF i = n THEN NULL ELSE queue[i + 1]
    BY DEF IInv, TypeOK, ListRepresentsQueue
  <1>2. /\ n \in Nat /\ n > 0
        /\ Len(t) = n - 1
        /\ \A i \in 1 .. n - 1 : t[i] = queue[i + 1]
        /\ t = <<>> <=> n = 1
    BY <1>1, TailFacts
  <1>3. \A i \in 1 .. n : queue[i] # NULL
    BY QueueFacts, LoggerAssumption
  <1> HIDE DEF n, t
  <1>4. \A i \in 1 .. n - 1 :
          next[t[i]] = IF i = n - 1 THEN NULL ELSE t[i + 1]
    <2> TAKE i \in 1 .. n - 1
    <2>1. /\ i + 1 \in 1 .. n /\ t[i] = queue[i + 1]
          /\ i # n - 1 => t[i + 1] = queue[i + 1 + 1]
      BY <1>2
    <2> QED
      BY <1>1, <1>2, <2>1
  <1>5. /\ t # <<>> => queue[n] = t[n - 1]
        /\ next[first] = IF t = <<>> THEN NULL ELSE t[1]
        /\ t # <<>> => t[1] # NULL
    <2>1. CASE n = 1
      BY <1>1, <1>2, <2>1
    <2>2. CASE n # 1
      <3>1. /\ n - 1 \in 1 .. n - 1 /\ 1 \in 1 .. n - 1 /\ 1 \in 1 .. n
            /\ n - 1 + 1 = n
        BY <1>2, <2>2
      <3>2. t[n - 1] = queue[n] /\ t[1] = queue[1 + 1] /\ 1 + 1 \in 1 .. n
        BY <1>2, <2>2, <3>1
      <3> QED
        BY <1>1, <1>2, <1>3, <2>2, <3>1, <3>2
    <2> QED
      BY <2>1, <2>2
  <1>6. next' = next
    OBVIOUS
  <1> QED
    BY <1>2, <1>4, <1>5, <1>6 DEF n, t

\* Every step keeps the list in order, and the thread sleeps on an empty one.
LEMMA ListPreserved ==
  ASSUME IInv, [Next]_vars
  PROVE  ListRepresentsQueue' /\ NodesAreFresh' /\ NoLostWakeup'
  <1>1. CASE \E c \in Callers : Enqueue(c)
    <2>1. PICK c \in Callers : Enqueue(c)
      BY <1>1
    <2>2. pc'["logger"] # "waiting"
      BY <2>1, LoggerAssumption
         DEF Enqueue, SignalLogger, IInv, TypeOK, Threads, Callers
    <2> QED
      BY <2>1, <2>2, EnqueueLinks DEF NoLostWakeup
  <1>2. CASE PopMessage
    <2>1. /\ pc["main"] # "drain" /\ pc'["main"] = pc["main"]
          /\ pc'["logger"] = "writeMessage"
          /\ queueLength > 0 /\ queueLength' = queueLength - 1
          /\ queue' = Tail(queue) /\ UNCHANGED <<next, result>>
          /\ IF queueLength = 1 THEN first' = NULL /\ last' = NULL
                                ELSE first' = next[first] /\ last' = last
      BY <1>2, LoggerAssumption
         DEF PopMessage, IInv, TypeOK, Threads, Callers, LoggerInv, InCall,
             LoggerLabel, outVars
    <2>2. first # NULL /\ queueLength = Len(queue)
      <3>1. queueLength = Len(queue)
        BY <2>1 DEF IInv, ListRepresentsQueue
      <3>2. queue # <<>>
        BY <2>1, <3>1, EmptySeq
      <3> QED
        BY <2>1, <3>1, <3>2 DEF IInv, ListRepresentsQueue
    <2>3. ListRepresentsQueue'
      BY <2>1, <2>2, TakingFirst DEF IInv, ListRepresentsQueue
    <2>4. NodesAreFresh'
      BY <2>1 DEF IInv, NodesAreFresh
    <2> QED
      BY <2>1, <2>3, <2>4 DEF NoLostWakeup
  <1>3. CASE WriteMessage
    <2>1. /\ UNCHANGED <<listVars, result>>
          /\ pc'["main"] = pc["main"] /\ pc'["logger"] = "readData"
      BY <1>3, LoggerAssumption
         DEF WriteMessage, Goto, IInv, TypeOK, Threads, Callers
    <2> QED
      BY <2>1 DEF IInv, ListRepresentsQueue, NodesAreFresh, NoLostWakeup,
                  listVars
  <1>4. CASE DrainOne
    <2>1. /\ first # NULL /\ pc["main"] = "drain" /\ UNCHANGED pc
          /\ queue' = Tail(queue) /\ first' = next[first]
          /\ UNCHANGED <<last, next, queueLength, result>>
          /\ pc["logger"] = "done"
      BY <1>4 DEF DrainOne, IInv, LoggerInv
    <2>2. queueLength \in Nat
      BY DEF IInv, TypeOK
    <2>3. ListRepresentsQueue'
      <3>1. /\ Len(queue') = Len(queue) - 1 /\ Len(queue) \in Nat
            /\ \A i \in 1 .. Len(queue') :
                 next'[queue'[i]] = IF i = Len(queue') THEN NULL
                                                      ELSE queue'[i + 1]
            /\ queue' # <<>> => queue[Len(queue)] = queue'[Len(queue')]
            /\ next[first] = IF queue' = <<>> THEN NULL ELSE queue'[1]
            /\ queue' # <<>> => queue'[1] # NULL
        BY <2>1, TakingFirst
      <3>2. queue # <<>> /\ last = queue[Len(queue)]
              /\ queueLength >= Len(queue)
        BY <2>1 DEF IInv, ListRepresentsQueue
      <3> QED
        BY <2>1, <2>2, <3>1, <3>2 DEF ListRepresentsQueue
    <2>4. NodesAreFresh'
      BY <2>1 DEF IInv, NodesAreFresh
    <2> QED
      BY <2>1, <2>3, <2>4 DEF NoLostWakeup
  <1>5. CASE CloseStream
    <2>1. /\ UNCHANGED <<listVars, result>>
          /\ pc["main"] = "close" /\ pc'["main"] = "exited"
          /\ pc'["logger"] = pc["logger"]
      BY <1>5 DEF CloseStream, Goto, IInv, TypeOK, Threads, Callers
    <2> QED
      BY <2>1 DEF IInv, ListRepresentsQueue, NodesAreFresh, NoLostWakeup,
                  listVars
  <1>6. CASE EmptiesList
    <2>1. /\ first' = NULL /\ last' = NULL /\ queueLength' = 0
          /\ queue' = <<>> /\ next' = next /\ pc'["main"] # "drain"
          /\ KeepsAnswers
      BY <1>6 DEF EmptiesList, EmptyList
    <2>2. Len(queue') = 0
      BY <2>1, EmptySeq
    <2> QED
      BY <2>1, <2>2 DEF IInv, ListRepresentsQueue, NodesAreFresh,
                        NoLostWakeup, KeepsAnswers
  <1>7. CASE KeepsMessages
    <2>1. UNCHANGED listVars /\ KeepsAnswers
      BY <1>7 DEF KeepsMessages
    <2>2. /\ pc["main"] = "drain" => pc'["main"] = "drain"
          /\ queueLength \in Nat /\ Len(queue) \in Nat
      BY <1>7, QueueFacts DEF KeepsMessages, IInv, TypeOK
    <2>3. ListRepresentsQueue'
      BY <2>1, <2>2 DEF IInv, ListRepresentsQueue, listVars
    <2>4. NodesAreFresh'
      BY <2>1, TypePreserved DEF IInv, TypeOK, NodesAreFresh, KeepsAnswers, listVars
    <2>5. NoLostWakeup'
      <3>1. pc'["logger"] = "waiting" => pc["logger"] = "waiting" \/ queueLength = 0
        BY <1>7 DEF KeepsMessages
      <3>2. pc'["logger"] = "waiting" => pc'["main"] # "drain"
        BY CallsPreserved DEF LoggerInv, LoggerLabel, InCall
      <3>3. Len(queue) = 0 => queue = <<>>
        BY EmptySeq DEF IInv, TypeOK
      <3> QED
        BY <2>1, <3>1, <3>2, <3>3, <2>2
           DEF IInv, NoLostWakeup, ListRepresentsQueue, listVars
    <2> QED
      BY <2>3, <2>4, <2>5
  <1> QED
    BY <1>1, <1>2, <1>3, <1>4, <1>5, <1>6, <1>7, MovesOfMessages

\* Every step keeps what holds before the start and at the exit.
LEMMA ExitPreserved ==
  ASSUME IInv, [Next]_vars
  PROVE  ExitInv'
  <1> USE LoggerAssumption
      DEF IInv, TypeOK, CallInv, LoggerInv, ExitInv, Threads, Callers, MainLabel,
          LoggerLabel, InCall, Goto, SignalLogger, Returns, vars, dataVars,
          listVars, outVars
  <1>1. CASE UNCHANGED vars
    BY <1>1
  <1>2. ASSUME NEW c \in Callers, NEW m \in Messages, Call(c, m)
        PROVE  ExitInv'
    BY <1>2 DEF Call, Running
  <1>3. ASSUME NEW c \in Callers, CallStep(c) \/ CannotQueue(c)
        PROVE  ExitInv'
    <2>1. CASE NotInitialized(c)
      BY <1>3, <2>1 DEF NotInitialized
    <2>2. CASE BelowLevel(c)
      BY <1>3, <2>2 DEF BelowLevel
    <2>3. CASE PassesLevel(c)
      BY <1>3, <2>3 DEF PassesLevel
    <2>4. CASE CannotQueue(c)
      BY <1>3, <2>4 DEF CannotQueue
    <2>5. CASE LockQueue(c)
      BY <1>3, <2>5 DEF LockQueue
    <2>6. CASE Enqueue(c)
      BY <1>3, <2>6 DEF Enqueue
    <2> QED
      BY <1>3, <2>1, <2>2, <2>3, <2>4, <2>5, <2>6 DEF CallStep
  <1>4. ASSUME NEW c \in Callers, NEW l \in Levels, SetLevel(c, l)
        PROVE  ExitInv'
    BY <1>4 DEF SetLevel, Running
  <1>5. CASE LoggerStep
    <2>1. CASE ReadLoggerData
      BY <2>1 DEF ReadLoggerData
    <2>2. CASE WaitForMessage
      BY <2>2 DEF WaitForMessage
    <2>3. CASE PopNothing
      BY <2>3 DEF PopNothing
    <2>4. CASE PopMessage
      BY <2>4 DEF PopMessage, ListRepresentsQueue
    <2>5. CASE WriteMessage
      BY <2>5 DEF WriteMessage
    <2> QED
      BY <1>5, <2>1, <2>2, <2>3, <2>4, <2>5 DEF LoggerStep
  <1>6. CASE SpuriousWakeup
    BY <1>6 DEF SpuriousWakeup
  <1>7. CASE MainStep
    <2>1. CASE LogInitialize
      BY <2>1 DEF LogInitialize, EmptyList
    <2>2. CASE LogInitializeFails
      BY <2>2 DEF LogInitializeFails, EmptyList
    <2>3. CASE LogThreadFails
      BY <2>3 DEF LogThreadFails, EmptyList
    <2>4. CASE DestroyNothing
      BY <2>4 DEF DestroyNothing
    <2>5. CASE StopLogThread
      BY <2>5 DEF StopLogThread
    <2>6. CASE SignalStop
      BY <2>6 DEF SignalStop
    <2>7. CASE JoinLogger
      BY <2>7 DEF JoinLogger
    <2>8. CASE DestroyQueueLock
      BY <2>8 DEF DestroyQueueLock
    <2>9. CASE DrainOne
      BY <2>9 DEF DrainOne, ListRepresentsQueue
    <2>10. CASE DrainEnds
      BY <2>10 DEF DrainEnds, EmptyList, ListRepresentsQueue
    <2>11. CASE CloseStream
      BY <2>11 DEF CloseStream
    <2> QED
      BY <1>7, <2>1, <2>2, <2>3, <2>4, <2>5, <2>6,
         <2>7, <2>8, <2>9, <2>10, <2>11 DEF MainStep
  <1>8. CASE Exit
    BY <1>8 DEF Exit
  <1> QED
    BY <1>1, <1>2, <1>3, <1>4, <1>5, <1>6, <1>7, <1>8 DEF Next

\* Every step keeps the logger thread and its flag in step with main.
LEMMA ThreadPreserved ==
  ASSUME IInv, [Next]_vars
  PROVE  ThreadOrder'
  <1> USE LoggerAssumption
      DEF IInv, TypeOK, CallInv, LoggerInv, ExitInv, ThreadOrder, Threads, Callers, MainLabel,
          LoggerLabel, InCall, Goto, SignalLogger, Returns, vars, dataVars,
          listVars, outVars
  <1>1. CASE UNCHANGED vars
    BY <1>1
  <1>2. ASSUME NEW c \in Callers, NEW m \in Messages, Call(c, m)
        PROVE  ThreadOrder'
    BY <1>2 DEF Call, Running
  <1>3. ASSUME NEW c \in Callers, CallStep(c) \/ CannotQueue(c)
        PROVE  ThreadOrder'
    <2>1. CASE NotInitialized(c)
      BY <1>3, <2>1 DEF NotInitialized
    <2>2. CASE BelowLevel(c)
      BY <1>3, <2>2 DEF BelowLevel
    <2>3. CASE PassesLevel(c)
      BY <1>3, <2>3 DEF PassesLevel
    <2>4. CASE CannotQueue(c)
      BY <1>3, <2>4 DEF CannotQueue
    <2>5. CASE LockQueue(c)
      BY <1>3, <2>5 DEF LockQueue
    <2>6. CASE Enqueue(c)
      BY <1>3, <2>6 DEF Enqueue
    <2> QED
      BY <1>3, <2>1, <2>2, <2>3, <2>4, <2>5, <2>6 DEF CallStep
  <1>4. ASSUME NEW c \in Callers, NEW l \in Levels, SetLevel(c, l)
        PROVE  ThreadOrder'
    BY <1>4 DEF SetLevel, Running
  <1>5. CASE LoggerStep
    <2>1. CASE ReadLoggerData
      BY <2>1 DEF ReadLoggerData
    <2>2. CASE WaitForMessage
      BY <2>2 DEF WaitForMessage
    <2>3. CASE PopNothing
      BY <2>3 DEF PopNothing
    <2>4. CASE PopMessage
      BY <2>4 DEF PopMessage, ListRepresentsQueue
    <2>5. CASE WriteMessage
      BY <2>5 DEF WriteMessage
    <2> QED
      BY <1>5, <2>1, <2>2, <2>3, <2>4, <2>5 DEF LoggerStep
  <1>6. CASE SpuriousWakeup
    BY <1>6 DEF SpuriousWakeup
  <1>7. CASE MainStep
    <2>1. CASE LogInitialize
      BY <2>1 DEF LogInitialize, EmptyList
    <2>2. CASE LogInitializeFails
      BY <2>2 DEF LogInitializeFails, EmptyList
    <2>3. CASE LogThreadFails
      BY <2>3 DEF LogThreadFails, EmptyList
    <2>4. CASE DestroyNothing
      BY <2>4 DEF DestroyNothing
    <2>5. CASE StopLogThread
      BY <2>5 DEF StopLogThread
    <2>6. CASE SignalStop
      BY <2>6 DEF SignalStop
    <2>7. CASE JoinLogger
      BY <2>7 DEF JoinLogger
    <2>8. CASE DestroyQueueLock
      BY <2>8 DEF DestroyQueueLock
    <2>9. CASE DrainOne
      BY <2>9 DEF DrainOne, ListRepresentsQueue
    <2>10. CASE DrainEnds
      BY <2>10 DEF DrainEnds, EmptyList, ListRepresentsQueue
    <2>11. CASE CloseStream
      BY <2>11 DEF CloseStream
    <2> QED
      BY <1>7, <2>1, <2>2, <2>3, <2>4, <2>5, <2>6,
         <2>7, <2>8, <2>9, <2>10, <2>11 DEF MainStep
  <1>8. CASE Exit
    BY <1>8 DEF Exit
  <1> QED
    BY <1>1, <1>2, <1>3, <1>4, <1>5, <1>6, <1>7, <1>8 DEF Next

\* Storing the oldest message not yet written, in the terms of
\* MessageDelivery, leaves the linked messages as they are.
WritesNext ==
  /\ UNCHANGED Queued
  /\ Len(written) < Len(Queued)
  /\ written' = Append(written, Queued[Len(written) + 1])

\* Writing what the logger thread has in hand writes the next message.
LEMMA WriteMessageWrites ==
  ASSUME IInv, WriteMessage
  PROVE  WritesNext
  <1> DEFINE m == message["logger"]
  <1>1. /\ m \in Messages /\ InHand = <<m>> /\ InHand' = <<>>
        /\ written' = Append(written, m) /\ UNCHANGED queue
    BY LoggerAssumption
       DEF WriteMessage, Goto, IInv, TypeOK, CallInv, InHand, Threads,
           listVars
  <1>2. written \in Seq(Messages) /\ queue \in Seq(Messages)
    BY DEF IInv, TypeOK
  <1> HIDE DEF m
  <1>3. Append(written, m) \o <<>> \o queue = written \o <<m>> \o queue
    BY ONLY <1>1, <1>2, ConcatStore
  <1>4. UNCHANGED Queued
    BY <1>1, <1>3 DEF Queued
  <1>5. Queued = written \o <<m>> \o queue
    BY <1>1 DEF Queued
  <1>6. Len(written) < Len(Queued) /\ Queued[Len(written) + 1] = m
    <2> HIDE DEF Queued
    <2> QED
      BY ONLY <1>1, <1>2, <1>5, ConcatNext
  <1> QED
    BY <1>1, <1>4, <1>6 DEF WritesNext

\* Writing the first message of the list does, once the thread is gone.
LEMMA DrainOneWrites ==
  ASSUME IInv, DrainOne
  PROVE  WritesNext
  <1> DEFINE u == Tail(queue)
             m == Head(queue)
  <1>1. /\ InHand = <<>> /\ InHand' = <<>> /\ queue # <<>>
        /\ queue \in Seq(Messages) /\ written \in Seq(Messages)
        /\ written' = Append(written, m) /\ queue' = u
    BY DEF DrainOne, IInv, TypeOK, LoggerInv, ListRepresentsQueue, InHand
  <1>2. m \in Messages /\ u \in Seq(Messages)
    BY <1>1, HeadTailProperties
  <1>3. written \o <<m>> \o u = written \o <<>> \o queue
    BY ONLY <1>1, ConcatHeadTail
  <1> HIDE DEF m, u
  <1>4. Append(written, m) \o <<>> \o u = written \o <<m>> \o u
    BY ONLY <1>1, <1>2, ConcatStore
  <1>5. UNCHANGED Queued
    BY <1>1, <1>3, <1>4 DEF Queued
  <1>6. Queued = written \o <<m>> \o u
    BY <1>1, <1>3 DEF Queued
  <1>7. Len(written) < Len(Queued) /\ Queued[Len(written) + 1] = m
    <2> HIDE DEF Queued
    <2> QED
      BY ONLY <1>1, <1>2, <1>6, ConcatNext
  <1> QED
    BY <1>1, <1>5, <1>7 DEF WritesNext

\* Taking a message in hand only moves it.
LEMMA PopMessageMoves ==
  ASSUME IInv, PopMessage
  PROVE  UNCHANGED Queued /\ UNCHANGED written
  <1>1. queueLength > 0 /\ queueLength = Len(queue)
    <2>1. pc["main"] # "drain"
      BY DEF PopMessage, IInv, LoggerInv, LoggerLabel, InCall
    <2> QED
      BY <2>1 DEF PopMessage, IInv, ListRepresentsQueue
  <1>2. queue \in Seq(Messages) /\ queue # <<>> /\ first = queue[1]
    <2>1. queue # <<>>
      BY <1>1, EmptySeq
    <2>2. pc["main"] # "drain"
      BY DEF PopMessage, IInv, LoggerInv, LoggerLabel, InCall
    <2> QED
      BY <2>1, <2>2 DEF IInv, TypeOK, ListRepresentsQueue
  <1>3. /\ InHand = <<>> /\ InHand' = <<Head(queue)>>
        /\ queue' = Tail(queue) /\ UNCHANGED written
    BY <1>2, LoggerAssumption
       DEF PopMessage, InHand, outVars, IInv, TypeOK, Threads
  <1>4. written \in Seq(Messages)
    BY DEF IInv, TypeOK
  <1> QED
    BY <1>2, <1>3, <1>4, ConcatHeadTail DEF Queued

\* Linking a message appends it, and it was not linked before.
LEMMA EnqueueAppends ==
  ASSUME IInv, NEW c \in Callers, Enqueue(c)
  PROVE  /\ message[c] \in Messages /\ message[c] \notin Range(Queued)
         /\ Queued' = Append(Queued, message[c])
         /\ result' = [result EXCEPT ![message[c]] = "SUCCESS"]
         /\ UNCHANGED written
         /\ pc["main"] \in {"close", "exited"} <=>
              pc'["main"] \in {"close", "exited"}
  <1> DEFINE m == message[c]
  <1>1. /\ m \in Messages /\ result[m] = "none"
        /\ queue' = Append(queue, m) /\ UNCHANGED <<written, InHand>>
        /\ result' = [result EXCEPT ![m] = "SUCCESS"]
        /\ pc["main"] \in {"close", "exited"} <=>
             pc'["main"] \in {"close", "exited"}
    BY LoggerAssumption
       DEF IInv, TypeOK, CallInv, Enqueue, Returns, Threads, SignalLogger,
           Callers, InHand
  <1>2. m \notin Range(Queued)
    BY <1>1 DEF IInv, SuccessIsQueued
  <1>3. /\ written \in Seq(Messages) /\ InHand \in Seq(Messages)
        /\ queue \in Seq(Messages)
    BY QueueFacts DEF IInv, TypeOK
  <1> HIDE DEF m
  <1>4. written \o InHand \o Append(queue, m)
          = Append(written \o InHand \o queue, m)
    BY ONLY <1>1, <1>3, ConcatAppend
  <1>5. Queued' = Append(Queued, m)
    BY <1>1, <1>4 DEF Queued
  <1> QED
    BY <1>1, <1>2, <1>5 DEF m

\* Emptying the list drops nothing, or what others linked during the exit.
LEMMA EmptyingCuts ==
  ASSUME IInv, EmptiesList
  PROVE  /\ UNCHANGED written
         /\ \/ UNCHANGED Queued
            \/ CallersAtExit /\ pc'["main"] = "close"
         /\ Range(Queued)' \subseteq Range(Queued)
         /\ IsInjective(Queued)'
  <1> DEFINE front == written \o InHand
  <1>1. /\ front \in Seq(Messages) /\ queue \in Seq(Messages)
        /\ Queued = front \o queue
    BY QueueFacts, ConcatProperties DEF IInv, TypeOK, Queued
  <1>2. /\ Queued' = front \o <<>> /\ UNCHANGED written
        /\ queue = <<>> \/ (CallersAtExit /\ pc'["main"] = "close")
    BY DEF EmptiesList, EmptyList, Queued
  <1> HIDE DEF front
  <1>3. Queued' = front
    BY <1>1, <1>2, ConcatEmptySeq
  <1>4. queue = <<>> => Queued = front
    BY <1>1, ConcatEmptySeq
  <1>5. Range(front) \subseteq Range(front \o queue)
    BY ONLY <1>1, PrefixFacts
  <1>6. IsInjective(front \o queue) => IsInjective(front)
    BY ONLY <1>1, PrefixFacts
  <1>7. IsInjective(Queued)
    BY DEF IInv, SuccessIsQueued
  <1> QED
    BY <1>1, <1>2, <1>3, <1>4, <1>5, <1>6, <1>7

\* Every step keeps the answers true.
LEMMA SuccessPreserved ==
  ASSUME IInv, [Next]_vars
  PROVE  SuccessIsQueued'
  <1> USE DEF IInv
  <1>1. CASE \E c \in Callers : Enqueue(c)
    <2> PICK c \in Callers : Enqueue(c)
      BY <1>1
    <2> DEFINE m == message[c]
    <2>1. /\ m \in Messages /\ m \notin Range(Queued)
          /\ Queued' = Append(Queued, m)
          /\ result' = [result EXCEPT ![m] = "SUCCESS"]
          /\ pc["main"] \in {"close", "exited"} <=>
               pc'["main"] \in {"close", "exited"}
      BY EnqueueAppends
    <2>2. Queued \in Seq(Messages) /\ IsInjective(Queued)
      BY QueueFacts DEF SuccessIsQueued
    <2> HIDE DEF m
    <2>3. Range(Append(Queued, m)) = Range(Queued) \cup {m}
      BY ONLY <2>1, <2>2, RangeOfAppend
    <2>4. IsInjective(Append(Queued, m))
      BY ONLY <2>1, <2>2, InjectiveAppend
    <2>5. /\ Range(Queued)' = Range(Queued) \cup {m}
          /\ IsInjective(Queued)'
      BY <2>1, <2>3, <2>4
    <2>6. result \in [Messages -> {"none", "SUCCESS", "FAILURE", "filtered"}]
      BY DEF TypeOK
    <2> QED
      BY <2>1, <2>5, <2>6 DEF SuccessIsQueued
  <1>2. CASE UNCHANGED Queued /\ KeepsAnswers
              /\ (pc["main"] \in {"close", "exited"} =>
                    pc'["main"] \in {"close", "exited"})
    BY <1>2 DEF SuccessIsQueued, KeepsAnswers
  <1>3. CASE PopMessage
    <2>1. UNCHANGED result /\ pc'["main"] = pc["main"]
      BY <1>3, LoggerAssumption DEF PopMessage, outVars, TypeOK, Threads, Callers
    <2> QED
      BY <1>2, <1>3, <2>1, PopMessageMoves DEF KeepsAnswers
  <1>4. CASE WriteMessage
    <2>1. UNCHANGED result /\ pc'["main"] = pc["main"]
      BY <1>4, LoggerAssumption DEF WriteMessage, Goto, TypeOK, Threads, Callers
    <2> QED
      BY <1>2, <1>4, <2>1, WriteMessageWrites DEF KeepsAnswers, WritesNext
  <1>5. CASE DrainOne
    <2>1. UNCHANGED <<result, pc>>
      BY <1>5 DEF DrainOne
    <2> QED
      BY <1>2, <1>5, <2>1, DrainOneWrites DEF KeepsAnswers, WritesNext
  <1>6. CASE CloseStream
    <2>1. /\ UNCHANGED <<result, written, queue>> /\ pc'["main"] = "exited"
          /\ pc'["logger"] = pc["logger"] /\ UNCHANGED message
      BY <1>6 DEF CloseStream, Goto, TypeOK, Threads, Callers, listVars
    <2>2. UNCHANGED Queued
      BY <2>1 DEF Queued, InHand
    <2> QED
      BY <1>2, <2>1, <2>2 DEF KeepsAnswers
  <1>7. CASE EmptiesList
    <2>1. KeepsAnswers /\ pc'["main"] \in {"idle", "close"}
      BY <1>7 DEF EmptiesList
    <2>2. /\ Range(Queued)' \subseteq Range(Queued) /\ IsInjective(Queued)'
          /\ UNCHANGED Queued \/ (CallersAtExit /\ pc'["main"] = "close")
      BY <1>7, EmptyingCuts
    <2>3. pc["main"] \notin {"close", "exited"}
      BY <1>7 DEF EmptiesList
    <2> QED
      BY <2>1, <2>2, <2>3 DEF SuccessIsQueued, KeepsAnswers
  <1>8. CASE KeepsMessages
    <2>1. UNCHANGED <<written, InHand, queue>> /\ KeepsAnswers
      BY <1>8 DEF KeepsMessages, listVars
    <2>2. UNCHANGED Queued
      BY <2>1 DEF Queued
    <2>3. pc["main"] \in {"close", "exited"} =>
            pc'["main"] \in {"close", "exited"}
      BY <1>8 DEF KeepsMessages
    <2> QED
      BY <1>2, <2>1, <2>2, <2>3
  <1> QED
    BY <1>1, <1>3, <1>4, <1>5, <1>6, <1>7, <1>8, MovesOfMessages

\* The strengthened invariant holds at the start and every step keeps it.
LEMMA IInvHolds == Spec => []IInv
  <1>1. Init => IInv
    <2>1. SUFFICES ASSUME Init PROVE IInv
      OBVIOUS
    <2>2. isInitialized \in BOOLEAN /\ runLogThread \in BOOLEAN /\ streamOpen \in BOOLEAN
      BY <2>1, Zenon DEF Init
    <2>3. Queued = <<>> \o <<>> \o <<>> /\ Len(queue) = 0
      BY <2>1, EmptySeq, LoggerAssumption DEF Init, Queued, InHand, Threads
    <2>4. Queued = <<>> /\ Range(Queued) = {} /\ IsInjective(Queued)
      BY <2>3 DEF Range, IsInjective
    <2>5. TypeOK
      BY <2>1, <2>2, LoggerAssumption
         DEF Init, TypeOK, Threads, Callers, MainLabel, LoggerLabel, InCall
    <2>6. ListRepresentsQueue /\ NodesAreFresh /\ NoLostWakeup
      BY <2>1, <2>3 DEF Init, ListRepresentsQueue, NodesAreFresh, NoLostWakeup
    <2>7. CallInv /\ LoggerInv /\ ExitInv /\ ThreadOrder
      BY <2>1, LoggerAssumption
         DEF Init, CallInv, LoggerInv, ExitInv, ThreadOrder, LoggerLabel, InCall, Threads,
             Callers
    <2>8. SuccessIsQueued
      BY <2>1, <2>4 DEF Init, SuccessIsQueued
    <2> QED
      BY <2>5, <2>6, <2>7, <2>8 DEF IInv
  <1>2. IInv /\ [Next]_vars => IInv'
    BY TypePreserved, CallsPreserved, ListPreserved, ExitPreserved,
       ThreadPreserved, SuccessPreserved DEF IInv
  <1> QED
    BY <1>1, <1>2, PTL DEF Spec

\* Type correctness, for every set of threads and messages.
THEOREM TypeCorrect == Spec => []TypeOK
  <1>1. IInv => TypeOK
    BY DEF IInv
  <1> QED
    BY <1>1, IInvHolds, PTL

\* The inductive invariant that the run logger checks part by part: the
\* list is in order, each message is in the hands of one thread, the answers
\* of logWriteMessage_f are the truth, the thread sleeps on an empty list
\* only, and it is gone before the list is taken apart.
THEOREM LoggerInvariant == Spec => []IInv
  BY IInvHolds

\* No message that was answered LOG_EXIT_SUCCESS is lost and none is linked
\* twice, whichever threads log and when.  Only the last step of the drain in
\* logDestroy_f may lose some, when others log during it.
THEOREM AnswersAreTrue == Spec => []SuccessIsQueued
  <1>1. IInv => SuccessIsQueued
    BY DEF IInv
  <1> QED
    BY <1>1, IInvHolds, PTL

\* logDestroy_f writes all remaining messages, when no thread logs during it:
\* the promise of Logger.hpp, under the condition it leaves out.
THEOREM EverythingWritten ==
  ASSUME ~CallersAtExit
  PROVE  Spec => []AllWritten
  <1>1. IInv => AllWritten
    <2>1. SUFFICES ASSUME IInv, pc["main"] = "exited",
                          NEW m \in Messages, result[m] = "SUCCESS"
                   PROVE  m \in Range(written)
      BY DEF AllWritten
    <2>2. queue = <<>> /\ InHand = <<>>
      BY <2>1 DEF IInv, ExitInv, LoggerInv, LoggerLabel, InCall, InHand
    <2>3. written \in Seq(Messages) /\ Queued = written \o <<>> \o <<>>
      BY <2>1, <2>2 DEF IInv, TypeOK, Queued
    <2>4. Queued = written
      BY <2>3, ConcatEmptySeq
    <2> QED
      BY <2>1, <2>4 DEF IInv, SuccessIsQueued
  <1> QED
    BY <1>1, IInvHolds, PTL

\* When the queue is empty and nothing is in hand, everything linked is written.
LEMMA NothingLeft ==
  ASSUME IInv, queue = <<>>, pc["logger"] # "writeMessage",
         ~(CallersAtExit /\ pc["main"] \in {"close", "exited"})
  PROVE  \A m \in Messages : result[m] = "SUCCESS" => m \in Range(written)
  <1>1. written \in Seq(Messages) /\ Queued = written \o <<>> \o <<>>
    BY DEF IInv, TypeOK, Queued, InHand
  <1>2. Queued = written
    BY <1>1, ConcatEmptySeq
  <1> QED
    BY <1>2 DEF IInv, SuccessIsQueued

\* In a state of the invariant where all threads wait, the way they wait is
\* known: by the place of main.
LEMMA Standstills ==
  ASSUME IInv
  PROVE  OnlyKnownStandstills
  <1> SUFFICES ASSUME \A c \in Others : CallerWaits(c),
                      LoggerWaits, MainWaits, dataLock = "free"
               PROVE  AtRest \/ StopMissed
    BY DEF OnlyKnownStandstills, IInv, TypeOK
  <1> USE DEF IInv, TypeOK, Threads, Callers, InCall
  <1>1. queueLock \notin Callers
    <2>1. SUFFICES ASSUME NEW c \in Callers, queueLock = c PROVE FALSE
      OBVIOUS
    <2>2. pc[c] = "enqueue"
      BY <2>1 DEF CallInv
    <2> QED
      BY <2>2 DEF CallerWaits, MainWaits
  <1>2. \A c \in Others : pc[c] = "idle"
    BY <1>1 DEF CallerWaits
  <1>3. pc["logger"] \in {"none", "done", "waiting"}
    BY <1>1 DEF LoggerWaits, LoggerInv, LoggerLabel
  <1>4. CASE pc["main"] \in InCall
    <2>1. pc["main"] = "idle"
      BY <1>1, <1>4 DEF MainWaits, CallerWaits
    <2>2. queue = <<>>
      BY <1>3, <1>4 DEF ThreadOrder, NoLostWakeup
    <2>3. \A m \in Messages : result[m] = "SUCCESS" => m \in Range(written)
      BY <1>3, <2>1, <2>2, NothingLeft
    <2> QED
      BY <1>2, <2>1, <2>3 DEF AtRest
  <1>5. CASE pc["main"] = "join"
    BY <1>3, <1>5 DEF MainWaits, ThreadOrder, StopMissed
  <1>6. CASE pc["main"] = "exited"
    <2>1. ~CallersAtExit =>
            \A m \in Messages : result[m] = "SUCCESS" => m \in Range(written)
      BY <1>3, <1>6, NothingLeft DEF ExitInv
    <2> QED
      BY <1>2, <1>6, <2>1 DEF AtRest
  <1> QED
    BY <1>4, <1>5, <1>6 DEF MainWaits

\* The threads never all wait but at rest with every message answered
\* LOG_EXIT_SUCCESS for written, in the signal of logDestroy_f that came too
\* early (Logger.cpp, line 501), or at the loggerDataLock that a failed
\* logInitialize_f kept (line 634).
THEOREM NoOtherStandstill == Spec => []OnlyKnownStandstills
  BY Standstills, IInvHolds, PTL

\* The callers, the list, the thread and the drain implement MessageDelivery:
\* a message is linked at most once and written in the order of linking, when
\* no thread logs during logDestroy_f.
THEOREM ImplementsDelivery ==
  ASSUME ~CallersAtExit
  PROVE  Spec => DeliverySpec
  <1>1. Init => Log!Init
    <2>1. SUFFICES ASSUME Init PROVE Log!Init
      OBVIOUS
    <2>2. Queued = <<>> \o <<>> \o <<>> /\ written = <<>>
      BY <2>1, LoggerAssumption DEF Init, Queued, InHand, Threads
    <2> QED
      BY <2>2 DEF Log!Init
  <1>2. ASSUME IInv, [Next]_vars
        PROVE  [Log!Next]_(Log!deliveryVars)
    <2>1. CASE \E c \in Callers : Enqueue(c)
      <3> PICK c \in Callers : Enqueue(c)
        BY <2>1
      <3>1. /\ message[c] \in Messages /\ message[c] \notin Range(Queued)
            /\ Queued' = Append(Queued, message[c]) /\ UNCHANGED written
        BY <1>2, EnqueueAppends
      <3> QED
        BY <3>1 DEF Log!Next, Log!Accept, Log!Range, Range
    <2>2. CASE WritesNext
      BY <2>2 DEF WritesNext, Log!Next, Log!Store
    <2>3. CASE UNCHANGED <<Queued, written>>
      BY <2>3 DEF Log!deliveryVars
    <2>4. CASE PopMessage
      BY <1>2, <2>3, <2>4, PopMessageMoves
    <2>5. CASE WriteMessage
      BY <1>2, <2>2, <2>5, WriteMessageWrites
    <2>6. CASE DrainOne
      BY <1>2, <2>2, <2>6, DrainOneWrites
    <2>7. CASE CloseStream
      <3>1. UNCHANGED <<written, queue, InHand>>
        BY <1>2, <2>7, LoggerAssumption
           DEF CloseStream, Goto, IInv, TypeOK, Threads, InHand, listVars
      <3> QED
        BY <2>3, <3>1 DEF Queued
    <2>8. CASE EmptiesList
      BY <1>2, <2>3, <2>8, EmptyingCuts
    <2>9. CASE KeepsMessages
      <3>1. UNCHANGED <<written, queue, InHand>>
        BY <2>9 DEF KeepsMessages, listVars
      <3> QED
        BY <2>3, <3>1 DEF Queued
    <2> QED
      BY <1>2, <2>1, <2>4, <2>5, <2>6, <2>7, <2>8, <2>9, MovesOfMessages
  <1> QED
    BY <1>1, <1>2, IInvHolds, PTL DEF Spec, DeliverySpec, Log!Spec
=============================================================================
