--------------------------- MODULE BackendProofs ---------------------------
(***************************************************************************)
(* The invariant IInv of Backend is inductive, for every set of messages   *)
(* and whatever the validator and restbed do with the open cases, and the  *)
(* threads implement MessageDelivery.                                      *)
(***************************************************************************)
EXTENDS Backend, DataLemmas, TLAPS

\* Every step keeps the types, the mutex discipline, the order in which the
\* threads start, and never sleeps on a queue nobody is about to announce.
LEMMA ControlPreserved ==
  ASSUME IInv, [Next]_vars
  PROVE  TypeOK' /\ LocksHeld' /\ HandlerInv' /\ StartOrder' /\ NoLostWakeup'
  <1> USE BackendAssumption
      DEF IInv, TypeOK, LocksHeld, HandlerInv, StartOrder, NoLostWakeup,
          Threads, MainLabel, ApiLabel, ProcessorLabel, Body, Reply,
          Goto, Notify, WakeProcessor, vars, requestVars, validatorVars,
          apiVars, queueVars, processorVars
  <1>1. CASE ApiThreadBody
    BY <1>1 DEF ApiThreadBody
  <1>2. CASE RunService
    <2>1. serviceStopped' \in BOOLEAN
      BY <1>2, Zenon DEF RunService
    <2> QED
      BY <1>2, <2>1 DEF RunService
  <1>3. CASE RunReturns
    BY <1>3 DEF RunReturns
  <1>4. CASE ServiceReturns
    BY <1>4 DEF ServiceReturns
  <1>5. CASE PushNewMessage
    BY <1>5 DEF PushNewMessage
  <1>6. CASE PushFails
    BY <1>6 DEF PushFails
  <1>7. CASE ApiNotify
    BY <1>7 DEF ApiNotify
  <1>8. CASE UnlockQueue
    BY <1>8 DEF UnlockQueue
  <1>9. CASE ReplyOK
    BY <1>9 DEF ReplyOK
  <1>10. CASE ProcessorThreadBody
    BY <1>10 DEF ProcessorThreadBody
  <1>11. CASE LockProcess
    BY <1>11 DEF LockProcess
  <1>12. CASE GetMessage
    BY <1>12 DEF GetMessage
  <1>13. CASE GetNothing
    BY <1>13 DEF GetNothing
  <1>14. CASE Wait
    BY <1>14 DEF Wait
  <1>15. CASE Resume
    BY <1>15 DEF Resume
  <1>16. CASE AddRecord
    BY <1>16 DEF AddRecord
  <1>17. CASE Construct
    BY <1>17 DEF Construct
  <1>18. CASE ConstructFails
    BY <1>18 DEF ConstructFails
  <1>19. CASE ApiStart
    BY <1>19 DEF ApiStart
  <1>20. CASE ApiStartFails
    <2>1. apiRunFlag' \in BOOLEAN
      BY <1>20, Zenon DEF ApiStartFails
    <2> QED
      BY <1>20, <2>1 DEF ApiStartFails
  <1>21. CASE ProcessorStart
    BY <1>21 DEF ProcessorStart
  <1>22. CASE ProcessorStartFails
    <2>1. processorRunFlag' \in BOOLEAN
      BY <1>22, Zenon DEF ProcessorStartFails
    <2> QED
      BY <1>22, <2>1 DEF ProcessorStartFails
  <1>23. CASE LeaveMainLoop
    BY <1>23 DEF LeaveMainLoop
  <1>24. CASE StopProcessor
    <2>1. processorRunFlag' \in BOOLEAN
      BY <1>24, Zenon DEF StopProcessor
    <2> QED
      BY <1>24, <2>1 DEF StopProcessor
  <1>25. CASE StopNotify
    BY <1>25 DEF StopNotify
  <1>26. CASE JoinProcessor
    BY <1>26 DEF JoinProcessor
  <1>27. CASE StopApi
    <2>1. apiRunFlag' \in BOOLEAN
      BY <1>27, Zenon DEF StopApi
    <2> QED
      BY <1>27, <2>1 DEF StopApi
  <1>28. CASE StopService
    BY <1>28 DEF StopService
  <1>29. CASE JoinApi
    BY <1>29 DEF JoinApi
  <1>30. CASE StopSignal
    <2>1. runApplication' \in BOOLEAN
      BY <1>30, Zenon DEF StopSignal
    <2> QED
      BY <1>30, <2>1 DEF StopSignal
  <1>31. CASE SpuriousWakeup
    BY <1>31 DEF SpuriousWakeup
  <1>32. ASSUME NEW m \in Messages, PostRejected(m)
         PROVE  TypeOK' /\ LocksHeld' /\ HandlerInv' /\ StartOrder' /\ NoLostWakeup'
    BY <1>32 DEF PostRejected, Accepts
  <1>33. ASSUME NEW m \in Messages, PostAccepted(m)
         PROVE  TypeOK' /\ LocksHeld' /\ HandlerInv' /\ StartOrder' /\ NoLostWakeup'
    BY <1>33 DEF PostAccepted, Accepts
  <1>34. CASE UNCHANGED vars
    BY <1>34
  <1> QED
    BY <1>1, <1>2, <1>3, <1>4, <1>5, <1>6, <1>7, <1>8, <1>9, <1>10, <1>11, <1>12, <1>13, <1>14, <1>15, <1>16, <1>17, <1>18, <1>19, <1>20, <1>21, <1>22, <1>23, <1>24, <1>25, <1>26, <1>27, <1>28, <1>29, <1>30, <1>31, <1>32, <1>33, <1>34
       DEF Next, Device, ApiStep, ProcessorStep, MainStep

\* Every step keeps the order in which the threads are stopped and joined.
LEMMA ShutdownPreserved ==
  ASSUME IInv, [Next]_vars
  PROVE  ShutdownOrder'
  <1> USE BackendAssumption
      DEF IInv, TypeOK, StartOrder, ShutdownOrder, Threads, MainLabel, ApiLabel,
          ProcessorLabel, Goto, Notify, WakeProcessor, vars, requestVars,
          validatorVars, apiVars, queueVars, processorVars
  <1>1. CASE UNCHANGED vars
    BY <1>1
  <1>2. CASE Device
    BY <1>2 DEF Device, PostRejected, PostAccepted
  <1>3. CASE StopSignal
    BY <1>3 DEF StopSignal
  <1>4. CASE SpuriousWakeup
    BY <1>4 DEF SpuriousWakeup
  <1>5. CASE ApiThreadBody \/ RunReturns \/ ServiceReturns
    BY <1>5 DEF ApiThreadBody, RunReturns, ServiceReturns
  <1>6. CASE RunService
    BY <1>6 DEF RunService
  <1>7. CASE PushNewMessage \/ PushFails \/ ApiNotify \/ UnlockQueue \/ ReplyOK
    BY <1>7 DEF PushNewMessage, PushFails, ApiNotify, UnlockQueue, ReplyOK
  <1>8. CASE ProcessorThreadBody
    BY <1>8 DEF ProcessorThreadBody
  <1>9. CASE LockProcess \/ GetMessage \/ GetNothing
    BY <1>9 DEF LockProcess, GetMessage, GetNothing
  <1>10. CASE Wait \/ Resume \/ AddRecord
    BY <1>10 DEF Wait, Resume, AddRecord
  <1>11. CASE Construct \/ ConstructFails
    BY <1>11 DEF Construct, ConstructFails
  <1>12. CASE ApiStart
    BY <1>12 DEF ApiStart
  <1>13. CASE ApiStartFails
    BY <1>13 DEF ApiStartFails
  <1>14. CASE ProcessorStart
    <2>1. processorRunFlag' = TRUE /\ UNCHANGED <<apiRunFlag, serviceStopped>>
      BY <1>14, Zenon DEF ProcessorStart, apiVars
    <2>2. pc["api"] # "none" => apiRunFlag
      BY <1>14 DEF ProcessorStart
    <2>3. /\ pc' = [pc EXCEPT !["main"] = "mainLoop", !["processor"] = "threadBody"]
          /\ pc["api"] # "none"
      BY <1>14 DEF ProcessorStart
    <2> QED
      BY <2>1, <2>2, <2>3
  <1>15. CASE ProcessorStartFails
    BY <1>15 DEF ProcessorStartFails
  <1>16. CASE LeaveMainLoop
    BY <1>16 DEF LeaveMainLoop
  <1>17. CASE StopProcessor
    BY <1>17 DEF StopProcessor
  <1>18. CASE StopNotify
    BY <1>18 DEF StopNotify
  <1>19. CASE JoinProcessor
    BY <1>19 DEF JoinProcessor
  <1>20. CASE StopApi
    BY <1>20 DEF StopApi
  <1>21. CASE StopService
    BY <1>21 DEF StopService
  <1>22. CASE JoinApi
    BY <1>22 DEF JoinApi
  <1> QED
    BY <1>1, <1>2, <1>3, <1>4, <1>5, <1>6, <1>7, <1>8, <1>9, <1>10, <1>11,
       <1>12, <1>13, <1>14, <1>15, <1>16, <1>17, <1>18, <1>19, <1>20, <1>21,
       <1>22
       DEF Next, ApiStep, ProcessorStep, MainStep

\* Only three actions touch the queue, the storage or the message in hand.
LEMMA MovesOfMessages ==
  ASSUME IInv, [Next]_vars
  PROVE  \/ PushNewMessage \/ GetMessage \/ AddRecord
         \/ UNCHANGED <<stored, messageQueue, InFlight>>
  <1> USE DEF IInv, TypeOK, InFlight, Threads, Goto, Notify, WakeProcessor,
              vars, requestVars, validatorVars, apiVars, queueVars,
              processorVars
  <1>1. CASE UNCHANGED vars
    BY <1>1
  <1>2. CASE Device
    BY <1>2 DEF Device, PostRejected, PostAccepted
  <1>3. CASE StopSignal
    BY <1>3 DEF StopSignal
  <1>4. CASE SpuriousWakeup
    BY <1>4 DEF SpuriousWakeup
  <1>5. CASE ApiStep
    BY <1>5 DEF ApiStep, ApiThreadBody, RunService, RunReturns,
                ServiceReturns, PushFails, ApiNotify, UnlockQueue, ReplyOK
  <1>6. CASE ProcessorStep
    BY <1>6 DEF ProcessorStep, ProcessorThreadBody, LockProcess, GetNothing,
                Wait, Resume
  <1>7. CASE MainStep
    BY <1>7 DEF MainStep, Construct, ConstructFails, ApiStart, ApiStartFails,
                ProcessorStart, ProcessorStartFails, LeaveMainLoop,
                StopProcessor, StopNotify, JoinProcessor, StopApi,
                StopService, JoinApi, StartOrder
  <1> QED
    BY <1>1, <1>2, <1>3, <1>4, <1>5, <1>6, <1>7 DEF Next

\* A step either pushes the handler's message or leaves the accepted ones as
\* they are; it stores the oldest message not yet stored, or nothing.
LEMMA AcceptedStep ==
  ASSUME IInv, [Next]_vars
  PROVE  /\ Accepted \in Seq(Messages)
         /\ PushNewMessage => /\ Accepted' = Append(Accepted, inMessage)
                              /\ UNCHANGED stored
         /\ ~PushNewMessage =>
              /\ UNCHANGED Accepted
              /\ \/ UNCHANGED stored
                 \/ /\ Len(stored) < Len(Accepted)
                    /\ stored' = Append(stored, Accepted[Len(stored) + 1])
  <1>1. /\ stored \in Seq(Messages) /\ messageQueue \in Seq(Messages)
        /\ InFlight \in Seq(Messages)
    BY DEF IInv, TypeOK, HandlerInv, InFlight
  <1>2. stored \o InFlight \in Seq(Messages) /\ Accepted \in Seq(Messages)
    BY <1>1, ConcatProperties DEF Accepted
  <1>3. CASE PushNewMessage
    <2>1. /\ inMessage \in Messages
          /\ messageQueue' = Append(messageQueue, inMessage)
          /\ UNCHANGED <<stored, InFlight>>
      BY <1>3 DEF PushNewMessage, IInv, TypeOK, HandlerInv, Goto, Threads,
                  InFlight, processorVars
    <2>2. stored \o InFlight \o Append(messageQueue, inMessage)
            = Append(stored \o InFlight \o messageQueue, inMessage)
      BY ONLY <1>1, <2>1, ConcatAppend
    <2>3. Accepted' = Append(Accepted, inMessage)
      BY <2>1, <2>2 DEF Accepted
    <2> QED
      BY <1>2, <1>3, <2>1, <2>3
  <1>4. CASE GetMessage
    <2>1. /\ InFlight = <<>> /\ InFlight' = <<Head(messageQueue)>>
          /\ messageQueue # <<>> /\ messageQueue' = Tail(messageQueue)
          /\ UNCHANGED stored
      BY <1>4 DEF GetMessage, IInv, TypeOK, Goto, Threads, InFlight
    <2>2. UNCHANGED Accepted
      BY <1>1, <2>1, ConcatHeadTail DEF Accepted
    <2>3. ~PushNewMessage
      BY <2>1 DEF PushNewMessage, processorVars, InFlight, Goto, IInv, TypeOK,
                  Threads
    <2> QED
      BY <1>2, <2>1, <2>2, <2>3
  <1>5. CASE AddRecord
    <2>1. /\ message \in Messages
          /\ InFlight = <<message>> /\ InFlight' = <<>>
          /\ stored' = Append(stored, message)
          /\ UNCHANGED messageQueue
      BY <1>5 DEF AddRecord, IInv, TypeOK, HandlerInv, Goto, Threads,
                  InFlight, queueVars
    <2>2. UNCHANGED Accepted
      BY <1>1, <2>1, ConcatStore DEF Accepted
    <2>3. Len(stored) < Len(Accepted) /\ Accepted[Len(stored) + 1] = message
      <3>1. Accepted = stored \o <<message>> \o messageQueue
        BY <2>1 DEF Accepted
      <3> HIDE DEF Accepted
      <3> QED
        BY ONLY <1>1, <2>1, <3>1, ConcatNext
    <2>4. ~PushNewMessage
      BY <2>1 DEF PushNewMessage, processorVars, InFlight, Goto, IInv, TypeOK,
                  Threads
    <2> QED
      BY <1>2, <2>1, <2>2, <2>3, <2>4
  <1>6. CASE ~PushNewMessage /\ UNCHANGED <<stored, messageQueue, InFlight>>
    BY <1>2, <1>6 DEF Accepted
  <1> QED
    BY <1>3, <1>4, <1>5, <1>6, MovesOfMessages

\* Only the handler's own steps answer a POST or change which one is being
\* answered, and none changes what a POST carries.
LEMMA MovesOfReplies ==
  ASSUME IInv, [Next]_vars
  PROVE  /\ UNCHANGED body
         /\ \/ PushNewMessage \/ PushFails \/ ReplyOK \/ Device
            \/ /\ UNCHANGED reply
               /\ \A m \in Messages : BeingAnswered(m)' <=> BeingAnswered(m)
  <1> USE DEF IInv, TypeOK, BeingAnswered, Threads, Goto, Notify,
              WakeProcessor, vars, requestVars, validatorVars, apiVars,
              queueVars, processorVars
  <1>1. CASE UNCHANGED vars
    BY <1>1
  <1>2. CASE Device
    BY <1>2 DEF Device, PostRejected, PostAccepted
  <1>3. CASE StopSignal
    BY <1>3 DEF StopSignal
  <1>4. CASE SpuriousWakeup
    BY <1>4 DEF SpuriousWakeup
  <1>5. CASE ApiStep
    BY <1>5 DEF ApiStep, ApiThreadBody, RunService, RunReturns,
                ServiceReturns, PushNewMessage, PushFails, ApiNotify,
                UnlockQueue, ReplyOK
  <1>6. CASE ProcessorStep
    BY <1>6 DEF ProcessorStep, ProcessorThreadBody, LockProcess, GetMessage,
                GetNothing, Wait, Resume, AddRecord
  <1>7. CASE MainStep
    BY <1>7 DEF MainStep, Construct, ConstructFails, ApiStart, ApiStartFails,
                ProcessorStart, ProcessorStartFails, LeaveMainLoop,
                StopProcessor, StopNotify, JoinProcessor, StopApi,
                StopService, JoinApi, StartOrder
  <1> QED
    BY <1>1, <1>2, <1>3, <1>4, <1>5, <1>6, <1>7 DEF Next

\* Whatever the threads do, a POST answered OK stays accepted, and no other
\* message becomes accepted.
LEMMA RepliesPreserved ==
  ASSUME IInv, [Next]_vars
  PROVE  RepliesAreTruthful' /\ OnlyConformingAccepted'
  <1>1. CASE PushNewMessage
    <2>1. /\ inMessage \in Messages /\ body[inMessage] = "conforming"
          /\ UNCHANGED <<reply, body, inMessage>>
          /\ pc["api"] = "pushNewMessage" /\ pc'["api"] = "notify"
      BY <1>1 DEF PushNewMessage, Goto, IInv, TypeOK, HandlerInv, Threads,
                  requestVars
    <2>2. /\ Accepted \in Seq(Messages)
          /\ Accepted' = Append(Accepted, inMessage)
      BY <1>1, AcceptedStep
    <2>3. Range(Append(Accepted, inMessage)) = Range(Accepted) \cup {inMessage}
      BY ONLY <2>1, <2>2, RangeOfAppend
    <2>4. Range(Accepted)' = Range(Accepted) \cup {inMessage}
      BY ONLY <2>2, <2>3
    <2> QED
      BY <2>1, <2>4 DEF IInv, RepliesAreTruthful, OnlyConformingAccepted,
                        BeingAnswered
  <1>2. CASE ~PushNewMessage
    <2>1. UNCHANGED <<Accepted, body>>
      BY <1>2, AcceptedStep, MovesOfReplies
    <2>2. OnlyConformingAccepted'
      BY <2>1, AcceptedStep DEF IInv, OnlyConformingAccepted
    <2>3. CASE PushFails
      <3>1. /\ inMessage \in Messages /\ reply[inMessage] = "none"
            /\ reply' = [reply EXCEPT ![inMessage] = "INTERNAL_SERVER_ERROR"]
            /\ pc["api"] = "pushNewMessage" /\ pc'["api"] = "serving"
            /\ reply \in [Messages -> Reply]
        BY <2>3 DEF PushFails, Goto, IInv, TypeOK, HandlerInv, Threads
      <3>2. RepliesAreTruthful'
        BY <2>1, <3>1 DEF IInv, RepliesAreTruthful, BeingAnswered
      <3> QED
        BY <2>2, <3>2
    <2>4. CASE ReplyOK
      <3>1. /\ inMessage \in Messages /\ UNCHANGED inMessage
            /\ reply' = [reply EXCEPT ![inMessage] = "OK"]
            /\ pc["api"] = "replyOK" /\ pc'["api"] = "serving"
            /\ reply \in [Messages -> Reply]
        BY <2>4 DEF ReplyOK, Goto, IInv, TypeOK, HandlerInv, Threads,
                    queueVars
      <3>2. RepliesAreTruthful'
        BY <2>1, <3>1 DEF IInv, RepliesAreTruthful, BeingAnswered
      <3> QED
        BY <2>2, <3>2
    <2>5. ASSUME NEW m \in Messages, PostRejected(m)
          PROVE  RepliesAreTruthful'
      <3>1. /\ reply[m] = "none" /\ pc["api"] = "serving"
            /\ reply' = [reply EXCEPT ![m] = "BAD_REQUEST"]
            /\ UNCHANGED pc /\ reply \in [Messages -> Reply]
        BY <2>5 DEF PostRejected, IInv, TypeOK
      <3> QED
        BY <2>1, <3>1 DEF IInv, RepliesAreTruthful, BeingAnswered
    <2>6. ASSUME NEW m \in Messages, PostAccepted(m)
          PROVE  RepliesAreTruthful'
      <3>1. /\ pc["api"] = "serving" /\ pc'["api"] = "pushNewMessage"
            /\ UNCHANGED reply
        BY <2>6 DEF PostAccepted, Goto, IInv, TypeOK, Threads, requestVars
      <3> QED
        BY <2>1, <3>1 DEF IInv, RepliesAreTruthful, BeingAnswered
    <2>7. CASE /\ UNCHANGED reply
               /\ \A m \in Messages : BeingAnswered(m)' <=> BeingAnswered(m)
      BY <2>1, <2>2, <2>7 DEF IInv, RepliesAreTruthful
    <2> QED
      BY <1>2, <2>2, <2>3, <2>4, <2>5, <2>6, <2>7, MovesOfReplies DEF Device
  <1> QED
    BY <1>1, <1>2

\* The strengthened invariant holds at the start and every step keeps it.
LEMMA IInvHolds == Spec => []IInv
  <1>1. Init => IInv
    <2>1. SUFFICES ASSUME Init PROVE IInv
      OBVIOUS
    <2>2. /\ validatorInitialized \in BOOLEAN /\ validatorValid \in BOOLEAN
          /\ apiRunFlag \in BOOLEAN /\ processorRunFlag \in BOOLEAN
          /\ runApplication \in BOOLEAN /\ serviceStopped \in BOOLEAN
      BY <2>1, Zenon DEF Init
    <2>3. TypeOK /\ LocksHeld /\ HandlerInv /\ StartOrder /\ NoLostWakeup
      BY <2>1, <2>2 DEF Init, TypeOK, LocksHeld, HandlerInv, StartOrder,
                  NoLostWakeup, Threads, MainLabel, ApiLabel, ProcessorLabel,
                  Body, Reply
    <2>7. ShutdownOrder
      BY <2>1 DEF Init, ShutdownOrder, Threads
    <2>4. Accepted = <<>> \o <<>> \o <<>>
      BY <2>1 DEF Init, Accepted, InFlight, Threads
    <2>5. Range(Accepted) = {}
      BY <2>4 DEF Range
    <2>6. RepliesAreTruthful /\ OnlyConformingAccepted
      BY <2>1, <2>5 DEF Init, RepliesAreTruthful, OnlyConformingAccepted,
                        BeingAnswered, Threads
    <2> QED
      BY <2>3, <2>6, <2>7 DEF IInv
  <1>2. IInv /\ [Next]_vars => IInv'
    BY ControlPreserved, ShutdownPreserved, RepliesPreserved DEF IInv
  <1> QED
    BY <1>1, <1>2, PTL DEF Spec

\* Type correctness, for every set of messages.
THEOREM TypeCorrect == Spec => []TypeOK
  <1>1. IInv => TypeOK
    BY DEF IInv
  <1> QED
    BY <1>1, IInvHolds, PTL

\* The inductive invariant that the run backend checks: the mutex
\* discipline, the state of the POST in hand, the truth of the answers and
\* the absence of a lost wake-up hold together in every reachable state.
THEOREM BackendInvariant == Spec => []IInv
  BY IInvHolds

\* The processor never sleeps on a queue that holds a message nobody is about
\* to announce: pushNewMessage and threadBody lose no wake-up.
THEOREM NoWakeupIsLost == Spec => []NoLostWakeup
  <1>1. IInv => NoLostWakeup
    BY DEF IInv
  <1> QED
    BY <1>1, IInvHolds, PTL

\* A device that reads 200 OK has its message stored, in hand or queued, and
\* one that reads 400 or 500 has left nothing behind.
THEOREM AnswersAreTrue == Spec => []RepliesAreTruthful
  <1>1. IInv => RepliesAreTruthful
    BY DEF IInv
  <1> QED
    BY <1>1, IInvHolds, PTL

\* Where the threads of the invariant all wait.
LEMMA Standstills ==
  ASSUME IInv
  PROVE  OnlyKnownStandstills
  <1> SUFFICES ASSUME ApiWaits, ProcessorWaits, MainWaits
               PROVE  \/ Idle
                      \/ pc = [main |-> "exited", api |-> "done",
                               processor |-> "done"]
                      \/ pc["main"] = "failed"
                      \/ LockCycle \/ StopMissed \/ StopForgotten
    BY DEF OnlyKnownStandstills
  <1> USE DEF IInv, TypeOK, Threads
  <1>1. CASE pc["main"] = "exited"
    BY <1>1 DEF ShutdownOrder
  <1>2. CASE pc["main"] = "failed"
    BY <1>2
  <1>3. CASE pc["main"] = "mainLoop"
    <2>1. CASE pc["api"] = "notify" /\ pc["processor"] = "getNextMessage"
      BY <2>1 DEF LocksHeld, LockCycle
    <2>2. CASE ~(pc["api"] = "notify" /\ pc["processor"] = "getNextMessage")
      <3>1. pc["api"] = "serving" /\ pc["processor"] = "waiting"
        BY <1>3, <2>2 DEF ApiWaits, ProcessorWaits, LocksHeld, ShutdownOrder
      <3>2. messageQueue = <<>>
        BY <3>1 DEF NoLostWakeup
      <3>3. Accepted = stored
        BY <3>1, <3>2 DEF Accepted, InFlight
      <3>4. \A m \in Messages : reply[m] = "OK" => m \in Range(stored)
        BY <3>3 DEF RepliesAreTruthful
      <3> QED
        BY <1>3, <3>1, <3>4 DEF Idle
    <2> QED
      BY <2>1, <2>2
  <1>4. CASE pc["main"] = "stopNotify"
    BY <1>4 DEF MainWaits, ApiWaits, ProcessorWaits, LocksHeld, LockCycle
  <1>5. CASE pc["main"] = "joinProcessor"
    BY <1>5 DEF MainWaits, ApiWaits, ProcessorWaits, LocksHeld, LockCycle,
                ShutdownOrder, StopMissed
  <1>6. CASE pc["main"] = "joinApi"
    BY <1>6, BackendAssumption
       DEF MainWaits, ApiWaits, LocksHeld, ShutdownOrder, StopForgotten
  <1> QED
    BY <1>1, <1>2, <1>3, <1>4, <1>5, <1>6 DEF MainWaits

\* The threads never all wait for one another but in the ways already known:
\* at rest with every acknowledged message stored, at the end, after a failed
\* start, or in one of the three hangs (AbstractAPI.cpp, line 93;
\* MessageProcessor.cpp, line 33; RestAPI.cpp, line 56).
THEOREM NoOtherStandstill == Spec => []OnlyKnownStandstills
  BY Standstills, IInvHolds, PTL

\* The threads, their queue and their locks implement MessageDelivery: each
\* message is accepted at most once and stored in the order of acceptance.
THEOREM ImplementsDelivery == Spec => DeliverySpec
  <1>1. Init => Delivery!Init
    BY DEF Init, Delivery!Init, Accepted, InFlight, Threads
  <1>2. ASSUME IInv, [Next]_vars
        PROVE  [Delivery!Next]_(Delivery!deliveryVars)
    <2>1. CASE PushNewMessage
      <3>1. inMessage \in Messages /\ inMessage \notin Range(Accepted)
        BY <1>2, <2>1 DEF PushNewMessage, Goto, IInv, HandlerInv,
                          RepliesAreTruthful, BeingAnswered
      <3> QED
        BY <1>2, <2>1, <3>1, AcceptedStep
           DEF Delivery!Next, Delivery!Accept, Delivery!Range, Range
    <2>2. CASE ~PushNewMessage
      BY <1>2, <2>2, AcceptedStep
         DEF Delivery!Next, Delivery!Store, Delivery!deliveryVars
    <2> QED
      BY <2>1, <2>2
  <1> QED
    BY <1>1, <1>2, IInvHolds, PTL DEF Spec, DeliverySpec, Delivery!Spec
=============================================================================
