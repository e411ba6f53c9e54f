------------------------------ MODULE Backend ------------------------------
(***************************************************************************)
(* The threads of device-monitor: the main thread (Application), the API   *)
(* thread that runs restbed and its handlers (AbstractAPI, RestAPI) and    *)
(* the processor thread (MessageProcessor), with the signal handler that   *)
(* asks for the end.  They meet in the message queue, guarded by           *)
(* queueLock, and in the processor's condition variable, guarded by        *)
(* processLock.  The data storage appears as the sequence of messages      *)
(* handed to DataStorage::addRecord; module DataStorage models the rest.   *)
(*                                                                         *)
(* A step ends where another thread can observe or disturb it.  A critical *)
(* section that takes no second lock (getNextMessage, notify, the run      *)
(* flags) is one step, enabled when its mutex is free; pushNewMessage and  *)
(* threadBody, which hold one mutex while they ask for the other, are      *)
(* several.  restbed runs its handlers one at a time on the thread that    *)
(* called start, and a handler changes nothing before its body is fetched. *)
(***************************************************************************)
EXTENDS Naturals, Sequences, Functions

CONSTANTS
  Messages,          \* the POST requests devices may send, each one distinct
  ValidatorLatches,  \* a reused SchemaValidator stays invalid until Reset
  StopIsRemembered,  \* restbed's start returns at once after an earlier stop
  NoMessage          \* the null pJsonMessage_t

ASSUME BackendAssumption ==
  /\ ValidatorLatches \in BOOLEAN
  /\ StopIsRemembered \in BOOLEAN
  /\ NoMessage \notin Messages

Threads == {"main", "api", "processor"}
Body == {"malformed", "nonconforming", "conforming"}
Reply == {"none", "OK", "BAD_REQUEST", "INTERNAL_SERVER_ERROR"}

VARIABLES
  pc,                    \* where each thread is
  queueLock,             \* AbstractAPI::queueLock: its holder or "free"
  processLock,           \* MessageProcessor::processLock, likewise
  messageQueue,          \* AbstractAPI::messageQueue
  inMessage,             \* the message the POST handler is pushing
  message,               \* threadBody's local of the processor
  stored,                \* messages handed to DataStorage::addRecord, in order
  body, reply,           \* what each POST carries, how it was answered
  validatorInitialized,  \* the schema was loaded
  validatorValid,        \* the state a SchemaValidator keeps between documents
  apiRunFlag,            \* AbstractAPI::runFlag
  processorRunFlag,      \* MessageProcessor::runFlag
  runApplication,        \* Application::runApplication
  serviceStopped         \* restbed was told to stop

requestVars == <<body, reply>>
validatorVars == <<validatorInitialized, validatorValid>>
apiVars == <<apiRunFlag, serviceStopped>>
queueVars == <<queueLock, messageQueue, inMessage>>
processorVars == <<processLock, message, stored, processorRunFlag>>
vars == <<pc, requestVars, validatorVars, apiVars, queueVars, processorVars,
          runApplication>>

Goto(t, from, to) == pc[t] = from /\ pc' = [pc EXCEPT ![t] = to]

(***************************************************************************)
(* MessageProcessor::notify, called on thread t: it needs processLock, and *)
(* wakes the processor if that waits on processCondition.                  *)
(***************************************************************************)
WakeProcessor(t, to) ==
  pc' = [pc EXCEPT ![t] = to,
                   !["processor"] = IF @ = "waiting" THEN "woken" ELSE @]

\* Mutant: notify does not take processLock.
NotifyWithoutLock(t, from, to) ==
  /\ pc[t] = from
  /\ WakeProcessor(t, to)

Notify(t, from, to) ==
  /\ pc[t] = from
  /\ processLock = "free"
  /\ WakeProcessor(t, to)

-----------------------------------------------------------------------------
(***************************************************************************)
(* RestAPI and AbstractAPI on the API thread.                              *)
(***************************************************************************)

\* AbstractAPI::threadBody: one test of the run flag.
ApiThreadBody ==
  /\ Goto("api", "threadBody", IF apiRunFlag THEN "run" ELSE "done")
  /\ UNCHANGED <<requestVars, validatorVars, apiVars, queueVars,
                 processorVars, runApplication>>

\* RestAPI::run: service.start serves until it is stopped.
RunService ==
  /\ ~(serviceStopped /\ StopIsRemembered)
  /\ Goto("api", "run", "serving")
  /\ serviceStopped' = FALSE
  /\ UNCHANGED <<requestVars, validatorVars, apiRunFlag, queueVars,
                 processorVars, runApplication>>

\* RestAPI::run: start throws (the port is taken) or was stopped beforehand.
RunReturns ==
  /\ Goto("api", "run", "threadBody")
  /\ UNCHANGED <<requestVars, validatorVars, apiVars, queueVars,
                 processorVars, runApplication>>

ServiceReturns ==
  /\ serviceStopped
  /\ Goto("api", "serving", "threadBody")
  /\ UNCHANGED <<requestVars, validatorVars, apiVars, queueVars,
                 processorVars, runApplication>>

\* rapidjson's Accept on the one validator, which the code never resets.
Accepts(m) ==
  /\ body[m] = "conforming"
  /\ ValidatorLatches => validatorValid

\* Mutant: the handler forgets the return after a failed validation.
PostRejectedFallsThrough(m) ==
  /\ pc["api"] = "serving" /\ ~serviceStopped
  /\ reply[m] = "none"
  /\ ~Accepts(m)
  /\ reply' = [reply EXCEPT ![m] = "BAD_REQUEST"]
  /\ validatorValid' = (validatorValid /\ body[m] = "malformed")
  /\ inMessage' = m
  /\ pc' = [pc EXCEPT !["api"] = "pushNewMessage"]
  /\ UNCHANGED <<body, validatorInitialized, apiVars, queueLock, messageQueue,
                 processorVars, runApplication>>

\* RestAPI::postHandler: a body that does not parse or does not validate.
PostRejected(m) ==
  /\ pc["api"] = "serving" /\ ~serviceStopped
  /\ reply[m] = "none"
  /\ ~Accepts(m)
  /\ reply' = [reply EXCEPT ![m] = "BAD_REQUEST"]
  /\ validatorValid' = (validatorValid /\ body[m] = "malformed")
  /\ UNCHANGED <<pc, body, validatorInitialized, apiVars, queueVars,
                 processorVars, runApplication>>

\* RestAPI::postHandler: the message is valid and goes to pushNewMessage.
PostAccepted(m) ==
  /\ Goto("api", "serving", "pushNewMessage") /\ ~serviceStopped
  /\ reply[m] = "none"
  /\ Accepts(m)
  /\ inMessage' = m
  /\ UNCHANGED <<requestVars, validatorVars, apiVars, queueLock, messageQueue,
                 processorVars, runApplication>>

\* AbstractAPI::pushNewMessage: lock queueLock and push.
PushNewMessage ==
  /\ Goto("api", "pushNewMessage", "notify")
  /\ queueLock = "free"
  /\ queueLock' = "api"
  /\ messageQueue' = Append(messageQueue, inMessage)
  /\ UNCHANGED <<requestVars, validatorVars, apiVars, inMessage,
                 processorVars, runApplication>>

\* pushNewMessage when the push throws: unlocked again, answered with 500.
PushFails ==
  /\ Goto("api", "pushNewMessage", "serving")
  /\ queueLock = "free"
  /\ reply' = [reply EXCEPT ![inMessage] = "INTERNAL_SERVER_ERROR"]
  /\ UNCHANGED <<body, validatorVars, apiVars, queueVars, processorVars,
                 runApplication>>

\* pushNewMessage calls MessageProcessor::notify with queueLock still held.
ApiNotify ==
  /\ Notify("api", "notify", "unlockQueue")
  /\ UNCHANGED <<requestVars, validatorVars, apiVars, queueVars,
                 processorVars, runApplication>>

\* Mutant: the guard of queueLock is not released on return.
KeepQueueLock ==
  /\ Goto("api", "unlockQueue", "replyOK")
  /\ UNCHANGED <<requestVars, validatorVars, apiVars, queueVars,
                 processorVars, runApplication>>

UnlockQueue ==
  /\ Goto("api", "unlockQueue", "replyOK")
  /\ queueLock' = "free"
  /\ UNCHANGED <<requestVars, validatorVars, apiVars, messageQueue, inMessage,
                 processorVars, runApplication>>

ReplyOK ==
  /\ Goto("api", "replyOK", "serving")
  /\ reply' = [reply EXCEPT ![inMessage] = "OK"]
  /\ UNCHANGED <<body, validatorVars, apiVars, queueVars, processorVars,
                 runApplication>>

-----------------------------------------------------------------------------
(***************************************************************************)
(* MessageProcessor::threadBody on the processor thread.                   *)
(***************************************************************************)

ProcessorThreadBody ==
  /\ Goto("processor", "threadBody",
          IF processorRunFlag THEN "lockProcess" ELSE "done")
  /\ UNCHANGED <<requestVars, validatorVars, apiVars, queueVars,
                 processorVars, runApplication>>

LockProcess ==
  /\ Goto("processor", "lockProcess", "getNextMessage")
  /\ processLock = "free"
  /\ processLock' = "processor"
  /\ UNCHANGED <<requestVars, validatorVars, apiVars, queueVars, message,
                 stored, processorRunFlag, runApplication>>

\* Mutant: the processor reads the newest message instead of the oldest.
GetNewestMessage ==
  /\ Goto("processor", "getNextMessage", "addRecord")
  /\ queueLock = "free"
  /\ messageQueue # <<>>
  /\ message' = messageQueue[Len(messageQueue)]
  /\ messageQueue' = SubSeq(messageQueue, 1, Len(messageQueue) - 1)
  /\ processLock' = "free"
  /\ UNCHANGED <<requestVars, validatorVars, apiVars, queueLock, inMessage,
                 stored, processorRunFlag, runApplication>>

\* Mutant: the run flag is tested after the message was taken.
GetMessageThenTestFlag ==
  /\ Goto("processor", "getNextMessage",
          IF processorRunFlag THEN "addRecord" ELSE "done")
  /\ queueLock = "free"
  /\ messageQueue # <<>>
  /\ message' = Head(messageQueue)
  /\ messageQueue' = Tail(messageQueue)
  /\ processLock' = "free"
  /\ UNCHANGED <<requestVars, validatorVars, apiVars, queueLock, inMessage,
                 stored, processorRunFlag, runApplication>>

\* getNextMessage returned a message; the scope of processLock ends.
GetMessage ==
  /\ Goto("processor", "getNextMessage", "addRecord")
  /\ queueLock = "free"
  /\ messageQueue # <<>>
  /\ message' = Head(messageQueue)
  /\ messageQueue' = Tail(messageQueue)
  /\ processLock' = "free"
  /\ UNCHANGED <<requestVars, validatorVars, apiVars, queueLock, inMessage,
                 stored, processorRunFlag, runApplication>>

\* getNextMessage returned nullptr; processLock stays held until the wait.
GetNothing ==
  /\ Goto("processor", "getNextMessage", "wait")
  /\ queueLock = "free"
  /\ messageQueue = <<>>
  /\ message' = NoMessage
  /\ UNCHANGED <<requestVars, validatorVars, apiVars, queueVars, processLock,
                 stored, processorRunFlag, runApplication>>

\* processCondition.wait: release processLock and sleep in one step.
Wait ==
  /\ Goto("processor", "wait", "waiting")
  /\ processLock' = "free"
  /\ UNCHANGED <<requestVars, validatorVars, apiVars, queueVars, message,
                 stored, processorRunFlag, runApplication>>

\* A condition variable may wake without a notification.
SpuriousWakeup ==
  /\ Goto("processor", "waiting", "woken")
  /\ UNCHANGED <<requestVars, validatorVars, apiVars, queueVars,
                 processorVars, runApplication>>

\* wait takes processLock back, and continue gives it up again.
Resume ==
  /\ Goto("processor", "woken", "threadBody")
  /\ processLock = "free"
  /\ UNCHANGED <<requestVars, validatorVars, apiVars, queueVars,
                 processorVars, runApplication>>

AddRecord ==
  /\ Goto("processor", "addRecord", "threadBody")
  /\ stored' = Append(stored, message)
  /\ UNCHANGED <<requestVars, validatorVars, apiVars, queueVars, processLock,
                 message, processorRunFlag, runApplication>>

-----------------------------------------------------------------------------
(***************************************************************************)
(* Application on the main thread.                                         *)
(***************************************************************************)

\* Application's constructor: the API loads its schema, or fails to.
Construct ==
  /\ Goto("main", "construct", "apiStart")
  /\ validatorInitialized' \in BOOLEAN
  /\ UNCHANGED <<requestVars, validatorValid, apiVars, queueVars,
                 processorVars, runApplication>>

\* The constructor catches an exception: run finds api null and gives up.
ConstructFails ==
  /\ Goto("main", "construct", "failed")
  /\ UNCHANGED <<requestVars, validatorVars, apiVars, queueVars,
                 processorVars, runApplication>>

\* AbstractAPI::start.
ApiStart ==
  /\ pc["main"] = "apiStart"
  /\ validatorInitialized
  /\ apiRunFlag' = TRUE
  /\ pc' = [pc EXCEPT !["main"] = "processorStart", !["api"] = "threadBody"]
  /\ UNCHANGED <<requestVars, validatorVars, serviceStopped, queueVars,
                 processorVars, runApplication>>

\* start returns false: no validator, setupApi failed or no thread.
ApiStartFails ==
  /\ Goto("main", "apiStart", "failed")
  /\ apiRunFlag' = FALSE
  /\ UNCHANGED <<requestVars, validatorVars, serviceStopped, queueVars,
                 processorVars, runApplication>>

\* MessageProcessor::start.
ProcessorStart ==
  /\ pc["main"] = "processorStart"
  /\ processorRunFlag' = TRUE
  /\ pc' = [pc EXCEPT !["main"] = "mainLoop", !["processor"] = "threadBody"]
  /\ UNCHANGED <<requestVars, validatorVars, apiVars, queueVars, processLock,
                 message, stored, runApplication>>

\* No thread for the processor: run returns and the API thread lives on.
ProcessorStartFails ==
  /\ Goto("main", "processorStart", "failed")
  /\ processorRunFlag' = FALSE
  /\ UNCHANGED <<requestVars, validatorVars, apiVars, queueVars, processLock,
                 message, stored, runApplication>>

\* The signal handler calls Application::stop, on whatever thread it runs.
StopSignal ==
  /\ runApplication
  /\ runApplication' = FALSE
  /\ UNCHANGED <<pc, requestVars, validatorVars, apiVars, queueVars,
                 processorVars>>

LeaveMainLoop ==
  /\ ~runApplication
  /\ Goto("main", "mainLoop", "stopProcessor")
  /\ UNCHANGED <<requestVars, validatorVars, apiVars, queueVars,
                 processorVars, runApplication>>

\* MessageProcessor::stop clears the flag without holding processLock ...
StopProcessor ==
  /\ Goto("main", "stopProcessor", "stopNotify")
  /\ processorRunFlag' = FALSE
  /\ UNCHANGED <<requestVars, validatorVars, apiVars, queueVars, processLock,
                 message, stored, runApplication>>

\* ... and then notifies.
StopNotify ==
  /\ Notify("main", "stopNotify", "joinProcessor")
  /\ UNCHANGED <<requestVars, validatorVars, apiVars, queueVars,
                 processorVars, runApplication>>

JoinProcessor ==
  /\ Goto("main", "joinProcessor", "stopApi")
  /\ pc["processor"] = "done"
  /\ UNCHANGED <<requestVars, validatorVars, apiVars, queueVars,
                 processorVars, runApplication>>

\* Mutant: AbstractAPI::stop forgets to clear the run flag.
StopApiKeepsFlag ==
  /\ Goto("main", "stopApi", "stopService")
  /\ UNCHANGED <<requestVars, validatorVars, apiVars, queueVars,
                 processorVars, runApplication>>

\* AbstractAPI::stop: the flag, then shutdownApi, then join.
StopApi ==
  /\ Goto("main", "stopApi", "stopService")
  /\ apiRunFlag' = FALSE
  /\ UNCHANGED <<requestVars, validatorVars, serviceStopped, queueVars,
                 processorVars, runApplication>>

StopService ==
  /\ Goto("main", "stopService", "joinApi")
  /\ serviceStopped' = TRUE
  /\ UNCHANGED <<requestVars, validatorVars, apiRunFlag, queueVars,
                 processorVars, runApplication>>

JoinApi ==
  /\ Goto("main", "joinApi", "exited")
  /\ pc["api"] = "done"
  /\ UNCHANGED <<requestVars, validatorVars, apiVars, queueVars,
                 processorVars, runApplication>>

-----------------------------------------------------------------------------
Init ==
  /\ pc = [t \in Threads |-> IF t = "main" THEN "construct" ELSE "none"]
  /\ queueLock = "free"
  /\ processLock = "free"
  /\ messageQueue = <<>>
  /\ inMessage = NoMessage
  /\ message = NoMessage
  /\ stored = <<>>
  /\ body \in [Messages -> Body]
  /\ reply = [m \in Messages |-> "none"]
  /\ validatorInitialized = FALSE
  /\ validatorValid = TRUE
  /\ apiRunFlag = FALSE
  /\ processorRunFlag = FALSE
  /\ runApplication = TRUE
  /\ serviceStopped = FALSE

\* The requests and the signal come from outside; no step of theirs is owed.
Device == \E m \in Messages : PostRejected(m) \/ PostAccepted(m)

ApiStep ==
  \/ ApiThreadBody \/ RunService \/ RunReturns \/ ServiceReturns
  \/ PushNewMessage \/ PushFails \/ ApiNotify \/ UnlockQueue \/ ReplyOK

ProcessorStep ==
  \/ ProcessorThreadBody \/ LockProcess \/ GetMessage \/ GetNothing
  \/ Wait \/ Resume \/ AddRecord

MainStep ==
  \/ Construct \/ ConstructFails \/ ApiStart \/ ApiStartFails
  \/ ProcessorStart \/ ProcessorStartFails \/ LeaveMainLoop
  \/ StopProcessor \/ StopNotify \/ JoinProcessor
  \/ StopApi \/ StopService \/ JoinApi

Next ==
  \/ Device
  \/ StopSignal
  \/ SpuriousWakeup
  \/ ApiStep
  \/ ProcessorStep
  \/ MainStep

Spec == Init /\ [][Next]_vars

\* The operating system keeps scheduling a thread that can run.
Fairness == WF_vars(ApiStep) /\ WF_vars(ProcessorStep) /\ WF_vars(MainStep)

FairSpec == Spec /\ Fairness

-----------------------------------------------------------------------------
(***************************************************************************)
(* Properties.                                                             *)
(***************************************************************************)

ApiLabel == {"none", "threadBody", "run", "serving", "pushNewMessage",
             "notify", "unlockQueue", "replyOK", "done"}

ProcessorLabel == {"none", "threadBody", "lockProcess", "getNextMessage",
                   "wait", "waiting", "woken", "addRecord", "done"}

MainLabel == {"construct", "apiStart", "processorStart", "mainLoop",
              "stopProcessor", "stopNotify", "joinProcessor", "stopApi",
              "stopService", "joinApi", "exited", "failed"}

\* The variables have their types: the mutexes have the holders and the
\* program counters the places that the three thread bodies give them.
TypeOK ==
  /\ pc \in [Threads -> MainLabel \cup ApiLabel \cup ProcessorLabel]
  /\ pc["main"] \in MainLabel
  /\ pc["api"] \in ApiLabel
  /\ pc["processor"] \in ProcessorLabel
  /\ queueLock \in {"free", "api"}
  /\ processLock \in {"free", "processor"}
  /\ messageQueue \in Seq(Messages)
  /\ inMessage \in Messages \cup {NoMessage}
  /\ message \in Messages \cup {NoMessage}
  /\ stored \in Seq(Messages)
  /\ body \in [Messages -> Body]
  /\ reply \in [Messages -> Reply]
  /\ validatorInitialized \in BOOLEAN
  /\ validatorValid \in BOOLEAN
  /\ apiRunFlag \in BOOLEAN
  /\ processorRunFlag \in BOOLEAN
  /\ runApplication \in BOOLEAN
  /\ serviceStopped \in BOOLEAN

\* The message the processor took from the queue and has not stored yet.
InFlight == IF pc["processor"] = "addRecord" THEN <<message>> ELSE <<>>

\* Everything ever pushed, in the order it was pushed.
Accepted == stored \o InFlight \o messageQueue

\* The API thread has pushed m and not answered its POST yet.
BeingAnswered(m) ==
  /\ m = inMessage
  /\ pc["api"] \in {"notify", "unlockQueue", "replyOK"}

\* No lost wake-up for data: the processor never goes to sleep, or stays
\* asleep, on a queue that holds a message unless the API thread is about to
\* notify it.  threadBody finds the queue empty and waits under processLock,
\* and pushNewMessage notifies under processLock after the push.
NoLostWakeup ==
  pc["processor"] \in {"wait", "waiting"} /\ messageQueue # <<>>
    => pc["api"] = "notify"

\* The answer to a POST is the truth about the message: exactly the messages
\* answered OK (or about to be) have been stored, are being stored or are
\* queued, whatever the threads did since; a message answered 400 or 500 is
\* nowhere.  postHandler, pushNewMessage and threadBody together keep this.
RepliesAreTruthful ==
  \A m \in Messages :
    m \in Range(Accepted) <=> (reply[m] = "OK" \/ BeingAnswered(m))

\* Only messages that conform to the schema reach the queue or the storage.
OnlyConformingAccepted ==
  \A m \in Range(Accepted) : body[m] = "conforming"

\* Each mutex is held exactly at the places of the thread bodies that the
\* scopes of their lock guards cover.
LocksHeld ==
  /\ queueLock = IF pc["api"] \in {"notify", "unlockQueue"}
                   THEN "api" ELSE "free"
  /\ processLock = IF pc["processor"] \in {"getNextMessage", "wait"}
                     THEN "processor" ELSE "free"

\* What the API thread pushes is a conforming message not yet answered, and
\* what the processor stores is a message.
HandlerInv ==
  /\ pc["api"] \in {"pushNewMessage", "notify", "unlockQueue", "replyOK"}
       => /\ inMessage \in Messages
          /\ reply[inMessage] = "none"
          /\ body[inMessage] = "conforming"
  /\ pc["processor"] = "addRecord" => message \in Messages

\* A thread exists only once main has started it.
StartOrder ==
  /\ pc["main"] \in {"construct", "apiStart"} => pc["api"] = "none"
  /\ pc["main"] \in {"construct", "apiStart", "processorStart"}
       => pc["processor"] = "none"

\* run starts the threads in one order and ends them in another, each after
\* its flag is cleared: a thread that is done was told to stop, and one that
\* main has joined is done.
ShutdownOrder ==
  LET beyond(places) == pc["main"] \in places
      apiStopped == {"stopService", "joinApi", "exited"}
      joined == {"stopApi"} \cup apiStopped
      stopped == {"stopNotify", "joinProcessor"} \cup joined
      running == {"mainLoop", "stopProcessor"} \cup stopped
  IN  /\ beyond({"processorStart"} \cup running) => pc["api"] # "none"
      /\ beyond(running) => pc["processor"] # "none"
      /\ pc["processor"] # "none" => (processorRunFlag <=> ~beyond(stopped))
      /\ pc["api"] # "none" => (apiRunFlag <=> ~beyond(apiStopped))
      /\ pc["processor"] = "done" => beyond(stopped)
      /\ pc["api"] = "done" => beyond(apiStopped)
      /\ beyond(joined) => pc["processor"] = "done"
      /\ pc["main"] = "exited" => pc["api"] = "done"
      /\ pc["main"] = "failed" => pc["processor"] = "none"
      /\ pc["main"] = "joinApi" /\ StopIsRemembered => serviceStopped

\* The inductive invariant: the properties above hold of every step because
\* these hold together.
IInv ==
  /\ TypeOK
  /\ LocksHeld
  /\ HandlerInv
  /\ StartOrder
  /\ ShutdownOrder
  /\ NoLostWakeup
  /\ RepliesAreTruthful
  /\ OnlyConformingAccepted

\* The queue and its two locks keep the promise of MessageDelivery: at most
\* once, in order, nothing lost between the queue and the storage.
Delivery == INSTANCE MessageDelivery WITH accepted <- Accepted

DeliverySpec == Delivery!Spec

\* pushNewMessage holds queueLock and asks for processLock while threadBody
\* holds processLock and asks for queueLock: neither ever moves again.
LockCycle ==
  /\ queueLock = "api" /\ pc["api"] = "notify"
  /\ processLock = "processor" /\ pc["processor"] = "getNextMessage"

\* The application is on its way down, or never came up.
GoingDown == ~runApplication \/ pc["main"] = "failed"

\* stop() cleared the flag and notified between the processor's test of the
\* flag and its wait, so that the processor sleeps and main waits for it.
StopMissed ==
  /\ pc["processor"] = "waiting" /\ ~processorRunFlag
  /\ pc["main"] = "joinProcessor"

\* restbed forgot the stop that came before its start, which resets it: the
\* service listens on while main waits for its thread.
StopForgotten ==
  /\ ~StopIsRemembered
  /\ pc["main"] = "joinApi" /\ pc["api"] = "serving" /\ ~serviceStopped

\* The thread has no next step of its own: it is not running, or waits for a
\* request, a notification, a mutex, a flag or the end of another thread.
ApiWaits ==
  \/ pc["api"] \in {"none", "done"}
  \/ pc["api"] = "serving" /\ ~serviceStopped
  \/ pc["api"] = "pushNewMessage" /\ queueLock # "free"
  \/ pc["api"] = "notify" /\ processLock # "free"

ProcessorWaits ==
  \/ pc["processor"] \in {"none", "done", "waiting"}
  \/ pc["processor"] \in {"lockProcess", "woken"} /\ processLock # "free"
  \/ pc["processor"] = "getNextMessage" /\ queueLock # "free"

MainWaits ==
  \/ pc["main"] \in {"exited", "failed"}
  \/ pc["main"] = "mainLoop" /\ runApplication
  \/ pc["main"] = "stopNotify" /\ processLock # "free"
  \/ pc["main"] = "joinProcessor" /\ pc["processor"] # "done"
  \/ pc["main"] = "joinApi" /\ pc["api"] # "done"

\* The application is up, no POST is in work, and every message answered
\* with 200 OK has been stored.
Idle ==
  /\ pc["main"] = "mainLoop" /\ pc["api"] = "serving"
  /\ pc["processor"] = "waiting"
  /\ \A m \in Messages : reply[m] = "OK" => m \in Range(stored)

\* When the three threads all wait, the application is idle with nothing left
\* to store, has ended with both threads joined or never came up, or hangs in
\* one of three ways: in the deadlock of the two mutexes, in the notification
\* of stop() that came too early, or in the stop that restbed forgot.  There
\* is no fourth way to hang.
OnlyKnownStandstills ==
  ApiWaits /\ ProcessorWaits /\ MainWaits =>
    \/ Idle
    \/ pc = [main |-> "exited", api |-> "done", processor |-> "done"]
    \/ pc["main"] = "failed"
    \/ LockCycle \/ StopMissed \/ StopForgotten

\* A queued message gets stored unless the two threads deadlock or the
\* application goes down: no other schedule leaves a message behind.
QueuedIsStoredUnlessStuck ==
  \A m \in Messages :
    m \in Range(messageQueue)
      ~> (m \in Range(stored) \/ LockCycle \/ GoingDown)

\* A POST that reached pushNewMessage is answered unless the threads
\* deadlock, whatever stop() does in the meantime.
PushIsAnsweredUnlessStuck ==
  pc["api"] = "pushNewMessage" ~> (pc["api"] = "serving" \/ LockCycle)

\* Once main leaves its loop the shutdown ends, unless the threads deadlock
\* or the processor missed the notification of stop().
ShutdownEndsUnlessStuck ==
  pc["main"] = "stopProcessor"
    ~> (pc["main"] = "exited" \/ LockCycle \/ StopMissed)

\* README, lines 74-76: a valid message is inserted into the queue, the
\* processor is notified, extracts it and stores it.  Violated: LockCycle.
QueuedIsStored ==
  \A m \in Messages :
    m \in Range(messageQueue) ~> (m \in Range(stored) \/ GoingDown)

\* MessageProcessor.hpp, line 31: stop() stops the message processor.
\* Violated with no request at all: StopMissed.
StopStopsProcessor ==
  pc["main"] = "stopProcessor" ~> pc["processor"] = "done"

\* AbstractAPI.hpp, lines 62-64: isValidJSON is true of a valid document and
\* false of one that is not valid, so that a conforming POST is never
\* answered BAD_REQUEST.  Violated: the validator is reused without Reset.
ConformingIsNotRejected ==
  \A m \in Messages : body[m] = "conforming" => reply[m] # "BAD_REQUEST"
=============================================================================
