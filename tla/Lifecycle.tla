------------------------------ MODULE Lifecycle ------------------------------
(***************************************************************************)
(* The life of the process: main installs the signal handlers, builds the  *)
(* Application, starts and stops the threads and tears everything down,    *)
(* while signals interrupt any thread at any place.  The handler logs and  *)
(* calls Application::get().stop() on top of the thread it interrupts,     *)
(* which cannot go on before the handler returns.  SignalHandler's actions *)
(* are steps of main here; of the logger the two mutexes, the flags and    *)
(* the sleep of its thread are kept, and of the API and processor threads  *)
(* their life and when they log.  Logger and Backend model them in full;   *)
(* no handler takes the mutexes of the API and the processor.              *)
(*                                                                         *)
(* loggerDataLock and queueLock are not recursive, and glibc waits where a *)
(* thread re-enters the initialisation of a static object.                 *)
(***************************************************************************)
EXTENDS Integers, Sequences

CONSTANTS
  MAX_SIG_ID, Unmaskable, SIG_DFL, SIG_IGN, SaveMayFail, BadAlloc,
  signalHandler,   \* the handler of main.cpp
  SIGWINCH,
  Free, Destroyed, \* what a mutex is when no frame holds it
  Inheritable,     \* the dispositions a process may start with
  MaxEvents        \* bound on what the process does not do itself: signals,
                   \* POSTs and failures of the service

VARIABLES
  at, call,                    \* where each frame is, and in its log call
  dataLock, queueLock,         \* the logger's mutexes
  isInitialized, runLogThread,
  queueEmpty,                  \* of the list of messages no more is kept
  application,                 \* the static object of Application::get
  runApplication,
  stopRequested,               \* auxiliary: stop() was carried out
  api, processor,              \* the objects run works on
  apiRunFlag, processorRunFlag,
  events,                      \* signals, POSTs and failures so far
  messages,                    \* how many the API has queued
  disposition, handlers, result, sweep, sweepHandler, before, inherited, lost

logVars == <<isInitialized, runLogThread, queueEmpty>>
appVars == <<application, runApplication, stopRequested>>
objectVars == <<api, processor, apiRunFlag, processorRunFlag>>
countVars == <<events, messages>>
sigVars == <<disposition, handlers, result, sweep, sweepHandler, before,
             inherited, lost>>

Sig == INSTANCE SignalHandler WITH Routines <- {signalHandler}, MaxDepth <- 2

vars == <<at, call, dataLock, queueLock, logVars, appVars, objectVars,
          countVars, sigVars>>

Threads == {"main", "api", "processor", "logger"}
Frames == Threads \X {"code", "handler"}
Code(t) == <<t, "code">>
Handler(t) == <<t, "handler">>
main == Code("main")

ASSUME LifecycleAssumption ==
  /\ Sig!SignalAssumption
  /\ SIGWINCH \in Sig!Signals
  /\ signalHandler # SIG_IGN
  /\ Free \notin Frames /\ Destroyed \notin Frames \cup {Free}
  /\ Inheritable \subseteq {SIG_DFL, SIG_IGN}
  /\ MaxEvents \in Nat

\* A handler suspends the code it interrupts, at whatever place that is, and
\* once main is back from exit the process is gone.
Active(f) ==
  /\ at[main] # "exited"
  /\ f[2] = "handler" \/ at[Handler(f[1])] = "none"

Event == events < MaxEvents /\ events' = events + 1

\* Frame f, in no log call, goes on, or goes on with a log call.
Go(f, from, to) ==
  /\ at[f] = from /\ call[f] = "none" /\ Active(f)
  /\ at' = [at EXCEPT ![f] = to]
  /\ UNCHANGED call

GoLogging(f, from, to) ==
  /\ at[f] = from /\ call[f] = "none" /\ Active(f)
  /\ at' = [at EXCEPT ![f] = to]
  /\ call' = [call EXCEPT ![f] = "wantData"]

-----------------------------------------------------------------------------
(***************************************************************************)
(* logWriteMessage_f in any frame, and the loop of the logger thread.      *)
(***************************************************************************)
Calling(f, from, to) ==
  /\ call[f] = from /\ Active(f)
  /\ call' = [call EXCEPT ![f] = to]
  /\ UNCHANGED <<appVars, objectVars, countVars, sigVars>>

LockLoggerData(f) ==
  /\ dataLock = Free
  /\ Calling(f, "wantData", "data")
  /\ dataLock' = f
  /\ UNCHANGED <<at, queueLock, logVars>>

\* The flags are read before the lock is released; the logger thread ends
\* when it is told to.
UnlockLoggerData(f) ==
  /\ LET goesOn == isInitialized /\ (f = Code("logger") => runLogThread)
     IN  /\ Calling(f, "data", IF goesOn THEN "wantQueue" ELSE "none")
         /\ at' = IF f = Code("logger") /\ ~goesOn
                    THEN [at EXCEPT ![f] = "done"] ELSE at
  /\ dataLock' = Free
  /\ UNCHANGED <<queueLock, logVars>>

LockLoggerQueue(f) ==
  /\ queueLock = Free
  /\ Calling(f, "wantQueue", "queue")
  /\ queueLock' = f
  /\ UNCHANGED <<at, dataLock, logVars>>

\* Locking a destroyed mutex fails, and so does the call.
LockLoggerQueueFails(f) ==
  /\ queueLock = Destroyed
  /\ Calling(f, "wantQueue", "none")
  /\ UNCHANGED <<at, dataLock, queueLock, logVars>>

WakeLogger(place) ==
  [place EXCEPT ![Code("logger")] = IF @ = "waiting" THEN "woken" ELSE @]

\* Mutant: the mutex is not released.
EnqueueKeepsLock(f) ==
  /\ f # Code("logger")
  /\ Calling(f, "queue", "none")
  /\ at' = WakeLogger(at)
  /\ queueEmpty' = FALSE
  /\ UNCHANGED <<dataLock, queueLock, isInitialized, runLogThread>>

\* The message is linked and the logger thread signalled.
Enqueue(f) ==
  /\ f # Code("logger")
  /\ Calling(f, "queue", "none")
  /\ at' = WakeLogger(at)
  /\ queueEmpty' = FALSE
  /\ queueLock' = Free
  /\ UNCHANGED <<dataLock, isInitialized, runLogThread>>

\* popMessage takes a message, the last one or not, or waits for one and then
\* looks once more.
PopMessage ==
  LET f == Code("logger") IN
  /\ Calling(f, "queue", "none")
  /\ at' = [at EXCEPT ![f] = IF queueEmpty /\ @ = "loop" THEN "waiting"
                                                         ELSE "loop"]
  /\ queueEmpty' \in {TRUE, queueEmpty}
  /\ queueLock' = Free
  /\ UNCHANGED <<dataLock, isInitialized, runLogThread>>

LoggerLoop ==
  LET f == Code("logger") IN
  /\ at[f] \in {"loop", "woken"} /\ call[f] = "none" /\ Active(f)
  /\ call' = [call EXCEPT ![f] = IF at[f] = "loop" THEN "wantData"
                                                   ELSE "wantQueue"]
  /\ UNCHANGED <<at, dataLock, queueLock, logVars, appVars, objectVars,
                 countVars, sigVars>>

LogCall(f) ==
  \/ LockLoggerData(f) \/ UnlockLoggerData(f)
  \/ LockLoggerQueue(f) \/ LockLoggerQueueFails(f) \/ Enqueue(f)

-----------------------------------------------------------------------------
(***************************************************************************)
(* Signals, and the handler of main.cpp.                                   *)
(***************************************************************************)
Alive(t) == at[Code(t)] \notin {"none", "done", "exited", "killed"}

Arrives(t, s) ==
  /\ Event
  /\ Alive(t) /\ Active(Code(t))
  /\ UNCHANGED <<dataLock, queueLock, logVars, appVars, objectVars, messages,
                 sigVars>>

\* The default of every signal but SIGWINCH ends the process.
Killed(t, s) ==
  /\ Arrives(t, s)
  /\ disposition[s] = SIG_DFL /\ s # SIGWINCH
  /\ at' = [f \in Frames |-> IF f[2] = "code" THEN "killed" ELSE "none"]
  /\ call' = [f \in Frames |-> "none"]

\* signalHandler starts, and logs.
Handled(t, s) ==
  /\ Arrives(t, s)
  /\ disposition[s] = signalHandler
  /\ GoLogging(Handler(t), "none", "received")

\* Application::get finds the object, or builds it, or waits for the frame
\* that does.
GetFinds(f, from, to) ==
  /\ application \in {"ready", "destroyed"}
  /\ GoLogging(f, from, to)
  /\ UNCHANGED <<dataLock, queueLock, logVars, appVars, objectVars,
                 countVars, sigVars>>

\* Mutant: no guard keeps a second frame from building it too.
GetBuildsAgain(f, from) ==
  /\ application \in {"none", "constructing"}
  /\ application' = "constructing"
  /\ Go(f, from, "construct")
  /\ UNCHANGED <<dataLock, queueLock, logVars, runApplication, stopRequested,
                 objectVars, countVars, sigVars>>

GetBuilds(f, from) ==
  /\ application = "none"
  /\ application' = "constructing"
  /\ Go(f, from, "construct")
  /\ UNCHANGED <<dataLock, queueLock, logVars, runApplication, stopRequested,
                 objectVars, countVars, sigVars>>

\* The schema does not load: that is logged, and the API has no validator.
SchemaFails(f) ==
  /\ GoLogging(f, "construct", "schemaFailed")
  /\ UNCHANGED <<dataLock, queueLock, logVars, appVars, objectVars,
                 countVars, sigVars>>

\* An exception is caught and logged: all this is still the constructor.
ConstructFails(f) ==
  /\ \/ GoLogging(f, "construct", "constructFailed")
     \/ GoLogging(f, "schemaFailed", "constructFailed")
  /\ UNCHANGED <<dataLock, queueLock, logVars, appVars, objectVars,
                 countVars, sigVars>>

\* The static object is initialized, and whoever waits for it can go on.
Initialized(f, from, to) ==
  /\ GoLogging(f, from, to)
  /\ application' = "ready"
  /\ runApplication' = TRUE
  /\ UNCHANGED <<dataLock, queueLock, logVars, stopRequested, apiRunFlag,
                 processorRunFlag, countVars, sigVars>>

Constructed(f, to) ==
  \/ /\ Initialized(f, "construct", to)
     /\ api' = "alive" /\ processor' = "alive"
  \/ /\ Initialized(f, "schemaFailed", to)
     /\ api' = "invalid" /\ processor' = "alive"
  \/ /\ Initialized(f, "constructFailed", to)
     /\ UNCHANGED <<api, processor>>

Get(f, from, to) ==
  \/ GetFinds(f, from, to) \/ GetBuilds(f, from)
  \/ SchemaFails(f) \/ ConstructFails(f) \/ Constructed(f, to)

\* Application::stop after its log call; the handler returns.
Stop(t) ==
  /\ Go(Handler(t), "stopping", "none")
  /\ runApplication' = FALSE
  /\ stopRequested' = TRUE
  /\ UNCHANGED <<dataLock, queueLock, logVars, application, objectVars,
                 countVars, sigVars>>

HandlerStep(t) ==
  \/ LogCall(Handler(t)) \/ Get(Handler(t), "received", "stopping") \/ Stop(t)

-----------------------------------------------------------------------------
(***************************************************************************)
(* main: exitProcedure is registered, then initProcedure.                  *)
(***************************************************************************)
Main(from, to) ==
  /\ Go(main, from, to)
  /\ UNCHANGED <<queueLock, appVars, countVars>>

MainLogs(from, to) ==
  /\ GoLogging(main, from, to)
  /\ UNCHANGED <<dataLock, queueLock, logVars, appVars, countVars>>

AtExitFails ==
  /\ Main("start", "exited")
  /\ UNCHANGED <<dataLock, logVars, objectVars, sigVars>>

LogInitialize ==
  /\ at[main] = "start" /\ Active(main)
  /\ at' = [at EXCEPT ![main] = "initialize", ![Code("logger")] = "loop"]
  /\ queueLock' = Free
  /\ isInitialized' = TRUE /\ runLogThread' = TRUE
  /\ UNCHANGED <<call, dataLock, queueEmpty, appVars, objectVars, countVars,
                 sigVars>>

\* It fails, and where pthread_create does keeps loggerDataLock; main does
\* not look at the result.
LogInitializeFails ==
  /\ Main("start", "initialize")
  /\ dataLock' \in {Free, main}
  /\ UNCHANGED <<logVars, objectVars, sigVars>>

SetAllHandlers ==
  /\ Main("initialize", "sweep")
  /\ Sig!SetAllHandlers(signalHandler)
  /\ UNCHANGED <<dataLock, logVars, objectVars>>

SweepOn ==
  /\ Main("sweep", "sweep")
  /\ Sig!Sweep \/ Sig!SweepContinues
  /\ UNCHANGED <<dataLock, logVars, objectVars>>

\* Mutant: initProcedure ignores what setAllHandlers returns.
SweepIgnored ==
  /\ Main("sweep", "pushWinch")
  /\ Sig!SweepSignalFails
  /\ UNCHANGED <<dataLock, logVars, objectVars>>

SweepFails ==
  /\ MainLogs("sweep", "exit")
  /\ Sig!SweepSignalFails
  /\ UNCHANGED objectVars

SweepEnds ==
  /\ Main("sweep", "pushWinch")
  /\ Sig!SweepEnds
  /\ UNCHANGED <<dataLock, logVars, objectVars>>

PushWinch ==
  /\ Main("pushWinch", "get")
  /\ Sig!PushHandler(SIGWINCH, SIG_IGN)
  /\ UNCHANGED <<dataLock, logVars, objectVars>>

PushWinchFails ==
  /\ MainLogs("pushWinch", "exit")
  /\ Sig!PushSignalFails(SIGWINCH, SIG_IGN)
  /\ UNCHANGED objectVars

\* std::bad_alloc is caught by the handler of main's function-try-block.
InitThrows ==
  /\ \/ Main("sweep", "exit") /\ Sig!SweepThrows
     \/ Main("pushWinch", "exit") /\ Sig!PushHandlerThrows(SIGWINCH, SIG_IGN)
  /\ UNCHANGED <<dataLock, logVars, objectVars>>

-----------------------------------------------------------------------------
(***************************************************************************)
(* Application::run on main, and the threads it starts and stops.          *)
(***************************************************************************)
MainRuns(from, to) ==
  /\ Main(from, to)
  /\ UNCHANGED <<dataLock, logVars, sigVars>>

Fails(from, to) ==
  /\ MainLogs(from, to)
  /\ UNCHANGED <<objectVars, sigVars>>

RunRejected ==
  /\ api = "null"
  /\ Fails("run", "exit")

\* There is no validator, or the thread cannot be created.
ApiStartFails ==
  /\ api # "null"
  /\ Fails("run", "startFailed")

\* setupApi logs, and so does start.
SetupFails ==
  \/ api = "alive" /\ Fails("run", "setupFailed")
  \/ Fails("setupFailed", "startFailed")

\* Once start has logged, run does.
StartFailed == Fails("startFailed", "exit")

Starts(t, from, to, place) ==
  /\ Active(main) /\ at[main] = from /\ call[main] = "none"
  /\ at' = [at EXCEPT ![main] = to, ![Code(t)] = place]
  /\ UNCHANGED <<call, dataLock, queueLock, logVars, appVars, countVars,
                 sigVars>>

ApiStart ==
  /\ api = "alive"
  /\ apiRunFlag' = TRUE
  /\ Starts("api", "run", "processorStart", "serving")
  /\ UNCHANGED <<api, processor, processorRunFlag>>

\* Mutant: run sets runApplication before its loop, as if it were the first.
ProcessorStartResets ==
  /\ Active(main) /\ at[main] = "processorStart" /\ call[main] = "none"
  /\ at' = [at EXCEPT ![main] = "mainLoop", ![Code("processor")] = "running"]
  /\ processorRunFlag' = TRUE /\ runApplication' = TRUE
  /\ UNCHANGED <<call, dataLock, queueLock, logVars, application,
                 stopRequested, api, processor, apiRunFlag, countVars, sigVars>>

ProcessorStart ==
  /\ processorRunFlag' = TRUE
  /\ Starts("processor", "processorStart", "mainLoop", "running")
  /\ UNCHANGED <<api, processor, apiRunFlag>>

\* run returns, and nobody stops the API thread.
ProcessorStartFails == Fails("processorStart", "startFailed")

LeaveMainLoop ==
  /\ ~runApplication
  /\ MainRuns("mainLoop", "joinProcessor")
  /\ processorRunFlag' = FALSE
  /\ UNCHANGED <<api, processor, apiRunFlag>>

JoinProcessor ==
  /\ at[Code("processor")] = "done"
  /\ MainRuns("joinProcessor", "stopApi")
  /\ processor' = "deleted"
  /\ UNCHANGED <<api, apiRunFlag, processorRunFlag>>

\* An exception of the service is logged, and main joins the thread all the
\* same.  The service is taken to have stopped.
StopApi ==
  /\ \/ MainRuns("stopApi", "joinApi")
     \/ MainLogs("stopApi", "joinApi") /\ UNCHANGED sigVars
  /\ apiRunFlag' = FALSE
  /\ UNCHANGED <<api, processor, processorRunFlag>>

\* Mutant: the API thread is not joined.
DeleteApiUnjoined ==
  /\ MainRuns("joinApi", "exit")
  /\ api' = "deleted"
  /\ UNCHANGED <<processor, apiRunFlag, processorRunFlag>>

JoinApi ==
  /\ at[Code("api")] = "done"
  /\ MainRuns("joinApi", "exit")
  /\ api' = "deleted"
  /\ UNCHANGED <<processor, apiRunFlag, processorRunFlag>>

ThreadEnds(t, place, flag) ==
  /\ ~flag
  /\ Go(Code(t), place, "done")
  /\ UNCHANGED <<dataLock, queueLock, logVars, appVars, objectVars, countVars,
                 sigVars>>

ThreadWorks ==
  UNCHANGED <<dataLock, queueLock, logVars, appVars, objectVars, sigVars>>

\* A POST is logged when it comes; the service may fail instead, which is too.
Request ==
  /\ Event
  /\ \/ GoLogging(Code("api"), "serving", "posting")
     \/ GoLogging(Code("api"), "serving", "serving")
  /\ UNCHANGED messages /\ ThreadWorks

PostRejected ==
  /\ GoLogging(Code("api"), "posting", "serving")
  /\ UNCHANGED countVars /\ ThreadWorks

PostQueued ==
  /\ Go(Code("api"), "posting", "serving")
  /\ messages' = messages + 1
  /\ UNCHANGED events /\ ThreadWorks

\* Mutant: getNextMessage does not test whether there is one.
TakeUnchecked ==
  /\ Go(Code("processor"), "running", "storing")
  /\ messages' = messages - 1
  /\ UNCHANGED events /\ ThreadWorks

\* The flag was read before, and may have been cleared meanwhile.
TakeMessage ==
  /\ messages > 0
  /\ Go(Code("processor"), "running", "storing")
  /\ messages' = messages - 1
  /\ UNCHANGED events /\ ThreadWorks

\* addRecord returns, or catches an exception and logs it.
StoreMessage ==
  /\ \/ Go(Code("processor"), "storing", "running")
     \/ GoLogging(Code("processor"), "storing", "running")
  /\ UNCHANGED countVars /\ ThreadWorks

-----------------------------------------------------------------------------
(***************************************************************************)
(* exit: ~Application, if there is one, then exitProcedure.                *)
(***************************************************************************)
DestroyApplication ==
  /\ Go(main, "exit", "logDestroy")
  /\ IF application = "ready"
       THEN /\ application' = "destroyed"
            /\ api' = IF api \in {"alive", "invalid"} THEN "deleted" ELSE api
       ELSE UNCHANGED <<application, api>>
  /\ UNCHANGED <<dataLock, queueLock, logVars, runApplication, stopRequested,
                 processor, apiRunFlag, processorRunFlag, countVars, sigVars>>

LogDestroyNothing ==
  /\ dataLock = Free /\ ~isInitialized
  /\ MainRuns("logDestroy", "exited")
  /\ UNCHANGED objectVars

MainDestroys(from, to) ==
  /\ Go(main, from, to)
  /\ UNCHANGED <<appVars, objectVars, countVars, sigVars>>

LogDestroy ==
  /\ dataLock = Free /\ isInitialized
  /\ MainDestroys("logDestroy", "stopLogThread")
  /\ dataLock' = main
  /\ runLogThread' = FALSE
  /\ UNCHANGED <<queueLock, isInitialized, queueEmpty>>

UnlockDestroy ==
  /\ MainDestroys("stopLogThread", "signalLogger")
  /\ dataLock' = Free
  /\ UNCHANGED <<queueLock, logVars>>

SignalLogger ==
  /\ at[main] = "signalLogger" /\ Active(main)
  /\ at' = [WakeLogger(at) EXCEPT ![main] = "joinLogger"]
  /\ UNCHANGED <<call, dataLock, queueLock, logVars, appVars, objectVars,
                 countVars, sigVars>>

\* Mutant: the mutex is destroyed without waiting for the thread.
DestroyQueueUnjoined ==
  /\ MainDestroys("joinLogger", "close")
  /\ queueLock' = IF queueLock = Free THEN Destroyed ELSE queueLock
  /\ UNCHANGED <<dataLock, logVars>>

JoinLogger ==
  /\ at[Code("logger")] = "done"
  /\ MainDestroys("joinLogger", "close")
  /\ queueLock' = IF queueLock = Free THEN Destroyed ELSE queueLock
  /\ UNCHANGED <<dataLock, logVars>>

\* The list is drained, the flag cleared without the lock, and the lock
\* released without being held.
Close ==
  /\ MainDestroys("close", "exited")
  /\ queueEmpty' = TRUE
  /\ isInitialized' = FALSE
  /\ dataLock' = Free
  /\ UNCHANGED <<queueLock, runLogThread>>

-----------------------------------------------------------------------------
Init ==
  /\ at = [f \in Frames |-> IF f = main THEN "start" ELSE "none"]
  /\ call = [f \in Frames |-> "none"]
  /\ dataLock = Free /\ queueLock = Destroyed
  /\ isInitialized = FALSE /\ runLogThread = FALSE /\ queueEmpty = TRUE
  /\ application = "none" /\ runApplication = FALSE /\ stopRequested = FALSE
  /\ api = "null" /\ processor = "null"
  /\ apiRunFlag = FALSE /\ processorRunFlag = FALSE
  /\ events = 0 /\ messages = 0
  /\ Sig!Init /\ disposition \in [Sig!Signals -> Inheritable]

InitProcedure ==
  \/ LogInitialize \/ LogInitializeFails
  \/ SetAllHandlers \/ SweepOn \/ SweepFails \/ SweepEnds
  \/ PushWinch \/ PushWinchFails \/ InitThrows

Run ==
  \/ RunRejected \/ ApiStart \/ ApiStartFails \/ SetupFails
  \/ ProcessorStart \/ ProcessorStartFails \/ StartFailed
  \/ LeaveMainLoop \/ JoinProcessor \/ StopApi \/ JoinApi

ExitProcess ==
  \/ DestroyApplication \/ LogDestroyNothing \/ LogDestroy \/ UnlockDestroy
  \/ SignalLogger \/ JoinLogger \/ Close

MainStep ==
  \/ AtExitFails \/ InitProcedure \/ Get(main, "get", "run")
  \/ Run \/ ExitProcess \/ LogCall(main) \/ HandlerStep("main")

ApiStep ==
  \/ ThreadEnds("api", "serving", apiRunFlag) \/ PostRejected \/ PostQueued
  \/ LogCall(Code("api")) \/ HandlerStep("api")

ProcessorStep ==
  \/ ThreadEnds("processor", "running", processorRunFlag)
  \/ TakeMessage \/ StoreMessage
  \/ LogCall(Code("processor")) \/ HandlerStep("processor")

LoggerStep ==
  \/ LoggerLoop \/ PopMessage
  \/ LogCall(Code("logger")) \/ HandlerStep("logger")

Delivery == \E t \in Threads, s \in Sig!Signals : Killed(t, s) \/ Handled(t, s)

Next ==
  MainStep \/ ApiStep \/ ProcessorStep \/ LoggerStep \/ Request \/ Delivery

Spec == Init /\ [][Next]_vars

TakesLast == PopMessage /\ queueEmpty'

\* Threads that can run do, and the logger thread that takes message after
\* message takes the last one; no event is owed.
Fairness ==
  /\ WF_vars(MainStep) /\ WF_vars(ApiStep)
  /\ WF_vars(ProcessorStep) /\ WF_vars(LoggerStep)
  /\ SF_vars(TakesLast)

FairSpec == Spec /\ Fairness

-----------------------------------------------------------------------------
(***************************************************************************)
(* Properties.                                                             *)
(***************************************************************************)
\* In the constructor of Application.
Building == {"construct", "schemaFailed", "constructFailed"}

InitPlaces ==
  {"start", "initialize", "sweep", "pushWinch", "get"} \cup Building

RunPlaces == {"run", "setupFailed", "startFailed", "processorStart", "mainLoop",
              "joinProcessor", "stopApi", "joinApi"}

ExitPlaces == {"exit", "logDestroy", "stopLogThread", "signalLogger",
               "joinLogger", "close", "exited"}

HandlerPlaces == {"none", "received", "stopping"} \cup Building

ApiPlaces == {"none", "serving", "posting", "done", "killed"}

ProcessorPlaces == {"none", "running", "storing", "done", "killed"}

LoggerPlaces == {"none", "loop", "waiting", "woken", "done", "killed"}

Places == InitPlaces \cup RunPlaces \cup ExitPlaces \cup HandlerPlaces
            \cup ApiPlaces \cup ProcessorPlaces \cup LoggerPlaces

\* Where each frame can be.
PlacesOK ==
  /\ at \in [Frames -> Places]
  /\ \A t \in Threads : at[Handler(t)] \in HandlerPlaces
  /\ at[main] \in InitPlaces \cup RunPlaces \cup ExitPlaces \cup {"killed"}
  /\ at[Code("api")] \in ApiPlaces
  /\ at[Code("processor")] \in ProcessorPlaces
  /\ at[Code("logger")] \in LoggerPlaces
  /\ call \in [Frames -> {"none", "wantData", "data", "wantQueue", "queue"}]

\* The variables have their types.
TypeOK ==
  /\ PlacesOK
  /\ dataLock \in Frames \cup {Free}
  /\ queueLock \in Frames \cup {Free, Destroyed}
  /\ isInitialized \in BOOLEAN /\ runLogThread \in BOOLEAN
  /\ queueEmpty \in BOOLEAN
  /\ application \in {"none", "constructing", "ready", "destroyed"}
  /\ runApplication \in BOOLEAN /\ stopRequested \in BOOLEAN
  /\ api \in {"null", "invalid", "alive", "deleted"}
  /\ processor \in {"null", "alive", "deleted"}
  /\ apiRunFlag \in BOOLEAN /\ processorRunFlag \in BOOLEAN
  /\ events \in 0 .. MaxEvents
  /\ messages \in Nat
  /\ Sig!TypeOK

\* A signal that asked for the end, however early it came and on whatever
\* thread, is not forgotten: the application it stopped never runs again.  The
\* handler may be the one to build the Application.
StopIsNotForgotten == stopRequested => ~runApplication

\* processor->start failed: its thread is none and the object stays.
ProcessorNeverRan ==
  at[Code("processor")] = "none" /\ processor = "alive"

\* No thread works on an object that main has deleted, except for the API
\* thread that run leaves behind when processor->start fails: then
\* ~Application deletes the API under it.
ObjectsOutliveThreads ==
  /\ at[Code("processor")] \in {"running", "storing"}
       => processor = "alive" /\ api = "alive"
  /\ at[Code("api")] \in {"serving", "posting"}
       => api = "alive" \/ ProcessorNeverRan

\* When logDestroy_f takes the logger apart nobody is left to log, neither a
\* thread nor a handler on one, but for main itself and the API thread left
\* behind: what Logger assumes of its callers where CallersAtExit is FALSE.
LoggerOutlivesCallers ==
  at[main] = "close" =>
    \A t \in Threads \ {"main"} :
      \/ at[Code(t)] \in {"none", "done"} /\ at[Handler(t)] = "none"
      \/ t = "api" /\ ProcessorNeverRan

\* One frame builds the Application, which nobody gets to see before the
\* constructor is through, with all that it logs.
BuiltOnce ==
  /\ \A f \in Frames : at[f] \in Building => application = "constructing"
  /\ \A f, g \in Frames : at[f] \in Building /\ at[g] \in Building => f = g
  /\ \A f \in Frames :
       at[f] = "stopping" => application \in {"ready", "destroyed"}
  /\ stopRequested => application \in {"ready", "destroyed"}
  /\ application \in {"none", "constructing"}
       => /\ api = "null" /\ processor = "null"
          /\ at[Code("api")] \in {"none", "killed"}
          /\ at[Code("processor")] \in {"none", "killed"}

\* A handler runs on a thread that has started and not ended, and the logger
\* thread calls nothing before and after.
OnLiveThreads ==
  /\ \A t \in Threads : at[Handler(t)] # "none"
       => at[Code(t)] \notin {"none", "done", "exited", "killed"}
  /\ call[Code("logger")] # "none" => at[Code("logger")] \in {"loop", "woken"}

\* How far the threads and objects are at each place of main.
StartAndStop ==
  /\ at[main] \in InitPlaces \cup {"run", "setupFailed"}
       => at[Code("api")] = "none" /\ at[Code("processor")] = "none"
  /\ at[main] \in RunPlaces => application = "ready"
  /\ application = "destroyed" => at[main] \in ExitPlaces \cup {"killed"}
  /\ at[main] \in InitPlaces \cup {"run", "setupFailed"} /\ api = "alive"
       => processor = "alive"
  /\ at[main] = "processorStart" => api = "alive" /\ ProcessorNeverRan
  /\ at[main] \in {"mainLoop", "joinProcessor"}
       => /\ api = "alive" /\ processor = "alive"
          /\ at[Code("processor")] \in {"running", "storing", "done"}
  /\ at[main] \in {"stopApi", "joinApi"}
       => api = "alive" /\ at[Code("processor")] = "done"
  /\ at[main] \in ExitPlaces \cup {"startFailed"}
       => /\ at[Code("processor")] \in {"none", "done"}
          /\ at[Code("api")] \in {"none", "done"} \/ ProcessorNeverRan
  /\ at[main] = "close" => at[Code("logger")] = "done"
  /\ at[main] = "killed" => \A t \in Threads : at[Code(t)] = "killed"

\* The inductive invariant behind the three properties above.
IInv == PlacesOK /\ StopIsNotForgotten /\ BuiltOnce /\ OnLiveThreads
          /\ StartAndStop

Over == at[main] \in {"exited", "killed"}

\* As long as the process runs, a frame that is between lock and unlock of one
\* of the logger's mutexes holds it, and a mutex is held by such a frame: no
\* call, no handler on top of one and no thread that ends leaves one locked.
\* Only main holds loggerDataLock elsewhere, in logDestroy_f and for good when
\* logInitialize_f failed to start the thread.
LockDiscipline ==
  ~Over =>
    \A f \in Frames :
      /\ call[f] = "data" => dataLock = f
      /\ dataLock = f => \/ call[f] = "data"
                         \/ f = main /\ at[main] = "stopLogThread"
                         \/ f = main /\ ~isInitialized
      /\ queueLock = f <=> call[f] = "queue"

\* Where main is from initProcedure to the end of run.
InstalledPlaces == {"get"} \cup Building \cup RunPlaces

\* After initProcedure each signal that setAllHandlers covers stops the
\* application in order, and a change of the window size is ignored: what can
\* still kill the process is a signal that no program can handle, or one whose
\* number is beyond the loop.
HandlersInstalled ==
  at[main] \in InstalledPlaces
    => \A s \in Sig!Signals :
         disposition[s] = IF s = SIGWINCH THEN SIG_IGN ELSE signalHandler

\* To libsignalhandler the process is a program that calls it from one thread,
\* a call at a time, whatever its handlers do meanwhile: what SignalHandler
\* assumes of its users, so that what holds there holds here.
UsesSignalHandler == Sig!Spec

\* A thread waits for itself: its handler, or main after a failed
\* logInitialize_f, wants a mutex that its own code holds, or the Application
\* that its own code is building.
WaitsForItself(t) ==
  LET c == Code(t) h == Handler(t) IN
  \/ call[h] = "wantData" /\ dataLock = c
  \/ call[h] = "wantQueue" /\ queueLock = c
  \/ at[h] = "received" /\ call[h] = "none" /\ at[c] \in Building
  \/ call[c] = "wantData" /\ dataLock = c

\* Frame f has no next step of its own: a handler suspends it, it wants a mutex
\* that is held or an Application that is under construction, its thread is
\* not running or idle, or it waits for another thread to end.
AtRest(f) ==
  \/ at[f] \in {"none", "waiting", "done", "exited", "killed"}
  \/ at[f] = "mainLoop" /\ runApplication
  \/ at[f] = "serving" /\ apiRunFlag
  \/ at[f] = "running" /\ processorRunFlag /\ messages = 0

Joins(f) ==
  \/ at[f] = "joinProcessor" /\ at[Code("processor")] # "done"
  \/ at[f] = "joinApi" /\ at[Code("api")] # "done"
  \/ at[f] = "joinLogger" /\ at[Code("logger")] # "done"

Waits(f) ==
  \/ ~Active(f)
  \/ call[f] = "wantData" /\ dataLock # Free
  \/ call[f] = "wantQueue" /\ queueLock \in Frames
  \/ /\ call[f] = "none"
     /\ \/ at[f] \in {"received", "get"} /\ application = "constructing"
        \/ at[f] = "logDestroy" /\ dataLock # Free
        \/ AtRest(f) \/ Joins(f)

\* The application runs and no signal is being handled or was.
Serving ==
  /\ at[main] = "mainLoop" /\ ~stopRequested
  /\ \A t \in Threads : at[Handler(t)] = "none"

\* logDestroy_f signalled between the logger's test of the flag and its wait.
StopMissed ==
  at[main] = "joinLogger" /\ at[Code("logger")] = "waiting" /\ ~runLogThread

\* logDestroy_f at the mutex that logInitialize_f kept.
DestroyLockedOut == at[main] = "logDestroy" /\ dataLock = main

\* However many signals interrupt the threads, handlers on different threads
\* never lock one another out: when no frame can go on the application serves
\* or the process is over, or some thread waits for itself, or logDestroy_f
\* hangs in one of its own two ways.
OnlySelfDeadlocks ==
  (\A f \in Frames : Waits(f))
    => \/ Over \/ Serving
       \/ \E t \in Threads : WaitsForItself(t)
       \/ StopMissed \/ DestroyLockedOut

Stopped == application \in {"ready", "destroyed"} /\ ~runApplication

\* A handled signal stops the application unless it interrupted a thread in
\* the logger or in the constructor, which then waits for itself for ever.
SignalStopsUnlessStuck ==
  (\E t \in Threads : at[Handler(t)] = "received")
    ~> Stopped \/ Over \/ \E u \in Threads : WaitsForItself(u)

\* main.cpp, line 39, calls signalHandler the application termination handler
\* and line 15 logs the termination signal it received.  Violated, even where
\* the logger works: the handler waits for the mutex of the log call that it
\* interrupted, or for the Application that it interrupted the making of.
SignalStops ==
  (isInitialized /\ \E t \in Threads : at[Handler(t)] = "received")
    ~> Stopped \/ Over
=============================================================================
