-------------------------- MODULE LifecycleProofs --------------------------
(***************************************************************************)
(* The invariant IInv of Lifecycle is inductive, whatever the signals and  *)
(* their number: early signals are not forgotten, and no thread or handler *)
(* outlives what it works on, except where run leaves the API thread       *)
(* behind.  HandlersInv, which carries setAllHandlers to its end, is       *)
(* inductive with it, and so are LocksInv, PlaceInv and HolderInv, from    *)
(* which it follows that handlers on different threads never lock one      *)
(* another out.                                                            *)
(***************************************************************************)
EXTENDS Lifecycle, TLAPS

\* IInv holds when the process starts.
LEMMA InitInv == Init => IInv
  <1> SUFFICES ASSUME Init PROVE IInv
    OBVIOUS
  <1> QED
    BY DEF Init, IInv, PlacesOK, Places, HandlerPlaces, ApiPlaces,
              ProcessorPlaces, LoggerPlaces, Building,
           StopIsNotForgotten, BuiltOnce, OnLiveThreads, StartAndStop,
           ProcessorNeverRan, Frames, Threads, Code, Handler, main,
           InitPlaces, RunPlaces, ExitPlaces

\* A step of a log call, on any frame, keeps IInv.
LEMMA LogCallPreserves ==
  ASSUME IInv, NEW f \in Frames, LogCall(f)
  PROVE  IInv'
  <1> USE DEF IInv, PlacesOK, Places, HandlerPlaces, ApiPlaces,
              ProcessorPlaces, LoggerPlaces, Building,
              StopIsNotForgotten, BuiltOnce, OnLiveThreads, StartAndStop,
              ProcessorNeverRan, Frames, Threads, Code, Handler, main,
              InitPlaces, RunPlaces, ExitPlaces, Active, appVars, objectVars
  <1>1. CASE LockLoggerData(f)
    BY <1>1 DEF LockLoggerData, Calling
  <1>2. CASE UnlockLoggerData(f)
    <2>1. PlacesOK'
      BY <1>2 DEF UnlockLoggerData, Calling
    <2>2. StopIsNotForgotten'
      BY <1>2 DEF UnlockLoggerData, Calling
    <2>3. BuiltOnce'
      BY <1>2 DEF UnlockLoggerData, Calling
    <2>4. OnLiveThreads'
      <3>1. CASE f = Code("logger")
        <4>1. \A u \in Threads \ {"logger"} : at'[Code(u)] = at[Code(u)]
          BY <1>2, <3>1 DEF UnlockLoggerData, Calling
        <4>2. \/ at'[Code("logger")] = "done" /\ call'[Code("logger")] = "none"
              \/ at'[Code("logger")] = at[Code("logger")]
          BY <1>2, <3>1 DEF UnlockLoggerData, Calling
        <4>3. \A u \in Threads : at'[Handler(u)] = at[Handler(u)]
          BY <1>2, <3>1 DEF UnlockLoggerData, Calling
        <4>4. at[Code("logger")] \in {"loop", "woken"}
              /\ at[Handler("logger")] = "none"
          BY <1>2, <3>1 DEF UnlockLoggerData, Calling
        <4> QED
          BY <4>1, <4>2, <4>3, <4>4
      <3>2. CASE f # Code("logger")
        BY <1>2, <3>2 DEF UnlockLoggerData, Calling
      <3> QED
        BY <3>1, <3>2
    <2>5. StartAndStop'
      <3>1. CASE f = Code("logger")
        <4>1. \A u \in Threads \ {"logger"} : at'[Code(u)] = at[Code(u)]
          BY <1>2, <3>1 DEF UnlockLoggerData, Calling
        <4>2. \/ at'[Code("logger")] = "done" /\ call'[Code("logger")] = "none"
              \/ at'[Code("logger")] = at[Code("logger")]
          BY <1>2, <3>1 DEF UnlockLoggerData, Calling
        <4>3. UNCHANGED <<application, api, processor>>
          BY <1>2, <3>1 DEF UnlockLoggerData, Calling
        <4>4. at[Code("logger")] \in {"loop", "woken"}
              /\ at[Handler("logger")] = "none"
          BY <1>2, <3>1 DEF UnlockLoggerData, Calling
        <4> QED
          BY <4>1, <4>2, <4>3, <4>4
      <3>2. CASE f # Code("logger")
        BY <1>2, <3>2 DEF UnlockLoggerData, Calling
      <3> QED
        BY <3>1, <3>2
    <2> QED
      BY <2>1, <2>2, <2>3, <2>4, <2>5
  <1>3. CASE LockLoggerQueue(f)
    BY <1>3 DEF LockLoggerQueue, Calling
  <1>4. CASE LockLoggerQueueFails(f)
    BY <1>4 DEF LockLoggerQueueFails, Calling
  <1>5. CASE Enqueue(f)
    BY <1>5 DEF Enqueue, Calling, WakeLogger
  <1> QED
    BY <1>1, <1>2, <1>3, <1>4, <1>5 DEF LogCall

\* Application::get keeps IInv on main and in a handler.
LEMMA GetPreserves ==
  ASSUME IInv,
         NEW f \in Frames, NEW from, NEW to, Get(f, from, to),
         \/ f = main /\ to = "run" /\ from = "get"
         \/ \E t \in Threads : f = Handler(t) /\ to = "stopping"
                               /\ from = "received"
  PROVE  IInv'
  <1> USE DEF IInv, PlacesOK, Places, HandlerPlaces, ApiPlaces,
              ProcessorPlaces, LoggerPlaces, Building,
              StopIsNotForgotten, BuiltOnce, OnLiveThreads, StartAndStop,
              ProcessorNeverRan, Frames, Threads, Code, Handler, main,
              InitPlaces, RunPlaces, ExitPlaces, Active, appVars, objectVars
  <1>1. \/ f = main /\ to = "run" /\ from = "get"
        \/ \E t \in Threads : f = Handler(t) /\ to = "stopping"
                              /\ from = "received"
    OBVIOUS
  <1>2. CASE GetFinds(f, from, to)
    <2>1. PlacesOK'
      BY <1>2, <1>1 DEF GetFinds, GoLogging
    <2>2. StopIsNotForgotten'
      BY <1>2, <1>1 DEF GetFinds, GoLogging
    <2>3. BuiltOnce'
      BY <1>2, <1>1 DEF GetFinds, GoLogging
    <2>4. OnLiveThreads'
      <3>1. CASE f = main
        BY <1>2, <1>1, <3>1 DEF GetFinds, GoLogging
      <3>2. CASE f # main
        <4>1. \A u \in Threads : at'[Code(u)] = at[Code(u)]
          BY <1>2, <1>1, <3>2 DEF GetFinds, GoLogging
        <4>2. /\ call'[Code("logger")] = call[Code("logger")]
              /\ \A u \in Threads :
                   at'[Handler(u)] # "none" => at[Handler(u)] # "none"
          BY <1>2, <1>1, <3>2 DEF GetFinds, GoLogging
        <4> QED
          BY <4>1, <4>2
      <3> QED
        BY <3>1, <3>2
    <2>5. StartAndStop'
      <3>1. CASE f = main
        <4>1. to = "run" /\ at[main] = "get" /\ at[main] \in InitPlaces
          BY <1>1, <1>2, <3>1 DEF GetFinds, Go, GoLogging
        <4>2. application = "ready" /\ UNCHANGED <<application, api, processor>>
          BY <1>1, <1>2, <3>1, <4>1 DEF GetFinds, GoLogging
        <4>3. at'[main] = "run" /\ \A u \in Threads \ {"main"} :
                                     at'[Code(u)] = at[Code(u)]
          BY <1>2, <3>1, <4>1 DEF GetFinds, GoLogging
        <4>4. api = "alive" => processor = "alive"
          BY <1>2, <3>1, <4>1 DEF GetFinds, GoLogging
        <4> HIDE DEF BuiltOnce, OnLiveThreads, StopIsNotForgotten, Active
        <4> QED
          BY <4>1, <4>2, <4>3, <4>4
      <3>2. CASE f # main
        <4>1. \A u \in Threads : at'[Code(u)] = at[Code(u)]
          BY <1>2, <1>1, <3>2 DEF GetFinds, GoLogging
        <4>2. UNCHANGED <<application, api, processor>>
          BY <1>2, <1>1, <3>2 DEF GetFinds, GoLogging
        <4> QED
          BY <4>1, <4>2
      <3> QED
        BY <3>1, <3>2
    <2> QED
      BY <2>1, <2>2, <2>3, <2>4, <2>5
  <1>3. CASE GetBuilds(f, from)
    <2>1. PlacesOK'
      BY <1>3, <1>1 DEF GetBuilds, Go
    <2>2. StopIsNotForgotten'
      BY <1>3, <1>1 DEF GetBuilds, Go
    <2>3. BuiltOnce'
      BY <1>3, <1>1 DEF GetBuilds, Go
    <2>4. OnLiveThreads'
      <3>1. CASE f = main
        BY <1>3, <3>1 DEF GetBuilds, Go
      <3>2. CASE f # main
        <4>1. \A u \in Threads : at'[Code(u)] = at[Code(u)]
          BY <1>3, <1>1, <3>2 DEF GetBuilds, Go
        <4>2. /\ call'[Code("logger")] = call[Code("logger")]
              /\ \A u \in Threads :
                   at'[Handler(u)] # "none" => at[Handler(u)] # "none"
          BY <1>3, <1>1, <3>2 DEF GetBuilds, Go
        <4> QED
          BY <4>1, <4>2
      <3> QED
        BY <3>1, <3>2
    <2>5. StartAndStop'
      <3>1. CASE f = main
        <4>1. at[main] = "get" /\ at'[main] = "construct"
          BY <1>1, <1>3, <3>1 DEF GetBuilds, Go
        <4>2. \A u \in Threads \ {"main"} : at'[Code(u)] = at[Code(u)]
          BY <1>3, <3>1 DEF GetBuilds, Go
        <4>3. application' = "constructing" /\ UNCHANGED <<api, processor>>
          BY <1>3 DEF GetBuilds
        <4> QED
          BY <4>1, <4>2, <4>3
      <3>2. CASE f # main
        <4>1. \A u \in Threads : at'[Code(u)] = at[Code(u)]
          BY <1>3, <1>1, <3>2 DEF GetBuilds, Go
        <4>2. /\ application = "none" /\ application' = "constructing"
              /\ UNCHANGED <<api, processor>>
          BY <1>3 DEF GetBuilds
        <4> QED
          BY <4>1, <4>2
      <3> QED
        BY <3>1, <3>2
    <2> QED
      BY <2>1, <2>2, <2>3, <2>4, <2>5
  <1>4. CASE SchemaFails(f) \/ ConstructFails(f)
    <2>1. PICK place \in Building :
            /\ at[f] \in Building /\ at' = [at EXCEPT ![f] = place]
            /\ call' = [call EXCEPT ![f] = "wantData"]
            /\ UNCHANGED <<application, runApplication, stopRequested, api,
                           processor>>
      BY <1>4 DEF SchemaFails, ConstructFails, GoLogging
    <2>2. PlacesOK'
      BY <1>1, <2>1
    <2>3. StopIsNotForgotten'
      BY <2>1
    <2>4. BuiltOnce'
      BY <1>1, <2>1
    <2>5. OnLiveThreads' /\ StartAndStop'
      <3>1. CASE f = main
        BY <2>1, <3>1
      <3>2. CASE f # main
        <4>1. \A u \in Threads : at'[Code(u)] = at[Code(u)]
          BY <1>1, <2>1, <3>2
        <4>2. /\ call'[Code("logger")] = call[Code("logger")]
              /\ \A u \in Threads :
                   at'[Handler(u)] # "none" => at[Handler(u)] # "none"
          BY <1>1, <2>1, <3>2
        <4> QED
          BY <2>1, <4>1, <4>2
      <3> QED
        BY <3>1, <3>2
    <2> QED
      BY <2>2, <2>3, <2>4, <2>5
  <1>5. CASE Constructed(f, to)
    <2>1. /\ at[f] \in Building /\ at' = [at EXCEPT ![f] = to]
          /\ call' = [call EXCEPT ![f] = "wantData"]
          /\ application' = "ready" /\ UNCHANGED stopRequested
      BY <1>5 DEF Constructed, Initialized, GoLogging
    <2>2. \/ UNCHANGED <<api, processor>>
          \/ api' \in {"alive", "invalid"} /\ processor' = "alive"
      BY <1>5 DEF Constructed
    <2>3. application = "constructing" /\ ~stopRequested
      BY <2>1
    <2>4. PlacesOK'
      BY <1>1, <2>1
    <2>5. StopIsNotForgotten'
      BY <2>1, <2>3
    <2>6. BuiltOnce'
      BY <1>1, <2>1, <2>3
    <2>7. OnLiveThreads' /\ StartAndStop'
      <3>1. CASE f = main
        BY <1>1, <2>1, <2>2, <2>3, <3>1
      <3>2. CASE f # main
        <4>1. \A u \in Threads : at'[Code(u)] = at[Code(u)]
          BY <1>1, <2>1, <3>2
        <4>2. /\ call'[Code("logger")] = call[Code("logger")]
              /\ \A u \in Threads :
                   at'[Handler(u)] # "none" => at[Handler(u)] # "none"
          BY <1>1, <2>1, <3>2
        <4> QED
          BY <2>1, <2>2, <2>3, <4>1, <4>2
      <3> QED
        BY <3>1, <3>2
    <2> QED
      BY <2>4, <2>5, <2>6, <2>7
  <1> QED
    BY <1>2, <1>3, <1>4, <1>5 DEF Get

\* So does a signal that arrives.
LEMMA DeliveryPreserves ==
  ASSUME IInv, Delivery
  PROVE  IInv'
  <1> USE DEF IInv, PlacesOK, Places, HandlerPlaces, ApiPlaces,
              ProcessorPlaces, LoggerPlaces, Building,
              StopIsNotForgotten, BuiltOnce, OnLiveThreads, StartAndStop,
              ProcessorNeverRan, Frames, Threads, Code, Handler, main,
              InitPlaces, RunPlaces, ExitPlaces, Active, appVars, objectVars
  <1>1. PICK t \in Threads, s \in Sig!Signals : Killed(t, s) \/ Handled(t, s)
    BY DEF Delivery
  <1>2. CASE Killed(t, s)
    BY <1>2 DEF Killed, Arrives, Alive
  <1>3. CASE Handled(t, s)
    <2>1. PlacesOK'
      BY <1>3 DEF Handled, Arrives, Alive, GoLogging
    <2>2. StopIsNotForgotten'
      BY <1>3 DEF Handled, Arrives, Alive, GoLogging
    <2>3. BuiltOnce'
      BY <1>3 DEF Handled, Arrives, Alive, GoLogging
    <2>4. OnLiveThreads'
      <3>1. \A u \in Threads : at'[Code(u)] = at[Code(u)]
        BY <1>3 DEF Handled, Arrives, Alive, GoLogging
      <3>2. \A u \in Threads : u = t \/ at'[Handler(u)] = at[Handler(u)]
        BY <1>3 DEF Handled, Arrives, Alive, GoLogging
      <3>3. at[Code(t)] \notin {"none", "done", "exited", "killed"}
        BY <1>3 DEF Handled, Arrives, Alive
      <3>4. call'[Code("logger")] = call[Code("logger")]
        BY <1>3 DEF Handled, Arrives, Alive, GoLogging
      <3> HIDE DEF BuiltOnce, StartAndStop, StopIsNotForgotten, Active
      <3> QED
        BY <3>1, <3>2, <3>3, <3>4
    <2>5. StartAndStop'
      BY <1>3 DEF Handled, Arrives, Alive, GoLogging
    <2> QED
      BY <2>1, <2>2, <2>3, <2>4, <2>5
  <1> QED
    BY <1>1, <1>2, <1>3

\* Main up to the Application keeps IInv.
LEMMA InitProcedurePreserves ==
  ASSUME IInv, AtExitFails \/ InitProcedure
  PROVE  IInv'
  <1> USE DEF IInv, PlacesOK, Places, HandlerPlaces, ApiPlaces,
              ProcessorPlaces, LoggerPlaces, Building,
              StopIsNotForgotten, BuiltOnce, OnLiveThreads, StartAndStop,
              ProcessorNeverRan, Frames, Threads, Code, Handler, main,
              InitPlaces, RunPlaces, ExitPlaces, Active, appVars, objectVars
  <1>1. CASE AtExitFails
    BY <1>1 DEF AtExitFails, Main, Go
  <1>2. CASE LogInitialize
    <2>1. PlacesOK'
      BY <1>2 DEF LogInitialize
    <2>2. StopIsNotForgotten'
      BY <1>2 DEF LogInitialize
    <2>3. BuiltOnce'
      <3>1. \A f \in Frames : at'[f] = at[f]
               \/ at'[f] \notin Building \cup {"stopping"}
        BY <1>2 DEF LogInitialize
      <3>2. application \notin {"none", "constructing"}
              \/ (at'[Code("api")] = at[Code("api")]
                  /\ at'[Code("processor")] = at[Code("processor")])
        BY <1>2 DEF LogInitialize
      <3>3. UNCHANGED <<application, api, processor, stopRequested>>
        BY <1>2 DEF LogInitialize
      <3> QED
        BY <3>1, <3>2, <3>3
    <2>4. OnLiveThreads'
      BY <1>2 DEF LogInitialize
    <2>5. StartAndStop'
      BY <1>2 DEF LogInitialize
    <2> QED
      BY <2>1, <2>2, <2>3, <2>4, <2>5
  <1>3. CASE LogInitializeFails
    BY <1>3 DEF LogInitializeFails, Main, Go
  <1>4. CASE SetAllHandlers
    BY <1>4 DEF SetAllHandlers, Main, Go
  <1>5. CASE SweepOn
    BY <1>5 DEF SweepOn, Main, Go
  <1>6. CASE SweepFails
    BY <1>6 DEF SweepFails, MainLogs, GoLogging
  <1>7. CASE SweepEnds
    BY <1>7 DEF SweepEnds, Main, Go
  <1>8. CASE PushWinch
    BY <1>8 DEF PushWinch, Main, Go
  <1>9. CASE PushWinchFails
    BY <1>9 DEF PushWinchFails, MainLogs, GoLogging
  <1>10. CASE InitThrows
    <2>1. at' = [at EXCEPT ![main] = "exit"] /\ at[main] \in InitPlaces
      BY <1>10 DEF InitThrows, Main, Go
    <2>2. Active(main) /\ UNCHANGED <<call, appVars, objectVars>>
      BY <1>10 DEF InitThrows, Main, Go
    <2> QED
      BY <2>1, <2>2
  <1> QED
    BY <1>1, <1>2, <1>3, <1>4, <1>5, <1>6, <1>7, <1>8, <1>9, <1>10 DEF InitProcedure

\* Application::run keeps IInv.
LEMMA RunPreserves ==
  ASSUME IInv, Run
  PROVE  IInv'
  <1> USE DEF IInv, PlacesOK, Places, HandlerPlaces, ApiPlaces,
              ProcessorPlaces, LoggerPlaces, Building,
              StopIsNotForgotten, BuiltOnce, OnLiveThreads, StartAndStop,
              ProcessorNeverRan, Frames, Threads, Code, Handler, main,
              InitPlaces, RunPlaces, ExitPlaces, Active, appVars, objectVars
  <1>1. CASE ApiStart
    <2>1. PlacesOK'
      BY <1>1 DEF ApiStart, Starts
    <2>2. StopIsNotForgotten'
      BY <1>1 DEF ApiStart, Starts
    <2>3. BuiltOnce'
      <3>1. \A f \in Frames : at'[f] = at[f]
               \/ at'[f] \notin Building \cup {"stopping"}
        BY <1>1 DEF ApiStart, Starts
      <3>2. application \notin {"none", "constructing"}
        BY <1>1 DEF ApiStart, Starts
      <3>3. UNCHANGED <<application, api, processor, stopRequested>>
        BY <1>1 DEF ApiStart, Starts
      <3> QED
        BY <3>1, <3>2, <3>3
    <2>4. OnLiveThreads'
      BY <1>1 DEF ApiStart, Starts
    <2>5. StartAndStop'
      BY <1>1 DEF ApiStart, Starts
    <2> QED
      BY <2>1, <2>2, <2>3, <2>4, <2>5
  <1>2. CASE \/ RunRejected \/ ApiStartFails \/ SetupFails
             \/ ProcessorStartFails \/ StartFailed
    <2>1. PICK place \in {"setupFailed", "startFailed", "exit"} :
            /\ at' = [at EXCEPT ![main] = place]
            /\ call' = [call EXCEPT ![main] = "wantData"]
            /\ UNCHANGED <<application, runApplication, stopRequested, api,
                           processor>>
            /\ \/ at[main] = "run"
               \/ at[main] = "setupFailed" /\ place = "startFailed"
               \/ at[main] = "processorStart" /\ place = "startFailed"
               \/ at[main] = "startFailed" /\ place = "exit"
      BY <1>2 DEF RunRejected, ApiStartFails, SetupFails, ProcessorStartFails,
                  StartFailed, Fails, MainLogs, GoLogging
    <2>2. PlacesOK'
      BY <2>1
    <2>3. StopIsNotForgotten' /\ BuiltOnce'
      BY <2>1
    <2>4. OnLiveThreads'
      BY <2>1
    <2>5. StartAndStop'
      <3>1. /\ at'[main] = place
            /\ \A t \in Threads \ {"main"} : at'[Code(t)] = at[Code(t)]
        BY <2>1
      <3> HIDE DEF BuiltOnce, OnLiveThreads, StopIsNotForgotten, Active
      <3> QED
        BY <2>1, <3>1
    <2> QED
      BY <2>2, <2>3, <2>4, <2>5
  <1>3. CASE ProcessorStart
    <2>1. PlacesOK'
      BY <1>3 DEF ProcessorStart, Starts
    <2>2. StopIsNotForgotten'
      BY <1>3 DEF ProcessorStart, Starts
    <2>3. BuiltOnce'
      <3>1. \A f \in Frames : at'[f] = at[f]
               \/ at'[f] \notin Building \cup {"stopping"}
        BY <1>3 DEF ProcessorStart, Starts
      <3>2. application \notin {"none", "constructing"}
              \/ (at'[Code("api")] = at[Code("api")]
                  /\ at'[Code("processor")] = at[Code("processor")])
        BY <1>3 DEF ProcessorStart, Starts
      <3>3. UNCHANGED <<application, api, processor, stopRequested>>
        BY <1>3 DEF ProcessorStart, Starts
      <3> QED
        BY <3>1, <3>2, <3>3
    <2>4. OnLiveThreads'
      BY <1>3 DEF ProcessorStart, Starts
    <2>5. StartAndStop'
      BY <1>3 DEF ProcessorStart, Starts
    <2> QED
      BY <2>1, <2>2, <2>3, <2>4, <2>5
  <1>4. CASE LeaveMainLoop
    BY <1>4 DEF LeaveMainLoop, MainRuns, Main, Go
  <1>5. CASE JoinProcessor
    BY <1>5 DEF JoinProcessor, MainRuns, Main, Go
  <1>6. CASE StopApi
    <2>1. /\ at[main] = "stopApi" /\ at' = [at EXCEPT ![main] = "joinApi"]
          /\ call' \in {call, [call EXCEPT ![main] = "wantData"]}
          /\ UNCHANGED <<application, runApplication, stopRequested, api,
                         processor>>
      BY <1>6 DEF StopApi, MainRuns, Main, MainLogs, Go, GoLogging
    <2>2. PlacesOK'
      BY <2>1
    <2>3. StopIsNotForgotten' /\ BuiltOnce'
      BY <2>1
    <2>4. OnLiveThreads' /\ StartAndStop'
      BY <2>1
    <2> QED
      BY <2>2, <2>3, <2>4
  <1>7. CASE JoinApi
    BY <1>7 DEF JoinApi, MainRuns, Main, Go
  <1> QED
    BY <1>1, <1>2, <1>3, <1>4, <1>5, <1>6, <1>7 DEF Run

\* exit keeps IInv.
LEMMA ExitProcessPreserves ==
  ASSUME IInv, ExitProcess
  PROVE  IInv'
  <1> USE DEF IInv, PlacesOK, Places, HandlerPlaces, ApiPlaces,
              ProcessorPlaces, LoggerPlaces, Building,
              StopIsNotForgotten, BuiltOnce, OnLiveThreads, StartAndStop,
              ProcessorNeverRan, Frames, Threads, Code, Handler, main,
              InitPlaces, RunPlaces, ExitPlaces, Active, appVars, objectVars
  <1>1. CASE DestroyApplication
    BY <1>1 DEF DestroyApplication, Go
  <1>2. CASE LogDestroyNothing
    BY <1>2 DEF LogDestroyNothing, MainRuns, Main, Go
  <1>3. CASE LogDestroy
    BY <1>3 DEF LogDestroy, MainDestroys, Go
  <1>4. CASE UnlockDestroy
    BY <1>4 DEF UnlockDestroy, MainDestroys, Go
  <1>5. CASE SignalLogger
    <2>1. PlacesOK'
      <3>1. /\ at' \in [Frames -> Places] /\ UNCHANGED call
            /\ at'[main] = "joinLogger"
        BY <1>5 DEF SignalLogger, WakeLogger
      <3>2. at'[Code("logger")] \in {at[Code("logger")], "woken"}
        BY <1>5 DEF SignalLogger, WakeLogger
      <3>3. \A f \in Frames \ {main, Code("logger")} : at'[f] = at[f]
        BY <1>5 DEF SignalLogger, WakeLogger
      <3> QED
        BY <3>1, <3>2, <3>3
    <2>2. StopIsNotForgotten'
      BY <1>5 DEF SignalLogger, WakeLogger
    <2>3. BuiltOnce'
      <3>1. \A f \in Frames : at'[f] = at[f]
               \/ at'[f] \notin Building \cup {"stopping"}
        BY <1>5 DEF SignalLogger, WakeLogger
      <3>2. application \notin {"none", "constructing"}
              \/ (at'[Code("api")] = at[Code("api")]
                  /\ at'[Code("processor")] = at[Code("processor")])
        BY <1>5 DEF SignalLogger, WakeLogger
      <3>3. UNCHANGED <<application, api, processor, stopRequested>>
        BY <1>5 DEF SignalLogger, WakeLogger
      <3> QED
        BY <3>1, <3>2, <3>3
    <2>4. OnLiveThreads'
      BY <1>5 DEF SignalLogger, WakeLogger
    <2>5. StartAndStop'
      BY <1>5 DEF SignalLogger, WakeLogger
    <2> QED
      BY <2>1, <2>2, <2>3, <2>4, <2>5
  <1>6. CASE JoinLogger
    BY <1>6 DEF JoinLogger, MainDestroys, Go
  <1>7. CASE Close
    BY <1>7 DEF Close, MainDestroys, Go
  <1> QED
    BY <1>1, <1>2, <1>3, <1>4, <1>5, <1>6, <1>7 DEF ExitProcess

\* The API thread answers a POST and the processor stores.
Works == PostRejected \/ PostQueued \/ TakeMessage \/ StoreMessage

\* So do the other threads, a handler that returns, and a request.
LEMMA ThreadsPreserve ==
  ASSUME IInv,
         \/ LoggerLoop \/ PopMessage \/ Request \/ Works
         \/ ThreadEnds("api", "serving", apiRunFlag)
         \/ ThreadEnds("processor", "running", processorRunFlag)
         \/ \E t \in Threads : Stop(t)
  PROVE  IInv'
  <1> USE DEF IInv, PlacesOK, Places, HandlerPlaces, ApiPlaces,
              ProcessorPlaces, LoggerPlaces, Building,
              StopIsNotForgotten, BuiltOnce, OnLiveThreads, StartAndStop,
              ProcessorNeverRan, Frames, Threads, Code, Handler, main,
              InitPlaces, RunPlaces, ExitPlaces, Active, appVars, objectVars
  <1>1. CASE LoggerLoop
    BY <1>1 DEF LoggerLoop
  <1>2. CASE PopMessage
    BY <1>2 DEF PopMessage, Calling
  <1>3. CASE Request \/ Works
    <2>1. PICK t \in {"api", "processor"}, place \in Places :
            /\ at' = [at EXCEPT ![Code(t)] = place]
            /\ call' \in {call, [call EXCEPT ![Code(t)] = "wantData"]}
            /\ UNCHANGED <<application, runApplication, stopRequested, api,
                           processor>>
            /\ \/ /\ t = "api" /\ at[Code(t)] \in {"serving", "posting"}
                  /\ place \in {"serving", "posting"}
               \/ /\ t = "processor" /\ at[Code(t)] \in {"running", "storing"}
                  /\ place \in {"running", "storing"}
      BY <1>3 DEF Request, Works, PostRejected, PostQueued, TakeMessage,
                  StoreMessage, ThreadWorks, Go, GoLogging
    <2>2. /\ \A f \in Frames : f # Code(t) => at'[f] = at[f]
          /\ at'[Code(t)] = place /\ at' \in [Frames -> Places]
          /\ call'[Code("logger")] = call[Code("logger")]
          /\ call' \in [Frames -> {"none", "wantData", "data", "wantQueue",
                                   "queue"}]
      BY <2>1
    <2>3. PlacesOK'
      BY <2>1, <2>2
    <2>4. StopIsNotForgotten' /\ BuiltOnce'
      BY <2>1, <2>2
    <2>5. OnLiveThreads'
      BY <2>1, <2>2
    <2>6. StartAndStop'
      BY <2>1, <2>2
    <2> QED
      BY <2>3, <2>4, <2>5, <2>6
  <1>4. CASE ThreadEnds("api", "serving", apiRunFlag)
    BY <1>4 DEF ThreadEnds, Go
  <1>5. CASE ThreadEnds("processor", "running", processorRunFlag)
    BY <1>5 DEF ThreadEnds, Go
  <1>6. ASSUME NEW t \in Threads, Stop(t) PROVE IInv'
    BY <1>6 DEF Stop, Go
  <1> QED
    BY <1>1, <1>2, <1>3, <1>4, <1>5, <1>6

\* IInv is inductive.
LEMMA StepInv == IInv /\ [Next]_vars => IInv'
  <1> SUFFICES ASSUME IInv, [Next]_vars PROVE IInv'
    OBVIOUS
  <1>1. CASE UNCHANGED vars
    BY <1>1 DEF vars, appVars, objectVars, IInv, PlacesOK, StopIsNotForgotten,
                BuiltOnce, OnLiveThreads, StartAndStop, ProcessorNeverRan, main
  <1>2. ASSUME NEW t \in Threads, HandlerStep(t) PROVE IInv'
    <2>1. Handler(t) \in Frames
      BY DEF Handler, Frames
    <2> QED
      BY <1>2, <2>1, LogCallPreserves, GetPreserves, ThreadsPreserve
         DEF HandlerStep
  <1>3. CASE MainStep
    <2>1. main \in Frames
      BY DEF main, Code, Frames, Threads
    <2> QED
      BY <1>2, <1>3, <2>1, LogCallPreserves, GetPreserves, RunPreserves,
         InitProcedurePreserves, ExitProcessPreserves DEF MainStep, Threads
  <1>4. CASE ApiStep \/ ProcessorStep \/ LoggerStep
    <2>1. /\ Code("api") \in Frames /\ Code("processor") \in Frames
          /\ Code("logger") \in Frames
      BY DEF Code, Frames, Threads
    <2> QED
      BY <1>2, <1>4, <2>1, LogCallPreserves, ThreadsPreserve
         DEF ApiStep, ProcessorStep, LoggerStep, Threads, Works
  <1>5. CASE Request \/ Delivery
    BY <1>5, ThreadsPreserve, DeliveryPreserves
  <1> QED
    BY <1>1, <1>3, <1>4, <1>5 DEF Next

\* IInv holds in every state.
THEOREM LifecycleInvariant == Spec => []IInv
  <1> QED
    BY InitInv, StepInv, PTL DEF Spec

\* However early a signal comes and whichever thread it interrupts, the
\* application that it stopped does not run again (main.cpp, line 16).
THEOREM EarlySignals == Spec => []StopIsNotForgotten
  <1>1. IInv => StopIsNotForgotten
    BY DEF IInv
  <1> QED
    BY <1>1, LifecycleInvariant, PTL

\* main joins each thread before it deletes what the thread works on, but for
\* the API thread left behind when processor->start fails (Application.cpp).
THEOREM ThreadsBeforeObjects == Spec => []ObjectsOutliveThreads
  <1>1. IInv => ObjectsOutliveThreads
    BY DEF IInv, ObjectsOutliveThreads, PlacesOK, StartAndStop, Threads,
           InitPlaces, RunPlaces, ExitPlaces, ProcessorNeverRan
  <1> QED
    BY <1>1, LifecycleInvariant, PTL

\* Nobody but main and that API thread is left to log when logDestroy_f takes
\* the logger apart (main.cpp, line 25).
THEOREM CallersBeforeLogger == Spec => []LoggerOutlivesCallers
  <1>1. IInv => LoggerOutlivesCallers
    BY DEF IInv, LoggerOutlivesCallers, PlacesOK, StartAndStop, OnLiveThreads,
           Threads, InitPlaces, RunPlaces, ExitPlaces, ProcessorNeverRan
  <1> QED
    BY <1>1, LifecycleInvariant, PTL

-----------------------------------------------------------------------------
\* The signals that setAllHandlers has passed, then all, have the handler.
HandlersInv ==
  /\ disposition \in [Sig!Signals -> Sig!Dispositions]
  /\ at[main] = "sweep" =>
       /\ sweep \in Int /\ sweepHandler = signalHandler
       /\ \A s \in Sig!Signals : s < sweep => disposition[s] = signalHandler
  /\ at[main] = "pushWinch" =>
       \A s \in Sig!Signals : disposition[s] = signalHandler
  /\ HandlersInstalled

\* A step that leaves the handlers alone and does not bring main to where
\* more of them have to be installed.
LeavesHandlers ==
  /\ UNCHANGED sigVars
  /\ \/ at'[main] = at[main]
     \/ at'[main] \notin InstalledPlaces \cup {"sweep", "pushWinch"}
     \/ at[main] \in InstalledPlaces /\ at'[main] \in InstalledPlaces

\* The steps of initProcedure that install handlers.
Installs ==
  \/ SetAllHandlers \/ SweepOn \/ SweepFails \/ SweepEnds
  \/ PushWinch \/ PushWinchFails \/ InitThrows

\* A step that leaves the handlers alone keeps HandlersInv.
LEMMA LeavingPreserves == HandlersInv /\ LeavesHandlers => HandlersInv'
  <1> QED
    BY DEF HandlersInv, LeavesHandlers, sigVars, HandlersInstalled,
           InstalledPlaces, RunPlaces, Building, main

\* The steps of a log call, of a handler and of Application::get leave the
\* handlers alone.
LEMMA FramesLeave ==
  ASSUME IInv, NEW f \in Frames,
         \/ LogCall(f)
         \/ f # main /\ \E from, to : Get(f, from, to)
         \/ f = main /\ Get(f, "get", "run")
  PROVE  LeavesHandlers
  <1> USE DEF LeavesHandlers, sigVars, main, Code, Frames, Threads, IInv,
              PlacesOK, InstalledPlaces, RunPlaces, Building
  <1>1. CASE LogCall(f)
    BY <1>1 DEF LogCall, LockLoggerData, UnlockLoggerData, LockLoggerQueue,
                LockLoggerQueueFails, Enqueue, Calling, WakeLogger
  <1>2. ASSUME NEW from, NEW to, Get(f, from, to), f # main
        PROVE  LeavesHandlers
    <2>1. UNCHANGED sigVars
      BY <1>2 DEF Get, GetFinds, GetBuilds, SchemaFails, ConstructFails,
                  Constructed, Initialized
    <2>2. \E place : at' = [at EXCEPT ![f] = place]
      BY <1>2 DEF Get, GetFinds, GetBuilds, SchemaFails, ConstructFails,
                  Constructed, Initialized, Go, GoLogging
    <2> QED
      BY <1>2, <2>1, <2>2
  <1>3. CASE f = main /\ Get(f, "get", "run")
    <2>1. UNCHANGED sigVars
      BY <1>3 DEF Get, GetFinds, GetBuilds, SchemaFails, ConstructFails,
                  Constructed, Initialized
    <2>2. \E place \in InstalledPlaces : at' = [at EXCEPT ![main] = place]
      BY <1>3 DEF Get, GetFinds, GetBuilds, SchemaFails, ConstructFails,
                  Constructed, Initialized, Go, GoLogging
    <2>3. at[main] \in InstalledPlaces
      BY <1>3 DEF Get, GetFinds, GetBuilds, SchemaFails, ConstructFails,
                  Constructed, Initialized, Go, GoLogging
    <2> QED
      BY <2>1, <2>2, <2>3
  <1> QED
    BY <1>1, <1>2, <1>3

\* So do run, exit, the other threads and the arrival of a signal.
LEMMA OthersLeave ==
  ASSUME IInv,
         \/ Run \/ ExitProcess \/ AtExitFails
         \/ LogInitialize \/ LogInitializeFails
         \/ LoggerLoop \/ PopMessage \/ Request \/ Works \/ Delivery
         \/ ThreadEnds("api", "serving", apiRunFlag)
         \/ ThreadEnds("processor", "running", processorRunFlag)
         \/ \E t \in Threads : Stop(t)
  PROVE  LeavesHandlers
  <1> USE DEF LeavesHandlers, sigVars, main, Code, Handler, Frames, Threads,
              IInv, PlacesOK, InstalledPlaces, RunPlaces, Building
  <1>1. CASE Run
    <2>1. CASE ApiStart \/ ProcessorStart
      BY <2>1 DEF ApiStart, ProcessorStart, Starts
    <2>2. CASE \/ RunRejected \/ ApiStartFails \/ SetupFails
               \/ ProcessorStartFails \/ StartFailed
      BY <2>2 DEF RunRejected, ApiStartFails, SetupFails, ProcessorStartFails,
                  StartFailed, Fails, MainLogs, GoLogging
    <2>3. CASE LeaveMainLoop \/ JoinProcessor \/ StopApi \/ JoinApi
      BY <2>3 DEF LeaveMainLoop, JoinProcessor, StopApi, JoinApi, MainRuns,
                  Main, MainLogs, Go, GoLogging
    <2> QED
      BY <1>1, <2>1, <2>2, <2>3 DEF Run
  <1>2. CASE ExitProcess
    <2>1. CASE DestroyApplication \/ LogDestroyNothing
      BY <2>1 DEF DestroyApplication, LogDestroyNothing, MainRuns, Main, Go
    <2>2. CASE LogDestroy \/ UnlockDestroy \/ JoinLogger \/ Close
      BY <2>2 DEF LogDestroy, UnlockDestroy, JoinLogger, Close, MainDestroys, Go
    <2>3. CASE SignalLogger
      BY <2>3 DEF SignalLogger, WakeLogger
    <2> QED
      BY <1>2, <2>1, <2>2, <2>3 DEF ExitProcess
  <1>3. CASE AtExitFails \/ LogInitializeFails
    BY <1>3 DEF AtExitFails, LogInitializeFails, Main, Go
  <1>4. CASE LogInitialize
    BY <1>4 DEF LogInitialize
  <1>5. CASE LoggerLoop \/ PopMessage
    BY <1>5 DEF LoggerLoop, PopMessage, Calling
  <1>6. CASE Request \/ Works
    BY <1>6 DEF Request, Works, PostRejected, PostQueued, TakeMessage,
                StoreMessage, ThreadWorks, Go, GoLogging
  <1>7. CASE Delivery
    BY <1>7 DEF Delivery, Killed, Handled, Arrives, GoLogging
  <1>8. CASE \/ ThreadEnds("api", "serving", apiRunFlag)
             \/ ThreadEnds("processor", "running", processorRunFlag)
    BY <1>8 DEF ThreadEnds, Go
  <1>9. CASE \E t \in Threads : Stop(t)
    BY <1>9 DEF Stop, Go
  <1> QED
    BY <1>1, <1>2, <1>3, <1>4, <1>5, <1>6, <1>7, <1>8, <1>9

\* The steps of initProcedure that install handlers keep HandlersInv.
LEMMA InstallingPreserves ==
  ASSUME IInv, HandlersInv, Installs
  PROVE  HandlersInv'
  <1> USE DEF HandlersInv, HandlersInstalled, InstalledPlaces, RunPlaces,
              Building, main, Code, Frames, Threads, IInv, PlacesOK
  <1>1. \A s \in Sig!Signals : s \in Int /\ s < MAX_SIG_ID /\ s \notin Unmaskable
    BY DEF Sig!Signals, Sig!isValidSignalNumber, Sig!MIN_SIG_ID
  <1>2. signalHandler \in Sig!Dispositions /\ SIG_IGN \in Sig!Dispositions
    BY DEF Sig!Dispositions
  <1>3. CASE SetAllHandlers
    <2>1. at'[main] = "sweep" /\ sweep' = 1 /\ sweepHandler' = signalHandler
          /\ UNCHANGED disposition
      BY <1>3 DEF SetAllHandlers, Main, Go, Sig!SetAllHandlers, Sig!MIN_SIG_ID,
                  Sig!signalVars
    <2>2. \A s \in Sig!Signals : ~(s < 1)
      BY DEF Sig!Signals, Sig!MIN_SIG_ID
    <2> QED
      BY <2>1, <2>2
  <1>4. CASE SweepOn
    <2>1. at[main] = "sweep" /\ at'[main] = "sweep" /\ sweep' = sweep + 1
      BY <1>4 DEF SweepOn, Main, Go, Sig!Sweep, Sig!SweepContinues
    <2>2. UNCHANGED sweepHandler
      BY <1>4 DEF SweepOn, Sig!Sweep, Sig!SweepContinues
    <2>3. /\ sweep \in Int /\ sweepHandler = signalHandler
          /\ \A s \in Sig!Signals : s < sweep => disposition[s] = signalHandler
      BY <2>1
    <2>4. \A s \in Sig!Signals : s < sweep + 1 => s = sweep \/ s < sweep
      <3> TAKE s \in Sig!Signals
      <3>1. s \in Int
        BY <1>1
      <3> QED
        BY ONLY <2>3, <3>1
    <2>5. sweep' \in Int
      BY ONLY <2>1, <2>3
    <2>6. CASE Sig!Sweep
      <3>1. sweep \in Sig!Signals
            /\ disposition' = [disposition EXCEPT ![sweep] = signalHandler]
        BY <2>3, <2>6 DEF Sig!Sweep, Sig!Pushed
      <3>2. disposition' \in [Sig!Signals -> Sig!Dispositions]
        BY <1>2, <3>1
      <3>3. \A s \in Sig!Signals : s < sweep + 1 => disposition'[s] = signalHandler
        BY <2>3, <2>4, <3>1
      <3> QED
        BY <2>1, <2>2, <2>3, <2>5, <3>2, <3>3
    <2>7. CASE Sig!SweepContinues
      <3>1. UNCHANGED disposition /\ sweep \notin Sig!Signals
        BY <1>1, <2>7
           DEF Sig!SweepContinues, Sig!NothingPushed, Sig!signalVars
      <3>2. \A s \in Sig!Signals : s < sweep + 1 => disposition'[s] = signalHandler
        BY <2>3, <2>4, <3>1
      <3> QED
        BY <2>1, <2>2, <2>3, <2>5, <3>1, <3>2
    <2> QED
      BY <1>4, <2>6, <2>7 DEF SweepOn
  <1>5. CASE SweepEnds
    <2>1. at[main] = "sweep" /\ at'[main] = "pushWinch"
          /\ sweep = MAX_SIG_ID /\ UNCHANGED disposition
      BY <1>5 DEF SweepEnds, Main, Go, Sig!SweepEnds, Sig!NothingPushed,
                  Sig!signalVars
    <2> QED
      BY <1>1, <2>1
  <1>6. CASE PushWinch
    <2>1. at[main] = "pushWinch" /\ at'[main] = "get"
          /\ disposition' = [disposition EXCEPT ![SIGWINCH] = SIG_IGN]
      BY <1>6 DEF PushWinch, Main, Go, Sig!PushHandler, Sig!Pushed
    <2> QED
      BY <1>2, <2>1
  <1>7. CASE SweepFails \/ PushWinchFails
    <2>1. at'[main] = "exit" /\ UNCHANGED disposition
      BY <1>7 DEF SweepFails, PushWinchFails, MainLogs, GoLogging,
                  Sig!SweepSignalFails, Sig!PushSignalFails,
                  Sig!NothingPushed, Sig!signalVars
    <2> QED
      BY <2>1
  <1>8. CASE InitThrows
    <2>1. at'[main] = "exit"
      BY <1>8 DEF InitThrows, Main, Go
    <2>2. \E n \in Sig!Signals, h \in Sig!Dispositions :
            disposition' = [disposition EXCEPT ![n] = h]
      <3>1. CASE at[main] = "sweep"
        BY <1>2, <1>8, <3>1
           DEF InitThrows, Main, Go, Sig!SweepThrows, Sig!SaveThrows
      <3>2. CASE at[main] = "pushWinch"
        BY <1>2, <1>8, <3>2, LifecycleAssumption
           DEF InitThrows, Main, Go, Sig!PushHandlerThrows, Sig!SaveThrows
      <3> QED
        BY <1>8, <3>1, <3>2 DEF InitThrows, Main, Go
    <2> QED
      BY <2>1, <2>2
  <1> QED
    BY <1>3, <1>4, <1>5, <1>6, <1>7, <1>8 DEF Installs

\* Every step installs handlers or leaves them alone.
LEMMA InstallsOrLeaves ==
  ASSUME IInv, [Next]_vars
  PROVE  Installs \/ LeavesHandlers
  <1>1. /\ main \in Frames
        /\ \A t \in Threads : /\ Code(t) \in Frames
                              /\ Handler(t) \in Frames /\ Handler(t) # main
        /\ \A t \in Threads \ {"main"} : Code(t) # main
    BY DEF main, Code, Handler, Frames, Threads
  <1>2. CASE UNCHANGED vars
    BY <1>2 DEF vars, LeavesHandlers
  <1>3. ASSUME NEW t \in Threads, HandlerStep(t) PROVE LeavesHandlers
    BY <1>1, <1>3, FramesLeave, OthersLeave DEF HandlerStep
  <1>4. CASE MainStep
    <2>1. CASE InitProcedure
      BY <2>1, OthersLeave DEF InitProcedure, Installs
    <2> QED
      BY <1>1, <1>3, <1>4, <2>1, FramesLeave, OthersLeave
         DEF MainStep, Threads
  <1>5. CASE ApiStep \/ ProcessorStep \/ LoggerStep
    BY <1>1, <1>3, <1>5, FramesLeave, OthersLeave
       DEF ApiStep, ProcessorStep, LoggerStep, Threads, Works
  <1>6. CASE Request \/ Delivery
    BY <1>6, OthersLeave
  <1> QED
    BY <1>2, <1>4, <1>5, <1>6 DEF Next

\* HandlersInv holds in every state.
LEMMA HandlersInvariant == Spec => []HandlersInv
  <1>1. Init => HandlersInv
    BY DEF Init, HandlersInv, HandlersInstalled, InstalledPlaces, RunPlaces,
           Building, main, Code, Frames, Threads, Sig!Init, Sig!Dispositions
  <1>2. IInv /\ HandlersInv /\ [Next]_vars => HandlersInv'
    BY InstallsOrLeaves, InstallingPreserves, LeavingPreserves
  <1> QED
    BY <1>1, <1>2, LifecycleInvariant, PTL DEF Spec

\* From the end of initProcedure to the end of run each signal that
\* setAllHandlers covers stops the application in order (main.cpp, line 37).
THEOREM HandlersStay == Spec => []HandlersInstalled
  <1>1. HandlersInv => HandlersInstalled
    BY DEF HandlersInv
  <1> QED
    BY <1>1, HandlersInvariant, PTL

-----------------------------------------------------------------------------
(***************************************************************************)
(* The logger's mutexes.                                                   *)
(***************************************************************************)
\* LockDiscipline is inductive once it is known that before logInitialize_f
\* nothing but main is there and the mutexes are as they were created, and
\* that main holds loggerDataLock while logDestroy_f stops the thread.
LocksInv ==
  /\ LockDiscipline
  /\ at[main] = "start" =>
       /\ \A f \in Frames : call[f] = "none" /\ (f # main => at[f] = "none")
       /\ dataLock = Free /\ queueLock = Destroyed /\ ~isInitialized
       /\ \A s \in Sig!Signals : disposition[s] # signalHandler
  /\ at[main] = "stopLogThread" => dataLock = main /\ call[main] = "none"

\* A step that touches neither mutex.
KeepsLocks ==
  /\ UNCHANGED <<dataLock, queueLock, isInitialized>>
  /\ \A f \in Frames :
       \/ call'[f] = call[f]
       \/ call[f] = "none" /\ call'[f] \in {"wantData", "wantQueue"}
  /\ at'[main] # "start"
  /\ at'[main] = "stopLogThread" <=> at[main] = "stopLogThread"
  /\ at[main] = "stopLogThread" => call'[main] = call[main]
  /\ Over => Over'

\* Such a step keeps LocksInv.
LEMMA KeepingPreserves == LocksInv /\ KeepsLocks => LocksInv'
  <1> SUFFICES ASSUME LocksInv, KeepsLocks PROVE LocksInv'
    OBVIOUS
  <1>1. LockDiscipline'
    BY DEF LocksInv, LockDiscipline, KeepsLocks, main
  <1>2. /\ at'[main] # "start"
        /\ at'[main] = "stopLogThread" => dataLock' = main /\ call'[main] = "none"
    BY DEF LocksInv, KeepsLocks, main
  <1> QED
    BY <1>1, <1>2 DEF LocksInv, main

\* A log call, in whatever frame, takes each mutex when it is free and gives
\* back what it took.
LEMMA LogCallKeepsLocks ==
  ASSUME IInv, LocksInv, NEW f \in Frames, LogCall(f)
  PROVE  LocksInv'
  <1> USE LifecycleAssumption
      DEF LocksInv, LockDiscipline, Over, Calling, Active, appVars, objectVars,
          sigVars, main
  <1>1. at[main] # "start"
    BY DEF LogCall, LockLoggerData, UnlockLoggerData, LockLoggerQueue,
           LockLoggerQueueFails, Enqueue
  <1>2. at'[main] = at[main]
    BY DEF LogCall, LockLoggerData, UnlockLoggerData, LockLoggerQueue,
           LockLoggerQueueFails, Enqueue, WakeLogger, IInv, PlacesOK, main,
           Code, Frames, Threads
  <1>3. call \in [Frames -> {"none", "wantData", "data", "wantQueue", "queue"}]
    BY DEF IInv, PlacesOK
  <1>4. CASE LockLoggerData(f)
    <2>1. main \in Frames /\ dataLock = Free /\ dataLock' = f
          /\ call' = [call EXCEPT ![f] = "data"] /\ call[f] = "wantData"
          /\ UNCHANGED <<at, queueLock, isInitialized>>
      BY <1>4 DEF LockLoggerData, logVars, main, Code, Frames, Threads
    <2>2. at[main] # "stopLogThread"
      BY <2>1
    <2>3. \A g \in Frames :
            /\ call'[g] = "data" <=> g = f \/ call[g] = "data"
            /\ call'[g] = "queue" <=> call[g] = "queue"
      BY <1>3, <2>1
    <2>4. ~Over => \A g \in Frames : call[g] # "data"
      BY <2>1
    <2> QED
      BY <1>1, <1>2, <2>1, <2>2, <2>3, <2>4
  <1>5. CASE UnlockLoggerData(f)
    BY <1>1, <1>2, <1>3, <1>5 DEF UnlockLoggerData, logVars
  <1>6. CASE LockLoggerQueue(f)
    BY <1>1, <1>2, <1>3, <1>6 DEF LockLoggerQueue, logVars
  <1>7. CASE LockLoggerQueueFails(f)
    BY <1>1, <1>2, <1>3, <1>7 DEF LockLoggerQueueFails, logVars
  <1>8. CASE Enqueue(f)
    BY <1>1, <1>2, <1>3, <1>8 DEF Enqueue
  <1> QED
    BY <1>4, <1>5, <1>6, <1>7, <1>8 DEF LogCall

\* logInitialize_f and logDestroy_f, which lock and unlock outside a log call,
\* the logger thread, which takes a message, and a signal that kills.
LEMMA LoggerKeepsLocks ==
  ASSUME IInv, LocksInv,
         \/ PopMessage \/ LogInitialize \/ LogInitializeFails \/ LogDestroy
         \/ UnlockDestroy \/ JoinLogger \/ Close
         \/ \E t \in Threads, s \in Sig!Signals : Killed(t, s)
  PROVE  LocksInv'
  <1> USE LifecycleAssumption
      DEF LocksInv, LockDiscipline, Over, main, Code
  <1>1. /\ call \in [Frames -> {"none", "wantData", "data", "wantQueue", "queue"}]
        /\ at \in [Frames -> Places]
        /\ main \in Frames /\ Code("logger") \in Frames /\ Code("logger") # main
    BY DEF IInv, PlacesOK, Frames, Threads
  <1>2. CASE PopMessage
    <2>1. at'[main] = at[main] /\ at[main] # "start"
      BY <1>1, <1>2 DEF PopMessage, Calling
    <2> QED
      BY <1>1, <1>2, <2>1 DEF PopMessage, Calling
  <1>3. CASE LogInitialize
    <2>1. /\ \A f \in Frames : call[f] = "none"
          /\ dataLock = Free /\ queueLock' = Free
          /\ UNCHANGED <<call, dataLock>>
          /\ at'[main] = "initialize"
      BY <1>1, <1>3 DEF LogInitialize
    <2> QED
      BY <2>1
  <1>4. CASE LogInitializeFails
    BY <1>1, <1>4 DEF LogInitializeFails, Main, Go, logVars
  <1>5. CASE LogDestroy
    BY <1>1, <1>5 DEF LogDestroy, MainDestroys, Go
  <1>6. CASE UnlockDestroy
    BY <1>1, <1>6 DEF UnlockDestroy, MainDestroys, Go, logVars
  <1>7. CASE JoinLogger
    BY <1>1, <1>7 DEF JoinLogger, MainDestroys, Go, logVars
  <1>8. CASE Close
    BY <1>1, <1>8 DEF Close, MainDestroys, Go
  <1>9. CASE \E t \in Threads, s \in Sig!Signals : Killed(t, s)
    BY <1>1, <1>9 DEF Killed
  <1> QED
    BY <1>2, <1>3, <1>4, <1>5, <1>6, <1>7, <1>8, <1>9

\* What main and the handlers do apart from logging touches no mutex.
LEMMA GetKeepsLocks ==
  ASSUME IInv, LocksInv, NEW f \in Frames, NEW from, NEW to,
         Get(f, from, to),
         \/ f = main /\ from = "get" /\ to = "run"
         \/ f # main /\ from = "received"
  PROVE  KeepsLocks
  <1>1. at \in [Frames -> Places] /\ main \in Frames
        /\ call \in [Frames -> {"none", "wantData", "data", "wantQueue", "queue"}]
    BY DEF IInv, PlacesOK, main, Code, Frames, Threads
  <1>2. UNCHANGED <<dataLock, queueLock, isInitialized>>
    BY DEF Get, GetFinds, GetBuilds, SchemaFails, ConstructFails,
           Constructed, Initialized, logVars
  <1>3. \E place \in {to} \cup Building :
          at' = [at EXCEPT ![f] = place]
    BY DEF Get, GetFinds, GetBuilds, SchemaFails, ConstructFails,
           Constructed, Initialized, Go, GoLogging, Building
  <1>4. /\ call[f] = "none"
        /\ call' = call \/ call' = [call EXCEPT ![f] = "wantData"]
        /\ at[f] \in {from} \cup Building
    BY DEF Get, GetFinds, GetBuilds, SchemaFails, ConstructFails,
           Constructed, Initialized, Go, GoLogging, Building
  <1>5. at[main] # "start"
    BY <1>4 DEF LocksInv, Building
  <1> QED
    BY <1>1, <1>2, <1>3, <1>4, <1>5 DEF KeepsLocks, Over, Building, main

LEMMA OthersKeepLocks ==
  ASSUME IInv, LocksInv,
         \/ AtExitFails \/ SetAllHandlers \/ SweepOn \/ SweepFails \/ SweepEnds
         \/ PushWinch \/ PushWinchFails \/ InitThrows
         \/ Run \/ DestroyApplication \/ LogDestroyNothing \/ SignalLogger
         \/ LoggerLoop \/ Request \/ Works
         \/ ThreadEnds("api", "serving", apiRunFlag)
         \/ ThreadEnds("processor", "running", processorRunFlag)
         \/ \E t \in Threads : Stop(t)
         \/ \E t \in Threads, s \in Sig!Signals : Handled(t, s)
  PROVE  KeepsLocks
  <1> USE DEF KeepsLocks, Over, main, Code, Handler, logVars
  <1>1. /\ at \in [Frames -> Places] /\ main \in Frames
        /\ call \in [Frames -> {"none", "wantData", "data", "wantQueue", "queue"}]
        /\ \A t \in Threads : Code(t) \in Frames /\ Handler(t) \in Frames
        /\ \A t \in Threads \ {"main"} : Code(t) # main
        /\ \A t \in Threads : Handler(t) # main
    BY DEF IInv, PlacesOK, Frames, Threads
  <1>2. CASE \/ AtExitFails \/ SetAllHandlers \/ SweepOn \/ SweepEnds
             \/ PushWinch \/ InitThrows
    BY <1>1, <1>2 DEF AtExitFails, SetAllHandlers, SweepOn, SweepEnds,
                      PushWinch, InitThrows, Main, Go
  <1>3. CASE \/ SweepFails \/ PushWinchFails \/ RunRejected
             \/ ApiStartFails \/ SetupFails \/ ProcessorStartFails
             \/ StartFailed
    BY <1>1, <1>3 DEF SweepFails, PushWinchFails, RunRejected, ApiStartFails,
                      SetupFails, ProcessorStartFails, StartFailed, Fails,
                      MainLogs, GoLogging
  <1>4. CASE Run
    <2>1. CASE ApiStart \/ ProcessorStart
      BY <1>1, <2>1 DEF ApiStart, ProcessorStart, Starts, Threads
    <2>2. CASE LeaveMainLoop \/ JoinProcessor \/ StopApi \/ JoinApi
      BY <1>1, <2>2 DEF LeaveMainLoop, JoinProcessor, StopApi, JoinApi,
                        MainRuns, Main, MainLogs, Go, GoLogging
    <2> QED
      BY <1>3, <1>4, <2>1, <2>2 DEF Run
  <1>5. CASE DestroyApplication \/ LogDestroyNothing
    BY <1>1, <1>5 DEF DestroyApplication, LogDestroyNothing, MainRuns, Main, Go
  <1>6. CASE SignalLogger
    BY <1>1, <1>6 DEF SignalLogger, WakeLogger, Threads
  <1>7. at[main] = "start" => \A f \in Frames : f # main => at[f] = "none"
    BY DEF LocksInv
  <1>8. CASE LoggerLoop
    <2>1. Code("logger") \in Frames /\ Code("logger") # main
      BY <1>1 DEF Threads
    <2>2. at[main] # "start"
      BY <1>7, <1>8, <2>1 DEF LoggerLoop
    <2> QED
      BY <1>1, <1>8, <2>1, <2>2 DEF LoggerLoop
  <1>9. CASE Request \/ Works
    <2>1. PICK t \in {"api", "processor"} :
            /\ at[Code(t)] # "none"
            /\ \E place : place # "none" /\ at' = [at EXCEPT ![Code(t)] = place]
            /\ \/ call' = call
               \/ /\ call[Code(t)] = "none"
                  /\ call' = [call EXCEPT ![Code(t)] = "wantData"]
            /\ UNCHANGED <<dataLock, queueLock, isInitialized>>
      BY <1>9 DEF Request, Works, PostRejected, PostQueued, TakeMessage,
                  StoreMessage, ThreadWorks, Go, GoLogging
    <2>2. Code(t) \in Frames /\ Code(t) # main
      BY <1>1 DEF Threads
    <2>3. at[main] # "start"
      BY <1>7, <2>1, <2>2
    <2> QED
      BY <1>1, <2>1, <2>2, <2>3
  <1>10. CASE \/ ThreadEnds("api", "serving", apiRunFlag)
              \/ ThreadEnds("processor", "running", processorRunFlag)
    <2>1. PICK t \in Threads \ {"main"} :
            /\ at[Code(t)] # "none"
            /\ at' = [at EXCEPT ![Code(t)] = "done"]
            /\ UNCHANGED <<call, dataLock, queueLock, isInitialized>>
      BY <1>10 DEF ThreadEnds, Go, Threads
    <2>2. at[main] # "start"
      BY <1>1, <1>7, <2>1
    <2> QED
      BY <1>1, <2>1, <2>2
  <1>11. CASE \E t \in Threads : Stop(t)
    <2>1. PICK t \in Threads :
            /\ at[Handler(t)] # "none"
            /\ at' = [at EXCEPT ![Handler(t)] = "none"]
            /\ UNCHANGED <<call, dataLock, queueLock, isInitialized>>
      BY <1>11 DEF Stop, Go
    <2>2. at[main] # "start"
      BY <1>1, <1>7, <2>1
    <2> QED
      BY <1>1, <2>1, <2>2
  <1>12. CASE \E t \in Threads, s \in Sig!Signals : Handled(t, s)
    <2>1. PICK t \in Threads, s \in Sig!Signals : Handled(t, s)
      BY <1>12
    <2>2. at[main] # "start"
      BY <2>1 DEF Handled, LocksInv
    <2> QED
      BY <1>1, <2>1, <2>2 DEF Handled, Arrives, GoLogging
  <1> QED
    BY <1>2, <1>3, <1>4, <1>5, <1>6, <1>8, <1>9, <1>10, <1>11, <1>12

\* LocksInv is inductive, given IInv.
LEMMA LocksStep == IInv /\ LocksInv /\ [Next]_vars => LocksInv'
  <1> SUFFICES ASSUME IInv, LocksInv, [Next]_vars PROVE LocksInv'
    OBVIOUS
  <1>1. /\ main \in Frames
        /\ \A t \in Threads : /\ Code(t) \in Frames
                              /\ Handler(t) \in Frames /\ Handler(t) # main
    BY DEF main, Code, Handler, Frames, Threads
  <1>2. CASE UNCHANGED vars
    BY <1>2 DEF vars, logVars, sigVars, LocksInv, LockDiscipline, Over, main
  <1>3. ASSUME NEW t \in Threads, HandlerStep(t) PROVE LocksInv'
    BY <1>1, <1>3, LogCallKeepsLocks, GetKeepsLocks, OthersKeepLocks,
       KeepingPreserves DEF HandlerStep
  <1>4. CASE InitProcedure \/ ExitProcess
    BY <1>4, LoggerKeepsLocks, OthersKeepLocks, KeepingPreserves
       DEF InitProcedure, ExitProcess
  <1>5. CASE MainStep
    BY <1>1, <1>3, <1>4, <1>5, LogCallKeepsLocks, GetKeepsLocks,
       OthersKeepLocks, KeepingPreserves DEF MainStep, Threads
  <1>6. CASE ApiStep \/ ProcessorStep \/ LoggerStep
    BY <1>1, <1>3, <1>6, LogCallKeepsLocks, LoggerKeepsLocks, OthersKeepLocks,
       KeepingPreserves DEF ApiStep, ProcessorStep, LoggerStep, Threads, Works
  <1>7. CASE Request \/ Delivery
    BY <1>7, LoggerKeepsLocks, OthersKeepLocks, KeepingPreserves DEF Delivery
  <1> QED
    BY <1>2, <1>5, <1>6, <1>7 DEF Next

\* It holds when the process starts.
LEMMA InitLocks == Init => LocksInv
  <1> SUFFICES ASSUME Init PROVE LocksInv
    OBVIOUS
  <1>1. /\ \A f \in Frames : f # Free /\ f # Destroyed
        /\ main \in Frames
    BY LifecycleAssumption DEF main, Code, Frames, Threads
  <1>2. \A s \in Sig!Signals : disposition[s] # signalHandler
    BY LifecycleAssumption DEF Init, Sig!Init, Sig!SignalAssumption
  <1> QED
    BY <1>1, <1>2 DEF Init, LocksInv, LockDiscipline

\* Nobody leaves a mutex of the logger locked: not a call, in whatever frame,
\* not a thread that ends, and neither logInitialize_f nor logDestroy_f, but
\* for the first where it fails to start the thread (logger.c).
THEOREM MutexesAreReturned == Spec => []LockDiscipline
  <1>1. LocksInv => LockDiscipline
    BY DEF LocksInv
  <1> QED
    BY <1>1, InitLocks, LocksStep, LifecycleInvariant, PTL DEF Spec

-----------------------------------------------------------------------------
(***************************************************************************)
(* libsignalhandler as the process uses it.  What SignalHandlerProofs      *)
(* shows of SignalHandler then holds of it in Lifecycle.                   *)
(***************************************************************************)
Signal == INSTANCE SignalHandlerProofs
            WITH Routines <- {signalHandler}, MaxDepth <- 2

\* A step that installs handlers is a step of a call of SignalHandler.
LEMMA InstallsCalls ==
  ASSUME Installs
  PROVE  Sig!Next
  <1>1. /\ SIGWINCH \in Sig!Numbers
        /\ signalHandler \in Sig!Dispositions /\ SIG_IGN \in Sig!Dispositions
    BY LifecycleAssumption
       DEF Sig!Signals, Sig!Numbers, Sig!Dispositions, Sig!MIN_SIG_ID,
           Sig!SignalAssumption
  <1>2. CASE SetAllHandlers
    BY <1>1, <1>2 DEF SetAllHandlers, Sig!Next, Sig!Call
  <1>3. CASE SweepOn \/ SweepFails \/ SweepEnds
    BY <1>3 DEF SweepOn, SweepFails, SweepEnds, Sig!Next, Sig!Loop
  <1>4. CASE PushWinch \/ PushWinchFails \/ InitThrows
    BY <1>1, <1>4 DEF PushWinch, PushWinchFails, InitThrows, Sig!Next,
                      Sig!Call, Sig!Loop
  <1> QED
    BY <1>2, <1>3, <1>4 DEF Installs

\* However the process runs, what it does to the dispositions is what a
\* program does that calls libsignalhandler from one thread (main.cpp, line
\* 37): its own handlers and its other threads never get in between.
THEOREM SignalHandlerIsUsed == Spec => UsesSignalHandler
  <1>1. Init => Sig!Init
    BY DEF Init
  <1>2. IInv /\ [Next]_vars => [Sig!Next]_(Sig!vars)
    BY InstallsOrLeaves, InstallsCalls
       DEF LeavesHandlers, sigVars, Sig!vars, Sig!signalVars, Sig!sweepVars,
           Sig!auxVars
  <1> QED
    BY <1>1, <1>2, LifecycleInvariant, PTL
       DEF Spec, UsesSignalHandler, Sig!Spec

\* SignalHandler and its proofs are instantiated alike.
LEMMA SameSets ==
  /\ Sig!Signals = Signal!Signals /\ Sig!Dispositions = Signal!Dispositions
  BY DEF
      Sig!Signals, Signal!Signals, Sig!isValidSignalNumber,
      Signal!isValidSignalNumber, Sig!MIN_SIG_ID, Signal!MIN_SIG_ID,
      Sig!Dispositions, Signal!Dispositions

LEMMA SameInit == Sig!Init <=> Signal!Init
  BY SameSets DEF
      Sig!Init, Signal!Init, Sig!NoStacks, Signal!NoStacks, Sig!Nothing,
      Signal!Nothing

LEMMA SameNext == [Sig!Next]_(Sig!vars) <=> [Signal!Next]_(Signal!vars)
  BY SameSets DEF
      Sig!vars, Signal!vars, Sig!isValidSignalNumber,
      Signal!isValidSignalNumber, Sig!MIN_SIG_ID, Signal!MIN_SIG_ID,
      Sig!Next, Signal!Next, Sig!Call, Signal!Call, Sig!Loop, Signal!Loop,
      Sig!Numbers, Signal!Numbers, Sig!PushRejected, Signal!PushRejected,
      Sig!PushSignalFails, Signal!PushSignalFails, Sig!PushHandler,
      Signal!PushHandler, Sig!PushHandlerThrows, Signal!PushHandlerThrows,
      Sig!PopRejected, Signal!PopRejected, Sig!PopEmpty, Signal!PopEmpty,
      Sig!PopSignalFails, Signal!PopSignalFails, Sig!PopHandler,
      Signal!PopHandler, Sig!SetAllHandlers, Signal!SetAllHandlers,
      Sig!Sweep, Signal!Sweep, Sig!SweepContinues, Signal!SweepContinues,
      Sig!SweepRejected, Signal!SweepRejected, Sig!SweepSignalFails,
      Signal!SweepSignalFails, Sig!SweepThrows, Signal!SweepThrows,
      Sig!SweepEnds, Signal!SweepEnds, Sig!SweepReturns, Signal!SweepReturns,
      Sig!Return, Signal!Return, Sig!Pushed, Signal!Pushed, Sig!Popped,
      Signal!Popped, Sig!SaveThrows, Signal!SaveThrows, Sig!NothingPushed,
      Signal!NothingPushed, Sig!Nothing, Signal!Nothing, Sig!NoStacks,
      Signal!NoStacks, Sig!signalVars, Signal!signalVars, Sig!sweepVars,
      Signal!sweepVars, Sig!auxVars, Signal!auxVars

\* What SignalHandlerProofs proves of every variable of SignalHandler.
LEMMA SignalTypes == Spec => []Sig!TypeOK
  <1>1. Sig!Spec => Signal!Spec
    BY SameInit, SameNext, PTL DEF Sig!Spec, Signal!Spec
  <1>2. Signal!Spec => []Signal!IInv
    <2>1. Signal!SignalAssumption
      BY LifecycleAssumption
         DEF Sig!SignalAssumption, Signal!SignalAssumption, Sig!MIN_SIG_ID,
             Signal!MIN_SIG_ID
    <2> QED
      BY <2>1, Signal!SignalInvariant
  <1>3. Signal!IInv => Sig!TypeOK
    BY SameSets DEF Signal!IInv, Signal!TypeOK, Sig!TypeOK
  <1> QED
    BY <1>1, <1>2, <1>3, SignalHandlerIsUsed, PTL DEF UsesSignalHandler

-----------------------------------------------------------------------------
(***************************************************************************)
(* The types of the other variables.                                       *)
(***************************************************************************)
DataTypes ==
  /\ dataLock \in Frames \cup {Free}
  /\ queueLock \in Frames \cup {Free, Destroyed}
  /\ application \in {"none", "constructing", "ready", "destroyed"}
  /\ api \in {"null", "invalid", "alive", "deleted"}
  /\ processor \in {"null", "alive", "deleted"}
  /\ events \in 0 .. MaxEvents /\ messages \in Nat

FlagTypes ==
  /\ isInitialized \in BOOLEAN /\ runLogThread \in BOOLEAN
  /\ queueEmpty \in BOOLEAN
  /\ runApplication \in BOOLEAN /\ stopRequested \in BOOLEAN
  /\ apiRunFlag \in BOOLEAN /\ processorRunFlag \in BOOLEAN

\* No step leaves the types.
LEMMA DataTypesStep == DataTypes /\ [Next]_vars => DataTypes'
  <1> SUFFICES ASSUME DataTypes, [Next]_vars PROVE DataTypes'
    OBVIOUS
  <1> USE DEF DataTypes, logVars, appVars, objectVars, countVars
  <1>1. main \in Frames
        /\ \A t \in Threads : Code(t) \in Frames /\ Handler(t) \in Frames
    BY DEF main, Code, Handler, Frames, Threads
  <1>2. ASSUME NEW f \in Frames, LogCall(f) PROVE DataTypes'
    BY <1>2 DEF LogCall, LockLoggerData, UnlockLoggerData, LockLoggerQueue,
                LockLoggerQueueFails, Enqueue, Calling
  <1>3. ASSUME NEW f, NEW from, NEW to, Get(f, from, to) PROVE DataTypes'
    BY <1>3 DEF Get, GetFinds, GetBuilds, SchemaFails, ConstructFails,
                Constructed, Initialized
  <1>4. ASSUME NEW t \in Threads, HandlerStep(t) PROVE DataTypes'
    BY <1>1, <1>2, <1>3, <1>4 DEF HandlerStep, Stop
  <1>5. CASE InitProcedure \/ AtExitFails
    BY <1>1, <1>5 DEF InitProcedure, AtExitFails, LogInitialize,
       LogInitializeFails, SetAllHandlers, SweepOn, SweepFails, SweepEnds,
       PushWinch, PushWinchFails, InitThrows, Main, MainLogs
  <1>6. CASE Run
    BY <1>6 DEF Run, RunRejected, ApiStart, ApiStartFails, SetupFails,
       ProcessorStart, ProcessorStartFails, StartFailed, LeaveMainLoop,
       JoinProcessor, StopApi, JoinApi, Starts, Fails, MainRuns, Main, MainLogs
  <1>7. CASE ExitProcess
    BY <1>1, <1>7 DEF ExitProcess, DestroyApplication, LogDestroyNothing,
       LogDestroy, UnlockDestroy, SignalLogger, JoinLogger, Close,
       MainDestroys, MainRuns, Main
  <1>8. CASE MainStep
    BY <1>1, <1>2, <1>3, <1>4, <1>5, <1>6, <1>7, <1>8 DEF MainStep, Threads
  <1>9. CASE ApiStep \/ ProcessorStep \/ LoggerStep
    <2>1. ASSUME Works PROVE DataTypes'
      BY <2>1 DEF Works, PostRejected, PostQueued, TakeMessage, StoreMessage,
                  ThreadWorks
    <2>2. ASSUME NEW t, NEW place, NEW flag, ThreadEnds(t, place, flag)
          PROVE  DataTypes'
      BY <2>2 DEF ThreadEnds
    <2>3. ASSUME LoggerLoop \/ PopMessage PROVE DataTypes'
      BY <2>3 DEF LoggerLoop, PopMessage, Calling
    <2> QED
      BY <1>1, <1>2, <1>4, <1>9, <2>1, <2>2, <2>3
         DEF ApiStep, ProcessorStep, LoggerStep, Works, Threads
  <1>10. CASE Request \/ Delivery
    BY <1>10, LifecycleAssumption
       DEF Request, Delivery, Killed, Handled, Arrives, Event, ThreadWorks
  <1>11. CASE UNCHANGED vars
    BY <1>11 DEF vars
  <1> QED
    BY <1>8, <1>9, <1>10, <1>11 DEF Next

\* So these types hold in every state.
LEMMA DataTypesHold == Spec => []DataTypes
  <1>1. Init => DataTypes
    BY LifecycleAssumption DEF Init, DataTypes
  <1> QED
    BY <1>1, DataTypesStep, PTL DEF Spec

\* And no flag gets a value that is not one.
LEMMA FlagTypesStep == FlagTypes /\ [Next]_vars => FlagTypes'
  <1> SUFFICES ASSUME FlagTypes, [Next]_vars PROVE FlagTypes'
    OBVIOUS
  <1> USE DEF FlagTypes, logVars, appVars, objectVars
  <1>1. main \in Frames
        /\ \A t \in Threads : Code(t) \in Frames /\ Handler(t) \in Frames
    BY DEF main, Code, Handler, Frames, Threads
  <1>2. ASSUME NEW f \in Frames, LogCall(f) PROVE FlagTypes'
    BY <1>2 DEF LogCall, LockLoggerData, UnlockLoggerData, LockLoggerQueue,
                LockLoggerQueueFails, Enqueue, Calling
  <1>3. ASSUME NEW f, NEW from, NEW to, Get(f, from, to) PROVE FlagTypes'
    BY <1>3 DEF Get, GetFinds, GetBuilds, SchemaFails, ConstructFails,
                Constructed, Initialized
  <1>4. ASSUME NEW t \in Threads, HandlerStep(t) PROVE FlagTypes'
    BY <1>1, <1>2, <1>3, <1>4 DEF HandlerStep, Stop
  <1>5. CASE InitProcedure \/ AtExitFails
    BY <1>5 DEF InitProcedure, AtExitFails, LogInitialize,
       LogInitializeFails, SetAllHandlers, SweepOn, SweepFails, SweepEnds,
       PushWinch, PushWinchFails, InitThrows, Main, MainLogs
  <1>6. CASE Run
    BY <1>6 DEF Run, RunRejected, ApiStart, ApiStartFails, SetupFails,
       ProcessorStart, ProcessorStartFails, StartFailed, LeaveMainLoop,
       JoinProcessor, StopApi, JoinApi, Starts, Fails, MainRuns, Main, MainLogs
  <1>7. CASE ExitProcess
    BY <1>7 DEF ExitProcess, DestroyApplication, LogDestroyNothing,
       LogDestroy, UnlockDestroy, SignalLogger, JoinLogger, Close,
       MainDestroys, MainRuns, Main
  <1>8. CASE MainStep
    BY <1>1, <1>2, <1>3, <1>4, <1>5, <1>6, <1>7, <1>8 DEF MainStep, Threads
  <1>9. CASE ApiStep \/ ProcessorStep \/ LoggerStep
    BY <1>1, <1>2, <1>4, <1>9
       DEF ApiStep, ProcessorStep, LoggerStep, ThreadEnds, PostRejected,
           PostQueued, TakeMessage, StoreMessage, ThreadWorks, LoggerLoop,
           PopMessage, Calling, Threads
  <1>10. CASE Request \/ Delivery
    BY <1>10 DEF Request, Delivery, Killed, Handled, Arrives, ThreadWorks
  <1>11. CASE UNCHANGED vars
    BY <1>11 DEF vars
  <1> QED
    BY <1>8, <1>9, <1>10, <1>11 DEF Next

\* Every variable keeps its type, those of libsignalhandler because main uses
\* it as SignalHandler assumes.
THEOREM TypesHold == Spec => []TypeOK
  <1>1. Init => FlagTypes
    BY DEF Init, FlagTypes
  <1>2. IInv /\ DataTypes /\ FlagTypes /\ Sig!TypeOK => TypeOK
    BY DEF IInv, DataTypes, FlagTypes, TypeOK
  <1> QED
    BY <1>1, <1>2, DataTypesHold, FlagTypesStep, LifecycleInvariant,
       SignalTypes, PTL
       DEF Spec

-----------------------------------------------------------------------------
(***************************************************************************)
(* Who waits for whom.                                                     *)
(***************************************************************************)
\* What main has done where it waits for another thread, and who is building
\* the Application while it is under construction.
PlaceInv ==
  /\ ~Over /\ application = "constructing"
       => \E f \in Frames : at[f] \in Building
  /\ at[main] = "joinProcessor" => ~processorRunFlag
  /\ at[main] \in RunPlaces \ {"run", "setupFailed", "startFailed"}
       => at[Code("api")] # "none"
  /\ at[main] = "joinApi" => ~apiRunFlag
  /\ at[main] \in {"stopLogThread", "signalLogger", "joinLogger"}
       => isInitialized /\ ~runLogThread
  /\ ~Over => \A t \in Threads : at[Code(t)] # "killed"
  /\ ~Over => (isInitialized <=> at[Code("logger")] # "none")

\* A step of a log call, or of the logger thread with a message.
LogStep(f) == LogCall(f) \/ (f = Code("logger") /\ PopMessage)

\* It leaves main, and whoever builds the Application, where they are.
LEMMA LogStepKeepsPlaces ==
  ASSUME IInv, PlaceInv, NEW f \in Frames, LogStep(f)
  PROVE  PlaceInv'
  <1>1. /\ at \in [Frames -> Places] /\ Code("logger") \in Frames
        /\ main \in Frames /\ Code("logger") # main
        /\ \A t \in Threads : Code(t) \in Frames
        /\ call \in [Frames -> {"none", "wantData", "data", "wantQueue", "queue"}]
    BY DEF IInv, PlacesOK, main, Code, Frames, Threads
  <1>2. /\ \A g \in Frames \ {Code("logger")} : at'[g] = at[g]
        /\ \/ at'[Code("logger")] = at[Code("logger")]
           \/ /\ at[Code("logger")] \in {"loop", "waiting", "woken"}
              /\ at'[Code("logger")] \in {"loop", "waiting", "woken", "done"}
    BY <1>1
       DEF LogStep, LogCall, LockLoggerData, UnlockLoggerData, LockLoggerQueue,
           LockLoggerQueueFails, Enqueue, PopMessage, Calling, WakeLogger,
           IInv, OnLiveThreads
  <1>3. /\ call[f] # "none" /\ \A g \in Frames \ {f} : call'[g] = call[g]
        /\ UNCHANGED <<isInitialized, runLogThread, application, apiRunFlag,
                       processorRunFlag>>
    BY <1>1
       DEF LogStep, LogCall, LockLoggerData, UnlockLoggerData, LockLoggerQueue,
           LockLoggerQueueFails, Enqueue, PopMessage, Calling, logVars,
           appVars, objectVars
  <1>4. at'[main] = at[main] /\ (at'[Code("api")] = at[Code("api")])
    BY <1>1, <1>2 DEF Code, Threads
  <1>5. \A g \in Frames : at'[g] \in Building <=> at[g] \in Building
    BY <1>2 DEF Building
  <1> QED
    BY <1>1, <1>2, <1>3, <1>4, <1>5 DEF PlaceInv, Over, main

\* Application::get in main or in a handler.
LEMMA GetKeepsPlaces ==
  ASSUME IInv, PlaceInv, NEW f \in Frames, NEW from, NEW to,
         Get(f, from, to),
         \/ f = main /\ from = "get" /\ to = "run"
         \/ /\ \E t \in Threads : f = Handler(t)
            /\ from = "received" /\ to = "stopping"
  PROVE  PlaceInv'
  <1>1. /\ at \in [Frames -> Places] /\ main \in Frames
        /\ \A t \in Threads : /\ Code(t) \in Frames
                              /\ f = Code(t) => t = "main" /\ f = main
        /\ call \in [Frames -> {"none", "wantData", "data", "wantQueue", "queue"}]
    BY DEF IInv, PlacesOK, main, Code, Handler, Frames, Threads
  <1>2. PICK place \in {to} \cup Building :
          /\ at[f] \in {from} \cup Building /\ at' = [at EXCEPT ![f] = place]
          /\ place \notin Building => application' \in {"ready", "destroyed"}
    BY DEF Get, GetFinds, GetBuilds, SchemaFails, ConstructFails, appVars,
           Constructed, Initialized, Go, GoLogging, Building
  <1>3. /\ \A g \in Frames \ {f} : call'[g] = call[g]
        /\ UNCHANGED <<isInitialized, runLogThread, apiRunFlag,
                       processorRunFlag>>
    BY <1>1
       DEF Get, GetFinds, GetBuilds, SchemaFails, ConstructFails, logVars,
           Constructed, Initialized, Go, GoLogging, objectVars
  <1>4. Over' => Over
    BY <1>1, <1>2, <1>3 DEF Over, Building
  <1> QED
    BY <1>1, <1>2, <1>3, <1>4
       DEF PlaceInv, Over, RunPlaces, Building, main, Threads, Code

\* What main does on its own.
LEMMA MainKeepsPlaces ==
  ASSUME IInv, LocksInv, PlaceInv,
         AtExitFails \/ InitProcedure \/ Run \/ ExitProcess
  PROVE  PlaceInv'
  <1> USE DEF PlaceInv, Over, RunPlaces, Building
  <1>1. /\ at \in [Frames -> Places]
        /\ main \in Frames
        /\ \A t \in Threads : Code(t) \in Frames
        /\ \A t \in Threads : Code(t) = main <=> t = "main"
        /\ \A t, u \in Threads : Code(t) = Code(u) => t = u
        /\ {"main", "api", "logger", "processor"} = Threads
        /\ call \in [Frames -> {"none", "wantData", "data", "wantQueue", "queue"}]
    BY DEF IInv, PlacesOK, main, Code, Frames, Threads
  <1>2. CASE LogInitialize
    <2>1. /\ at'[main] = "initialize" /\ at'[Code("logger")] = "loop"
          /\ \A g \in Frames \ {main, Code("logger")} : at'[g] = at[g]
          /\ UNCHANGED <<call, application, apiRunFlag, processorRunFlag>>
      BY <1>1, <1>2 DEF LogInitialize, appVars, objectVars
    <2>2. isInitialized'
      BY <1>2, Zenon DEF LogInitialize
    <2>3. ~Over
      BY <1>2 DEF LogInitialize
    <2>4. at'[main] \notin RunPlaces
      BY <2>1
    <2>5. \A g \in Frames : at'[g] \in {"initialize", "loop", at[g]}
      BY <2>1
    <2>6. \A t \in Threads : at'[Code(t)] # "killed"
      BY <1>1, <2>3, <2>5
    <2>7. at'[Code("logger")] # "none"
      BY <2>1
    <2>8. application' # "constructing"
      BY <1>2, <2>1 DEF LogInitialize, LocksInv
    <2> QED
      BY <1>1, <2>1, <2>2, <2>4, <2>5, <2>6, <2>7, <2>8
  <1>3. CASE \/ AtExitFails \/ LogInitializeFails \/ SetAllHandlers \/ SweepOn
             \/ SweepFails \/ SweepEnds \/ PushWinch \/ PushWinchFails
             \/ InitThrows
    <2>1. /\ \A g \in Frames \ {main} : at'[g] = at[g] /\ call'[g] = call[g]
          /\ at'[main] \in {"exited", "initialize", "sweep", "exit",
                            "pushWinch", "get"}
          /\ at[main] \in {"start", "initialize", "sweep", "pushWinch"}
          /\ UNCHANGED <<isInitialized, runLogThread, apiRunFlag,
                         processorRunFlag, application>>
      BY <1>1, <1>3
         DEF AtExitFails, LogInitializeFails, SetAllHandlers, SweepOn,
             SweepFails, SweepEnds, PushWinch, PushWinchFails, InitThrows,
             Main, MainLogs, Go, GoLogging, logVars, objectVars, appVars
    <2> QED
      BY <1>1, <2>1
  <1>4. CASE Run
    <2>1. CASE \/ RunRejected \/ ApiStartFails \/ SetupFails
               \/ ProcessorStartFails \/ StartFailed
      <3>1. /\ at[main] \in RunPlaces
            /\ \E place \in {"setupFailed", "startFailed", "exit"} :
                 at' = [at EXCEPT ![main] = place]
            /\ UNCHANGED <<isInitialized, runLogThread, apiRunFlag,
                           processorRunFlag, application>>
        BY <2>1
           DEF RunRejected, ApiStartFails, SetupFails, ProcessorStartFails,
               StartFailed, Fails, MainLogs, GoLogging, logVars, objectVars,
               appVars
      <3> QED
        BY <1>1, <3>1 DEF Building
    <2>2. CASE ApiStart \/ ProcessorStart
      <3>1. PICK t \in {"api", "processor"}, place \in {"serving", "running"} :
              at'[main] = (IF t = "api" THEN "processorStart" ELSE "mainLoop")
              /\ at'[Code(t)] = place
              /\ \A g \in Frames \ {main, Code(t)} : at'[g] = at[g]
        BY <1>1, <2>2 DEF ApiStart, ProcessorStart, Starts
      <3>2. /\ at[main] \in {"run", "processorStart"}
            /\ at[main] = "run" <=> at'[main] = "processorStart"
            /\ UNCHANGED <<call, isInitialized, runLogThread, application>>
        BY <1>1, <2>2 DEF ApiStart, ProcessorStart, Starts, logVars, appVars
      <3>3. \A g \in Frames : at'[g] \in Building <=> at[g] \in Building
        BY <1>1, <3>1, <3>2
           DEF IInv, PlacesOK, ApiPlaces, ProcessorPlaces, Building
      <3>4. UNCHANGED <<Over, at[Code("logger")]>>
        BY <1>1, <3>1, <3>2
      <3>5. \A u \in Threads : at'[Code(u)] = at[Code(u)]
              \/ at'[Code(u)] \notin {"none", "killed"} \cup Building
        BY <1>1, <3>1, <3>2
      <3>6. at'[main] \in {"processorStart", "mainLoop"}
              /\ at'[Code("api")] # "none"
        BY <1>1, <3>1, <3>2
      <3> QED
        BY <1>1, <3>2, <3>3, <3>4, <3>5, <3>6
    <2>3. CASE LeaveMainLoop \/ JoinProcessor \/ StopApi \/ JoinApi
      <3>1. /\ \/ at[main] = "mainLoop" /\ at'[main] = "joinProcessor"
                  /\ ~processorRunFlag' /\ apiRunFlag' = apiRunFlag
               \/ at[main] = "joinProcessor" /\ at'[main] = "stopApi"
                  /\ apiRunFlag' = apiRunFlag
               \/ at[main] = "stopApi" /\ at'[main] = "joinApi" /\ ~apiRunFlag'
               \/ at[main] = "joinApi" /\ at'[main] = "exit"
            /\ \A g \in Frames \ {main} : at'[g] = at[g]
            /\ UNCHANGED <<isInitialized, runLogThread, application>>
        BY <1>1, <2>3
           DEF LeaveMainLoop, JoinProcessor, StopApi, JoinApi, MainRuns, Main,
               MainLogs, Go, GoLogging, logVars, appVars, objectVars
      <3> QED
        BY <1>1, <3>1 DEF Building
    <2> QED
      BY <1>4, <2>1, <2>2, <2>3 DEF Run
  <1>5. CASE DestroyApplication
    BY <1>1, <1>5 DEF DestroyApplication, Go, logVars
  <1>6. CASE LogDestroyNothing
    BY <1>1, <1>6 DEF LogDestroyNothing, MainRuns, Main, Go, logVars, appVars,
                      objectVars
  <1>7. CASE LogDestroy \/ UnlockDestroy \/ JoinLogger \/ Close
    BY <1>1, <1>7
       DEF LogDestroy, UnlockDestroy, JoinLogger, Close, MainDestroys, Go,
           logVars, appVars, objectVars
  <1>8. CASE SignalLogger
    <2>1. /\ at'[main] = "joinLogger" /\ at[main] = "signalLogger"
          /\ \/ at'[Code("logger")] = at[Code("logger")]
             \/ at[Code("logger")] = "waiting" /\ at'[Code("logger")] = "woken"
          /\ \A g \in Frames \ {main, Code("logger")} : at'[g] = at[g]
          /\ UNCHANGED <<call, isInitialized, runLogThread, apiRunFlag,
                         processorRunFlag, application>>
      BY <1>1, <1>8
         DEF SignalLogger, WakeLogger, logVars, appVars, objectVars
    <2> QED
      BY <1>1, <2>1
  <1> QED
    BY <1>2, <1>3, <1>4, <1>5, <1>6, <1>7, <1>8 DEF InitProcedure, ExitProcess

\* What the other threads and the handlers do apart from logging, and signals.
LEMMA OthersKeepPlaces ==
  ASSUME IInv, LocksInv, PlaceInv,
         \/ LoggerLoop \/ Request \/ Works
         \/ ThreadEnds("api", "serving", apiRunFlag)
         \/ ThreadEnds("processor", "running", processorRunFlag)
         \/ \E t \in Threads : Stop(t)
         \/ Delivery
  PROVE  PlaceInv'
  <1> USE DEF PlaceInv, Over, RunPlaces, Building
  <1>1. /\ at \in [Frames -> Places]
        /\ main \in Frames
        /\ \A t \in Threads : Code(t) \in Frames /\ Handler(t) \in Frames
        /\ \A t \in Threads : Code(t) = main <=> t = "main"
        /\ \A t, u \in Threads : Code(t) # Handler(u)
        /\ \A t, u \in Threads : Code(t) = Code(u) => t = u
        /\ {"main", "api", "logger", "processor"} = Threads
        /\ main = Code("main")
        /\ call \in [Frames -> {"none", "wantData", "data", "wantQueue", "queue"}]
    BY DEF IInv, PlacesOK, main, Code, Handler, Frames, Threads
  <1>2. CASE LoggerLoop
    BY <1>1, <1>2 DEF LoggerLoop, logVars, appVars, objectVars
  <1>3. CASE Request \/ Works
    <2>1. /\ \E t \in {"api", "processor"},
               place \in {"serving", "posting", "running", "storing"} :
               /\ at' = [at EXCEPT ![Code(t)] = place]
               /\ at[Code(t)] \in {"serving", "posting", "running", "storing"}
          /\ UNCHANGED <<isInitialized, runLogThread, apiRunFlag,
                         processorRunFlag, application>>
      BY <1>3 DEF Request, Works, PostRejected, PostQueued, TakeMessage,
                  StoreMessage, ThreadWorks, Go, GoLogging, logVars, appVars,
                  objectVars
    <2> QED
      BY <1>1, <2>1
  <1>4. CASE \/ ThreadEnds("api", "serving", apiRunFlag)
             \/ ThreadEnds("processor", "running", processorRunFlag)
    BY <1>1, <1>4 DEF ThreadEnds, Go, logVars, appVars, objectVars
  <1>5. CASE \E t \in Threads : Stop(t)
    BY <1>1, <1>5 DEF Stop, Go, logVars, objectVars
  <1>6. ASSUME NEW t \in Threads, NEW s \in Sig!Signals, Handled(t, s)
        PROVE  PlaceInv'
    BY <1>1, <1>6 DEF Handled, Arrives, GoLogging, logVars, appVars, objectVars
  <1>7. ASSUME NEW t \in Threads, NEW s \in Sig!Signals, Killed(t, s)
        PROVE  PlaceInv'
    <2>1. \A g \in Frames :
            at'[g] = (IF g[2] = "code" THEN "killed" ELSE "none")
      BY <1>7 DEF Killed
    <2>2. at'[main] = "killed"
      BY <1>1, <2>1 DEF Code
    <2> QED
      BY <1>1, <2>1, <2>2
  <1> QED
    BY <1>2, <1>3, <1>4, <1>5, <1>6, <1>7 DEF Delivery

\* PlaceInv is inductive, given the two invariants above.
LEMMA PlaceStep == IInv /\ LocksInv /\ PlaceInv /\ [Next]_vars => PlaceInv'
  <1> SUFFICES ASSUME IInv, LocksInv, PlaceInv, [Next]_vars PROVE PlaceInv'
    OBVIOUS
  <1>1. /\ main \in Frames
        /\ \A t \in Threads : /\ Code(t) \in Frames
                              /\ Handler(t) \in Frames /\ Handler(t) # main
    BY DEF main, Code, Handler, Frames, Threads
  <1>2. CASE UNCHANGED vars
    BY <1>2 DEF vars, logVars, appVars, objectVars, PlaceInv, Over, main
  <1>3. ASSUME NEW t \in Threads, HandlerStep(t) PROVE PlaceInv'
    <2>1. CASE LogCall(Handler(t))
      <3>1. Handler(t) \in Frames /\ LogStep(Handler(t))
        BY <1>1, <2>1 DEF LogStep
      <3> QED
        BY <3>1, LogStepKeepsPlaces
    <2>2. CASE Get(Handler(t), "received", "stopping")
      BY <1>1, <2>2, GetKeepsPlaces
    <2>3. CASE Stop(t)
      BY <2>3, OthersKeepPlaces
    <2> QED
      BY <1>3, <2>1, <2>2, <2>3 DEF HandlerStep
  <1>4. CASE MainStep
    <2>1. CASE LogCall(main)
      <3>1. LogStep(main)
        BY <2>1 DEF LogStep
      <3> QED
        BY <1>1, <3>1, LogStepKeepsPlaces
    <2>2. CASE Get(main, "get", "run")
      BY <1>1, <2>2, GetKeepsPlaces
    <2> QED
      BY <1>3, <1>4, <2>1, <2>2, MainKeepsPlaces DEF MainStep, Threads
  <1>5. CASE ApiStep \/ ProcessorStep \/ LoggerStep
    <2>1. ASSUME NEW t \in Threads, LogCall(Code(t)) PROVE PlaceInv'
      <3>1. Code(t) \in Frames /\ LogStep(Code(t))
        BY <1>1, <2>1 DEF LogStep
      <3> QED
        BY <3>1, LogStepKeepsPlaces
    <2>2. CASE PopMessage
      <3>1. Code("logger") \in Frames
        BY <1>1 DEF Threads
      <3> QED
        BY <2>2, <3>1, LogStepKeepsPlaces DEF LogStep
    <2> QED
      BY <1>3, <1>5, <2>1, <2>2, OthersKeepPlaces
         DEF ApiStep, ProcessorStep, LoggerStep, Threads, Works
  <1>6. CASE Request \/ Delivery
    BY <1>6, OthersKeepPlaces
  <1> QED
    BY <1>2, <1>4, <1>5, <1>6 DEF Next

\* Where main may be when logInitialize_f kept loggerDataLock: its first log
\* call is its last.
LockedOutPlaces == {"initialize", "sweep", "pushWinch", "get", "construct",
                    "exit", "logDestroy"}

\* A handler on top of a thread that holds a mutex is still in its first log
\* call, and not past the place where it wants that mutex.
BehindTheHolder(t) ==
  at[Handler(t)] # "none" =>
    /\ dataLock = Code(t) => call[Handler(t)] = "wantData"
    /\ queueLock = Code(t) => call[Handler(t)] \in {"wantData", "data", "wantQueue"}

HolderInv ==
  ~Over =>
    /\ \A t \in Threads : BehindTheHolder(t)
    /\ \A f \in Frames : call[f] \in {"wantQueue", "queue"} => isInitialized
    /\ dataLock = main /\ ~isInitialized
         => \/ call[main] \in {"wantData", "data"}
            \/ at[main] \in LockedOutPlaces

\* A step that touches no mutex, in which handlers start with a log call, and
\* main stays where it may be or makes its first one.
LeavesHolders ==
  /\ KeepsLocks
  /\ \A t \in Threads :
       \/ at'[Handler(t)] = "none"
       \/ at[Handler(t)] # "none" /\ call'[Handler(t)] = call[Handler(t)]
       \/ call'[Handler(t)] = "wantData"
  /\ \A f \in Frames :
       call'[f] \in {"wantQueue", "queue"} => call'[f] = call[f] \/ isInitialized
  /\ call'[main] \in {call[main], "wantData"}
  /\ at[main] \in LockedOutPlaces
       => at'[main] \in LockedOutPlaces \/ call'[main] = "wantData"
            \/ dataLock # main

\* Such a step keeps HolderInv.
LEMMA LeavingHolders == HolderInv /\ LeavesHolders => HolderInv'
  <1> SUFFICES ASSUME HolderInv, LeavesHolders, ~Over' PROVE HolderInv'
    BY DEF HolderInv
  <1>1. ~Over
    BY DEF LeavesHolders, KeepsLocks
  <1>2. UNCHANGED <<dataLock, queueLock, isInitialized>>
    BY DEF LeavesHolders, KeepsLocks
  <1>3. \A t \in Threads : BehindTheHolder(t)'
    BY <1>1, <1>2 DEF HolderInv, LeavesHolders, BehindTheHolder, Code, Handler
  <1>4. main' = main
    BY DEF main, Code
  <1> QED
    BY <1>1, <1>2, <1>3, <1>4 DEF HolderInv, LeavesHolders

\* A log call, in whatever frame, and the logger thread with a message.
LEMMA LogStepKeepsHolders ==
  ASSUME IInv, LocksInv, HolderInv, NEW f \in Frames, LogStep(f)
  PROVE  HolderInv'
  <1> SUFFICES ASSUME ~Over' PROVE HolderInv'
    BY DEF HolderInv
  <1>1. /\ call \in [Frames -> {"none", "wantData", "data", "wantQueue", "queue"}]
        /\ main \in Frames /\ Code("logger") \in Frames /\ Code("logger") # main
        /\ at \in [Frames -> Places]
        /\ \A t \in Threads : Code(t) \in Frames /\ Handler(t) \in Frames
        /\ \A t, u \in Threads : Code(t) # Handler(u)
        /\ \A t, u \in Threads : Code(t) = Code(u) => t = u
        /\ \A t, u \in Threads : Handler(t) = Handler(u) => t = u
    BY DEF IInv, PlacesOK, main, Code, Handler, Frames, Threads
  <1>2. \A g \in Frames : g # Free /\ g # Destroyed
    BY LifecycleAssumption
  <1>3. /\ \A g \in Frames \ {Code("logger")} : at'[g] = at[g]
        /\ Active(f) /\ call[f] # "none"
        /\ \A g \in Frames \ {f} : call'[g] = call[g]
        /\ UNCHANGED isInitialized
    BY <1>1
       DEF LogStep, LogCall, LockLoggerData, UnlockLoggerData, LockLoggerQueue,
           LockLoggerQueueFails, Enqueue, PopMessage, Calling, WakeLogger,
           logVars
  <1>4. /\ at'[main] = at[main]
        /\ \A t \in Threads : at'[Handler(t)] = at[Handler(t)]
    BY <1>1, <1>3, Zenon DEF Threads
  <1>5. ~Over
    BY <1>4 DEF Over, main
  <1>6. \A t \in Threads : f = Code(t) => at'[Handler(t)] = "none"
    BY <1>1, <1>3, <1>4 DEF Active, Code, Handler
  <1>7. /\ \A t \in Threads : BehindTheHolder(t)
        /\ \A g \in Frames : call[g] \in {"wantQueue", "queue"} => isInitialized
        /\ \A g \in Frames : /\ call[g] = "data" => dataLock = g
                             /\ call[g] = "queue" <=> queueLock = g
    BY <1>5 DEF HolderInv, LocksInv, LockDiscipline
  <1>8. /\ \A t \in Threads : BehindTheHolder(t)'
        /\ call'[f] \in {"wantQueue", "queue"} => isInitialized
        /\ dataLock' = main => \/ f = main /\ call'[main] = "data"
                               \/ dataLock = main /\ f # main
                               \/ dataLock = main /\ call[main] = "queue"
                               \/ dataLock = main /\ call[main] = "wantQueue"
    <2>1. CASE LockLoggerData(f)
      BY <1>1, <1>4, <1>6, <1>7, <1>2, <2>1
         DEF LockLoggerData, Calling, BehindTheHolder, Code, Handler
    <2>2. CASE UnlockLoggerData(f)
      BY <1>1, <1>4, <1>6, <1>7, <1>2, <2>2
         DEF UnlockLoggerData, Calling, BehindTheHolder, Code, Handler
    <2>3. CASE LockLoggerQueue(f)
      BY <1>1, <1>4, <1>6, <1>7, <1>2, <2>3
         DEF LockLoggerQueue, Calling, BehindTheHolder, Code, Handler
    <2>4. CASE LockLoggerQueueFails(f)
      BY <1>1, <1>4, <1>6, <1>7, <1>2, <2>4
         DEF LockLoggerQueueFails, Calling, BehindTheHolder, Code, Handler
    <2>5. CASE Enqueue(f)
      BY <1>1, <1>4, <1>6, <1>7, <1>2, <2>5
         DEF Enqueue, Calling, BehindTheHolder, Code, Handler
    <2>6. CASE f = Code("logger") /\ PopMessage
      BY <1>1, <1>4, <1>6, <1>7, <1>2, <2>6
         DEF PopMessage, Calling, BehindTheHolder, Code, Handler
    <2> QED
      BY <2>1, <2>2, <2>3, <2>4, <2>5, <2>6 DEF LogStep, LogCall
  <1>9. main' = main
    BY DEF main, Code
  <1> QED
    BY <1>1, <1>3, <1>4, <1>5, <1>7, <1>8, <1>9 DEF HolderInv

\* logInitialize_f and logDestroy_f, which lock and unlock outside a log call,
\* and a signal that kills.
LEMMA LoggerKeepsHolders ==
  ASSUME IInv, LocksInv, HolderInv,
         \/ LogInitialize \/ LogInitializeFails \/ LogDestroy
         \/ UnlockDestroy \/ JoinLogger \/ Close
         \/ \E t \in Threads, s \in Sig!Signals : Killed(t, s)
  PROVE  HolderInv'
  <1> SUFFICES ASSUME ~Over' PROVE HolderInv'
    BY DEF HolderInv
  <1>1. /\ main \in Frames /\ at \in [Frames -> Places]
        /\ \A t \in Threads : Handler(t) \in Frames /\ Code(t) \in Frames
        /\ \A t, u \in Threads : Code(t) # Handler(u)
        /\ \A t \in Threads : Code(t) = main => t = "main"
        /\ main = Code("main") /\ "main" \in Threads /\ main' = main
        /\ \A t \in Threads : Code(t)' = Code(t) /\ Handler(t)' = Handler(t)
    BY DEF IInv, PlacesOK, main, Code, Handler, Frames, Threads
  <1>2. \A g \in Frames : g # Free /\ g # Destroyed
    BY LifecycleAssumption
  <1>3. ~\E t \in Threads, s \in Sig!Signals : Killed(t, s)
    BY <1>1 DEF Killed, Over, main, Code
  <1>4. ~Close
    BY <1>1 DEF Close, MainDestroys, Go, Over, main
  <1>5. /\ UNCHANGED call /\ Active(main) /\ ~Over
        /\ \A g \in Frames : g # main => at'[g] = at[g] \/ g = Code("logger")
    BY <1>1, <1>3, <1>4
       DEF LogInitialize, LogInitializeFails, LogDestroy, UnlockDestroy,
           JoinLogger, Main, MainDestroys, Go, Active, Over
  <1>6. /\ \A t \in Threads : at'[Handler(t)] = at[Handler(t)]
        /\ at[Handler("main")] = "none"
    BY <1>1, <1>5, Zenon DEF Active, main, Code, Handler, Threads
  <1>7. /\ \A t \in Threads : BehindTheHolder(t)
        /\ \A f \in Frames : call[f] \in {"wantQueue", "queue"} => isInitialized
        /\ dataLock = main /\ ~isInitialized
             => \/ call[main] \in {"wantData", "data"}
                \/ at[main] \in LockedOutPlaces
    BY <1>5 DEF HolderInv
  <1>8. /\ dataLock' \in {dataLock, Free, main}
        /\ queueLock' \in {queueLock, Free, Destroyed}
        /\ isInitialized => isInitialized'
        /\ dataLock' = main /\ ~isInitialized'
             => at'[main] \in LockedOutPlaces
    <2>1. CASE LogInitialize
      BY <1>1, <1>2, <2>1 DEF LogInitialize, LocksInv
    <2>2. CASE LogInitializeFails
      BY <1>1, <2>2 DEF LogInitializeFails, Main, Go, LockedOutPlaces, logVars
    <2>3. CASE LogDestroy
      BY <2>3 DEF LogDestroy, MainDestroys
    <2>4. CASE UnlockDestroy
      BY <1>1, <1>2, <2>4 DEF UnlockDestroy, MainDestroys, logVars
    <2>5. CASE JoinLogger
      BY <1>1, <1>7, <2>5
         DEF JoinLogger, MainDestroys, Go, logVars, LockedOutPlaces
    <2> QED
      BY <1>3, <1>4, <2>1, <2>2, <2>3, <2>4, <2>5
  <1>9. \A t \in Threads : BehindTheHolder(t)'
    BY <1>1, <1>2, <1>5, <1>6, <1>7, <1>8 DEF BehindTheHolder
  <1> QED
    BY <1>1, <1>5, <1>7, <1>8, <1>9 DEF HolderInv

\* Application::get in main or in a handler.
LEMMA GetLeavesHolders ==
  ASSUME IInv, LocksInv, NEW f \in Frames, NEW from, NEW to,
         Get(f, from, to),
         \/ f = main /\ from = "get" /\ to = "run"
         \/ /\ \E t \in Threads : f = Handler(t)
            /\ from = "received" /\ to = "stopping"
  PROVE  LeavesHolders
  <1>1. /\ at \in [Frames -> Places] /\ main \in Frames
        /\ \A t \in Threads : Handler(t) \in Frames /\ Handler(t) # main
        /\ call \in [Frames -> {"none", "wantData", "data", "wantQueue", "queue"}]
    BY DEF IInv, PlacesOK, main, Code, Handler, Frames, Threads
  <1>2. KeepsLocks
    BY <1>1, GetKeepsLocks
  <1>3. \/ /\ call' = [call EXCEPT ![f] = "wantData"]
           /\ \E place \in {to} \cup Building :
                at' = [at EXCEPT ![f] = place]
        \/ call' = call /\ at' = [at EXCEPT ![f] = "construct"]
    BY DEF Get, GetFinds, GetBuilds, SchemaFails, ConstructFails,
           Constructed, Initialized, Go, GoLogging, Building
  <1>4. call[f] = "none" /\ at[f] \in {from} \cup Building
    BY DEF Get, GetFinds, GetBuilds, SchemaFails, ConstructFails,
           Constructed, Initialized, Go, GoLogging, Building
  <1> QED
    BY <1>1, <1>2, <1>3, <1>4 DEF LeavesHolders, LockedOutPlaces, Building

\* What main does on its own, apart from the steps above.
LEMMA MainLeavesHolders ==
  ASSUME IInv, LocksInv,
         \/ AtExitFails \/ SetAllHandlers \/ SweepOn \/ SweepFails \/ SweepEnds
         \/ PushWinch \/ PushWinchFails \/ InitThrows
         \/ Run \/ DestroyApplication \/ LogDestroyNothing \/ SignalLogger
  PROVE  LeavesHolders
  <1>1. /\ at \in [Frames -> Places] /\ main \in Frames
        /\ \A t \in Threads : /\ Handler(t) \in Frames /\ Handler(t) # main
                              /\ Code(t) \in Frames
        /\ \A t, u \in Threads : Code(t) # Handler(u)
        /\ call \in [Frames -> {"none", "wantData", "data", "wantQueue", "queue"}]
        /\ \A f \in Frames : f # Free
    BY LifecycleAssumption DEF IInv, PlacesOK, main, Code, Handler, Frames, Threads
  <1>2. KeepsLocks
    BY OthersKeepLocks
  <1>3. /\ call' = call \/ call' = [call EXCEPT ![main] = "wantData"]
        /\ \A t \in Threads : at'[Handler(t)] = at[Handler(t)]
    BY <1>1
       DEF AtExitFails, SetAllHandlers, SweepOn, SweepFails, SweepEnds,
           PushWinch, PushWinchFails, InitThrows, Run, RunRejected, ApiStart,
           ApiStartFails, SetupFails, ProcessorStart, ProcessorStartFails,
           StartFailed, LeaveMainLoop, JoinProcessor, StopApi, JoinApi, Starts,
           Fails, MainRuns, Main,
           MainLogs, DestroyApplication, LogDestroyNothing, SignalLogger,
           WakeLogger, Go, GoLogging, Threads
  <1>4. at[main] \in LockedOutPlaces
          => at'[main] \in LockedOutPlaces \/ call'[main] = "wantData"
               \/ dataLock # main
    BY <1>1
       DEF AtExitFails, SetAllHandlers, SweepOn, SweepFails, SweepEnds,
           PushWinch, PushWinchFails, InitThrows, Run, RunRejected, ApiStart,
           ApiStartFails, SetupFails, ProcessorStart, ProcessorStartFails,
           StartFailed, LeaveMainLoop, JoinProcessor, StopApi, JoinApi, Starts,
           Fails, MainRuns, Main,
           MainLogs, DestroyApplication, LogDestroyNothing, SignalLogger,
           Go, GoLogging, LockedOutPlaces
  <1> QED
    BY <1>1, <1>2, <1>3, <1>4 DEF LeavesHolders

\* What the other threads and the handlers do apart from logging, and a signal
\* that is handled.
LEMMA OthersLeaveHolders ==
  ASSUME IInv, LocksInv, PlaceInv,
         \/ LoggerLoop \/ Request \/ Works
         \/ ThreadEnds("api", "serving", apiRunFlag)
         \/ ThreadEnds("processor", "running", processorRunFlag)
         \/ \E t \in Threads : Stop(t)
         \/ \E t \in Threads, s \in Sig!Signals : Handled(t, s)
  PROVE  LeavesHolders
  <1>1. /\ at \in [Frames -> Places] /\ main \in Frames
        /\ \A t \in Threads : /\ Handler(t) \in Frames /\ Handler(t) # main
                              /\ Code(t) \in Frames
                              /\ Code(t) = main <=> t = "main"
        /\ \A t, u \in Threads : Code(t) # Handler(u)
        /\ \A t, u \in Threads : Handler(t) = Handler(u) => t = u
        /\ call \in [Frames -> {"none", "wantData", "data", "wantQueue", "queue"}]
        /\ {"main", "api", "processor", "logger"} = Threads
    BY DEF IInv, PlacesOK, main, Code, Handler, Frames, Threads
  <1>2. KeepsLocks
    BY OthersKeepLocks
  <1>3. CASE LoggerLoop
    <2>1. at[Code("logger")] \in {"loop", "woken"} /\ at[main] # "exited"
      BY <1>3 DEF LoggerLoop, Active
    <2>2. at[main] # "killed"
      BY <1>1, <2>1 DEF IInv, StartAndStop
    <2>3. isInitialized
      BY <2>1, <2>2 DEF PlaceInv, Over
    <2> QED
      BY <1>1, <1>2, <1>3, <2>3 DEF LoggerLoop, LeavesHolders
  <1>4. CASE Request \/ Works
    <2>1. \E t \in {"api", "processor"} :
            /\ \E place : at' = [at EXCEPT ![Code(t)] = place]
            /\ call' = call \/ call' = [call EXCEPT ![Code(t)] = "wantData"]
      BY <1>4 DEF Request, Works, PostRejected, PostQueued, TakeMessage,
                  StoreMessage, ThreadWorks, Go, GoLogging
    <2> QED
      BY <1>1, <1>2, <2>1 DEF LeavesHolders
  <1>5. CASE \/ ThreadEnds("api", "serving", apiRunFlag)
             \/ ThreadEnds("processor", "running", processorRunFlag)
    BY <1>1, <1>2, <1>5 DEF ThreadEnds, Go, LeavesHolders
  <1>6. CASE \E t \in Threads : Stop(t)
    BY <1>1, <1>2, <1>6 DEF Stop, Go, LeavesHolders
  <1>7. CASE \E t \in Threads, s \in Sig!Signals : Handled(t, s)
    BY <1>1, <1>2, <1>7 DEF Handled, Arrives, GoLogging, LeavesHolders
  <1> QED
    BY <1>3, <1>4, <1>5, <1>6, <1>7

\* HolderInv is inductive, given the three invariants above.
LEMMA HolderStep ==
  IInv /\ LocksInv /\ PlaceInv /\ HolderInv /\ [Next]_vars => HolderInv'
  <1> SUFFICES ASSUME IInv, LocksInv, PlaceInv, HolderInv, [Next]_vars
               PROVE  HolderInv'
    OBVIOUS
  <1>1. /\ main \in Frames
        /\ \A t \in Threads : /\ Code(t) \in Frames
                              /\ Handler(t) \in Frames /\ Handler(t) # main
    BY DEF main, Code, Handler, Frames, Threads
  <1>2. CASE UNCHANGED vars
    BY <1>2 DEF vars, logVars, HolderInv, BehindTheHolder, Over, main, Code,
                Handler
  <1>3. ASSUME NEW f \in Frames, LogCall(f) PROVE HolderInv'
    <2>1. LogStep(f)
      BY <1>3 DEF LogStep
    <2> QED
      BY <2>1, LogStepKeepsHolders
  <1>4. ASSUME NEW t \in Threads, HandlerStep(t) PROVE HolderInv'
    <2>1. CASE Get(Handler(t), "received", "stopping")
      BY <1>1, <2>1, GetLeavesHolders, LeavingHolders
    <2>2. CASE Stop(t)
      BY <2>2, OthersLeaveHolders, LeavingHolders
    <2> QED
      BY <1>1, <1>3, <1>4, <2>1, <2>2 DEF HandlerStep
  <1>5. CASE InitProcedure \/ ExitProcess \/ AtExitFails \/ Run
    BY <1>5, LoggerKeepsHolders, MainLeavesHolders, LeavingHolders
       DEF InitProcedure, ExitProcess
  <1>6. CASE MainStep
    <2>1. CASE Get(main, "get", "run")
      BY <1>1, <2>1, GetLeavesHolders, LeavingHolders
    <2> QED
      BY <1>1, <1>3, <1>4, <1>5, <1>6, <2>1 DEF MainStep, Threads
  <1>7. CASE ApiStep \/ ProcessorStep \/ LoggerStep
    <2>1. CASE PopMessage
      <3>1. Code("logger") \in Frames /\ LogStep(Code("logger"))
        BY <1>1, <2>1 DEF LogStep, Threads
      <3> QED
        BY <3>1, LogStepKeepsHolders
    <2> QED
      BY <1>1, <1>3, <1>4, <1>7, <2>1, OthersLeaveHolders, LeavingHolders
         DEF ApiStep, ProcessorStep, LoggerStep, Threads, Works
  <1>8. CASE Request \/ Delivery
    BY <1>8, LoggerKeepsHolders, OthersLeaveHolders, LeavingHolders DEF Delivery
  <1> QED
    BY <1>2, <1>6, <1>7, <1>8 DEF Next

\* The three invariants hold in every state.
LEMMA HoldersInvariant == Spec => [](IInv /\ LocksInv /\ PlaceInv /\ HolderInv)
  <1>1. ASSUME Init PROVE PlaceInv /\ HolderInv
    <2>1. /\ main \in Frames
          /\ \A t \in Threads : /\ Code(t) \in Frames /\ Handler(t) \in Frames
                                /\ Handler(t) # main
          /\ Code("logger") \in Frames /\ Code("logger") # main
      BY DEF main, Code, Handler, Frames, Threads
    <2>2. \A f \in Frames : f # Free
      BY LifecycleAssumption
    <2>3. PlaceInv
      BY <1>1, <2>1 DEF Init, PlaceInv, Over, RunPlaces
    <2>4. HolderInv
      BY <1>1, <2>1, <2>2 DEF Init, HolderInv, BehindTheHolder, Over
    <2> QED
      BY <2>3, <2>4
  <1> QED
    BY <1>1, InitInv, StepInv, InitLocks, LocksStep, PlaceStep, HolderStep, PTL
       DEF Spec

\* The Application is built by main or in a handler.
LEMMA Builders ==
  ASSUME IInv, NEW f \in Frames, at[f] \in Building
  PROVE  f = main \/ \E t \in Threads : f = Handler(t)
  <1>1. \A t \in Threads \ {"main"} : at[Code(t)] \notin Building
    BY DEF IInv, PlacesOK, ApiPlaces, ProcessorPlaces, LoggerPlaces, Building,
           Threads
  <1> QED
    BY <1>1 DEF main, Code, Handler, Frames

\* A mutex held, in a state where nobody goes on, is held by code whose own
\* handler wants it; only loggerDataLock may be out of reach for logDestroy_f.
LEMMA HeldByOneself ==
  ASSUME IInv, DataTypes, LocksInv, PlaceInv, HolderInv, ~Over,
         \A f \in Frames : Waits(f)
  PROVE  \/ \E t \in Threads : WaitsForItself(t)
         \/ DestroyLockedOut
         \/ dataLock \notin Frames /\ queueLock \notin Frames
  <1> DEFINE Itself == \E t \in Threads : WaitsForItself(t)
  <1>1. /\ \A t \in Threads : /\ Code(t) \in Frames /\ Handler(t) \in Frames
                              /\ Active(Handler(t))
                              /\ ~Active(Code(t)) => at[Handler(t)] # "none"
        /\ \A f \in Frames : \E t \in Threads : f = Code(t) \/ f = Handler(t)
        /\ main = Code("main") /\ "main" \in Threads
    BY DEF Active, Over, Code, Handler, Frames, Threads, main
  <1>2. ASSUME NEW t \in Threads, at[Handler(t)] # "none",
               dataLock = Code(t)
        PROVE  Itself
    BY <1>2 DEF HolderInv, BehindTheHolder, WaitsForItself
  <1>3. ASSUME dataLock \in Frames PROVE Itself \/ DestroyLockedOut
    <2>1. PICK t \in Threads : dataLock = Code(t) \/ dataLock = Handler(t)
      BY <1>1, <1>3
    <2>2. CASE call[dataLock] = "data"
      <3>1. ~Active(dataLock)
        BY <1>3, <2>2 DEF Waits
      <3> QED
        BY <1>1, <1>2, <2>1, <3>1
    <2>3. CASE call[dataLock] # "data"
      <3>1. dataLock = main /\ (at[main] = "stopLogThread" \/ ~isInitialized)
        BY <1>3, <2>3 DEF LocksInv, LockDiscipline
      <3>2. SUFFICES ASSUME Active(main), call[main] # "wantData"
                     PROVE  Itself \/ DestroyLockedOut
        BY <1>1, <1>2, <3>1 DEF WaitsForItself
      <3>3. at[main] # "stopLogThread"
        BY <1>3, <3>1, <3>2 DEF LocksInv, Waits, AtRest, Joins
      <3>4. at[main] \in LockedOutPlaces /\ call[main] \notin {"data", "wantQueue", "queue"}
        BY <1>3, <2>3, <3>1, <3>2, <3>3 DEF HolderInv
      <3>5. at[main] = "logDestroy" \/ (at[main] = "get" /\ application = "constructing")
        BY <1>3, <3>1, <3>2, <3>4 DEF Waits, AtRest, Joins, LockedOutPlaces
      <3>6. CASE at[main] = "get" /\ application = "constructing"
        <4>1. PICK f \in Frames : at[f] \in Building
          BY <3>6 DEF PlaceInv
        <4>2. PICK u \in Threads : f = Handler(u)
          BY <3>6, <4>1, Builders DEF Building
        <4>3. \A v \in Threads \ {"main"} : at[Code(v)] = "none"
          BY <3>1, <3>3, <3>6 DEF PlaceInv, IInv, StartAndStop, InitPlaces, Threads
        <4>4. at[Handler("main")] = "none"
          BY <1>1, <3>2 DEF Active, Over, Code, Handler
        <4> QED
          BY <4>1, <4>2, <4>3, <4>4 DEF IInv, OnLiveThreads, Building
      <3> QED
        BY <3>1, <3>5, <3>6 DEF DestroyLockedOut
    <2> QED
      BY <2>2, <2>3
  <1>4. ASSUME queueLock \in Frames, dataLock \notin Frames PROVE Itself
    <2>1. dataLock = Free
      BY <1>4 DEF DataTypes
    <2>2. call[queueLock] = "queue"
      BY <1>4 DEF LocksInv, LockDiscipline
    <2>3. ~Active(queueLock)
      BY <1>4, <2>2 DEF Waits
    <2>4. PICK t \in Threads : queueLock = Code(t) /\ at[Handler(t)] # "none"
      BY <1>1, <1>4, <2>3
    <2>5. call[Handler(t)] \in {"wantData", "data", "wantQueue"}
      BY <2>4 DEF HolderInv, BehindTheHolder
    <2>6. call[Handler(t)] = "wantQueue"
      BY <1>1, <2>1, <2>5 DEF Waits
    <2> QED
      BY <2>4, <2>6 DEF WaitsForItself
  <1> QED
    BY <1>3, <1>4

\* In a state of the invariants where nobody goes on, why not is known.
LEMMA SelfDeadlocks ==
  ASSUME IInv, DataTypes, LocksInv, PlaceInv, HolderInv
  PROVE  OnlySelfDeadlocks
  <1> SUFFICES ASSUME ~Over, \A f \in Frames : Waits(f),
                      ~\E t \in Threads : WaitsForItself(t),
                      ~DestroyLockedOut
               PROVE  Serving \/ StopMissed
    BY DEF OnlySelfDeadlocks
  <1>1. /\ \A t \in Threads : /\ Code(t) \in Frames /\ Handler(t) \in Frames
                              /\ Active(Handler(t))
                              /\ at[Handler(t)] = "none" => Active(Code(t))
        /\ main = Code("main") /\ main \in Frames
        /\ {"main", "api", "processor", "logger"} = Threads
    BY DEF Active, Over, Code, Handler, Frames, Threads, main
  <1>2. dataLock = Free /\ queueLock \notin Frames
    BY HeldByOneself DEF DataTypes
  <1>3. \A f \in Frames : Active(f) => call[f] = "none"
    BY <1>2 DEF Waits, IInv, PlacesOK
  <1>4. application # "constructing"
    <2>1. SUFFICES ASSUME application = "constructing" PROVE FALSE
      OBVIOUS
    <2>2. PICK f \in Frames : at[f] \in Building
      BY <2>1 DEF PlaceInv
    <2>3. ~Active(f)
      BY <1>3, <2>2 DEF Waits, AtRest, Joins, Building
    <2>4. f = main /\ at[Handler("main")] # "none"
      BY <1>1, <2>2, <2>3, Builders
    <2>5. call[Handler("main")] = "none"
      BY <1>1, <1>3
    <2>6. at[Handler("main")] = "received"
      BY <1>1, <1>2, <2>4, <2>5
         DEF Waits, AtRest, Joins, IInv, PlacesOK, HandlerPlaces, BuiltOnce,
             Building, Handler, main, Code
    <2> QED
      BY <1>1, <2>2, <2>4, <2>5, <2>6 DEF WaitsForItself
  <1>5. ASSUME NEW t \in Threads PROVE at[Handler(t)] = "none"
    BY <1>1, <1>2, <1>3, <1>4
       DEF Waits, AtRest, Joins, IInv, PlacesOK, HandlerPlaces, BuiltOnce,
           Building
  <1>6. \A t \in Threads :
          Active(Code(t)) /\ (AtRest(Code(t)) \/ Joins(Code(t)))
    BY <1>1, <1>2, <1>3, <1>4, <1>5 DEF Waits
  <1>7. at[main] \in {"mainLoop", "joinProcessor", "joinApi", "joinLogger"}
    BY <1>1, <1>6
       DEF AtRest, Joins, IInv, PlacesOK, InitPlaces, RunPlaces, ExitPlaces,
           Building, Over
  <1>8. CASE at[main] = "mainLoop"
    BY <1>1, <1>5, <1>6, <1>8
       DEF AtRest, Joins, Serving, IInv, StopIsNotForgotten
  <1>9. CASE at[main] = "joinProcessor"
    BY <1>1, <1>6, <1>9
       DEF AtRest, Joins, PlaceInv, IInv, StartAndStop, PlacesOK
  <1>10. CASE at[main] = "joinApi"
    BY <1>1, <1>6, <1>10
       DEF AtRest, Joins, PlaceInv, RunPlaces, IInv, PlacesOK, ApiPlaces
  <1>11. CASE at[main] = "joinLogger"
    BY <1>1, <1>6, <1>11
       DEF AtRest, Joins, PlaceInv, IInv, PlacesOK, StopMissed, LoggerPlaces
  <1> QED
    BY <1>7, <1>8, <1>9, <1>10, <1>11

\* However many signals interrupt whichever threads: when the process stands
\* still, it serves or is over, or some thread waits for itself (main.cpp,
\* line 15, on top of the code it interrupts), or logDestroy_f hangs in the
\* signal it gave too early or at the mutex that logInitialize_f kept.
\* Handlers on different threads do not lock one another out.
THEOREM NoCrossedHandlers == Spec => []OnlySelfDeadlocks
  BY SelfDeadlocks, DataTypesHold, HoldersInvariant, PTL
=============================================================================
