# A TLA+ model of device-monitor

The repository holds a small C++ backend, *device-monitor*, that takes JSON
messages of devices over HTTP, queues them, counts them and reports the counts,
together with the libraries it brings along (an asynchronous logger, a signal
handler stack, a hash) and a Python program that plays the devices. This
directory models its threads, its locks, its counters and its logger in TLA+,
checks the models with TLC on small instances and proves the main results with
TLAPS for all instances.

Paths below are relative to the repository; `dm/` stands for
`src/deviceMonitor/`.

## 1. Inventory of the system

| component | state it keeps | operations | talks to |
|---|---|---|---|
| `AbstractAPI`, `RestAPI` (`dm/apis/`) | `messageQueue` under `queueLock`, `runFlag`, the one `SchemaValidator`, restbed's service | `start`, `stop`, `threadBody`/`run`, `postHandler`, `getHandler`, `pushNewMessage`, `getNextMessage`, `isValidJSON` | restbed (calls the handlers), `MessageProcessor::notify`, `DataStorage::getResults` |
| `MessageProcessor` (`dm/middleware/`) | `runFlag`, `processLock`, `processCondition` | `start`, `stop`, `notify`, `threadBody` | `AbstractAPI::getNextMessage`, `DataStorage::addRecord` |
| `DataStorage` (`dm/storage/`) | `dataStore` (map of hash to device record), `totalCount`, under `dataStoreLock` | `addRecord`, `addMeasurementRecord`, `getResults` | `fnv::Fnv64a` |
| `Application`, `main` (`dm/`) | `runApplication`, the pointers to API and processor | `run`, `stop`, constructor, destructor, signal handler, exit procedure | all of the above |
| `liblogger` | linked list of messages under `queueLock`, level and flags under `loggerDataLock`, the stream | `logInitialize_f`, `logDestroy_f`, `logWriteMessage_f`, `logSetLevel_f`, the logger thread | every component logs |
| `libsignalhandler` | one stack of former handlers per signal, and the kernel's disposition | `pushHandler`, `popHandler`, `setAllHandlers` | `main` installs its handler for all signals |
| `libfnv` | none | `Fnv64a` | `DataStorage` |
| device simulator (`src/deviceSimulator/`) | its own totals per device and value | sends messages, asks for the report | the HTTP interface |
| communication schema (`etc/`) | none | what a message must look like | `AbstractAPI::isValidJSON` |

How a message travels: restbed calls `postHandler` on the **API thread**; the
body is parsed and validated; `pushNewMessage` appends it to `messageQueue` and
notifies; the **processor thread** takes it and calls `addRecord`;
`GET /device/results`, again on the API thread, reads the counters. The **main
thread** starts the other two, sleeps until a **signal handler** clears
`runApplication`, stops and joins the processor, then the API, and at exit
destroys the logger. A fourth thread, the **logger thread**, writes what the
others log.

Hard parts, each listed with its line under `hazards` in `PROJECT.json`:

* two mutexes taken in opposite orders (`AbstractAPI.cpp:91-93` against
  `MessageProcessor.cpp:60-61`);
* two condition variables: data must never be left to a sleeper, and in both
  `MessageProcessor::stop` and `logDestroy_f` the flag is not changed under the
  mutex of the wait;
* a validator that keeps state between messages;
* `addRecord` in several steps, each of which can throw, with a reader in another
  thread;
* a logger list taken apart at exit without its lock, and one error path that keeps
  a lock;
* start-up and shutdown with every failure in between;
* a signal handler that logs and builds a singleton, on whatever thread it interrupts;
* a loop over all signals that gives up half way;
* a hash that stands for the name it was computed from;
* a simulator that counts before it sends and asks for the report while the queue may
  still hold messages.

What makes each component correct: an answered message is stored once and in
order, or is still on its way (API, processor); the report is the count of whole
messages at one moment (storage); what the logger accepted is written once and in
order, also at exit (logger); popping restores what pushing replaced (signal
handler); names get their FNV-1a value (hash); the simulator's totals and
the report agree (system).

## 2. The modules

| module | models | in short |
|---|---|---|
| `MessageDelivery` | abstract | `accepted` and `stored`: at most once, in order, nothing invented |
| `Backend` | `AbstractAPI`, `RestAPI`, `MessageProcessor`, `Application::run/stop` | the three threads and the signal; implements `MessageDelivery` |
| `BackendProofs` | - | TLAPS proofs about `Backend` |
| `Tally` | abstract | the three counts and the report, a whole message at a time |
| `DataStorage` | `DataStorage` | the map, the counters, the lock and every place where `addRecord` may throw; implements `Tally` |
| `MCDataStorage` | - | instance for TLC: three devices, two sharing a hash |
| `DataStorageProofs` | - | TLAPS proofs about `DataStorage`, sums included |
| `Logger` | `liblogger` and `main`'s exit procedure | callers, logger thread, initialisation, `logDestroy_f`; implements `MessageDelivery` |
| `MCLogger` | - | instance for TLC: two severities |
| `LoggerProofs` | - | TLAPS proofs about `Logger` |
| `DataLemmas` | - | lemmas about sequences and about sums over finite sets that several proofs use |
| `DispositionStack` | abstract | per signal a stack of dispositions, the last one in force |
| `SignalHandler` | `libsignalhandler` | stacks, kernel dispositions, `setAllHandlers` round by round; implements `DispositionStack` |
| `SignalHandlerProofs` | - | TLAPS proofs about `SignalHandler` |
| `Lifecycle` | `main`, `Application`, the signal handler, the exit | composes `SignalHandler` with the life of all threads and the locks of the logger |
| `LifecycleProofs` | - | TLAPS proofs about `Lifecycle`; takes over those about `SignalHandler` |
| `EndToEnd` | the device simulator, against queue and `Tally` | runs of the script and what their totals have to do with the report |
| `MCEndToEnd` | - | instance for TLC: two devices, two messages |
| `EndToEndProofs` | - | TLAPS proofs about `EndToEnd` |
| `Fnv` | `libfnv` | the loop in 64-bit arithmetic on limbs, and the reference definition |
| `MCFnv` | - | instance for TLC: the names of the program, boundary bytes |
| `FnvProofs` | - | TLAPS proofs about `Fnv` |

How they fit together: `Backend` and `Logger` implement `MessageDelivery`, `DataStorage`
implements `Tally`, `SignalHandler` implements `DispositionStack`. `Lifecycle` takes
`SignalHandler`'s actions as steps of `main` and keeps of `Logger` and `Backend` what
matters for the life of a thread. `EndToEnd` takes `Tally` for the storage and a queue
for the backend. `Hash` in `DataStorage` is any function; `Fnv` says which one.

### Backend

`pc` maps each thread to its place. A place is named for the call the thread makes
next, so `pc["api"] = "notify"` reads "the API thread is about to call
`MessageProcessor::notify`, with `queueLock` held". A step ends where another
thread could see or disturb what was done: a critical section that asks for no
second mutex is one step, enabled when its mutex is free; the two that do ask for a
second one, `pushNewMessage` and the inner scope of `threadBody`, are taken apart.
The wait (`Wait`) releases the mutex and sleeps at once, as
`std::condition_variable::wait` does, and `SpuriousWakeup` wakes the sleeper for no
reason, as it may.

The outside world: each element of `Messages` is one POST request, whose body is
chosen at the start among malformed, nonconforming and conforming. JSON parsing and
schema validation are reduced to this verdict, except that the validator remembers:
with `ValidatorLatches`, as with RapidJSON's `SchemaValidator` without `Reset`,
a nonconforming document makes all later ones invalid. The order of the requests is
arbitrary. restbed is external and modelled by its use: `service.start` runs the
handlers one at a time on the thread that called it until `service.stop`, or returns
at once when it cannot serve; whether it also returns at once after an *earlier*
stop is the constant `StopIsRemembered`.

The failures modelled: the constructor throws, the schema does not load, `setupApi`
or thread creation fails for the API or the processor, the push throws.

### DataStorage

`addRecord` is a sequence of places (`find`, then the three measurements) under
`dataStoreLock`; `AddRecordThrows` is the `std::bad_alloc` at any place that
allocates, after which the lock guard lets go of the lock and the catch clause logs.
`Hash` is any function of device names, so that collisions are covered. `Total`,
`DeviceTotal` and `Measured` form the refinement mapping: the counts less the message
that is still in the making.

### Logger

`first`, `last`, `next` and `queueLength` are the linked list as the code keeps it,
and the auxiliary `queue` is the sequence it should represent. `loggerDataLock`
guards sections that take no other lock, each one step. `LogThreadFails` leaves it
taken, as the code does. At the end of `logDestroy_f` the code unlocks the same mutex
a second time; glibc's default mutex allows this when nobody holds it, and that is
what `CloseStream` does. `pthread_mutex_destroy` fails with `EBUSY` on a locked mutex
and the code goes on (`DestroyQueueLock`). `CallersAtExit` tells whether other
threads still log while the exit procedure runs: in *device-monitor* the exit after a
regular shutdown has joined both threads first, and the exit after a failed start has
not. In the second case the drain frees nodes while a caller may still link behind
the last one; the model takes that write into a freed node as a write without effect,
which is the mildest of its outcomes.

### SignalHandler

`disposition` is the kernel's table, `handlers` the stacks of the class. A push is
`signal()` followed by a save, and the save may throw: then the new handler is in force
and the old one forgotten (`SaveThrows`), which the auxiliary `lost` records. `setAllHandlers`
is a loop with one step per signal number (`sweep`), because a signal may arrive between
two rounds; it returns at the first failure and undoes nothing. Each return code of each
call is an action. `Call` leaves the caller free to use any number, valid or not, and any
disposition.

### Lifecycle

A thread has two frames, its own code and, while a signal is handled on it, the handler;
`at` and `call` say where each frame is and how far its current log call has got. A frame
under a handler does not move. So a handler that wants a mutex held by the code it
interrupted waits for ever, which is the point of the module. `main` runs from `atexit` to
the last line of `exitProcedure`, in the order of the code: `logInitialize_f`, `setAllHandlers`,
the push for `SIGWINCH`, `Application::get`, `run`, then `~Application` and `logDestroy_f`,
with every failure and the exceptions. The construction of the static `Application` is
guarded as the compiler guards it: one frame builds, others wait, and a frame that
re-enters on the thread that builds waits for itself, as glibc does. The guard is held until
the constructor is through, with what it logs on the way: a schema that does not load
(`SchemaFails`) and the exception of its catch clause (`ConstructFails`). Only then does
`Initialized` open it. A start that fails logs in the part that failed and again in `run`
(`SetupFails`, `ApiStartFails`, `ProcessorStartFails`, `StartFailed`), and `shutdownApi` may
log at the stop (`StopApi`).

Of the logger the two mutexes, the flags and the sleep of its thread are kept, and whether
its list is empty (`queueEmpty`): taking a message may or may not empty it. Of the API and
processor threads it is kept that they start, log (the API for a request, for a rejection
and when restbed fails, the processor when `addRecord` gives up) and end after their flag is
cleared; `messages` counts what the one has queued for the other. The processor may take one
message more after its flag was cleared, having read the flag before. Their own waits, and
the ways they hang, are `Backend`'s subject; this module is about what happens when they do
end. That includes a restbed whose `stop` threw: `shutdownApi` logs and `stop` goes on to
join all the same, and whether the service then ends cannot be told from this repository.
The module takes it to end. A thread has at
most one handler at a time: nested handlers would wait as one does. The locks of `malloc`,
which the handler also takes, and spurious wake-ups of the logger thread are left out: the
first would add more of the same self-waits, the second are in `Logger`.

### EndToEnd

Each element of `Scripts` is one run of `device_simulator.py`, at one of the places `run`,
`send`, `pushed`, `results`, `done`, `failed`. `GenerateMessage` counts a message and its
readings before it is sent, as `Device.generate_message` does. The backend refuses it
(400), fails to push it (500), or appends it to the queue, from which `Store` takes it
into `Tally`, or `StorePart` when the storage gives up half way. `ConnectionFails` is an
`http.client` exception; before the message arrived it is lost, after that it is not.
Counts are functions on `Cells`: all messages, those of a device, the readings of a device
and a value, so that one formula speaks of all three. A message with `padded = FALSE` has a
timestamp whose fraction misses a leading zero (`device_simulator.py:175` prints the
microseconds unpadded, line 21 of the schema asks for six digits); whether RapidJSON's
regular expressions reject it cannot be told from this repository, so `EnforcesPattern` is
a constant.

### Fnv

A 64-bit word is four limbs of 16 bits, as TLC's integers have 32. `SumOfShifts` is the
sum of shifted hashes that the code uses for the multiplication, `Fnv1a` the definition
with the prime. `Carried` lets four limbs that may be too large carry into the next and
drops what leaves the highest, `XoredLimb` takes the sixteen bits of a limb one by one.
`Extended` is the conversion of a `char`, signed on x86, to `uint64_t`.

## 3. What the runs check

"Pass" runs, each property with a mutant of the code that breaks it:

| run | instance | shows |
|---|---|---|
| `backend` | 3 messages, latching validator, stop remembered by restbed | `IInv` (mutex discipline, handler state, only conforming messages get in), `NoLostWakeup`, `RepliesAreTruthful`: the messages answered 200 are exactly those stored, in hand or queued; `DeliverySpec`: the threads implement `MessageDelivery`; `OnlyKnownStandstills`: the three threads all wait only when idle with every acknowledged message stored, at the end, in the lock cycle or in the missed stop; otherwise a queued message is stored, a POST answered, a shutdown finished |
| `storage` | 3 devices, 2 hashes, 4 messages, at most 3 records, allocation failures | `ReportAddsUp`: grand total = sum of device totals up to the records given up; `TallySpec`: the storage implements `Tally`; `IInv` |
| `logger` | 2 threads, 3 messages, 2 severities, orderly exit | `AllWritten`: what was answered with success is written when `logDestroy_f` returns; `DeliverySpec`: once each, in order; `IInv`: the linked list represents the queue, the answers are true; `OnlyKnownStandstills`: all threads wait only with every successful message written or in the two known ways to hang; linked messages get written, calls and `logDestroy_f` return but for these two, whether or not `calloc` ever fails |
| `signal_handler` | 2 signals and an unmaskable one between them, stacks of at most 2 | `SweepIsUndoable`: wherever `setAllHandlers` gives up, exactly the signals passed carry the new handler over their old disposition; `InheritedIsKept`: what the process inherited can be popped back unless its save threw; `StackSpec`; `IInv` |
| `lifecycle` | 2 events (signals on any thread at any place, POSTs, failures of the service), signals 1 and 2 (`SIGWINCH`), every failure | `StopIsNotForgotten`: a stop that comes before `run`, or before there is an `Application`, holds; `ObjectsOutliveThreads`, `LoggerOutlivesCallers`: nothing is destroyed under a thread but for the API after a failed `processor->start`; `LockDiscipline`: a frame holds a mutex of the logger exactly between its lock and its unlock; `HandlersInstalled`: each signal that `setAllHandlers` covers stops the running application in order, `SIGWINCH` does nothing (signals no program can handle, and numbers beyond the loop, can still kill it); `OnlySelfDeadlocks`: the process stands still only where it serves or a thread waits for itself, but for the two hangs of `logDestroy_f`; `SignalStopsUnlessStuck`: a handled signal stops the application unless a thread waits for itself; `TypeOK`, `IInv` |
| `end_to_end` | 2 overlapping scripts of at most 2 messages, 2 devices, a pattern that is enforced, every failure | `AllAccountedFor`: each message and reading counted by a script is on its way, queued, stored, or discarded, under the right device; `ReportIsExact`: a report asked for when nothing is on its way shows the scripts' totals if nothing was discarded; `TypeOK` |
| `fnv` | the 3 keys and 4 device names of the simulator, all strings of up to 3 of 7 boundary bytes | `AsciiIsFnv1a`: the FNV-1a value for ASCII names; `NoCollision`: no two ASCII names at hand share a hash; `NoCloseCollision`: none does with one that differs from it in three neighbouring characters or in one |

"Violation" runs, each a statement of the repository that the code does not keep; the
quotations are in `PROJECT.json` under `findings`:

| run | what TLC finds |
|---|---|
| `backend_deadlock` | API thread in `pushNewMessage` and processor in `threadBody` each hold the mutex the other asks for; the queued message is never stored |
| `backend_stop` | `stop()` notifies between the processor's flag test and its wait; main joins a sleeping thread. No request is needed |
| `backend_validator` | after one nonconforming message a conforming one is rejected |
| `logger_stop` | the same missed signal as in `backend_stop`, in `logDestroy_f`: the process hangs at exit |
| `lifecycle_signal` | the handler logs on a thread that is in the middle of a log call and holds `loggerDataLock`: it waits for a mutex that only the code under it can release, and `Application::stop` is never reached |

Four more disagreements met while modelling are in the models and in what the properties
excuse, without a run of their own:

* `fnv.hpp:12-14` documents `Fnv64a` as the hash of the page it cites and makes no exception,
  but a name with a byte from 0x80 on does not get its FNV-1a value where `char` is signed:
  the cast of `fnv.cpp:13` sign-extends the byte. `AsciiIsFnv1a` therefore claims the value
  for ASCII names only (`Plain`); with `Plain(str)` left out TLC refutes it at the string of
  one byte 0x80. Nothing the simulator sends has such a byte, and `Fnv` keeps the cast as it
  is;
* a record that `addRecord` gives up on (`DataStorage.cpp:42` logs that it was not added)
  stays in the grand total: the slack of `ReportAddsUp`, `Tally!AddPart`, and
  `EndToEnd!StorePart`;
* a thread that still logs during `logDestroy_f` is told success and its message may never
  be written: `AllWritten` fails with `CallersAtExit = TRUE`. In *device-monitor* this needs
  the API thread that a failed `processor->start` leaves behind (`LoggerOutlivesCallers`);
* when `pthread_create` fails `logInitialize_f` keeps `loggerDataLock`, and the next log call
  never returns: the excuse in `CallReturnsUnlessLocked`, and the last disjunct of
  `Lifecycle!WaitsForItself`.

**Bounds.** `Backend` has no counter: the number of requests is the only bound. With
three, the queue holds two messages while one is in hand, so order, the empty and the
non-empty queue and a rejection between two acceptances all occur. The lock cycle
needs one message, two leave one behind it. In `DataStorage`, `MaxRecords = 3` lets
one device be registered, found again and mixed up with another one of the same hash;
each message has another set of values. The counters are `uint64_t`: their wrap-around
lies 2^64 messages away and is left out. In `Logger` three messages make a list with a
first, an inner and a last element, and one of them is below the level; two threads
besides `main` give every pair of roles (caller, caller), (caller, logger thread),
(caller, `logDestroy_f`).

In `SignalHandler`, `MAX_SIG_ID = 4` with 2 unmaskable has a signal before and one after
the number that is skipped, and stacks of two (`MaxDepth`) have a top that is not the
bottom. In `Lifecycle`, `MaxEvents = 2` bounds what the process does not do itself: two
signals, on one thread after the other or on two at once, or a signal and a POST that is
accepted or refused, or two POSTs. Two handlers are what a circle between threads takes, and
what one more adds is waiting; `NoCrossedHandlers` (section 4) shows for any number of them
that none closes. `Inheritable = {SIG_DFL}` starts the process with the default dispositions;
an inherited `SIG_IGN` is pushed and kept as `signal_handler` shows, and the theorems hold for
either. All theorems hold for any number of events.

In `EndToEnd`, two scripts of two messages (`MaxMessages`)
overlap with each other and with the processor; one message of each kind gives one refused
and one accepted, with one and with two readings. `ValidatorLatches` is off in this run,
since after the first refused message nothing else would be accepted (`backend_validator`
shows that). In `Fnv` the bytes 0, 1, 65, 127, 128, 195, 255 are the boundaries of ASCII
and of a signed char, and the program's own names are complete. `NoCollision`
is about the ASCII names at hand and says nothing of all strings; for names with bytes from
0x80 on it fails, as after an even hash the byte pairs 1, 1 and 255, 255 lead to the same one.

**Deadlock checking** is off in the `Backend`, `Logger` and `Lifecycle` runs, because all
three really stop: the process has exited, or it hangs in one of the ways found. Which these
are, `OnlyKnownStandstills` and `OnlySelfDeadlocks` say. "All threads wait" is spelled out
there place by place (`ApiWaits`, `CallerWaits`, `Waits`), since the prover cannot reason about
`ENABLED`; a call, a request, a signal, a spurious wake-up and a failing `calloc` do not
count as a way out. It is off for `EndToEnd`, whose scripts end, and for
`Fnv`, whose function returns. It is on for `DataStorage`, which can always report, and for
`SignalHandler`, which can always be called.

**Fairness.** Each thread is weakly fair as a whole: a thread that can run is
scheduled by the operating system. A mutex asked for by a thread is free again and
again only if its holder runs, so weak fairness is all that is needed here: a section
under a mutex is short, and at most two threads compete. Requests, signals, log calls,
spurious wake-ups and the exit are not owed, and neither is a failure: in `Logger` the
failing `calloc` (`CannotQueue`) is an action of its own, outside the fair step of a caller,
so that a caller at `queueLock` gets on by the mutex or not at all. In `Lifecycle` the step of
a thread is a step of its handler or, when there is none, of its code. There `queueEmpty` does
not count the messages, so that a logger thread that takes one after the other could go on for
ever; the list is finite and nobody adds to it without end, which strong fairness of
`TakesLast` says: a thread that can take the last message again and again takes it.
`EndToEnd` states no fairness: the lock cycle of `backend_deadlock` and a shutdown both leave
messages in the queue, so nothing promises that the storage catches up with the scripts. The
run `backend` sets
`StopIsRemembered`: without this, a stop that comes before restbed's start would be
forgotten and the shutdown hangs; which of the two restbed does cannot be told from this
repository.

## 4. What is proved

With TLAPS, for every value of the constants that meets the assumptions
(`BackendAssumption`: two Boolean switches, and `NoMessage` is not a message;
`StorageAssumption`: `Hash` is defined on all names, there are finitely many hashes
(`uint64_t`), and messages have the shape the schema gives them; `LoggerAssumption`: severities are numbers, `NULL` is not a
message, and the names `main`, `logger`, `free` and `destroyed` are not those of other
threads; `SignalAssumption`: the unmaskable signals are valid numbers, the null pointer
`SIG_DFL` is neither a function nor `SIG_IGN`; `LifecycleAssumption`: `SIGWINCH` can be
handled, `signalHandler` is a function, a process starts with `SIG_DFL` or `SIG_IGN`, what `SignalHandler` assumes holds, and the values
for a free and a destroyed mutex are not frames; `EndToEndAssumption`: finitely many runs
of the simulator, whose messages name devices and keys; `FnvAssumption`: names are
sequences of bytes):

| theorem | says |
|---|---|
| `BackendProofs!TypeCorrect` | `Spec => []TypeOK` |
| `BackendProofs!BackendInvariant` | `Spec => []IInv` |
| `BackendProofs!NoWakeupIsLost` | no lost wake-up for data, for any number of messages |
| `BackendProofs!AnswersAreTrue` | `Spec => []RepliesAreTruthful` |
| `BackendProofs!NoOtherStandstill` | `Spec => []OnlyKnownStandstills`, whether or not restbed remembers an early stop |
| `BackendProofs!ImplementsDelivery` | `Backend` implements `MessageDelivery` |
| `DataStorageProofs!StorageInvariant` | `Spec => []IInv` of `DataStorage` |
| `DataStorageProofs!ReportsAddUp` | `Spec => []ReportAddsUp`, for any number of devices |
| `DataStorageProofs!ImplementsTally` | `DataStorage` implements `Tally` |
| `LoggerProofs!TypeCorrect` | `Spec => []TypeOK` |
| `LoggerProofs!LoggerInvariant` | `Spec => []IInv` of `Logger`, also with threads that log during the exit |
| `LoggerProofs!AnswersAreTrue` | `Spec => []SuccessIsQueued` |
| `LoggerProofs!EverythingWritten` | `Spec => []AllWritten`, assuming `~CallersAtExit` |
| `LoggerProofs!NoOtherStandstill` | `Spec => []OnlyKnownStandstills`, also with threads that log during the exit |
| `LoggerProofs!ImplementsDelivery` | `Logger` implements `MessageDelivery`, assuming `~CallersAtExit` |
| `SignalHandlerProofs!SignalInvariant` | `Spec => []IInv` of `SignalHandler`, for stacks of any depth |
| `SignalHandlerProofs!SetAllIsUndoable` | `Spec => []SweepIsUndoable` |
| `SignalHandlerProofs!InheritedStays` | `Spec => []InheritedIsKept` |
| `SignalHandlerProofs!ImplementsDispositionStack` | `SignalHandler` implements `DispositionStack` |
| `LifecycleProofs!LifecycleInvariant` | `Spec => []IInv` of `Lifecycle`, for any number of signals and requests, and wherever the constructor fails |
| `LifecycleProofs!EarlySignals` | `Spec => []StopIsNotForgotten` |
| `LifecycleProofs!ThreadsBeforeObjects` | `Spec => []ObjectsOutliveThreads` |
| `LifecycleProofs!CallersBeforeLogger` | `Spec => []LoggerOutlivesCallers` |
| `LifecycleProofs!HandlersStay` | `Spec => []HandlersInstalled` |
| `LifecycleProofs!MutexesAreReturned` | `Spec => []LockDiscipline` |
| `LifecycleProofs!SignalHandlerIsUsed` | `Lifecycle` implements `SignalHandler`, with `signalHandler` for its only routine |
| `LifecycleProofs!NoCrossedHandlers` | `Spec => []OnlySelfDeadlocks`: however many handlers interrupt whichever threads, they never wait for each other in a circle |
| `LifecycleProofs!TypesHold` | `Spec => []TypeOK` of `Lifecycle` |
| `EndToEndProofs!TypeCorrect` | `Spec => []TypeOK` of `EndToEnd` |
| `EndToEndProofs!Accounted` | `Spec => [](TypeOK /\ AllAccountedFor)`, for any number of runs, devices and messages |
| `EndToEndProofs!ReportsAreExact` | `Spec => ReportIsExact` |
| `FnvProofs!ShiftsMultiply` | the sum of shifts is the product with the FNV prime modulo 2^64, for every word |
| `FnvProofs!AsciiNamesGetFnv1a` | `Spec => []AsciiIsFnv1a`, for names of any length |
| `FnvProofs!CloseNamesDiffer` | `Spec => []NoCloseCollision`, for names of any length |

**Backend.** `NoLostWakeup` is not inductive by itself. That the processor finds the
queue empty and sleeps "at once" holds because it holds `processLock` from one to the
other and `notify` needs that lock: hence `LocksHeld`. `RepliesAreTruthful` needs to
know that the message in the hands of the API thread has not been answered
(`HandlerInv`), and that the processor holds nothing before it exists (`StartOrder`).
The conjunction is `IInv`. The proof has one case per action for the control part
(`ControlPreserved`) and treats the data by what a step does to the sequence
`Accepted`: it is appended to by `PushNewMessage` and left alone by all others, because
taking the head into the hand and storing what is in the hand only move a boundary
(`ConcatAppend`, `ConcatHeadTail`, `ConcatStore`, `ConcatNext`). The refinement then is
immediate: a push is `Accept`, `AddRecord` is `Store`, all else stutters.

`NoOtherStandstill` is a statement of one state, and follows from `IInv` by the place of
`main`. For that `IInv` has to know how far `stop` is (`ShutdownOrder`): that the flags are
down where `main` joins, that a thread which is joined was started, and that the API thread
does not end by itself. Where `main` waits for its loop to end, the other two can both be
stopped only by the lock cycle or by having nothing to do, and then `NoLostWakeup` and
`RepliesAreTruthful` together say that all acknowledged messages are stored.

**DataStorage.** `AddRecordInv` says that the lock covers `addRecord` from the first to
the last step. With it a step of `addRecord` short of the last one changes the counters
and the "message in the making" together and leaves the mapped counts alone
(`InnerSteps`); the last one is `Tally!Add` (`LastMeasurementAdds`), a throw is
`Tally!AddPart` (`ThrowingAddsPart`), `getResults`, which waits for the lock, is
`Tally!Report` (`GetResultsReports`). `ReadingsBounded` is preserved because it speaks of
the mapped counts (`BoundPreserved`).

`ReportAddsUp` speaks of a sum over a set of devices, a fold in the model. What is known
of such a sum is put into one lemma, `DataLemmas!SumCountsTokens`: it is the number of
tokens, as many for each element as the summand says, and cardinalities can be reasoned
about. That lemma needs an induction over subsets. The induction theorems of the library
take the property as an operator, so `SubsetInduction` takes it as the *set* `good` of
the subsets that have it. From there `SumPlus` says what one larger summand does to the
sum. `ReportAddsUp` is about a copy and not inductive: `StoreAddsUp` says the same of the
storage itself, at every step of `addRecord`, with the message just counted taken off
while the device has not been found. `getResults` runs only when nothing is being counted,
and copies it.

**Logger.** The invariant that carries the proof is `ListRepresentsQueue`: the next
pointers run through `queue`. Linking a message keeps it only if the new node has no
successor and is not already the last one, which `NodesAreFresh` says of every message
that was never linked; that it was never linked follows from `SuccessIsQueued`, since
the message in the hands of a caller has no answer yet (`CallInv`). The lemma
`EnqueueLinks` is that step, `TakingFirst` the removal of the first node, by
`popMessage` or by the drain. `LoggerInv` separates the two: the drain runs only
when the thread is gone, so that the message in hand and the list are never both being
written. While the drain takes the list apart without the lock and without counting,
`queueLength` only bounds the length of the list, and a message linked behind the last
node taken cannot be reached; with `~CallersAtExit` this cannot happen (`ExitInv`), and
that is where the two theorems that assume it need it; TLC shows that they fail
without. `MovesOfMessages` sorts all steps by what they do to the
messages, and each kind is `Accept`, `Store` or a stutter.

`NoOtherStandstill` needs the order of thread and flag (`ThreadOrder`): the logger thread
cannot have ended before `logDestroy_f`, and there is nothing in the list where it never
ran. A holder of `queueLock` is about to link its message and waits for nothing, so the only
mutex anybody can wait for in vain is the one that `logInitialize_f` kept.

**SignalHandler.** `StepEffect` sorts all steps into four effects on the stacks: none, a
push, a push whose save throws, a pop. `InheritedIsKept` and the refinement need only
these: a push appends to `Stack[s]`, a pop drops its last element, and a throwing save
replaces the last element, which can be the first one only if it goes to `lost`.
`SweepIsUndoable` is inductive: one more round covers the next signal and leaves the others
alone, a skipped number is not a signal, and whatever leaves the loop sets `sweep` to 0.

**Lifecycle.** The three properties are about different moments but rest on one account of
where `main` is (`StartAndStop`), which names what is running and what exists at each
place. It has to know that a second construction cannot bring `api` back or set
`runApplication` again (`BuiltOnce`: one frame builds, and nobody is stopped, started or
deleted before that), and that a thread that was joined has no handler left
(`OnLiveThreads`), since a handler counts as a caller of the logger and could build the
`Application`. A log call moves no thread but, by waking it, the logger's. A killed
process keeps it trivially, all frames being gone. The proof goes action by action, and the
steps of handlers are proved once for all threads.

`HandlersInstalled` has an invariant of its own, `HandlersInv`: at each round of the sweep
the signals passed have the handler, and after the sweep all have. `InstallingPreserves`
covers the steps of `initProcedure`; all others neither touch a disposition nor bring
`main` to a place where more of them are promised (`LeavesHandlers`).

`LockDiscipline` is strengthened to `LocksInv`: before `logInitialize_f` nobody can be in
the logger, not even a handler, since none is installed; that is what makes the new mutexes
free of owners. It also says that `main` holds `loggerDataLock` in `logDestroy_f` between
the call that stops the thread and the unlock. Most steps touch no mutex (`KeepsLocks`), the
steps of a log call take and return theirs, and that a killed or exited process keeps
nothing is why the property speaks of a process that runs.

`OnlySelfDeadlocks` says that following who waits for whom always ends at a thread that
waits for itself. The reason is in `HolderInv`: a handler on top of code that holds a mutex is
still in its first log call and not past the place where it wants that mutex
(`BehindTheHolder`). It therefore cannot hold or build anything another handler waits for, so
two handlers never close a circle over the two threads under them, wherever those are: in
the constructor's own log calls, in the processor's or in `main`'s. The same invariant confines
`main` after a failed `logInitialize_f` kept `loggerDataLock`: its first log call is its last,
or it gives up before one and `logDestroy_f` is locked out. `PlaceInv` says who builds the
`Application` while it is under construction, and which flags are down where `main` joins.
`HeldByOneself` draws the conclusion for the mutexes, `SelfDeadlocks` for the constructor and
then for `main`.

`SignalHandlerIsUsed` shows that each step of the process leaves the variables of
`SignalHandler` alone or is one of its steps; with it `SignalHandlerProofs` is instantiated
(`Signal`) and its invariant cited, instead of being proved again: the types of the stacks
in `TypesHold` come from there. The types of what is left are preserved in two groups
(`DataTypes`, `FlagTypes`).

**EndToEnd.** `AllAccountedFor` is an equation for each cell between a sum over the runs,
the number of runs with such a message on its way, the number of places of the queue that
hold one, the counts of the storage and what was discarded. It is inductive with the types.
The proof gives each term a lemma that says how a step changes it: `SimulatedChange` (a
summand grows), `SendingChange` (a script enters or leaves a set), `QueuedFacts` (the queue
grows at its end and shrinks at its head), `AddAdds` and `AddPartAdds` (a message counted
whole or in part). `BalancePreserved` then is one line of arithmetic for each action.
`ReportIsExact` follows: at a report that meets its condition all terms but one are zero
(`ExactReport`).

**Fnv.** A word is taken as the integer `Value`, in Horner form, and two integers are
`Congruent` when they differ by a multiple of 2^64, written as four factors `Base` so that
the prover never sees the number itself. `CarryFacts` is the step that matters: what
`Carried` makes is a word of the same value modulo 2^64. From it follow addition
(`PlusFacts`), the shifts, each multiplying by its power of two (`LimbShift`, `ShiftWithin`
for those by less than a limb), and the product with the prime. Both sides of
`ShiftsMultiply` are thus congruent, and two congruent words are equal (`WordsDiffer`). The
loop invariant `LoopInv` compares `hash` with the reference on the bytes consumed so far. The
reference is a recursive function, and that there is one is itself to be proved
(`ReferenceExists`), by taking the least length without one.

`NoCloseCollision` is what `DataStorage` relies on when it files records under hashes and
never compares names: devices that are numbered, with one to three digits, get different
ones. One round of the hash loses nothing: the prime is odd and cancels modulo 2^64, and the
exclusive or gives back its arguments bit by bit. So equal hashes stay equal when the common
end of two names is taken off, and different ones stay different when a common beginning is
put in front. What remains are up to three rounds
with different bytes. A byte that is not negative as a char changes a hash by less than 256,
so the same round on two names moves their difference by at most 510. With the prime 2^40 +
435 and such amounts d1, d2 and d3, equal hashes require 435·435·d1 + 435·d2 + d3 to vanish
modulo 2^32, and then 222720·d1 + 256·d2 to do so too. Both are smaller than 2^32, so both are
zero, and then all three amounts are. Bytes from 0x80 on are sign-extended where char is
signed, and two neighbouring ones are already enough for a collision, so for names with
those the property claims only what one byte does.

**Only model-checked:** all liveness properties (temporal reasoning with fairness is
beyond the prover), which means the "unless stuck" properties; `NoCollision`, which is true
of the names at hand and not of all strings, so that there is no general statement to prove.
`SignalHandlerIsUsed` is the other way round: proved for all instances, and in no run. Every other invariant and action
property of a passing run is the statement of a theorem.

## 5. Not modelled, and what is left

Left out for good:

* JSON text and schema matching (their verdict is what the backend sees), HTTP, the layout
  of the report and of log lines;
* RapidJSON and restbed, which are not in the repository and are modelled by their use. The
  handlers run one at a time because restbed is started with its default of one worker; a
  model with several would need a lock for the validator that the code does not have. This
  is why the API component counts as partly modelled;
* `doc/html`: pages and scripts that doxygen generated. The JavaScript there (search box,
  navigation tree, resizing) belongs to doxygen, not to this program, and nothing of the
  program calls it;
* the CMake files and shell scripts, which build and start the two programs.

The modules planned at the start are all written. What would still add something:

* `Backend` and `Lifecycle` in one module, so that the hangs of the one meet the signals
  of the other; today `Lifecycle` takes the threads of `Backend` for ones that end once
  told to.
