------------------------------ MODULE EndToEnd ------------------------------
(***************************************************************************)
(* The device simulator and the backend together.  A run of the script     *)
(* counts each message and each reading before it sends it, posts it, goes *)
(* on whatever the answer, and in the end asks for the report, which a     *)
(* person compares with the script's own counts.  Several runs may follow  *)
(* each other or overlap, and the backend accumulates their messages.      *)
(*                                                                         *)
(* Of the backend the answer to a POST and the queue are kept, which       *)
(* module Backend models in full, and Tally, which DataStorage implements. *)
(* The order of the devices in a pass and what each can measure are left   *)
(* open: any device may send any message next.                             *)
(***************************************************************************)
EXTENDS Integers, Sequences, FiniteSets, Functions

CONSTANTS
  Scripts,           \* the runs of device_simulator.py
  Names,             \* the devices they simulate
  Messages,          \* records [name, keys, padded] that a device may send
  EnforcesPattern,   \* the validator applies the pattern of the timestamp
  ValidatorLatches,  \* and stays invalid after a message it rejected
  MayFail,           \* the storage may run out of memory
  MaxMessages,       \* bound on the messages of one run
  NoMessage          \* None

Keys == {"current", "voltage", "temperature"}

ASSUME EndToEndAssumption ==
  /\ IsFiniteSet(Scripts)
  /\ Messages \subseteq [name : Names, keys : SUBSET Keys, padded : BOOLEAN]
  /\ EnforcesPattern \in BOOLEAN /\ ValidatorLatches \in BOOLEAN
  /\ MayFail \in BOOLEAN
  /\ MaxMessages \in Nat
  /\ NoMessage \notin Messages

VARIABLES
  at,              \* where each run is
  message,         \* what it is about to post or has posted
  counted,         \* its Measurements
  messageQueue,    \* AbstractAPI::messageQueue
  validatorValid,  \* of the SchemaValidator
  discarded,       \* auxiliary: what the backend refused or never received
  total, deviceTotal, measured, reported  \* the storage, see Tally

storageVars == <<total, deviceTotal, measured, reported>>
vars == <<at, message, counted, messageQueue, validatorValid, discarded,
          storageVars>>

Storage == INSTANCE Tally WITH Hash <- [n \in Names |-> n]

\* What is counted: messages, messages of a device, readings of a device.
Cells == {<<>>} \cup {<<n>> : n \in Names} \cup (Names \X Keys)

CellsOf(m) == {<<>>, <<m.name>>} \cup {<<m.name, k>> : k \in m.keys}

\* One more message in the counts c.
Plus(c, m) == [x \in Cells |-> c[x] + IF x \in CellsOf(m) THEN 1 ELSE 0]

Nothing == [x \in Cells |-> 0]

\* The counts of a report as counts of cells.
AsCells(counts) ==
  [x \in Cells |-> CASE Len(x) = 0 -> counts[1]
                     [] Len(x) = 1 -> counts[2][x[1]]
                     [] Len(x) = 2 -> counts[3][x[1]][x[2]]]

-----------------------------------------------------------------------------
\* Mutant: a message is counted, its readings only once it is sent.
GenerateUncounted(s, m) ==
  /\ at[s] = "run"
  /\ counted[s][<<>>] < MaxMessages
  /\ at' = [at EXCEPT ![s] = "send"]
  /\ message' = [message EXCEPT ![s] = m]
  /\ counted' = [counted EXCEPT ![s] = Plus(@, [m EXCEPT !.keys = {}])]
  /\ UNCHANGED <<messageQueue, validatorValid, discarded, storageVars>>

\* Device.generate_message: it counts the message and its readings.
GenerateMessage(s, m) ==
  /\ at[s] = "run"
  /\ counted[s][<<>>] < MaxMessages
  /\ at' = [at EXCEPT ![s] = "send"]
  /\ message' = [message EXCEPT ![s] = m]
  /\ counted' = [counted EXCEPT ![s] = Plus(@, m)]
  /\ UNCHANGED <<messageQueue, validatorValid, discarded, storageVars>>

\* The fraction of the timestamp is not padded to the six digits that the
\* schema asks for.
Conforms(m) ==
  /\ EnforcesPattern => m.padded
  /\ ValidatorLatches => validatorValid

\* Mutant: the script posts again, with a message it no longer has.
AnsweredRetries(s) ==
  /\ at' = [at EXCEPT ![s] = "send"]
  /\ message' = [message EXCEPT ![s] = NoMessage]
  /\ UNCHANGED counted

\* __send_message is over: the script goes on.
Answered(s) ==
  /\ at' = [at EXCEPT ![s] = "run"]
  /\ message' = [message EXCEPT ![s] = NoMessage]
  /\ UNCHANGED counted

\* The answer is 400 and is only printed.
PostRejected(s) ==
  /\ at[s] = "send" /\ ~Conforms(message[s])
  /\ Answered(s)
  /\ discarded' = Plus(discarded, message[s])
  /\ validatorValid' = FALSE
  /\ UNCHANGED <<messageQueue, storageVars>>

\* The push throws, the answer is 500.
PushFails(s) ==
  /\ at[s] = "send" /\ Conforms(message[s])
  /\ Answered(s)
  /\ discarded' = Plus(discarded, message[s])
  /\ UNCHANGED <<messageQueue, validatorValid, storageVars>>

PushNewMessage(s) ==
  /\ at[s] = "send" /\ Conforms(message[s])
  /\ at' = [at EXCEPT ![s] = "pushed"]
  /\ messageQueue' = Append(messageQueue, message[s])
  /\ UNCHANGED <<message, counted, validatorValid, discarded, storageVars>>

ReplyOK(s) ==
  /\ at[s] = "pushed"
  /\ Answered(s)
  /\ UNCHANGED <<messageQueue, validatorValid, discarded, storageVars>>

\* An exception of http.client, before the message arrived or after, or while
\* the script waits for the report, ends the script.
ConnectionFails(s) ==
  /\ at[s] \in {"send", "pushed", "results"}
  /\ at' = [at EXCEPT ![s] = "failed"]
  /\ discarded' = IF at[s] = "send" THEN Plus(discarded, message[s])
                                    ELSE discarded
  /\ UNCHANGED <<message, counted, messageQueue, validatorValid, storageVars>>

\* The runtime is over; the script prints its counts and sleeps.
LeaveRun(s) ==
  /\ at[s] = "run"
  /\ at' = [at EXCEPT ![s] = "results"]
  /\ UNCHANGED <<message, counted, messageQueue, validatorValid, discarded,
                 storageVars>>

\* print_results: GET, whatever is still in the queue.
PrintResults(s) ==
  /\ at[s] = "results"
  /\ at' = [at EXCEPT ![s] = "done"]
  /\ Storage!Report
  /\ UNCHANGED <<message, counted, messageQueue, validatorValid, discarded>>

\* Mutant: the processor stores a message and leaves it in the queue once.
StoreTwice ==
  /\ messageQueue # <<>>
  /\ Storage!Add(Head(messageQueue))
  /\ messageQueue' \in {messageQueue, Tail(messageQueue)}
  /\ UNCHANGED <<at, message, counted, validatorValid, discarded>>

\* The processor takes a message and stores it.
Store ==
  /\ messageQueue # <<>>
  /\ Storage!Add(Head(messageQueue))
  /\ messageQueue' = Tail(messageQueue)
  /\ UNCHANGED <<at, message, counted, validatorValid, discarded>>

\* The storage gives up on it half way, and what it did not count is lost.
StorePart ==
  /\ messageQueue # <<>>
  /\ Storage!AddPart(Head(messageQueue))
  /\ messageQueue' = Tail(messageQueue)
  /\ LET old == AsCells(Storage!Counts) new == AsCells(Storage!Counts') IN
     discarded' = [x \in Cells |-> Plus(discarded, Head(messageQueue))[x]
                                     - (new[x] - old[x])]
  /\ UNCHANGED <<at, message, counted, validatorValid>>

-----------------------------------------------------------------------------
Init ==
  /\ at = [s \in Scripts |-> "run"]
  /\ message = [s \in Scripts |-> NoMessage]
  /\ counted = [s \in Scripts |-> Nothing]
  /\ messageQueue = <<>>
  /\ validatorValid = TRUE
  /\ discarded = Nothing
  /\ Storage!Init

Generate(s) == \E m \in Messages : GenerateMessage(s, m)

Script(s) ==
  \/ Generate(s) \/ LeaveRun(s) \/ PrintResults(s)
  \/ PostRejected(s) \/ PushFails(s) \/ PushNewMessage(s) \/ ReplyOK(s)
  \/ ConnectionFails(s)

Processor == Store \/ StorePart

Next == Processor \/ \E s \in Scripts : Script(s)

Spec == Init /\ [][Next]_vars

-----------------------------------------------------------------------------
(***************************************************************************)
(* Properties.                                                             *)
(***************************************************************************)
Simulated(x) == SumFunction([s \in Scripts |-> counted[s][x]])

Sending(x) ==
  Cardinality({s \in Scripts : at[s] = "send" /\ x \in CellsOf(message[s])})

Queued(x) ==
  Cardinality({i \in DOMAIN messageQueue : x \in CellsOf(messageQueue[i])})

\* The variables have their types, and a run that posts has a message to post.
TypeOK ==
  /\ at \in [Scripts -> {"run", "send", "pushed", "results", "done", "failed"}]
  /\ message \in [Scripts -> Messages \cup {NoMessage}]
  /\ \A s \in Scripts : at[s] \in {"send", "pushed"} => message[s] \in Messages
  /\ counted \in [Scripts -> [Cells -> Nat]]
  /\ messageQueue \in Seq(Messages)
  /\ validatorValid \in BOOLEAN
  /\ discarded \in [Cells -> Nat]
  /\ total \in Nat
  /\ deviceTotal \in [Names -> Nat]
  /\ measured \in [Names -> [Keys -> Nat]]
  /\ reported \in Nat \X [Names -> Nat] \X [Names -> [Keys -> Nat]]

\* Each message and each reading that the scripts counted is in one place: on
\* its way, in the queue, counted by the storage, or refused, lost on the way
\* or given up.  None is counted twice, and none by the wrong device.
AllAccountedFor ==
  \A x \in Cells :
    Simulated(x) = Sending(x) + Queued(x) + AsCells(Storage!Counts)[x]
                     + discarded[x]

\* The comparison that README.md, line 41, describes: a report asked for when
\* no message is on its way or in the queue shows the counts of all the runs
\* since the backend started, if none was refused or lost.
ReportIsExact ==
  [][\A s \in Scripts :
       /\ PrintResults(s)
       /\ messageQueue = <<>> /\ discarded = Nothing
       /\ \A t \in Scripts : at[t] # "send"
       => \A x \in Cells : AsCells(reported')[x] = Simulated(x)]_vars
=============================================================================
