---------------------------- MODULE DataStorage ----------------------------
(***************************************************************************)
(* DataStorage: the map of device records, its two counters and the lock   *)
(* that the processor thread (addRecord) and the API thread (getResults)   *)
(* share.  addRecord works in several steps, any of which may throw when   *)
(* memory runs out; the lock is released and what was done stays.          *)
(*                                                                         *)
(* Devices are identified by the hash of their name, and Hash need not be  *)
(* injective: two names with one hash share a record.  The three measured  *)
(* values are fixed in the source, and so are their hashes, all different: *)
(* a key stands for its hash.                                              *)
(***************************************************************************)
EXTENDS Integers, FiniteSets, Functions

CONSTANTS
  Names,          \* the device names
  Hash,           \* fnv::Fnv64a on device names
  Messages,       \* the conforming messages, records [name, keys]
  AllocMayFail,   \* an allocation may throw std::bad_alloc
  MaxRecords,     \* bound on the records added, far below 2^64
  NoMessage       \* stands for the parameter while addRecord does not run

Keys == {"current", "voltage", "temperature"}
Ids == Range(Hash)

ASSUME StorageAssumption ==
  /\ Hash \in [Names -> Ids] /\ IsFiniteSet(Ids)
  /\ Messages \subseteq [name : Names, keys : SUBSET Keys]
  /\ AllocMayFail \in BOOLEAN
  /\ MaxRecords \in Nat
  /\ NoMessage \notin Messages

VARIABLES
  pc,             \* where addRecord is: idle, at find or at a measurement
  dataStoreLock,  \* the holder of dataStoreLock or "free"
  record,         \* the message being added
  dataStore,      \* DataStorage::dataStore
  totalCount,     \* DataStorage::totalCount
  results,        \* what the last getResults returned
  errors          \* how often addRecord logged that it gave up

storeVars == <<dataStore, totalCount>>
vars == <<pc, dataStoreLock, record, storeVars, results, errors>>

Empty == [id \in {} |-> 0]

\* What a new DeviceRecord and a new Value look like.
DeviceRecord(name) ==
  [name |-> name, deviceMessageCount |-> 1, measurements |-> Empty]

\* std::map::insert of a new key.
Insert(map, key, value) ==
  [k \in DOMAIN map \cup {key} |-> IF k = key THEN value ELSE map[k]]

\* The places of addRecord in order; the lock goes with the last one.
After(place) ==
  CASE place = "find" -> "current"
    [] place = "current" -> "voltage"
    [] place = "voltage" -> "temperature"
    [] place = "temperature" -> "idle"

Advance ==
  /\ pc' = After(pc)
  /\ IF pc = "temperature"
       THEN dataStoreLock' = "free" /\ record' = NoMessage
       ELSE UNCHANGED <<dataStoreLock, record>>

idDevice == Hash[record.name]

-----------------------------------------------------------------------------
\* addRecord takes the lock and counts the message.
AddRecord(m) ==
  /\ pc = "idle"
  /\ dataStoreLock = "free"
  /\ totalCount < MaxRecords
  /\ dataStoreLock' = "processor"
  /\ totalCount' = totalCount + 1
  /\ record' = m
  /\ pc' = "find"
  /\ UNCHANGED <<dataStore, results, errors>>

\* Mutant: only the first message of a device is counted.
RegisterOnce ==
  /\ pc = "find"
  /\ dataStore' = IF idDevice \in DOMAIN dataStore
                    THEN dataStore
                    ELSE Insert(dataStore, idDevice, DeviceRecord(record.name))
  /\ Advance
  /\ UNCHANGED <<totalCount, results, errors>>

\* find, then insert or increment.
RegisterDevice ==
  /\ pc = "find"
  /\ dataStore' = IF idDevice \in DOMAIN dataStore
                    THEN [dataStore EXCEPT ![idDevice].deviceMessageCount
                                             = @ + 1]
                    ELSE Insert(dataStore, idDevice, DeviceRecord(record.name))
  /\ Advance
  /\ UNCHANGED <<totalCount, results, errors>>

\* Mutant: a new Value replaces the one that was there.
MeasureAnew(measurements, key) == Insert(measurements, key, 1)

\* The measurements of the device after one more reading of key.
Measure(measurements, key) ==
  IF key \in DOMAIN measurements
    THEN [measurements EXCEPT ![key] = @ + 1]
    ELSE Insert(measurements, key, 1)

\* addMeasurementRecord for the key at which pc stands.
AddMeasurementRecord ==
  /\ pc \in Keys
  /\ dataStore' = IF pc \in record.keys
                    THEN [dataStore EXCEPT ![idDevice].measurements
                                             = Measure(@, pc)]
                    ELSE dataStore
  /\ Advance
  /\ UNCHANGED <<totalCount, results, errors>>

\* std::bad_alloc: the copy of the name, or the node of a new map entry.
AddRecordThrows ==
  /\ AllocMayFail
  /\ \/ pc = "find"
     \/ /\ pc \in Keys /\ pc \in record.keys
        /\ pc \notin DOMAIN dataStore[idDevice].measurements
  /\ pc' = "idle"
  /\ dataStoreLock' = "free"
  /\ record' = NoMessage
  /\ errors' = errors + 1
  /\ UNCHANGED <<storeVars, results>>

\* Mutant: getResults does not take dataStoreLock.
GetResultsUnlocked ==
  /\ results' = [devices |-> dataStore, grandTotal |-> totalCount]
  /\ UNCHANGED <<pc, dataStoreLock, record, storeVars, errors>>

\* getResults, on the API thread, holds the lock for all of its loop.
GetResults ==
  /\ dataStoreLock = "free"
  /\ results' = [devices |-> dataStore, grandTotal |-> totalCount]
  /\ UNCHANGED <<pc, dataStoreLock, record, storeVars, errors>>

Init ==
  /\ pc = "idle"
  /\ dataStoreLock = "free"
  /\ record = NoMessage
  /\ dataStore = Empty
  /\ totalCount = 0
  /\ results = [devices |-> Empty, grandTotal |-> 0]
  /\ errors = 0

Next ==
  \/ \E m \in Messages : AddRecord(m)
  \/ RegisterDevice
  \/ AddMeasurementRecord
  \/ AddRecordThrows
  \/ GetResults

Spec == Init /\ [][Next]_vars

-----------------------------------------------------------------------------
(***************************************************************************)
(* Properties.  The counts are taken without the message that addRecord is *)
(* in the middle of: it counts when the lock is released.                  *)
(***************************************************************************)
CountAt(devices, id) ==
  IF id \in DOMAIN devices THEN devices[id].deviceMessageCount ELSE 0

ReadingsAt(devices, id, k) ==
  IF id \in DOMAIN devices /\ k \in DOMAIN devices[id].measurements
    THEN devices[id].measurements[k] ELSE 0

\* addRecord has been through the measurement k of its message.
Passed(k) ==
  \/ k = "current" /\ pc \in {"voltage", "temperature"}
  \/ k = "voltage" /\ pc = "temperature"

Total == totalCount - IF pc = "idle" THEN 0 ELSE 1

DeviceTotal ==
  [id \in Ids |-> CountAt(dataStore, id)
                    - IF pc \in Keys /\ id = idDevice THEN 1 ELSE 0]

Measured ==
  [id \in Ids |-> [k \in Keys |->
     ReadingsAt(dataStore, id, k)
       - IF Passed(k) /\ id = idDevice /\ k \in record.keys THEN 1 ELSE 0]]

Reported ==
  <<results.grandTotal,
    [id \in Ids |-> CountAt(results.devices, id)],
    [id \in Ids |-> [k \in Keys |-> ReadingsAt(results.devices, id, k)]]>>

\* std::map: a function on some of the keys.
IsMap(f, K, V) == DOMAIN f \subseteq K /\ f \in [DOMAIN f -> V]

IsDeviceRecord(r) ==
  /\ r \in [name : Names, deviceMessageCount : Nat,
            measurements : {r.measurements}]
  /\ IsMap(r.measurements, Keys, Nat)

IsDataStore(devices) ==
  /\ IsMap(devices, Ids, {devices[id] : id \in DOMAIN devices})
  /\ \A id \in DOMAIN devices : IsDeviceRecord(devices[id])

\* The variables have their types.
TypeOK ==
  /\ pc \in {"idle", "find"} \cup Keys
  /\ dataStoreLock \in {"free", "processor"}
  /\ record \in Messages \cup {NoMessage}
  /\ IsDataStore(dataStore)
  /\ totalCount \in Nat
  /\ results \in [devices : {results.devices}, grandTotal : Nat]
  /\ IsDataStore(results.devices)
  /\ errors \in Nat

\* addRecord holds the lock from its first step to its last, and from find on
\* works on a record that is there.
AddRecordInv ==
  /\ dataStoreLock = IF pc = "idle" THEN "free" ELSE "processor"
  /\ pc # "idle" => record \in Messages /\ totalCount > 0
  /\ pc \in Keys => idDevice \in DOMAIN dataStore

\* Each record carries a name with the hash it is filed under: with an
\* injective hash, the name of exactly the device whose messages it counts.
NamesMatch == \A id \in DOMAIN dataStore : Hash[dataStore[id].name] = id

\* No device has more readings of a value than messages, in the storage as in
\* any report, however often addRecord was cut short.
ReadingsBounded ==
  \A id \in Ids, k \in Keys :
    /\ Measured[id][k] <= DeviceTotal[id]
    /\ ReadingsAt(results.devices, id, k) <= CountAt(results.devices, id)

DeviceSum(devices) == SumFunction([id \in Ids |-> CountAt(devices, id)])

\* Each message addRecord gave up on may be in the grand total alone.
AddsUp(devices, grandTotal) ==
  /\ DeviceSum(devices) <= grandTotal
  /\ grandTotal <= DeviceSum(devices) + errors

\* A report adds up: its grand total is the sum of its device totals, but for
\* the messages addRecord gave up on.  getResults may come at any moment of
\* addRecord.
ReportAddsUp == AddsUp(results.devices, results.grandTotal)

\* So does the storage, but for the message addRecord has just counted.
StoreAddsUp == AddsUp(dataStore, totalCount - IF pc = "find" THEN 1 ELSE 0)

IInv ==
  /\ TypeOK
  /\ AddRecordInv
  /\ NamesMatch
  /\ ReadingsBounded
  /\ StoreAddsUp
  /\ ReportAddsUp

\* The map, the lock and the steps keep the promise of Tally.
Tallied ==
  INSTANCE Tally WITH total <- Total, deviceTotal <- DeviceTotal,
                      measured <- Measured, reported <- Reported,
                      MayFail <- AllocMayFail

TallySpec == Tallied!Spec
=============================================================================
