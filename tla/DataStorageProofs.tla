------------------------- MODULE DataStorageProofs -------------------------
(***************************************************************************)
(* The invariant IInv of DataStorage is inductive and the storage          *)
(* implements Tally, for every set of names and messages, every hash and   *)
(* whether or not memory runs out.                                         *)
(***************************************************************************)
EXTENDS DataStorage, DataLemmas, TLAPS

\* Registering a device adds one to its messages and leaves the rest alone.
LEMMA RegisterEffect ==
  ASSUME IInv, RegisterDevice
  PROVE  /\ IsDataStore(dataStore')
         /\ NamesMatch'
         /\ idDevice \in Ids /\ idDevice \in DOMAIN dataStore'
         /\ \A id \in Ids :
              CountAt(dataStore', id)
                = CountAt(dataStore, id) + IF id = idDevice THEN 1 ELSE 0
         /\ \A id \in Ids, k \in Keys :
              ReadingsAt(dataStore', id, k) = ReadingsAt(dataStore, id, k)
  <1> DEFINE i == idDevice
  <1>1. record \in Messages /\ record.name \in Names /\ i \in Ids
    BY StorageAssumption
       DEF IInv, TypeOK, AddRecordInv, RegisterDevice, idDevice, Ids, Range
  <1>2. IsDataStore(dataStore) /\ NamesMatch
    BY DEF IInv, TypeOK
  <1>3. CASE i \in DOMAIN dataStore
    <2>1. dataStore' = [dataStore EXCEPT ![i].deviceMessageCount = @ + 1]
      BY <1>3 DEF RegisterDevice
    <2>2. IsDeviceRecord(dataStore[i]) /\ Hash[dataStore[i].name] = i
      BY <1>2, <1>3 DEF IsDataStore, NamesMatch
    <2>3. /\ DOMAIN dataStore' = DOMAIN dataStore
          /\ dataStore'[i] = [dataStore[i] EXCEPT !.deviceMessageCount = @ + 1]
          /\ \A id \in DOMAIN dataStore \ {i} : dataStore'[id] = dataStore[id]
      BY <1>2, <1>3, <2>1 DEF IsDataStore, IsMap
    <2>4. /\ IsDeviceRecord(dataStore'[i])
          /\ dataStore'[i].name = dataStore[i].name
          /\ dataStore'[i].measurements = dataStore[i].measurements
          /\ dataStore'[i].deviceMessageCount
               = dataStore[i].deviceMessageCount + 1
      BY <2>2, <2>3 DEF IsDeviceRecord
    <2>5. IsMap(dataStore', Ids, {dataStore'[id] : id \in DOMAIN dataStore'})
      BY <1>2, <2>1, <2>3 DEF IsDataStore, IsMap
    <2>6. IsDataStore(dataStore') /\ NamesMatch'
      BY <1>2, <2>2, <2>3, <2>4, <2>5 DEF IsDataStore, NamesMatch
    <2>7. \A id \in DOMAIN dataStore : dataStore[id].deviceMessageCount \in Nat
      BY <1>2 DEF IsDataStore, IsDeviceRecord
    <2> HIDE DEF i
    <2>8. \A id \in Ids :
            CountAt(dataStore', id)
              = CountAt(dataStore, id) + IF id = i THEN 1 ELSE 0
      <3>1. CountAt(dataStore', i) = CountAt(dataStore, i) + 1
        BY <1>3, <2>3, <2>4 DEF CountAt
      <3>2. \A id \in Ids \ {i} :
              /\ CountAt(dataStore', id) = CountAt(dataStore, id)
              /\ CountAt(dataStore, id) \in Nat
        BY <2>3, <2>7 DEF CountAt
      <3> QED
        BY <3>1, <3>2
    <2>9. \A id \in Ids, k \in Keys :
            ReadingsAt(dataStore', id, k) = ReadingsAt(dataStore, id, k)
      BY <2>3, <2>4 DEF ReadingsAt
    <2> QED
      BY <1>1, <1>3, <2>3, <2>6, <2>8, <2>9 DEF i
  <1>4. CASE i \notin DOMAIN dataStore
    <2>1. dataStore' = Insert(dataStore, i, DeviceRecord(record.name))
      BY <1>4 DEF RegisterDevice
    <2>2. /\ DOMAIN dataStore' = DOMAIN dataStore \cup {i}
          /\ dataStore'[i] = DeviceRecord(record.name)
          /\ \A id \in DOMAIN dataStore : dataStore'[id] = dataStore[id]
      BY <1>4, <2>1 DEF Insert
    <2>3. /\ IsDeviceRecord(dataStore'[i])
          /\ Hash[dataStore'[i].name] = i
          /\ DOMAIN dataStore'[i].measurements = {}
          /\ dataStore'[i].deviceMessageCount = 1
      BY <1>1, <2>2 DEF IsDeviceRecord, DeviceRecord, Empty, IsMap, idDevice
    <2>4. IsMap(dataStore', Ids, {dataStore'[id] : id \in DOMAIN dataStore'})
      BY <1>1, <1>2, <2>1, <2>2 DEF IsDataStore, IsMap, Insert
    <2>5. IsDataStore(dataStore') /\ NamesMatch'
      BY <1>2, <2>2, <2>3, <2>4 DEF IsDataStore, NamesMatch
    <2>6. \A id \in DOMAIN dataStore : dataStore[id].deviceMessageCount \in Nat
      BY <1>2 DEF IsDataStore, IsDeviceRecord
    <2> QED
      BY <1>1, <1>4, <2>2, <2>3, <2>5, <2>6 DEF CountAt, ReadingsAt
  <1> QED
    BY <1>3, <1>4

\* Measuring adds one reading of the key pc stands for, if the message has it,
\* and leaves the rest alone.
LEMMA MeasureEffect ==
  ASSUME IInv, AddMeasurementRecord
  PROVE  /\ IsDataStore(dataStore')
         /\ NamesMatch'
         /\ idDevice \in Ids /\ idDevice \in DOMAIN dataStore'
         /\ \A id \in Ids : CountAt(dataStore', id) = CountAt(dataStore, id)
         /\ \A id \in Ids, k \in Keys :
              ReadingsAt(dataStore', id, k)
                = ReadingsAt(dataStore, id, k)
                    + IF id = idDevice /\ k = pc /\ k \in record.keys
                        THEN 1 ELSE 0
  <1> DEFINE i == idDevice
             r == dataStore[i]
             ms == r.measurements
  <1>1. /\ record \in Messages /\ record.keys \subseteq Keys
        /\ i \in Ids /\ i \in DOMAIN dataStore /\ pc \in Keys
    BY StorageAssumption
       DEF IInv, TypeOK, AddRecordInv, AddMeasurementRecord, idDevice, Ids,
           Range, Keys
  <1>2. IsDataStore(dataStore) /\ NamesMatch
    BY DEF IInv, TypeOK
  <1>3. \A id \in DOMAIN dataStore, k \in Keys :
          ReadingsAt(dataStore, id, k) \in Nat
    BY <1>2 DEF IsDataStore, IsDeviceRecord, IsMap, ReadingsAt
  <1>4. CASE pc \in record.keys
    <2>1. dataStore' = [dataStore EXCEPT ![i].measurements = Measure(@, pc)]
      BY <1>4 DEF AddMeasurementRecord
    <2>2. IsDeviceRecord(r) /\ Hash[r.name] = i
      BY <1>1, <1>2 DEF IsDataStore, NamesMatch
    <2>3. /\ DOMAIN dataStore' = DOMAIN dataStore
          /\ dataStore'[i] = [r EXCEPT !.measurements = Measure(@, pc)]
          /\ \A id \in DOMAIN dataStore \ {i} : dataStore'[id] = dataStore[id]
      BY <1>1, <1>2, <2>1 DEF IsDataStore, IsMap
    <2>4. /\ IsMap(Measure(ms, pc), Keys, Nat)
          /\ pc \in DOMAIN Measure(ms, pc)
          /\ Measure(ms, pc)[pc] = IF pc \in DOMAIN ms THEN ms[pc] + 1 ELSE 1
          /\ DOMAIN Measure(ms, pc) = DOMAIN ms \cup {pc}
          /\ \A k \in DOMAIN ms \ {pc} : Measure(ms, pc)[k] = ms[k]
      <3> HIDE DEF ms
      <3>1. IsMap(ms, Keys, Nat)
        BY <2>2 DEF IsDeviceRecord, ms
      <3> QED
        BY <1>1, <3>1 DEF IsMap, Measure, Insert
    <2>5. /\ IsDeviceRecord(dataStore'[i])
          /\ dataStore'[i].name = r.name
          /\ dataStore'[i].deviceMessageCount = r.deviceMessageCount
          /\ dataStore'[i].measurements = Measure(ms, pc)
      BY <2>2, <2>3, <2>4 DEF IsDeviceRecord
    <2>6. IsMap(dataStore', Ids, {dataStore'[id] : id \in DOMAIN dataStore'})
      BY <1>2, <2>1, <2>3 DEF IsDataStore, IsMap
    <2>7. IsDataStore(dataStore') /\ NamesMatch'
      BY <1>2, <2>2, <2>3, <2>5, <2>6 DEF IsDataStore, NamesMatch
    <2>8. \A k \in Keys :
            ReadingsAt(dataStore', i, k)
              = ReadingsAt(dataStore, i, k) + IF k = pc THEN 1 ELSE 0
      BY <1>1, <1>3, <2>3, <2>4, <2>5 DEF ReadingsAt
    <2>9. \A id \in Ids \ {i}, k \in Keys :
            ReadingsAt(dataStore', id, k) = ReadingsAt(dataStore, id, k)
      BY <2>3 DEF ReadingsAt
    <2>10. \A id \in Ids, k \in Keys : ReadingsAt(dataStore, id, k) \in Nat
      BY <1>3 DEF ReadingsAt
    <2> HIDE DEF i, r, ms
    <2>11. \A id \in Ids : CountAt(dataStore', id) = CountAt(dataStore, id)
      BY <2>3, <2>5 DEF CountAt, r
    <2> QED
      BY <1>1, <1>4, <2>3, <2>7, <2>8, <2>9, <2>10, <2>11 DEF i
  <1>5. CASE pc \notin record.keys
    <2>1. UNCHANGED dataStore
      BY <1>5 DEF AddMeasurementRecord
    <2>2. \A id \in Ids, k \in Keys : ReadingsAt(dataStore, id, k) \in Nat
      BY <1>3 DEF ReadingsAt
    <2> QED
      BY <1>1, <1>2, <1>5, <2>1, <2>2 DEF CountAt, ReadingsAt, NamesMatch
  <1> QED
    BY <1>4, <1>5

\* The counts are natural numbers.
LEMMA CountsAreNat ==
  ASSUME NEW devices, IsDataStore(devices)
  PROVE  /\ \A id \in Ids : CountAt(devices, id) \in Nat
         /\ \A id \in Ids, k \in Keys : ReadingsAt(devices, id, k) \in Nat
  BY DEF IsDataStore, IsDeviceRecord, IsMap, CountAt, ReadingsAt

\* Every step keeps the types, the lock discipline and the names.
LEMMA StorePreserved ==
  ASSUME IInv, [Next]_vars
  PROVE  TypeOK' /\ AddRecordInv' /\ NamesMatch'
  <1> USE StorageAssumption DEF IInv, TypeOK, AddRecordInv
  <1>1. ASSUME NEW m \in Messages, AddRecord(m)
        PROVE  TypeOK' /\ AddRecordInv' /\ NamesMatch'
    BY <1>1 DEF AddRecord, NamesMatch, Keys
  <1>2. CASE RegisterDevice
    BY <1>2, RegisterEffect DEF RegisterDevice, Advance, After, Keys, idDevice
  <1>3. CASE AddMeasurementRecord
    BY <1>3, MeasureEffect
       DEF AddMeasurementRecord, Advance, After, Keys, idDevice
  <1>4. CASE AddRecordThrows
    BY <1>4 DEF AddRecordThrows, storeVars, NamesMatch, Keys
  <1>5. CASE GetResults
    BY <1>5 DEF GetResults, storeVars, NamesMatch, idDevice
  <1>6. CASE UNCHANGED vars
    BY <1>6 DEF vars, storeVars, NamesMatch, idDevice
  <1> QED
    BY <1>1, <1>2, <1>3, <1>4, <1>5, <1>6 DEF Next

\* Taking the lock, registering the device and all measurements but the last
\* change no committed count.
LEMMA InnerSteps ==
  ASSUME IInv,
         \/ \E m \in Messages : AddRecord(m)
         \/ RegisterDevice
         \/ AddMeasurementRecord /\ pc # "temperature"
  PROVE  UNCHANGED <<Total, DeviceTotal, Measured, Reported>>
  <1> USE DEF IInv, TypeOK
  <1>1. ASSUME NEW m \in Messages, AddRecord(m)
        PROVE  UNCHANGED <<Total, DeviceTotal, Measured, Reported>>
    BY <1>1 DEF AddRecord, Total, DeviceTotal, Measured, Reported, Passed, Keys
  <1>2. CASE RegisterDevice
    <2>1. /\ pc = "find" /\ pc' = "current"
          /\ UNCHANGED <<record, totalCount, results>>
      BY <1>2 DEF RegisterDevice, Advance, After
    <2>2. idDevice' = idDevice /\ UNCHANGED <<Total, Reported>>
      BY <2>1 DEF idDevice, Total, Reported
    <2>3. \A id \in Ids : CountAt(dataStore, id) \in Nat
      BY CountsAreNat
    <2>4. \A id \in Ids :
            CountAt(dataStore', id) - (IF id = idDevice THEN 1 ELSE 0)
              = CountAt(dataStore, id)
      BY <1>2, <2>3, RegisterEffect
    <2>5. UNCHANGED DeviceTotal
      BY <2>1, <2>2, <2>3, <2>4 DEF DeviceTotal, Keys
    <2>6. UNCHANGED Measured
      BY <1>2, <2>1, RegisterEffect DEF Measured, Passed
    <2> QED
      BY <2>2, <2>5, <2>6
  <1>3. CASE AddMeasurementRecord /\ pc # "temperature"
    <2>1. /\ \/ pc = "current" /\ pc' = "voltage"
             \/ pc = "voltage" /\ pc' = "temperature"
          /\ UNCHANGED <<record, totalCount, results>>
      BY <1>3 DEF AddMeasurementRecord, Advance, After, Keys
    <2>2. idDevice' = idDevice /\ UNCHANGED <<Total, Reported>>
      BY <2>1 DEF idDevice, Total, Reported
    <2>3. UNCHANGED DeviceTotal
      BY <1>3, <2>1, <2>2, MeasureEffect DEF DeviceTotal, Keys
    <2>4. \A id \in Ids, k \in Keys : ReadingsAt(dataStore, id, k) \in Nat
      BY CountsAreNat
    <2>5. \A id \in Ids, k \in Keys :
            /\ Passed(k)' <=> (Passed(k) \/ k = pc)
            /\ ~(Passed(k) /\ k = pc)
      BY <2>1 DEF Passed, Keys
    <2>6. \A id \in Ids, k \in Keys :
            ReadingsAt(dataStore', id, k)
              - (IF Passed(k)' /\ id = idDevice' /\ k \in record'.keys
                   THEN 1 ELSE 0)
            = ReadingsAt(dataStore, id, k)
              - (IF Passed(k) /\ id = idDevice /\ k \in record.keys
                   THEN 1 ELSE 0)
      BY <1>3, <2>1, <2>2, <2>4, <2>5, MeasureEffect
    <2>7. UNCHANGED Measured
      BY <2>6 DEF Measured
    <2> QED
      BY <2>2, <2>3, <2>7
  <1> QED
    BY <1>1, <1>2, <1>3

\* The last measurement commits the whole message.
LEMMA LastMeasurementAdds ==
  ASSUME IInv, AddMeasurementRecord, pc = "temperature"
  PROVE  record \in Messages /\ Tallied!Add(record)
  <1>1. /\ record \in Messages /\ record.keys \subseteq Keys
        /\ pc' = "idle" /\ UNCHANGED <<totalCount, results>>
        /\ totalCount \in Nat /\ idDevice \in Ids
    BY StorageAssumption, MeasureEffect
       DEF IInv, TypeOK, AddRecordInv, AddMeasurementRecord, Advance, After,
           Keys
  <1>2. Total' = Total + 1 /\ UNCHANGED Reported
    BY <1>1 DEF Total, Reported
  <1>3. /\ \A id \in Ids : CountAt(dataStore, id) \in Nat
        /\ \A id \in Ids, k \in Keys : ReadingsAt(dataStore, id, k) \in Nat
    BY CountsAreNat DEF IInv, TypeOK
  <1>4. DeviceTotal' = [DeviceTotal EXCEPT ![idDevice] = @ + 1]
    <2>1. \A id \in Ids : DeviceTotal'[id] = CountAt(dataStore, id)
      BY <1>1, <1>3, MeasureEffect DEF DeviceTotal, Keys
    <2>2. \A id \in Ids : DeviceTotal[id] = CountAt(dataStore, id)
                                  - IF id = idDevice THEN 1 ELSE 0
      BY DEF DeviceTotal, Keys
    <2>3. /\ DeviceTotal = [id \in Ids |-> DeviceTotal[id]]
          /\ DeviceTotal' = [id \in Ids |-> DeviceTotal'[id]]
      BY DEF DeviceTotal
    <2> QED
      BY <1>1, <1>3, <2>1, <2>2, <2>3
  <1>5. Measured' = [Measured EXCEPT ![idDevice] =
                       [k \in Keys |-> @[k] + IF k \in record.keys
                                                THEN 1 ELSE 0]]
    <2>1. \A id \in Ids, k \in Keys :
            /\ ~Passed(k)'
            /\ Passed(k) <=> k # "temperature"
      BY <1>1 DEF Passed, Keys
    <2>2. \A id \in Ids, k \in Keys :
            Measured'[id][k]
              = ReadingsAt(dataStore, id, k)
                  + IF id = idDevice /\ k = "temperature" /\ k \in record.keys
                      THEN 1 ELSE 0
      BY <1>1, <1>3, <2>1, MeasureEffect DEF Measured
    <2>3. \A id \in Ids, k \in Keys :
            Measured[id][k]
              = ReadingsAt(dataStore, id, k)
                  - IF id = idDevice /\ k # "temperature" /\ k \in record.keys
                      THEN 1 ELSE 0
      BY <2>1 DEF Measured
    <2>4. \A id \in Ids, k \in Keys :
            Measured'[id][k] = Measured[id][k]
                    + IF id = idDevice /\ k \in record.keys THEN 1 ELSE 0
      BY <1>3, <2>2, <2>3
    <2>5. /\ Measured = [id \in Ids |-> [k \in Keys |-> Measured[id][k]]]
          /\ Measured' = [id \in Ids |-> [k \in Keys |-> Measured'[id][k]]]
      BY DEF Measured
    <2>6. \A id \in Ids, k \in Keys : Measured[id][k] \in Int
      BY <1>3, <2>3
    <2> HIDE DEF Measured
    <2>7. \A id \in Ids \ {idDevice} : Measured'[id] = Measured[id]
      BY <2>4, <2>5, <2>6
    <2>8. Measured'[idDevice] =
            [k \in Keys |-> Measured[idDevice][k]
                              + IF k \in record.keys THEN 1 ELSE 0]
      BY <1>1, <2>4, <2>5
    <2> QED
      BY <1>1, <2>5, <2>7, <2>8
  <1> QED
    BY <1>1, <1>2, <1>4, <1>5
       DEF Tallied!Add, Tallied!Count, idDevice

\* Giving up commits the message in part: not even its device, or the device
\* and the readings up to the one that failed.
LEMMA ThrowingAddsPart ==
  ASSUME IInv, AddRecordThrows
  PROVE  record \in Messages /\ Tallied!AddPart(record)
  <1> AllocMayFail
    BY Zenon DEF AddRecordThrows
  <1>a. /\ pc' = "idle" /\ UNCHANGED <<storeVars, results>>
        /\ pc = "find" \/ pc \in Keys
    BY Zenon DEF AddRecordThrows
  <1>1. /\ record \in Messages /\ record.keys \subseteq Keys
        /\ pc' = "idle" /\ UNCHANGED <<dataStore, totalCount, results>>
        /\ totalCount \in Nat
        /\ pc = "find" \/ pc \in Keys
    BY <1>a, StorageAssumption
       DEF IInv, TypeOK, AddRecordInv, storeVars, Keys
  <1>2. Total' = Total + 1 /\ UNCHANGED Reported
    BY <1>1 DEF Total, Reported, Keys
  <1>3. /\ \A id \in Ids : CountAt(dataStore, id) \in Nat
        /\ \A id \in Ids, k \in Keys : ReadingsAt(dataStore, id, k) \in Nat
    BY CountsAreNat DEF IInv, TypeOK
  <1>4. CASE pc = "find"
    <2>1. UNCHANGED <<DeviceTotal, Measured>>
      BY <1>1, <1>4 DEF DeviceTotal, Measured, Passed, Keys
    <2> QED
      BY <1>1, <1>2, <2>1 DEF Tallied!AddPart
  <1>5. CASE pc \in Keys
    <2> DEFINE ks == {k \in record.keys : Passed(k)}
    <2>1. idDevice \in Ids
      BY <1>1, StorageAssumption DEF idDevice, Ids, Range
    <2>2. DeviceTotal' = [DeviceTotal EXCEPT ![idDevice] = @ + 1]
      <3>1. \A id \in Ids : /\ DeviceTotal'[id] = CountAt(dataStore, id)
                            /\ DeviceTotal[id] = CountAt(dataStore, id)
                                 - IF id = idDevice THEN 1 ELSE 0
        BY <1>1, <1>3, <1>5 DEF DeviceTotal, Keys
      <3>2. /\ DeviceTotal = [id \in Ids |-> DeviceTotal[id]]
            /\ DeviceTotal' = [id \in Ids |-> DeviceTotal'[id]]
        BY DEF DeviceTotal
      <3> QED
        BY <1>3, <2>1, <3>1, <3>2
    <2>3. Measured' = [Measured EXCEPT ![idDevice] =
                         [k \in Keys |-> @[k] + IF k \in ks THEN 1 ELSE 0]]
      <3>1. \A k \in Keys : ~Passed(k)'
        BY <1>1 DEF Passed
      <3>2. \A id \in Ids, k \in Keys :
              /\ Measured'[id][k] = ReadingsAt(dataStore, id, k)
              /\ Measured[id][k] = ReadingsAt(dataStore, id, k)
                   - IF id = idDevice /\ k \in ks THEN 1 ELSE 0
        BY <1>1, <1>3, <3>1 DEF Measured
      <3>3. /\ Measured = [id \in Ids |-> [k \in Keys |-> Measured[id][k]]]
            /\ Measured' = [id \in Ids |-> [k \in Keys |-> Measured'[id][k]]]
        BY DEF Measured
      <3> HIDE DEF Measured, ks
      <3>4. \A id \in Ids \ {idDevice} : Measured'[id] = Measured[id]
        BY <1>3, <3>2, <3>3
      <3>5. Measured'[idDevice] =
              [k \in Keys |-> Measured[idDevice][k]
                                + IF k \in ks THEN 1 ELSE 0]
        BY <1>3, <2>1, <3>2, <3>3
      <3> QED
        BY <2>1, <3>3, <3>4, <3>5
    <2>4. ks \in SUBSET record.keys
      OBVIOUS
    <2> HIDE DEF ks
    <2>5. Tallied!Count(record, ks)
      BY <1>2, <2>2, <2>3 DEF Tallied!Count, idDevice
    <2> QED
      BY <1>1, <2>4, <2>5 DEF Tallied!AddPart
  <1> QED
    BY <1>1, <1>4, <1>5

\* getResults reports the committed counts, because it waits for the lock.
LEMMA GetResultsReports ==
  ASSUME IInv, GetResults
  PROVE  Tallied!Report
  <1>1. /\ pc = "idle" /\ UNCHANGED <<pc, record, dataStore, totalCount>>
        /\ results'.devices = dataStore /\ results'.grandTotal = totalCount
        /\ totalCount \in Nat
    BY DEF IInv, TypeOK, AddRecordInv, GetResults, storeVars
  <1>2. /\ \A id \in Ids : CountAt(dataStore, id) \in Nat
        /\ \A id \in Ids, k \in Keys : ReadingsAt(dataStore, id, k) \in Nat
    BY CountsAreNat DEF IInv, TypeOK
  <1>3. UNCHANGED <<Total, DeviceTotal, Measured>>
    BY <1>1 DEF Total, DeviceTotal, Measured, Passed, Keys
  <1>4. /\ Reported'[1] = Total
        /\ Reported'[2] = DeviceTotal
        /\ Reported'[3] = Measured
    BY <1>1, <1>2
       DEF Reported, Total, DeviceTotal, Measured, Passed, Keys
  <1>5. Reported' = <<Total, DeviceTotal, Measured>>
    BY <1>4 DEF Reported
  <1> QED
    BY <1>3, <1>5 DEF Tallied!Report, Tallied!Counts

\* Every step of the storage is a step of Tally or changes no count.
LEMMA TallyStep ==
  ASSUME IInv, [Next]_vars
  PROVE  [Tallied!Next]_(Tallied!tallyVars)
  <1>1. CASE \E m \in Messages : AddRecord(m)
    BY <1>1, InnerSteps DEF Tallied!tallyVars
  <1>2. CASE RegisterDevice
    BY <1>2, InnerSteps DEF Tallied!tallyVars
  <1>3. CASE AddMeasurementRecord /\ pc # "temperature"
    BY <1>3, InnerSteps DEF Tallied!tallyVars
  <1>4. CASE AddMeasurementRecord /\ pc = "temperature"
    BY <1>4, LastMeasurementAdds DEF Tallied!Next
  <1>5. CASE AddRecordThrows
    BY <1>5, ThrowingAddsPart DEF Tallied!Next
  <1>6. CASE GetResults
    BY <1>6, GetResultsReports DEF Tallied!Next
  <1>7. CASE UNCHANGED vars
    BY <1>7 DEF vars, storeVars, Tallied!tallyVars, Total, DeviceTotal,
                Measured, Reported, Passed, idDevice
  <1> QED
    BY <1>1, <1>2, <1>3, <1>4, <1>5, <1>6, <1>7 DEF Next

\* No step of Tally makes a device have more readings of a value than
\* messages, and a report copies counts of which that is true.
LEMMA BoundPreserved ==
  ASSUME IInv, [Next]_vars
  PROVE  ReadingsBounded'
  <1> DEFINE B(c, r) == \A id \in Ids, k \in Keys : r[id][k] <= c[id]
  <1>1. /\ DeviceTotal \in [Ids -> Int]
        /\ Measured \in [Ids -> [Keys -> Int]]
    BY CountsAreNat DEF IInv, TypeOK, DeviceTotal, Measured
  <1>2. /\ B(DeviceTotal, Measured)
        /\ B(Reported[2], Reported[3])
    BY DEF IInv, ReadingsBounded, Reported
  <1>3. SUFFICES B(DeviceTotal', Measured') /\ B(Reported'[2], Reported'[3])
    BY DEF ReadingsBounded, Reported
  <1>4. ASSUME NEW m \in Messages, NEW ks \in SUBSET Keys,
               Tallied!Count(m, ks)
        PROVE  B(DeviceTotal', Measured') /\ B(Reported'[2], Reported'[3])
    <2>1. /\ DeviceTotal' = [DeviceTotal EXCEPT ![Hash[m.name]] = @ + 1]
          /\ Measured' = [Measured EXCEPT ![Hash[m.name]] =
                            [k \in Keys |-> @[k] + IF k \in ks
                                                     THEN 1 ELSE 0]]
          /\ UNCHANGED Reported
      BY <1>4 DEF Tallied!Count
    <2>2. B(DeviceTotal', Measured')
      <3> HIDE DEF DeviceTotal, Measured
      <3> QED
        BY ONLY <1>1, <1>2, <2>1
    <2> QED
      BY <1>2, <2>1, <2>2
  <1>5. CASE \E m \in Messages : Tallied!Add(m)
    <2>1. PICK m \in Messages : Tallied!Count(m, m.keys)
      BY <1>5 DEF Tallied!Add
    <2>2. m.keys \in SUBSET Keys
      BY StorageAssumption
    <2> QED
      BY <1>4, <2>1, <2>2
  <1>6. CASE \E m \in Messages : Tallied!AddPart(m)
    <2>1. PICK m \in Messages :
             \/ UNCHANGED <<DeviceTotal, Measured, Reported>>
             \/ \E ks \in SUBSET m.keys : Tallied!Count(m, ks)
      BY <1>6 DEF Tallied!AddPart
    <2>2. m.keys \in SUBSET Keys
      BY StorageAssumption
    <2> QED
      BY <1>2, <1>4, <2>1, <2>2
  <1>7. CASE Tallied!Report
    <2>1. /\ Reported' = <<Total, DeviceTotal, Measured>>
          /\ UNCHANGED <<DeviceTotal, Measured>>
      BY <1>7 DEF Tallied!Report, Tallied!Counts
    <2> QED
      BY <1>2, <2>1
  <1>8. CASE UNCHANGED Tallied!tallyVars
    BY <1>2, <1>8 DEF Tallied!tallyVars
  <1> QED
    BY <1>5, <1>6, <1>7, <1>8, TallyStep DEF Tallied!Next

\* What the sum of the device totals is after a step that leaves them alone or
\* adds one to one of them.
LEMMA DeviceSumFacts ==
  ASSUME NEW old, IsDataStore(old)
  PROVE  /\ DeviceSum(old) \in Nat
         /\ DOMAIN old = {} => DeviceSum(old) = 0
         /\ \A new : \A i \in Ids :
              /\ IsDataStore(new)
              /\ \A id \in Ids : CountAt(new, id) = CountAt(old, id)
                                  + IF id = i THEN 1 ELSE 0
              => DeviceSum(new) = DeviceSum(old) + 1
         /\ \A new :
              (\A id \in Ids : CountAt(new, id) = CountAt(old, id))
              => DeviceSum(new) = DeviceSum(old)
  <1> DEFINE counts(devices) == [id \in Ids |-> CountAt(devices, id)]
  <1>1. /\ IsFiniteSet(Ids)
        /\ \A d : DeviceSum(d) = SumFunctionOnSet(counts(d), Ids)
    BY StorageAssumption DEF DeviceSum, SumFunction
  <1>2. \A d : IsDataStore(d) => counts(d) \in [Ids -> Nat]
    BY CountsAreNat
  <1>3. DeviceSum(old) \in Nat
    BY <1>1, <1>2, SumType
  <1>4. ASSUME DOMAIN old = {}
        PROVE  DeviceSum(old) = 0
    <2>1. \A id \in Ids : counts(old)[id] = 0
      BY <1>4 DEF CountAt
    <2> QED
      BY <1>1, <1>2, <2>1, SumOfZeros
  <1>5. ASSUME NEW new, NEW i \in Ids, IsDataStore(new),
               \A id \in Ids : CountAt(new, id) = CountAt(old, id)
                                  + IF id = i THEN 1 ELSE 0
        PROVE  DeviceSum(new) = DeviceSum(old) + 1
    <2>1. /\ \A id \in Ids \ {i} : counts(new)[id] = counts(old)[id]
          /\ counts(new)[i] - counts(old)[i] = 1
      BY <1>5, CountsAreNat
    <2>2. DeviceSum(new) \in Nat
      BY <1>1, <1>2, <1>5, SumType
    <2>3. DeviceSum(new) - DeviceSum(old) = 1
      <3> HIDE DEF counts
      <3> QED
        BY <1>1, <1>2, <1>5, <2>1, SumPlus
    <2> QED
      BY <1>3, <2>2, <2>3
  <1>6. ASSUME NEW new,
               \A id \in Ids : CountAt(new, id) = CountAt(old, id)
        PROVE  DeviceSum(new) = DeviceSum(old)
    BY <1>6 DEF DeviceSum
  <1> QED
    BY <1>3, <1>4, <1>5, <1>6

\* The counter and the records move together, but for the message between the
\* two, and a report copies both at a moment when there is none.
LEMMA SumPreserved ==
  ASSUME IInv, [Next]_vars
  PROVE  StoreAddsUp' /\ ReportAddsUp'
  <1> DEFINE sum == DeviceSum(dataStore)
             shown == DeviceSum(results.devices)
             pending == IF pc = "find" THEN 1 ELSE 0
             Sums == /\ sum <= totalCount - pending
                     /\ totalCount - pending <= sum + errors
                     /\ shown <= results.grandTotal
                     /\ results.grandTotal <= shown + errors
  <1>1. /\ sum \in Nat /\ shown \in Nat
        /\ totalCount \in Nat /\ results.grandTotal \in Nat /\ errors \in Nat
    BY DeviceSumFacts DEF IInv, TypeOK
  <1>2. Sums
    BY DEF IInv, StoreAddsUp, ReportAddsUp, AddsUp
  <1>3. SUFFICES Sums'
    BY DEF StoreAddsUp, ReportAddsUp, AddsUp
  <1>4. ASSUME NEW m \in Messages, AddRecord(m)
        PROVE  Sums'
    <2>1. /\ pc = "idle" /\ pc' = "find" /\ totalCount' = totalCount + 1
          /\ UNCHANGED <<dataStore, results, errors>>
      BY <1>4 DEF AddRecord
    <2> QED
      BY <1>1, <1>2, <2>1
  <1>5. CASE RegisterDevice
    <2>1. /\ pc = "find" /\ pc' = "current"
          /\ UNCHANGED <<totalCount, results, errors>>
      BY <1>5 DEF RegisterDevice, Advance, After
    <2>2. sum' = sum + 1
      BY <1>5, RegisterEffect, DeviceSumFacts DEF IInv, TypeOK
    <2> QED
      BY <1>1, <1>2, <2>1, <2>2
  <1>6. CASE AddMeasurementRecord
    <2>1. /\ pc # "find" /\ pc' # "find"
          /\ UNCHANGED <<totalCount, results, errors>>
      BY <1>6 DEF AddMeasurementRecord, Advance, After, Keys
    <2>2. sum' = sum
      BY <1>6, MeasureEffect, DeviceSumFacts DEF IInv, TypeOK
    <2> QED
      BY <1>1, <1>2, <2>1, <2>2
  <1>7. CASE AddRecordThrows
    <2>1. /\ pc' = "idle" /\ errors' = errors + 1
          /\ UNCHANGED <<dataStore, totalCount, results>>
      BY <1>7 DEF AddRecordThrows, storeVars
    <2> QED
      BY <1>1, <1>2, <2>1
  <1>8. CASE GetResults
    <2>1. /\ pc = "idle" /\ pc' = "idle"
          /\ results'.devices = dataStore /\ results'.grandTotal = totalCount
          /\ UNCHANGED <<dataStore, totalCount, errors>>
      BY <1>8 DEF GetResults, storeVars, IInv, AddRecordInv
    <2> QED
      BY <1>1, <1>2, <2>1
  <1>9. CASE UNCHANGED vars
    BY <1>1, <1>2, <1>9 DEF vars, storeVars
  <1> QED
    BY <1>4, <1>5, <1>6, <1>7, <1>8, <1>9 DEF Next

\* An empty storage satisfies the invariant and counts nothing.
LEMMA StoreInit ==
  ASSUME Init
  PROVE  IInv /\ Tallied!Init
  <1>1. IsDataStore(Empty)
    BY DEF IsDataStore, IsMap, Empty
  <1>2. TypeOK /\ AddRecordInv /\ NamesMatch
    BY <1>1 DEF Init, TypeOK, AddRecordInv, NamesMatch, Keys, Empty
  <1>3. /\ Total = 0
        /\ DeviceTotal = [id \in Ids |-> 0]
        /\ Measured = [id \in Ids |-> [k \in Keys |-> 0]]
        /\ Reported = <<0, [id \in Ids |-> 0],
                        [id \in Ids |-> [k \in Keys |-> 0]]>>
    BY DEF Init, Total, DeviceTotal, Measured, Reported, CountAt, ReadingsAt,
           Passed, Empty, Keys
  <1>4. ReadingsBounded
    BY <1>3 DEF Init, ReadingsBounded, ReadingsAt, CountAt, Empty
  <1>5. StoreAddsUp /\ ReportAddsUp
    <2>1. DOMAIN Empty = {} /\ DeviceSum(Empty) = 0
      BY <1>1, DeviceSumFacts DEF Empty
    <2> QED
      BY <2>1 DEF Init, StoreAddsUp, ReportAddsUp, AddsUp
  <1> QED
    BY <1>2, <1>3, <1>4, <1>5
       DEF IInv, Tallied!Init, Tallied!Counts, Tallied!Zero, Tallied!Ids,
           Ids, Tallied!Range, Range

\* The inductive invariant of the storage: the lock covers all of addRecord,
\* records are filed under the hash of their name, and no device has more
\* readings of a value than messages.
THEOREM StorageInvariant == Spec => []IInv
  <1>1. Init => IInv
    BY StoreInit
  <1>2. IInv /\ [Next]_vars => IInv'
    BY StorePreserved, BoundPreserved, SumPreserved DEF IInv
  <1> QED
    BY <1>1, <1>2, PTL DEF Spec

\* Every report adds up, whenever it was asked for: its grand total is the sum
\* of its device totals but for messages that addRecord gave up on.
THEOREM ReportsAddUp == Spec => []ReportAddsUp
  <1>1. IInv => ReportAddsUp
    BY DEF IInv
  <1> QED
    BY <1>1, StorageInvariant, PTL

\* The map, the steps and the lock of DataStorage implement Tally: whole
\* messages are counted, each once, and a report is a snapshot.
THEOREM ImplementsTally == Spec => TallySpec
  <1>1. Init => Tallied!Init
    BY StoreInit
  <1>2. IInv /\ [Next]_vars => [Tallied!Next]_(Tallied!tallyVars)
    BY TallyStep
  <1> QED
    BY <1>1, <1>2, StorageInvariant, PTL DEF Spec, TallySpec, Tallied!Spec
=============================================================================
