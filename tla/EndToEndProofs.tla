--------------------------- MODULE EndToEndProofs ---------------------------
(***************************************************************************)
(* Every message and every reading that a script counted is in one place,  *)
(* and a report asked for when nothing is on its way shows the counts of   *)
(* the scripts: for any number of scripts, devices, messages and any kind  *)
(* of failure.                                                             *)
(***************************************************************************)
EXTENDS EndToEnd, DataLemmas, TLAPS

\* The share of the message m in the cell x.
Share(m, x) == IF x \in CellsOf(m) THEN 1 ELSE 0

Stored(x) == AsCells(Storage!Counts)[x]

\* Whether the script s has a message on its way that counts in the cell x.
OnItsWay(s, x) == IF at[s] = "send" THEN Share(message[s], x) ELSE 0

\* The identity names the devices.
LEMMA StorageIds == Storage!Ids = Names
  BY DEF Storage!Ids, Storage!Range

\* A message counts in cells.
LEMMA MessageCells ==
  ASSUME NEW m \in Messages
  PROVE  CellsOf(m) \subseteq Cells /\ m.name \in Names /\ m.keys \subseteq Keys
  BY EndToEndAssumption DEF CellsOf, Cells

\* A message added to counts.
LEMMA PlusFacts ==
  ASSUME NEW c \in [Cells -> Nat], NEW m
  PROVE  /\ Plus(c, m) \in [Cells -> Nat]
         /\ \A x \in Cells : Plus(c, m)[x] = c[x] + Share(m, x)
  BY DEF Plus, Share

AllCounts == Nat \X [Names -> Nat] \X [Names -> [Keys -> Nat]]

\* What is in each kind of cell.
LEMMA AsCellsFacts ==
  ASSUME NEW c \in AllCounts
  PROVE  /\ AsCells(c)[<<>>] = c[1]
         /\ \A n \in Names : AsCells(c)[<<n>>] = c[2][n]
         /\ \A n \in Names, k \in Keys : AsCells(c)[<<n, k>>] = c[3][n][k]
         /\ AsCells(c) \in [Cells -> Nat]
  <1>1. AsCells(c)[<<>>] = c[1]
    BY DEF AsCells, Cells
  <1>2. \A n \in Names : AsCells(c)[<<n>>] = c[2][n]
    BY DEF AsCells, Cells
  <1>3. \A n \in Names, k \in Keys : AsCells(c)[<<n, k>>] = c[3][n][k]
    BY DEF AsCells, Cells
  <1>4. \A x \in Cells : AsCells(c)[x] \in Nat
    BY <1>1, <1>2, <1>3 DEF Cells, AllCounts
  <1>5. AsCells(c) \in [Cells -> Nat]
    <2> DEFINE g(x) == CASE Len(x) = 0 -> c[1]
                         [] Len(x) = 1 -> c[2][x[1]]
                         [] Len(x) = 2 -> c[3][x[1]][x[2]]
    <2>1. AsCells(c) = [x \in Cells |-> g(x)]
      BY DEF AsCells
    <2> HIDE DEF g
    <2> QED
      BY <1>4, <2>1
  <1> QED
    BY <1>1, <1>2, <1>3, <1>5

\* The counts of the storage are counts.
LEMMA CountsType ==
  ASSUME TypeOK
  PROVE  /\ Storage!Counts \in AllCounts /\ reported \in AllCounts
         /\ Storage!Counts[1] = total /\ Storage!Counts[2] = deviceTotal
         /\ Storage!Counts[3] = measured
  BY DEF TypeOK, Storage!Counts, AllCounts

\* Counting m with the readings ks adds one to the cells it names.
LEMMA CountAdds ==
  ASSUME TypeOK, NEW m \in Messages, NEW ks \in SUBSET m.keys,
         Storage!Count(m, ks)
  PROVE  /\ Storage!Counts' \in AllCounts /\ UNCHANGED reported
         /\ \A x \in Cells :
              Stored(x)' = Stored(x) + Share([m EXCEPT !.keys = ks], x)
  <1> DEFINE p == [m EXCEPT !.keys = ks]
  <1>1. m.name \in Names /\ ks \subseteq Keys
    BY MessageCells
  <1>2. p.name = m.name /\ p.keys = ks
    BY EndToEndAssumption
  <1>3. /\ total' = total + 1
        /\ deviceTotal' = [deviceTotal EXCEPT ![m.name] = @ + 1]
        /\ measured' = [measured EXCEPT ![m.name] =
                          [k \in Keys |-> @[k] + IF k \in ks THEN 1 ELSE 0]]
    BY <1>1 DEF Storage!Count
  <1> DEFINE old == Storage!Counts
             new == Storage!Counts'
  <1>a. /\ old \in AllCounts
        /\ old[1] = total /\ old[2] = deviceTotal /\ old[3] = measured
    BY CountsType
  <1>b. /\ new \in AllCounts
        /\ new[1] = total' /\ new[2] = deviceTotal' /\ new[3] = measured'
    <2>1. total' \in Nat /\ deviceTotal' \in [Names -> Nat]
      BY <1>1, <1>3 DEF TypeOK
    <2>2. measured' \in [Names -> [Keys -> Nat]]
      <3> DEFINE row == [k \in Keys |-> measured[m.name][k]
                                          + IF k \in ks THEN 1 ELSE 0]
      <3>1. measured \in [Names -> [Keys -> Nat]]
        BY DEF TypeOK
      <3>2. row \in [Keys -> Nat] /\ measured' = [measured EXCEPT ![m.name] = row]
        BY <1>1, <1>3, <3>1
      <3> HIDE DEF row
      <3> QED
        BY <3>1, <3>2
    <2> QED
      BY <2>1, <2>2 DEF Storage!Counts, AllCounts
  <1>c. \A x : Stored(x) = AsCells(old)[x] /\ Stored(x)' = AsCells(new)[x]
    BY DEF Stored
  <1>d. UNCHANGED reported
    BY DEF Storage!Count
  <1> HIDE DEF p, old, new
  <1>4. Stored(<<>>)' = Stored(<<>>) + Share(p, <<>>)
    BY <1>a, <1>b, <1>c, <1>3, AsCellsFacts DEF Share, CellsOf
  <1>5. ASSUME NEW n \in Names
        PROVE  Stored(<<n>>)' = Stored(<<n>>) + Share(p, <<n>>)
    <2>1. deviceTotal'[n] = deviceTotal[n] + IF n = m.name THEN 1 ELSE 0
      BY <1>1, <1>3 DEF TypeOK
    <2>2. Share(p, <<n>>) = IF n = m.name THEN 1 ELSE 0
      BY <1>2 DEF Share, CellsOf
    <2>3. Stored(<<n>>) = deviceTotal[n] /\ Stored(<<n>>)' = deviceTotal'[n]
      BY <1>a, <1>b, <1>c, AsCellsFacts
    <2> QED
      BY <2>1, <2>2, <2>3
  <1>6. ASSUME NEW n \in Names, NEW k \in Keys
        PROVE  Stored(<<n, k>>)' = Stored(<<n, k>>) + Share(p, <<n, k>>)
    <2>1. measured'[n][k]
            = measured[n][k] + IF n = m.name /\ k \in ks THEN 1 ELSE 0
      <3>1. /\ measured \in [Names -> [Keys -> Nat]]
            /\ measured[n][k] \in Nat
        BY DEF TypeOK
      <3>2. n = m.name =>
              measured'[n] = [j \in Keys |-> measured[n][j]
                                               + IF j \in ks THEN 1 ELSE 0]
        BY <1>3, <3>1
      <3>3. n # m.name => measured'[n] = measured[n]
        BY <1>3, <3>1
      <3> QED
        BY <3>1, <3>2, <3>3
    <2>2. Share(p, <<n, k>>) = IF n = m.name /\ k \in ks THEN 1 ELSE 0
      BY <1>2 DEF Share, CellsOf
    <2>3. /\ Stored(<<n, k>>) = measured[n][k]
          /\ Stored(<<n, k>>)' = measured'[n][k]
      BY <1>a, <1>b, <1>c, AsCellsFacts
    <2> QED
      BY <2>1, <2>2, <2>3
  <1> QED
    BY <1>b, <1>d, <1>4, <1>5, <1>6 DEF p, new, Cells

\* The storage adds a message that it takes from the queue.
LEMMA AddAdds ==
  ASSUME TypeOK, NEW m \in Messages, Storage!Add(m)
  PROVE  /\ Storage!Counts' \in AllCounts /\ UNCHANGED reported
         /\ \A x \in Cells : Stored(x)' = Stored(x) + Share(m, x)
  <1>1. m = [m EXCEPT !.keys = m.keys] /\ m.keys \in SUBSET m.keys
    BY EndToEndAssumption
  <1>2. Storage!Count(m, m.keys)
    BY DEF Storage!Add
  <1> QED
    BY <1>1, <1>2, CountAdds

\* Of a message it gives up on, the storage adds no more than there is.
LEMMA AddPartAdds ==
  ASSUME TypeOK, NEW m \in Messages, Storage!AddPart(m)
  PROVE  /\ Storage!Counts' \in AllCounts /\ UNCHANGED reported
         /\ \A x \in Cells : /\ Stored(x) \in Nat /\ Stored(x)' \in Nat
                             /\ Stored(x) <= Stored(x)'
                             /\ Stored(x)' <= Stored(x) + Share(m, x)
  <1>1. /\ Storage!Counts \in AllCounts
        /\ \A x \in Cells : Stored(x) \in Nat
    BY CountsType, AsCellsFacts DEF Stored
  <1>2. CASE total' = total + 1 /\ UNCHANGED <<deviceTotal, measured, reported>>
    <2>1. Storage!Counts' \in AllCounts
      BY <1>2 DEF TypeOK, AllCounts, Storage!Counts
    <2>2. /\ Stored(<<>>)' = Stored(<<>>) + 1
          /\ \A n \in Names : Stored(<<n>>)' = Stored(<<n>>)
          /\ \A n \in Names, k \in Keys : Stored(<<n, k>>)' = Stored(<<n, k>>)
      <3> DEFINE old == Storage!Counts
                 new == Storage!Counts'
      <3>1. /\ old \in AllCounts /\ new \in AllCounts
            /\ new[1] = old[1] + 1 /\ new[2] = old[2] /\ new[3] = old[3]
        BY <1>1, <1>2, <2>1 DEF Storage!Counts
      <3>2. \A x : Stored(x) = AsCells(old)[x] /\ Stored(x)' = AsCells(new)[x]
        BY DEF Stored
      <3> HIDE DEF old, new
      <3>3. Stored(<<>>)' = Stored(<<>>) + 1
        BY <3>1, <3>2, AsCellsFacts
      <3>4. ASSUME NEW n \in Names
            PROVE  Stored(<<n>>)' = Stored(<<n>>)
        <4>1. /\ AsCells(old)[<<n>>] = old[2][n]
              /\ AsCells(new)[<<n>>] = new[2][n]
          BY <3>1, AsCellsFacts
        <4> QED
          BY <3>1, <3>2, <4>1
      <3>5. ASSUME NEW n \in Names, NEW k \in Keys
            PROVE  Stored(<<n, k>>)' = Stored(<<n, k>>)
        <4>1. /\ AsCells(old)[<<n, k>>] = old[3][n][k]
              /\ AsCells(new)[<<n, k>>] = new[3][n][k]
          BY <3>1, AsCellsFacts
        <4> QED
          BY <3>1, <3>2, <4>1
      <3> QED
        BY <3>3, <3>4, <3>5
    <2>3. Share(m, <<>>) = 1 /\ \A x : Share(m, x) \in {0, 1}
      BY DEF Share, CellsOf
    <2>4. \A x \in Cells : \/ Stored(x)' = Stored(x)
                           \/ x = <<>> /\ Stored(x)' = Stored(x) + 1
      BY <2>2 DEF Cells
    <2> QED
      BY <1>1, <1>2, <2>1, <2>3, <2>4
  <1>3. CASE \E ks \in SUBSET m.keys : Storage!Count(m, ks)
    <2>1. PICK ks \in SUBSET m.keys : Storage!Count(m, ks)
      BY <1>3
    <2> DEFINE p == [m EXCEPT !.keys = ks]
    <2>2. p.name = m.name /\ p.keys \subseteq m.keys
      BY EndToEndAssumption
    <2>3. \A x : Share(p, x) \in {0, 1} /\ Share(m, x) \in {0, 1}
                 /\ Share(p, x) <= Share(m, x)
      BY <2>2 DEF Share, CellsOf
    <2>4. /\ Storage!Counts' \in AllCounts /\ UNCHANGED reported
          /\ \A x \in Cells : Stored(x)' = Stored(x) + Share(p, x)
      BY <2>1, CountAdds
    <2> HIDE DEF p
    <2> QED
      BY <1>1, <2>3, <2>4
  <1> QED
    BY <1>2, <1>3 DEF Storage!AddPart

\* The sum of what the scripts counted changes with the counts of one script.
LEMMA SimulatedChange ==
  ASSUME TypeOK, TypeOK', NEW s \in Scripts,
         \A t \in Scripts \ {s} : counted'[t] = counted[t],
         NEW x \in Cells
  PROVE  /\ Simulated(x) \in Nat /\ Simulated(x)' \in Nat
         /\ Simulated(x)' - Simulated(x) = counted'[s][x] - counted[s][x]
  <1> DEFINE f == [t \in Scripts |-> counted[t][x]]
             g == [t \in Scripts |-> counted'[t][x]]
  <1>1. f \in [Scripts -> Nat] /\ g \in [Scripts -> Nat]
    BY DEF TypeOK
  <1>2. \A t \in Scripts \ {s} : g[t] = f[t]
    OBVIOUS
  <1>3. f[s] = counted[s][x] /\ g[s] = counted'[s][x]
    OBVIOUS
  <1>4. /\ Simulated(x) = SumFunctionOnSet(f, Scripts)
        /\ Simulated(x)' = SumFunctionOnSet(g, Scripts)
    BY DEF Simulated, SumFunction
  <1> HIDE DEF f, g
  <1> QED
    BY <1>1, <1>2, <1>3, <1>4, SumPlus, SumType, EndToEndAssumption

\* The number of messages on their way changes with what one script does.
LEMMA SendingChange ==
  ASSUME NEW s \in Scripts,
         \A t \in Scripts \ {s} : at'[t] = at[t] /\ message'[t] = message[t],
         NEW x \in Cells
  PROVE  /\ Sending(x) \in Nat /\ Sending(x)' \in Nat
         /\ Sending(x)' - Sending(x) = OnItsWay(s, x)' - OnItsWay(s, x)
  <1> DEFINE S == {t \in Scripts : at[t] = "send" /\ x \in CellsOf(message[t])}
             T == {t \in Scripts :
                     at'[t] = "send" /\ x \in CellsOf(message'[t])}
             R == S \ {s}
  <1>1. /\ IsFiniteSet(R) /\ Cardinality(R) \in Nat /\ s \notin R
    <2>1. R \subseteq Scripts
      OBVIOUS
    <2> HIDE DEF S
    <2> QED
      BY <2>1, EndToEndAssumption, FS_Subset, FS_CardinalityType
  <1>2. /\ S = IF OnItsWay(s, x) = 1 THEN R \cup {s} ELSE R
        /\ T = IF OnItsWay(s, x)' = 1 THEN R \cup {s} ELSE R
        /\ OnItsWay(s, x) \in {0, 1} /\ OnItsWay(s, x)' \in {0, 1}
    BY DEF OnItsWay, Share
  <1>3. Sending(x) = Cardinality(S) /\ Sending(x)' = Cardinality(T)
    BY DEF Sending
  <1> HIDE DEF R, S, T
  <1>4. Cardinality(R \cup {s}) = Cardinality(R) + 1
    BY <1>1, FS_AddElement
  <1>5. /\ Cardinality(S) = Cardinality(R) + OnItsWay(s, x)
        /\ Cardinality(T) = Cardinality(R) + OnItsWay(s, x)'
    BY <1>1, <1>2, <1>4
  <1> QED
    BY <1>1, <1>2, <1>3, <1>5

\* How many messages of the queue q count in the cell x.
QueuedIn(q, x) == Cardinality(Positions(q, {m \in Messages : Share(m, x) = 1}))

\* The queue grows by one message and shrinks by its head.
LEMMA QueuedFacts ==
  ASSUME NEW q \in Seq(Messages), NEW x
  PROVE  /\ QueuedIn(q, x) \in Nat
         /\ QueuedIn(q, x) = Cardinality({i \in DOMAIN q : x \in CellsOf(q[i])})
         /\ \A m \in Messages :
              QueuedIn(Append(q, m), x) = QueuedIn(q, x) + Share(m, x)
         /\ q # <<>> => QueuedIn(q, x) = QueuedIn(Tail(q), x) + Share(Head(q), x)
  <1> DEFINE S == {m \in Messages : Share(m, x) = 1}
  <1>1. \A i \in DOMAIN q : q[i] \in Messages
    OBVIOUS
  <1>2. Positions(q, S) = {i \in DOMAIN q : x \in CellsOf(q[i])}
    BY <1>1 DEF Positions, Share
  <1>3. \A m \in Messages : Share(m, x) = IF m \in S THEN 1 ELSE 0
    BY DEF Share
  <1>4. \A t : QueuedIn(t, x) = Cardinality(Positions(t, S))
    BY DEF QueuedIn
  <1> HIDE DEF S
  <1>5. QueuedIn(q, x) \in Nat
    BY <1>4, PositionsFinite
  <1>6. \A m \in Messages :
          QueuedIn(Append(q, m), x) = QueuedIn(q, x) + Share(m, x)
    BY <1>3, <1>4, PositionsAppend
  <1>7. ASSUME q # <<>>
        PROVE  QueuedIn(q, x) = QueuedIn(Tail(q), x) + Share(Head(q), x)
    <2>1. Head(q) \in Messages
      BY <1>7
    <2> QED
      BY <1>3, <1>4, <1>7, <2>1, PositionsTail
  <1> QED
    BY <1>2, <1>4, <1>5, <1>6, <1>7

-----------------------------------------------------------------------------
\* Every step keeps the types.
LEMMA TypePreserved ==
  ASSUME TypeOK, [Next]_vars
  PROVE  TypeOK'
  <1> USE DEF TypeOK
  <1>1. ASSUME NEW s \in Scripts, NEW m \in Messages, GenerateMessage(s, m)
        PROVE  TypeOK'
    <2>1. counted' = [counted EXCEPT ![s] = Plus(counted[s], m)]
      BY <1>1 DEF GenerateMessage
    <2>2. Plus(counted[s], m) \in [Cells -> Nat]
      BY PlusFacts
    <2>3. counted' \in [Scripts -> [Cells -> Nat]]
      BY <2>1, <2>2
    <2> QED
      BY <1>1, <2>3 DEF GenerateMessage, storageVars
  <1>2. ASSUME NEW s \in Scripts, PostRejected(s)
        PROVE  TypeOK'
    <2>1. Plus(discarded, message[s]) \in [Cells -> Nat]
      BY PlusFacts
    <2> QED
      BY <1>2, <2>1 DEF PostRejected, Answered, storageVars
  <1>3. ASSUME NEW s \in Scripts, PushFails(s)
        PROVE  TypeOK'
    <2>1. Plus(discarded, message[s]) \in [Cells -> Nat]
      BY PlusFacts
    <2> QED
      BY <1>3, <2>1 DEF PushFails, Answered, storageVars
  <1>4. ASSUME NEW s \in Scripts, PushNewMessage(s)
        PROVE  TypeOK'
    BY <1>4 DEF PushNewMessage, storageVars
  <1>5. ASSUME NEW s \in Scripts, ReplyOK(s)
        PROVE  TypeOK'
    BY <1>5 DEF ReplyOK, Answered, storageVars
  <1>6. ASSUME NEW s \in Scripts, ConnectionFails(s)
        PROVE  TypeOK'
    <2>1. Plus(discarded, message[s]) \in [Cells -> Nat]
      BY PlusFacts
    <2> QED
      BY <1>6, <2>1 DEF ConnectionFails, storageVars
  <1>7. ASSUME NEW s \in Scripts, LeaveRun(s)
        PROVE  TypeOK'
    BY <1>7 DEF LeaveRun, storageVars
  <1>8. ASSUME NEW s \in Scripts, PrintResults(s)
        PROVE  TypeOK'
    BY <1>8 DEF PrintResults, Storage!Report, Storage!Counts
  <1>9. CASE Store
    <2>1. Head(messageQueue) \in Messages /\ Tail(messageQueue) \in Seq(Messages)
      BY <1>9 DEF Store
    <2>2. Storage!Counts' \in AllCounts /\ UNCHANGED reported
      BY <1>9, <2>1, AddAdds DEF Store
    <2> QED
      BY <1>9, <2>1, <2>2 DEF Store, Storage!Counts, AllCounts
  <1>10. CASE StorePart
    <2> DEFINE m == Head(messageQueue)
    <2>1. m \in Messages /\ Tail(messageQueue) \in Seq(Messages)
      BY <1>10 DEF StorePart
    <2>2. /\ Storage!Counts' \in AllCounts /\ UNCHANGED reported
          /\ \A x \in Cells : /\ Stored(x) \in Nat /\ Stored(x)' \in Nat
                              /\ Stored(x) <= Stored(x)'
                              /\ Stored(x)' <= Stored(x) + Share(m, x)
      BY <1>10, <2>1, AddPartAdds DEF StorePart
    <2>3. discarded' = [x \in Cells |-> Plus(discarded, m)[x]
                                           - (Stored(x)' - Stored(x))]
      BY <1>10 DEF StorePart, Stored
    <2>4. discarded' \in [Cells -> Nat]
      <3>1. \A x \in Cells : /\ Plus(discarded, m)[x] = discarded[x] + Share(m, x)
                             /\ discarded[x] \in Nat /\ Share(m, x) \in Nat
        <4>1. discarded \in [Cells -> Nat]
          OBVIOUS
        <4>2. \A x \in Cells : Plus(discarded, m)[x] = discarded[x] + Share(m, x)
          BY ONLY <4>1, PlusFacts
        <4>3. \A x \in Cells : Share(m, x) \in Nat
          BY DEF Share
        <4> QED
          BY ONLY <4>1, <4>2, <4>3
      <3>2. \A x \in Cells :
              Plus(discarded, m)[x] - (Stored(x)' - Stored(x)) \in Nat
        BY <2>2, <3>1
      <3> QED
        BY <2>3, <3>2
    <2> QED
      BY <1>10, <2>1, <2>2, <2>4 DEF StorePart, Storage!Counts, AllCounts
  <1>11. CASE UNCHANGED vars
    BY <1>11 DEF vars, storageVars
  <1> QED
    BY <1>1, <1>2, <1>3, <1>4, <1>5, <1>6, <1>7, <1>8, <1>9, <1>10, <1>11
       DEF Next, Script, Generate, Processor

\* Every step moves messages from one place to the next.
LEMMA BalancePreserved ==
  ASSUME TypeOK, TypeOK', AllAccountedFor, [Next]_vars
  PROVE  AllAccountedFor'
  <1> SUFFICES ASSUME NEW x \in Cells
               PROVE  Simulated(x)' = Sending(x)' + Queued(x)' + Stored(x)'
                                        + discarded'[x]
    BY DEF AllAccountedFor, Stored
  <1>1. Simulated(x) = Sending(x) + Queued(x) + Stored(x) + discarded[x]
    BY DEF AllAccountedFor, Stored
  <1>2. /\ Stored(x) \in Nat /\ Stored(x)' \in Nat
        /\ discarded[x] \in Nat /\ discarded'[x] \in Nat
    <2>1. Storage!Counts \in AllCounts /\ Storage!Counts' \in AllCounts
      BY DEF TypeOK, Storage!Counts, AllCounts
    <2> QED
      BY <2>1, AsCellsFacts DEF Stored, TypeOK
  <1>3. /\ Queued(x) = QueuedIn(messageQueue, x)
        /\ Queued(x)' = QueuedIn(messageQueue', x)
        /\ Queued(x) \in Nat /\ Queued(x)' \in Nat
    <2>1. messageQueue \in Seq(Messages) /\ messageQueue' \in Seq(Messages)
      BY DEF TypeOK
    <2>2. /\ Queued(x) = Cardinality({i \in DOMAIN messageQueue :
                                       x \in CellsOf(messageQueue[i])})
          /\ Queued(x)' = Cardinality({i \in DOMAIN messageQueue' :
                                        x \in CellsOf(messageQueue'[i])})
      BY DEF Queued
    <2> QED
      BY <2>1, <2>2, QueuedFacts
  <1>4. /\ UNCHANGED messageQueue => Queued(x)' = Queued(x)
        /\ UNCHANGED counted => Simulated(x)' = Simulated(x)
        /\ UNCHANGED <<at, message>> => Sending(x)' = Sending(x)
        /\ UNCHANGED <<total, deviceTotal, measured>> => Stored(x)' = Stored(x)
    BY DEF Queued, Simulated, Sending, Stored, Storage!Counts
  <1>5. \A s \in Scripts :
          /\ \A t \in Scripts \ {s} :
               at'[t] = at[t] /\ message'[t] = message[t]
          => /\ Sending(x) \in Nat /\ Sending(x)' \in Nat
             /\ Sending(x)' - Sending(x) = OnItsWay(s, x)' - OnItsWay(s, x)
    BY SendingChange
  <1>6. ASSUME NEW s \in Scripts, NEW m \in Messages, GenerateMessage(s, m)
        PROVE  Simulated(x)' = Sending(x)' + Queued(x)' + Stored(x)'
                                 + discarded'[x]
    <2>1. /\ at[s] = "run" /\ at'[s] = "send" /\ message'[s] = m
          /\ \A t \in Scripts \ {s} :
               at'[t] = at[t] /\ message'[t] = message[t]
          /\ UNCHANGED <<messageQueue, discarded, total, deviceTotal, measured>>
      BY <1>6 DEF GenerateMessage, storageVars, TypeOK
    <2>2. /\ counted'[s] = Plus(counted[s], m)
          /\ \A t \in Scripts \ {s} : counted'[t] = counted[t]
          /\ counted[s] \in [Cells -> Nat]
      BY <1>6 DEF GenerateMessage, TypeOK
    <2>3. counted'[s][x] = counted[s][x] + Share(m, x)
      BY <2>2, PlusFacts
    <2>4. /\ Simulated(x) \in Nat /\ Simulated(x)' \in Nat
          /\ Simulated(x)' - Simulated(x) = counted'[s][x] - counted[s][x]
      BY <2>2, SimulatedChange
    <2>5. OnItsWay(s, x) = 0 /\ OnItsWay(s, x)' = Share(m, x)
      BY <2>1 DEF OnItsWay
    <2>6. Share(m, x) \in Nat /\ counted[s][x] \in Nat
      BY <2>2 DEF Share
    <2> QED
      BY <1>1, <1>2, <1>3, <1>4, <1>5, <2>1, <2>3, <2>4, <2>5, <2>6
  <1>7. ASSUME NEW s \in Scripts, PostRejected(s) \/ PushFails(s)
        PROVE  Simulated(x)' = Sending(x)' + Queued(x)' + Stored(x)'
                                 + discarded'[x]
    <2>1. /\ at[s] = "send" /\ at'[s] = "run"
          /\ \A t \in Scripts \ {s} :
               at'[t] = at[t] /\ message'[t] = message[t]
          /\ discarded' = Plus(discarded, message[s])
          /\ UNCHANGED <<counted, messageQueue, total, deviceTotal, measured>>
      BY <1>7 DEF PostRejected, PushFails, Answered, storageVars, TypeOK
    <2>2. discarded'[x] = discarded[x] + Share(message[s], x)
      <3>1. discarded \in [Cells -> Nat]
        BY DEF TypeOK
      <3> QED
        BY <2>1, <3>1, PlusFacts
    <2>3. OnItsWay(s, x) = Share(message[s], x) /\ OnItsWay(s, x)' = 0
      BY <2>1 DEF OnItsWay
    <2>4. Share(message[s], x) \in Nat
      BY DEF Share
    <2> QED
      BY <1>1, <1>2, <1>3, <1>4, <1>5, <2>1, <2>2, <2>3, <2>4
  <1>8. ASSUME NEW s \in Scripts, PushNewMessage(s)
        PROVE  Simulated(x)' = Sending(x)' + Queued(x)' + Stored(x)'
                                 + discarded'[x]
    <2>1. /\ at[s] = "send" /\ at'[s] = "pushed"
          /\ \A t \in Scripts \ {s} :
               at'[t] = at[t] /\ message'[t] = message[t]
          /\ messageQueue' = Append(messageQueue, message[s])
          /\ message[s] \in Messages /\ messageQueue \in Seq(Messages)
          /\ UNCHANGED <<counted, discarded, total, deviceTotal, measured>>
      BY <1>8 DEF PushNewMessage, storageVars, TypeOK
    <2>2. Queued(x)' = Queued(x) + Share(message[s], x)
      BY <1>3, <2>1, QueuedFacts
    <2>3. OnItsWay(s, x) = Share(message[s], x) /\ OnItsWay(s, x)' = 0
      BY <2>1 DEF OnItsWay
    <2>4. Share(message[s], x) \in Nat
      BY DEF Share
    <2>5. /\ Sending(x) \in Nat /\ Sending(x)' \in Nat
          /\ Sending(x)' - Sending(x) = OnItsWay(s, x)' - OnItsWay(s, x)
      BY <1>5, <2>1
    <2>6. /\ Simulated(x)' = Simulated(x) /\ Stored(x)' = Stored(x)
          /\ discarded'[x] = discarded[x]
      BY <1>4, <2>1
    <2> QED
      BY <1>1, <1>2, <1>3, <2>2, <2>3, <2>4, <2>5, <2>6
  <1>9. ASSUME NEW s \in Scripts, ReplyOK(s) \/ LeaveRun(s) \/ PrintResults(s)
        PROVE  Simulated(x)' = Sending(x)' + Queued(x)' + Stored(x)'
                                 + discarded'[x]
    <2>1. /\ at[s] # "send" /\ at'[s] # "send"
          /\ \A t \in Scripts \ {s} :
               at'[t] = at[t] /\ message'[t] = message[t]
          /\ UNCHANGED <<counted, discarded, messageQueue>>
      BY <1>9 DEF ReplyOK, LeaveRun, PrintResults, Answered, TypeOK
    <2>2. UNCHANGED <<total, deviceTotal, measured>>
      BY <1>9 DEF ReplyOK, LeaveRun, PrintResults, storageVars, Storage!Report,
                  Storage!Counts
    <2>3. OnItsWay(s, x) = 0 /\ OnItsWay(s, x)' = 0
      BY <2>1 DEF OnItsWay
    <2> QED
      BY <1>1, <1>2, <1>3, <1>4, <1>5, <2>1, <2>2, <2>3
  <1>10. ASSUME NEW s \in Scripts, ConnectionFails(s)
         PROVE  Simulated(x)' = Sending(x)' + Queued(x)' + Stored(x)'
                                  + discarded'[x]
    <2>1. /\ at'[s] # "send"
          /\ \A t \in Scripts \ {s} :
               at'[t] = at[t] /\ message'[t] = message[t]
          /\ discarded' = IF at[s] = "send" THEN Plus(discarded, message[s])
                                            ELSE discarded
          /\ UNCHANGED <<counted, messageQueue, total, deviceTotal, measured>>
      BY <1>10 DEF ConnectionFails, storageVars, TypeOK
    <2>2. discarded'[x] = discarded[x] + OnItsWay(s, x)
      <3>1. /\ discarded \in [Cells -> Nat]
            /\ Plus(discarded, message[s])[x] = discarded[x] + Share(message[s], x)
        BY PlusFacts DEF TypeOK
      <3> QED
        BY <1>2, <2>1, <3>1 DEF OnItsWay
    <2>3. OnItsWay(s, x) \in Nat /\ OnItsWay(s, x)' = 0
      BY <2>1 DEF OnItsWay, Share
    <2> QED
      BY <1>1, <1>2, <1>3, <1>4, <1>5, <2>1, <2>2, <2>3
  <1>11. Sending(x) \in Nat
    <2>1. {s \in Scripts : at[s] = "send" /\ x \in CellsOf(message[s])}
            \in SUBSET Scripts
      OBVIOUS
    <2> QED
      BY <2>1, EndToEndAssumption, FS_Subset, FS_CardinalityType DEF Sending
  <1>12. CASE Store
    <2> DEFINE m == Head(messageQueue)
    <2>1. /\ messageQueue \in Seq(Messages) /\ messageQueue # <<>>
          /\ m \in Messages /\ messageQueue' = Tail(messageQueue)
          /\ UNCHANGED <<at, message, counted, discarded>>
      BY <1>12 DEF Store, TypeOK
    <2>2. Stored(x)' = Stored(x) + Share(m, x)
      BY <1>12, <2>1, AddAdds DEF Store
    <2>3. Queued(x) = Queued(x)' + Share(m, x) /\ Share(m, x) \in Nat
      <3>1. Share(m, x) \in Nat
        BY DEF Share
      <3>2. QueuedIn(messageQueue, x)
              = QueuedIn(Tail(messageQueue), x) + Share(m, x)
        BY ONLY <2>1, QueuedFacts
      <3> QED
        BY <1>3, <2>1, <3>1, <3>2
    <2>4. Simulated(x)' = Simulated(x) /\ Sending(x)' = Sending(x)
      BY <1>4, <2>1
    <2>5. discarded'[x] = discarded[x]
      BY <2>1
    <2> HIDE DEF m
    <2> QED
      BY <1>1, <1>2, <1>3, <1>11, <2>2, <2>3, <2>4, <2>5
  <1>13. CASE StorePart
    <2> DEFINE m == Head(messageQueue)
    <2>1. /\ messageQueue \in Seq(Messages) /\ messageQueue # <<>>
          /\ m \in Messages /\ messageQueue' = Tail(messageQueue)
          /\ UNCHANGED <<at, message, counted>>
      BY <1>13 DEF StorePart, TypeOK
    <2>2. discarded'[x] = Plus(discarded, m)[x] - (Stored(x)' - Stored(x))
      BY <1>13 DEF StorePart, Stored
    <2>3. Plus(discarded, m)[x] = discarded[x] + Share(m, x)
      BY PlusFacts DEF TypeOK
    <2>4. Queued(x) = Queued(x)' + Share(m, x) /\ Share(m, x) \in Nat
      <3>1. Share(m, x) \in Nat
        BY DEF Share
      <3>2. QueuedIn(messageQueue, x)
              = QueuedIn(Tail(messageQueue), x) + Share(m, x)
        BY ONLY <2>1, QueuedFacts
      <3> QED
        BY <1>3, <2>1, <3>1, <3>2
    <2>5. Simulated(x)' = Simulated(x) /\ Sending(x)' = Sending(x)
      BY <1>4, <2>1
    <2> HIDE DEF m
    <2> QED
      BY <1>1, <1>2, <1>3, <1>11, <2>2, <2>3, <2>4, <2>5
  <1>14. CASE UNCHANGED vars
    BY <1>1, <1>4, <1>14 DEF vars, storageVars
  <1> QED
    BY <1>6, <1>7, <1>8, <1>9, <1>10, <1>12, <1>13, <1>14
       DEF Next, Script, Generate, Processor

\* Before anything is sent nothing is anywhere.
LEMMA InitBalanced ==
  ASSUME Init
  PROVE  TypeOK /\ AllAccountedFor
  <1>1. /\ total = 0 /\ deviceTotal = [n \in Names |-> 0]
        /\ measured = [n \in Names |-> [k \in Keys |-> 0]]
        /\ reported = <<0, [n \in Names |-> 0],
                         [n \in Names |-> [k \in Keys |-> 0]]>>
    BY StorageIds DEF Init, Storage!Init, Storage!Zero
  <1>2. TypeOK
    BY <1>1 DEF Init, TypeOK, Nothing
  <1>3. ASSUME NEW x \in Cells
        PROVE  /\ Simulated(x) = 0 /\ Sending(x) = 0 /\ Queued(x) = 0
               /\ Stored(x) = 0 /\ discarded[x] = 0
    <2>1. Simulated(x) = 0
      <3> DEFINE f == [s \in Scripts |-> counted[s][x]]
      <3>1. f \in [Scripts -> Nat] /\ \A s \in Scripts : f[s] = 0
        BY DEF Init, Nothing
      <3>2. Simulated(x) = SumFunctionOnSet(f, Scripts)
        BY DEF Simulated, SumFunction
      <3> HIDE DEF f
      <3> QED
        BY <3>1, <3>2, SumOfZeros, EndToEndAssumption
    <2>2. Sending(x) = 0
      <3>1. {s \in Scripts : at[s] = "send" /\ x \in CellsOf(message[s])} = {}
        BY DEF Init
      <3> QED
        BY <3>1, FS_EmptySet DEF Sending
    <2>3. Queued(x) = 0
      <3>1. {i \in DOMAIN messageQueue : x \in CellsOf(messageQueue[i])} = {}
        BY DEF Init
      <3> QED
        BY <3>1, FS_EmptySet DEF Queued
    <2>4. Stored(x) = 0
      <3> DEFINE c == Storage!Counts
      <3>1. /\ c \in AllCounts /\ c[1] = 0 /\ c[2] = [n \in Names |-> 0]
            /\ c[3] = [n \in Names |-> [k \in Keys |-> 0]]
        BY <1>1, <1>2, CountsType
      <3>2. Stored(x) = AsCells(c)[x]
        BY DEF Stored
      <3> HIDE DEF c
      <3>3. CASE x = <<>>
        BY <3>1, <3>2, <3>3, AsCellsFacts
      <3>4. ASSUME NEW n \in Names, x = <<n>>
            PROVE  Stored(x) = 0
        BY <3>1, <3>2, <3>4, AsCellsFacts
      <3>5. ASSUME NEW n \in Names, NEW k \in Keys, x = <<n, k>>
            PROVE  Stored(x) = 0
        BY <3>1, <3>2, <3>5, AsCellsFacts
      <3> QED
        BY <3>3, <3>4, <3>5 DEF Cells
    <2> QED
      BY <2>1, <2>2, <2>3, <2>4 DEF Init, Nothing
  <1> QED
    BY <1>2, <1>3 DEF AllAccountedFor, Stored

\* The types, and every message and reading in one place.
THEOREM Accounted == Spec => [](TypeOK /\ AllAccountedFor)
  <1>1. Init => TypeOK /\ AllAccountedFor
    BY InitBalanced
  <1>2. TypeOK /\ AllAccountedFor /\ [Next]_vars
          => (TypeOK /\ AllAccountedFor)'
    BY TypePreserved, BalancePreserved
  <1> QED
    BY <1>1, <1>2, PTL DEF Spec

\* Every variable keeps its type, for any number of runs of the script.
THEOREM TypeCorrect == Spec => []TypeOK
  BY Accounted, PTL

\* What nothing is on its way for and nothing was lost of, is in the report.
LEMMA ExactReport ==
  ASSUME TypeOK, AllAccountedFor, NEW s \in Scripts, PrintResults(s),
         messageQueue = <<>>, discarded = Nothing,
         \A t \in Scripts : at[t] # "send",
         NEW x \in Cells
  PROVE  AsCells(reported')[x] = Simulated(x)
  <1>1. Simulated(x) = Sending(x) + Queued(x) + Stored(x) + discarded[x]
    BY DEF AllAccountedFor, Stored
  <1>2. Sending(x) = 0
    <2>1. {t \in Scripts : at[t] = "send" /\ x \in CellsOf(message[t])} = {}
      OBVIOUS
    <2> QED
      BY <2>1, FS_EmptySet DEF Sending
  <1>3. Queued(x) = 0
    <2>1. {i \in DOMAIN messageQueue : x \in CellsOf(messageQueue[i])} = {}
      OBVIOUS
    <2> QED
      BY <2>1, FS_EmptySet DEF Queued
  <1>4. discarded[x] = 0
    BY DEF Nothing
  <1>5. Stored(x) \in Nat
    BY CountsType, AsCellsFacts DEF Stored
  <1>6. AsCells(reported')[x] = Stored(x)
    BY DEF PrintResults, Storage!Report, Stored
  <1> QED
    BY <1>1, <1>2, <1>3, <1>4, <1>5, <1>6

\* The comparison of README.md for any number of runs of the script: a report
\* asked for when no message is on its way or in the queue shows all of them.
THEOREM ReportsAreExact == Spec => ReportIsExact
  <1>1. TypeOK /\ AllAccountedFor /\ [Next]_vars
          => [\A s \in Scripts :
                /\ PrintResults(s)
                /\ messageQueue = <<>> /\ discarded = Nothing
                /\ \A t \in Scripts : at[t] # "send"
                => \A x \in Cells : AsCells(reported')[x] = Simulated(x)]_vars
    BY ExactReport
  <1> QED
    BY <1>1, Accounted, PTL DEF Spec, ReportIsExact

=============================================================================
