----------------------------- MODULE DiskProofs ------------------------------
(***************************************************************************)
(* What Disk promises for every number of stores and disks, whatever disks *)
(* the stores are on and whatever update of OSHI's counters fails.         *)
(***************************************************************************)
EXTENDS Disk, TLAPS

LEMMA InitTypes == Init => TypeOK
<1> SUFFICES ASSUME Init PROVE TypeOK
  OBVIOUS
<1>1. /\ drives \in 0 .. MaxDrives /\ MaxDrives \in Nat /\ NumStores \in Nat
      /\ 0 .. drives - 1 \subseteq Drives
  BY NumStoresAssumption, DiskBoundsAssumption DEF Init, Drives
<1>2. holds \in SUBSET (Drives \X Stores)
  BY <1>1 DEF Init
<1>3. os \in [Drives -> Nat] /\ counter \in [Drives -> Nat]
  BY DiskBoundsAssumption DEF Init
<1> QED
  BY <1>1, <1>2, <1>3 DEF Init, TypeOK

\* What a turn of getDiskData's loop may read.
LEMMA ReadTypes ==
    ASSUME TypeOK, i < NumStores, storeDisk[i] # Unmapped
    PROVE  /\ i \in Stores /\ storeDisk[i] \in Drives
           /\ NewPrev(i) \in Nat /\ Moved(i) = NewPrev(i) - prev[i]
           /\ prev[i] \in Nat /\ reported[i] \in Int
<1>1. i \in Stores /\ NumStores \in Nat
  BY NumStoresAssumption DEF TypeOK, Stores
<1>2. storeDisk[i] \in Drives /\ prev[i] \in Nat /\ reported[i] \in Int
  BY <1>1 DEF TypeOK
<1> QED
  BY <1>1, <1>2 DEF TypeOK, NewPrev, Moved

LEMMA StepTypes == TypeOK /\ [Next]_vars => TypeOK'
<1> SUFFICES ASSUME TypeOK, [Next]_vars PROVE TypeOK'
  OBVIOUS
<1>0. NumStores \in Nat /\ MaxDrives \in Nat /\ j \in Nat /\ drives \in 0 .. MaxDrives
  BY NumStoresAssumption, DiskBoundsAssumption DEF TypeOK
<1>1. CASE InitDisk
  <2>1. j \in Drives /\ j \in Stores /\ counter[j] \in Nat
    BY <1>0, <1>1 DEF InitDisk, TypeOK, Drives, Stores
  <2>2. storeDisk' \in [Stores -> Drives \union {Unmapped}]
    BY <1>1, <2>1 DEF InitDisk, WithDisk, TypeOK
  <2>3. prev' \in [Stores -> Nat] /\ start' \in [Drives -> Nat]
    BY <1>1, <2>1 DEF InitDisk, TypeOK
  <2>4. j' \in 0 .. drives'
    BY <1>0, <1>1 DEF InitDisk
  <2> QED
    BY <1>1, <2>2, <2>3, <2>4 DEF InitDisk, TypeOK
<1>2. CASE BeginCall
  <2>1. i' \in 0 .. NumStores
    BY <1>0, <1>2 DEF BeginCall
  <2> QED
    BY <1>2, <2>1 DEF BeginCall, arrays, TypeOK
<1>3. CASE GetDiskData
  <2>1. /\ i \in Stores /\ storeDisk[i] \in Drives /\ NewPrev(i) \in Nat
        /\ Moved(i) \in Int /\ reported[i] + Moved(i) \in Int
    BY <1>3, ReadTypes DEF GetDiskData
  <2>2. prev' \in [Stores -> Nat]
    BY <1>3, <2>1 DEF GetDiskData, TypeOK
  <2>3. speed' \in [Stores -> Int] /\ reported' \in [Stores -> Int]
    BY <1>3, <2>1 DEF GetDiskData, TypeOK
  <2>4. counter' \in [Drives -> Nat] /\ misses' \in Nat
    BY <1>3, <2>1 DEF GetDiskData, UpdateAttributes, TypeOK
  <2>5. i' \in 0 .. NumStores /\ rounds' \in Nat
    BY <1>0, <1>3, <2>1 DEF GetDiskData, TypeOK, Stores
  <2> QED
    BY <1>3, <2>2, <2>3, <2>4, <2>5 DEF GetDiskData, TypeOK
<1>4. CASE InitDiskFails \/ GetDiskDataFails
  BY <1>4 DEF InitDiskFails, GetDiskDataFails, arrays, history, TypeOK
<1>5. CASE Traffic
  <2>1. os' \in [Drives -> Nat]
    BY <1>5 DEF Traffic, TypeOK
  <2> QED
    BY <1>5, <2>1 DEF Traffic, arrays, history, TypeOK
<1>6. CASE UNCHANGED vars
  BY <1>6 DEF vars, arrays, history, TypeOK
<1> QED
  BY <1>1, <1>2, <1>3, <1>4, <1>5, <1>6 DEF Next

\* Every variable of Disk keeps its type.
THEOREM DiskTypes == Spec => []TypeOK
BY InitTypes, StepTypes, PTL DEF Spec

-----------------------------------------------------------------------------
\* The rows add up

LEMMA StepCall == TypeOK /\ CallInv /\ [Next]_vars => CallInv'
<1> SUFFICES ASSUME TypeOK, CallInv, [Next]_vars, j' < drives'
             PROVE  i' = NumStores /\ rounds' = 0 /\ \A s \in Stores : reported'[s] = 0
  BY DEF CallInv
<1>0. j \in Int /\ drives \in Int /\ NumStores \in Nat
  BY NumStoresAssumption, DiskBoundsAssumption DEF TypeOK
<1>1. CASE InitDisk
  BY <1>0, <1>1 DEF InitDisk, CallInv
<1>2. CASE BeginCall
  BY <1>0, <1>2 DEF BeginCall
<1>3. CASE GetDiskData
  BY <1>0, <1>3 DEF GetDiskData, CallInv
<1>4. CASE InitDiskFails \/ GetDiskDataFails \/ Traffic \/ UNCHANGED vars
  BY <1>4 DEF InitDiskFails, GetDiskDataFails, Traffic, arrays, history, vars, CallInv
<1> QED
  BY <1>1, <1>2, <1>3, <1>4 DEF Next

LEMMA StepBaseline ==
    TypeOK /\ CallInv /\ BaselineInv /\ [Next]_vars => BaselineInv'
<1> SUFFICES ASSUME TypeOK, CallInv, BaselineInv, [Next]_vars, NEW s \in Stores
             PROVE  reported'[s] = prev'[s] - (IF s < j' THEN start'[s] ELSE 0)
  BY DEF BaselineInv
<1>0. /\ j \in Nat /\ s \in Nat /\ prev[s] \in Nat
      /\ reported[s] = prev[s] - (IF s < j THEN start[s] ELSE 0)
  BY NumStoresAssumption, DiskBoundsAssumption DEF TypeOK, Stores, BaselineInv
<1>1. CASE InitDisk
  <2>1. j \in Drives /\ j \in Stores /\ counter[j] \in Nat
    BY <1>0, <1>1, NumStoresAssumption, DiskBoundsAssumption
    DEF InitDisk, TypeOK, Drives, Stores
  <2>2. j' = j + 1 /\ reported' = reported /\ reported[s] = 0
    BY <1>1 DEF InitDisk, CallInv
  <2>3. CASE s = j
    BY <1>0, <1>1, <2>1, <2>2, <2>3 DEF InitDisk, TypeOK
  <2>4. CASE s # j
    <3>1. prev'[s] = prev[s] /\ (s < j' <=> s < j)
      BY <1>0, <1>1, <2>2, <2>4 DEF InitDisk, TypeOK
    <3>2. s < j => start'[s] = start[s]
      <4>1. s < j => s \in Drives
        BY <1>0, <2>1, DiskBoundsAssumption DEF Drives
      <4> QED
        BY <1>1, <2>4, <4>1 DEF InitDisk, TypeOK
    <3> QED
      BY <1>0, <2>2, <3>1, <3>2
  <2> QED
    BY <2>3, <2>4
<1>2. CASE GetDiskData
  <2>1. /\ i \in Stores /\ NewPrev(i) \in Nat /\ Moved(i) = NewPrev(i) - prev[i]
        /\ prev[i] \in Nat /\ reported[i] \in Int
    BY <1>2, ReadTypes DEF GetDiskData
  <2>2. j' = j /\ start' = start
    BY <1>2 DEF GetDiskData
  <2>3. /\ prev' = [prev EXCEPT ![i] = NewPrev(i)]
        /\ reported' = [reported EXCEPT ![i] = @ + Moved(i)]
    BY <1>2 DEF GetDiskData
  <2>4. CASE s = i
    <3>1. prev'[s] = NewPrev(i) /\ reported'[s] = reported[s] + Moved(i)
      BY <2>1, <2>3, <2>4 DEF TypeOK
    <3>2. s < j => start[s] \in Nat
      <4>1. s < j => s \in Drives
        BY <1>0, DiskBoundsAssumption DEF TypeOK, Drives
      <4> QED
        BY <4>1 DEF TypeOK
    <3> QED
      BY <1>0, <2>1, <2>2, <2>4, <3>1, <3>2
  <2>5. CASE s # i
    BY <1>0, <2>1, <2>2, <2>3, <2>5 DEF TypeOK
  <2> QED
    BY <2>4, <2>5
<1>3. CASE BeginCall \/ InitDiskFails \/ GetDiskDataFails \/ Traffic \/ UNCHANGED vars
  <2>1. UNCHANGED <<reported, prev, j, start>>
    BY <1>3 DEF BeginCall, InitDiskFails, GetDiskDataFails, Traffic, arrays, history, vars
  <2> QED
    BY <1>0, <2>1
<1> QED
  BY <1>1, <1>2, <1>3 DEF Next

-----------------------------------------------------------------------------
\* The map from stores to disks

LEMMA StepMap == TypeOK /\ MapInv /\ [Next]_vars => MapInv'
<1> SUFFICES ASSUME TypeOK, MapInv, [Next]_vars PROVE MapInv'
  OBVIOUS
<1>1. CASE InitDisk
  <2>1. /\ holds' = holds /\ drives' = drives /\ j' = j + 1
        /\ \A s \in Stores : storeDisk'[s] = IF <<j, s>> \in holds THEN j ELSE storeDisk[s]
    BY <1>1 DEF InitDisk, WithDisk
  <2>2. j \in Nat
    BY DiskBoundsAssumption DEF TypeOK
  <2>3. \A d : d \in 0 .. j' - 1 <=> d \in 0 .. j - 1 \/ d = j
    BY <2>1, <2>2
  <2>4. ASSUME NEW s \in Stores
        PROVE  IF \E d \in 0 .. j' - 1 : <<d, s>> \in holds
               THEN <<storeDisk'[s], s>> \in holds
               ELSE storeDisk'[s] = Unmapped
    <3>1. CASE <<j, s>> \in holds
      BY <2>1, <2>3, <3>1
    <3>2. CASE <<j, s>> \notin holds
      BY <2>1, <2>3, <3>2 DEF MapInv
    <3> QED
      BY <3>1, <3>2
  <2> QED
    BY <2>1, <2>4 DEF MapInv
<1>2. CASE BeginCall \/ GetDiskData \/ InitDiskFails \/ GetDiskDataFails \/ Traffic
           \/ UNCHANGED vars
  <2>1. UNCHANGED <<drives, holds, j, storeDisk>>
    BY <1>2 DEF BeginCall, GetDiskData, InitDiskFails, GetDiskDataFails, Traffic, arrays,
                history, vars
  <2> QED
    BY <2>1 DEF MapInv
<1> QED
  BY <1>1, <1>2 DEF Next

-----------------------------------------------------------------------------
\* How far rows lag behind

LEMMA StepCounters == TypeOK /\ CountersInv /\ [Next]_vars => CountersInv'
<1> SUFFICES ASSUME TypeOK, CountersInv, [Next]_vars, NEW d \in Drives
             PROVE  counter'[d] =< os'[d] /\ begun'[d] =< os'[d]
  BY DEF CountersInv
<1>0. /\ counter[d] \in Nat /\ os[d] \in Nat /\ begun[d] \in Nat
      /\ counter[d] =< os[d] /\ begun[d] =< os[d]
  BY DEF TypeOK, CountersInv
<1>1. CASE InitDisk \/ InitDiskFails \/ GetDiskDataFails \/ UNCHANGED vars
  BY <1>0, <1>1 DEF InitDisk, InitDiskFails, GetDiskDataFails, arrays, history, vars
<1>2. CASE BeginCall
  BY <1>0, <1>2 DEF BeginCall, arrays
<1>3. CASE GetDiskData
  <2>1. os' = os /\ begun' = begun
    BY <1>3 DEF GetDiskData
  <2>2. counter'[d] = counter[d] \/ counter'[d] = os[d]
    BY <1>3 DEF GetDiskData, UpdateAttributes, TypeOK
  <2> QED
    BY <1>0, <2>1, <2>2
<1>4. CASE Traffic
  <2>1. UNCHANGED <<counter, begun>>
    BY <1>4 DEF Traffic, arrays, history
  <2>2. os'[d] = os[d] \/ os'[d] = os[d] + 1
    BY <1>4 DEF Traffic, TypeOK
  <2> QED
    BY <1>0, <2>1, <2>2
<1> QED
  BY <1>1, <1>2, <1>3, <1>4 DEF Next

\* What a turn of getDiskData's loop does to the counters a store may see.
LEMMA TurnUpdates ==
    ASSUME TypeOK, CountersInv, GetDiskData, NEW s \in Stores, storeDisk[s] # Unmapped
    PROVE  /\ i \in Stores /\ storeDisk[i] \in Drives /\ storeDisk' = storeDisk
           /\ storeDisk[s] \in Drives
           /\ counter[storeDisk[s]] \in Nat /\ counter'[storeDisk[s]] \in Nat
           /\ counter[storeDisk[s]] =< counter'[storeDisk[s]]
           /\ prev[s] \in Nat /\ speed[s] \in Int
           /\ s = i => /\ prev'[s] = counter[storeDisk[s]]
                       /\ speed'[s] = counter[storeDisk[s]] - prev[s]
           /\ s # i => prev'[s] = prev[s] /\ speed'[s] = speed[s]
<1>1. /\ i \in Stores /\ storeDisk[i] \in Drives /\ storeDisk' = storeDisk
      /\ storeDisk[s] \in Drives /\ prev[s] \in Nat /\ speed[s] \in Int
  BY ReadTypes DEF GetDiskData, TypeOK
<1>2. counter[storeDisk[s]] \in Nat /\ os[storeDisk[s]] \in Nat
  BY <1>1 DEF TypeOK
<1>3. counter'[storeDisk[s]] = counter[storeDisk[s]] \/ counter'[storeDisk[s]] = os[storeDisk[s]]
  BY <1>1 DEF GetDiskData, UpdateAttributes, TypeOK
<1>4. counter[storeDisk[s]] =< os[storeDisk[s]]
  BY <1>1 DEF CountersInv
<1>5. /\ s = i => prev'[s] = counter[storeDisk[s]]
      /\ s # i => prev'[s] = prev[s]
  BY <1>1 DEF GetDiskData, NewPrev, TypeOK
<1>6. /\ s = i => speed'[s] = counter[storeDisk[s]] - prev[s]
      /\ s # i => speed'[s] = speed[s]
  BY <1>1 DEF GetDiskData, Moved, TypeOK
<1> QED
  BY <1>1, <1>2, <1>3, <1>4, <1>5, <1>6

LEMMA StepSampled ==
    TypeOK /\ CallInv /\ CountersInv /\ SampledInv /\ [Next]_vars => SampledInv'
<1> SUFFICES ASSUME TypeOK, CallInv, CountersInv, SampledInv, [Next]_vars,
                    NEW s \in Stores, Sampled(s)'
             PROVE  /\ prev'[s] =< counter'[storeDisk'[s]]
                    /\ SampledTwice(s)' => speed'[s] >= 0
  BY DEF SampledInv
<1>0. /\ NumStores \in Nat /\ s \in Nat /\ s < NumStores
      /\ i \in 0 .. NumStores /\ rounds \in Nat /\ j \in Int /\ drives \in Int
  BY NumStoresAssumption, DiskBoundsAssumption DEF TypeOK, Stores
<1>1. CASE InitDisk
  <2>1. i' = NumStores /\ rounds' = 0
    BY <1>0, <1>1 DEF InitDisk, CallInv
  <2> QED
    BY <1>0, <2>1 DEF Sampled
<1>2. CASE GetDiskData
  <2>1. storeDisk[s] # Unmapped /\ i < NumStores /\ i' = i + 1
    BY <1>2 DEF GetDiskData, Sampled
  <2>2. rounds' = IF i + 1 = NumStores THEN rounds + 1 ELSE rounds
    BY <1>2 DEF GetDiskData
  <2>3. CASE s = i
    BY <1>0, <1>2, <2>1, <2>2, <2>3, TurnUpdates DEF Sampled, SampledTwice, SampledInv
  <2>4. CASE s # i
    <3>1. Sampled(s) /\ (SampledTwice(s)' => SampledTwice(s))
      BY <1>0, <2>1, <2>2, <2>4, <1>2 DEF Sampled, SampledTwice, GetDiskData
    <3> QED
      BY <1>2, <2>1, <2>4, <3>1, TurnUpdates DEF SampledInv
  <2> QED
    BY <2>3, <2>4
<1>3. CASE BeginCall
  <2>1. UNCHANGED <<prev, counter, storeDisk, speed, rounds>> /\ i = NumStores /\ i' = 0
    BY <1>3 DEF BeginCall, arrays
  <2>2. Sampled(s) /\ (SampledTwice(s)' => SampledTwice(s))
    BY <1>0, <2>1 DEF Sampled, SampledTwice
  <2> QED
    BY <2>1, <2>2 DEF SampledInv
<1>4. CASE InitDiskFails \/ GetDiskDataFails \/ Traffic \/ UNCHANGED vars
  <2>1. UNCHANGED <<prev, counter, storeDisk, speed, rounds, i>>
    BY <1>4 DEF InitDiskFails, GetDiskDataFails, Traffic, arrays, vars
  <2> QED
    BY <2>1 DEF SampledInv, Sampled, SampledTwice
<1> QED
  BY <1>1, <1>2, <1>3, <1>4 DEF Next

LEMMA StepLag ==
    TypeOK /\ CallInv /\ CountersInv /\ LagInv /\ [Next]_vars => LagInv'
<1> DEFINE Lag(s) ==
      /\ i < NumStores /\ s < i => counter[storeDisk[s]] >= begun[storeDisk[s]]
      /\ i < NumStores /\ rounds > 0 =>
             /\ counter[storeDisk[s]] >= before[storeDisk[s]]
             /\ s < i => prev[s] >= before[storeDisk[s]]
      /\ i = NumStores /\ rounds > 0 => counter[storeDisk[s]] >= begun[storeDisk[s]]
      /\ i = NumStores /\ rounds > 1 => prev[s] >= before[storeDisk[s]]
<1>0. LagInv <=> (misses = 0 => \A s \in Stores : storeDisk[s] # Unmapped => Lag(s))
  BY DEF LagInv
<1>00. LagInv' <=> (misses' = 0 => \A s \in Stores : storeDisk'[s] # Unmapped => Lag(s)')
  BY DEF LagInv
<1> SUFFICES ASSUME TypeOK, CallInv, CountersInv, LagInv, [Next]_vars, misses' = 0,
                    NEW s \in Stores, storeDisk'[s] # Unmapped
             PROVE  Lag(s)'
  BY <1>00
<1>1. /\ NumStores \in Nat /\ s \in Nat /\ s < NumStores
      /\ i \in 0 .. NumStores /\ rounds \in Nat /\ j \in Int /\ drives \in Int /\ misses \in Nat
  BY NumStoresAssumption, DiskBoundsAssumption DEF TypeOK, Stores
<1>2. CASE InitDisk
  <2>1. i' = NumStores /\ rounds' = 0
    BY <1>1, <1>2 DEF InitDisk, CallInv
  <2> QED
    BY <1>1, <2>1
<1>3. CASE GetDiskData
  <2>1. /\ storeDisk[s] # Unmapped /\ i < NumStores /\ i' = i + 1 /\ misses = 0
        /\ counter' = [counter EXCEPT ![storeDisk[i]] = os[storeDisk[i]]]
        /\ rounds' = IF i + 1 = NumStores THEN rounds + 1 ELSE rounds
        /\ begun' = begun /\ before' = before
    BY <1>1, <1>3 DEF GetDiskData, UpdateAttributes
  <2>2. Lag(s)
    BY <1>0, <2>1
  <2>3. begun[storeDisk[s]] \in Nat /\ before[storeDisk[s]] \in Nat
    BY <1>3, <2>1, TurnUpdates DEF TypeOK
  <2>4. CASE s = i
    <3>1. counter'[storeDisk[s]] >= begun[storeDisk[s]]
      BY <1>3, <2>1, <2>4, TurnUpdates DEF TypeOK, CountersInv
    <3>2. /\ prev'[s] = counter[storeDisk[s]] /\ storeDisk' = storeDisk
          /\ counter[storeDisk[s]] =< counter'[storeDisk[s]]
          /\ counter[storeDisk[s]] \in Nat /\ counter'[storeDisk[s]] \in Nat
      BY <1>3, <2>1, <2>4, TurnUpdates
    <3> QED
      BY <1>1, <2>1, <2>2, <2>3, <2>4, <3>1, <3>2
  <2>5. CASE s # i
    <3>1. /\ prev'[s] = prev[s] /\ prev[s] \in Nat /\ storeDisk' = storeDisk
          /\ counter[storeDisk[s]] =< counter'[storeDisk[s]]
          /\ counter[storeDisk[s]] \in Nat /\ counter'[storeDisk[s]] \in Nat
      BY <1>3, <2>1, <2>5, TurnUpdates
    <3> QED
      BY <1>1, <2>1, <2>2, <2>3, <2>5, <3>1
  <2> QED
    BY <2>4, <2>5
<1>4. CASE BeginCall
  <2>1. /\ UNCHANGED <<prev, counter, storeDisk, rounds, misses>>
        /\ i = NumStores /\ i' = 0 /\ before' = begun
    BY <1>4 DEF BeginCall, arrays
  <2> QED
    BY <1>0, <1>1, <2>1
<1>5. CASE InitDiskFails \/ GetDiskDataFails \/ Traffic \/ UNCHANGED vars
  <2>1. UNCHANGED <<prev, counter, storeDisk, rounds, i, misses, begun, before>>
    BY <1>5 DEF InitDiskFails, GetDiskDataFails, Traffic, arrays, history, vars
  <2> QED
    BY <1>0, <2>1
<1> QED
  BY <1>2, <1>3, <1>4, <1>5 DEF Next

-----------------------------------------------------------------------------
LEMMA InitInv == Init => IInv
<1> SUFFICES ASSUME Init PROVE IInv
  OBVIOUS
<1>1. TypeOK
  BY InitTypes
<1>2. CallInv /\ MapInv
  BY DEF Init, CallInv, MapInv
<1>3. BaselineInv
  <2> SUFFICES ASSUME NEW s \in Stores PROVE reported[s] = 0 /\ prev[s] = 0 /\ ~ (s < j)
    BY DEF BaselineInv
  <2> QED
    BY NumStoresAssumption DEF Init, Stores
<1>4. CountersInv
  BY <1>1 DEF Init, CountersInv, TypeOK
<1>5. SampledInv /\ LagInv
  <2> SUFFICES ASSUME NEW s \in Stores PROVE storeDisk[s] = Unmapped
    BY DEF SampledInv, Sampled, LagInv
  <2> QED
    BY DEF Init
<1> QED
  BY <1>1, <1>2, <1>3, <1>4, <1>5 DEF IInv

LEMMA StepInv == IInv /\ [Next]_vars => IInv'
BY StepTypes, StepCall, StepBaseline, StepMap, StepCounters, StepSampled, StepLag DEF IInv

\* Init and every step keep what the two properties of age and sum rest on.
THEOREM DiskInvariant == Spec => []IInv
BY InitInv, StepInv, PTL DEF Spec

\* No byte of a disk is reported twice or left out of a store's rows, however
\* many stores share the disk and whatever update fails.
THEOREM DiskRowsAddUp == Spec => []RowsAddUp
<1>1. IInv => RowsAddUp
  <2> SUFFICES ASSUME IInv, NEW s \in Stores, Sampled(s)
               PROVE  reported[s] = prev[s] - (IF s < drives THEN start[s] ELSE 0)
    BY DEF RowsAddUp
  <2>1. j = drives
    <3>1. j \in 0 .. drives /\ drives \in Nat /\ rounds \in Nat /\ i \in 0 .. NumStores
      BY DiskBoundsAssumption DEF IInv, TypeOK
    <3>2. ~ (j < drives)
      BY <3>1, NumStoresAssumption DEF IInv, CallInv, Sampled
    <3> QED
      BY <3>1, <3>2
  <2> QED
    BY <2>1 DEF IInv, BaselineInv
<1> QED
  BY InitInv, StepInv, <1>1, PTL DEF Spec

\* A store is matched with a disk exactly if some disk has a partition with the
\* store's UUID, and with such a disk.
THEOREM DiskMapFindsDisk == Spec => []MapFindsDisk
<1>1. IInv => MapFindsDisk
  <2> SUFFICES ASSUME IInv, j = drives, NEW s \in Stores
               PROVE  IF \E d \in Drives : <<d, s>> \in holds
                      THEN <<storeDisk[s], s>> \in holds
                      ELSE storeDisk[s] = Unmapped
    BY DEF MapFindsDisk
  <2>1. (\E d \in Drives : <<d, s>> \in holds) <=> (\E d \in 0 .. j - 1 : <<d, s>> \in holds)
    <3>1. \A d : <<d, s>> \in holds => d \in 0 .. j - 1
      BY DEF IInv, MapInv
    <3>2. 0 .. j - 1 \subseteq Drives
      BY DiskBoundsAssumption DEF IInv, TypeOK, Drives
    <3> QED
      BY <3>1, <3>2
  <2> QED
    BY <2>1 DEF IInv, MapInv
<1> QED
  BY InitInv, StepInv, <1>1, PTL DEF Spec

\* When a call of getDiskData ends, every byte a disk had moved when the call before
\* it began is in a row of each of its stores, unless an update has failed.
THEOREM DiskLagBounded == Spec => []LagBounded
<1>1. IInv => LagBounded
  <2> SUFFICES ASSUME IInv, i = NumStores, rounds >= 2, misses = 0,
                      NEW s \in Stores, storeDisk[s] # Unmapped
               PROVE  prev[s] >= before[storeDisk[s]]
    BY DEF LagBounded
  <2>1. rounds > 1
    BY DEF IInv, TypeOK
  <2> QED
    BY <2>1 DEF IInv, LagInv
<1> QED
  BY InitInv, StepInv, <1>1, PTL DEF Spec

\* A store's rows after its first never show a negative speed, although the stores
\* of one disk read and refresh the same counter in turn.
THEOREM DiskNeverRunsBackwards == Spec => []NeverRunsBackwards
<1>1. IInv => NeverRunsBackwards
  BY DEF IInv, SampledInv, SampledTwice, NeverRunsBackwards
<1> QED
  BY InitInv, StepInv, <1>1, PTL DEF Spec
=============================================================================
