--------------------------- MODULE NetworkProofs ----------------------------
(***************************************************************************)
(* What holds of Network for any number of interfaces, any counters and    *)
(* any number of rounds.                                                   *)
(***************************************************************************)
EXTENDS Network, TLAPS

\* Clamping the running total at zero gives a byte count, and changes nothing
\* that is one already.
LEMMA ClampNat == \A n \in Int : /\ AtLeastZero(n) \in Nat
                                 /\ n >= 0 => AtLeastZero(n) = n
BY DEF AtLeastZero

\* A megabit figure computed from a byte count is a natural number.
LEMMA MegabitNat == \A n \in Nat : (n * 8) \div Megabit \in Nat
<1> SUFFICES ASSUME NEW n \in Nat PROVE (n * 8) \div Megabit \in Nat
  OBVIOUS
<1> DEFINE m == n * 8
<1>1. m \in Nat
  OBVIOUS
<1> HIDE DEF m
<1>2. m \div Megabit \in Nat
  BY <1>1, MegabitAssumption
<1> QED
  BY <1>2 DEF m

\* One turn of the sampling loop keeps the types, whatever byte count it reads.
LEMMA SampleTypes ==
    ASSUME TypeOK, i \in IFs, NEW read \in Nat, Sample(read)
    PROVE  TypeOK'
<1> USE DEF TypeOK
<1>1. Accumulated(read) \in Int /\ NewBaseline(read) \in Int
  BY DEF Accumulated, NewBaseline
<1>2. AtLeastZero(total + Accumulated(read)) \in Nat
  BY <1>1, ClampNat
<1>3. same' \in BOOLEAN
  BY Zenon DEF Sample
<1>4. moved' \in [IFs -> Int] /\ exact' \in Int
  BY DEF Sample
<1>5. added' \in [IFs -> Int] /\ baseline' \in [IFs -> Int] /\ current' \in Int
  BY <1>1 DEF Sample
<1>6. recv' \in [IFs -> Nat] /\ seen' \in [IFs -> Nat]
  BY DEF Sample
<1>7. i' \in 1 .. NumIFs + 1
  BY NumIFsAssumption DEF Sample, IFs
<1>8. total' \in Nat
  BY <1>2 DEF Sample
<1>9. os' \in [IFs -> Nat] /\ inbound' \in Nat /\ steady' \in Nat
      /\ rounds' \in Nat /\ resets' \in Nat
  BY DEF Sample
<1> QED
  BY <1>3, <1>4, <1>5, <1>6, <1>7, <1>8, <1>9

\* Every step of Network keeps the types.
LEMMA StepTypes == TypeOK /\ [Next]_vars => TypeOK'
<1> SUFFICES ASSUME TypeOK, [Next]_vars PROVE TypeOK'
  OBVIOUS
<1>1. CASE SampleIF
  <2>1. PICK read \in {os[i], recv[i]} : Sample(read)
    BY <1>1 DEF SampleIF
  <2>2. i \in IFs /\ read \in Nat
    BY <1>1, <2>1 DEF SampleIF, TypeOK
  <2> QED
    BY <2>1, <2>2, SampleTypes
<1>2. CASE InsertRow
  BY <1>2, MegabitNat, NumIFsAssumption DEF InsertRow, TypeOK
<1>3. CASE Traffic
  BY <1>3 DEF Traffic, history, TypeOK
<1>4. CASE Reset
  BY <1>4 DEF Reset, history, TypeOK
<1>5. CASE UNCHANGED vars
  BY <1>5 DEF vars, code, history, TypeOK
<1> QED
  BY <1>1, <1>2, <1>3, <1>4, <1>5 DEF Next

\* A process that starts, starts with these types.
LEMMA InitTypes == Init => TypeOK
BY NumIFsAssumption, NetworkBoundsAssumption DEF Init, TypeOK, IFs

\* The variables of Network keep the types of the code's longs and loop index.
THEOREM NetworkTypes == Spec => []TypeOK
BY InitTypes, StepTypes, PTL DEF Spec

-----------------------------------------------------------------------------
\* The carried sum dies out

LEMMA IFsRange == \A n : n \in IFs <=> (n \in Int /\ 1 =< n /\ n =< NumIFs)
BY NumIFsAssumption DEF IFs

LEMMA IFBefore == \A n \in IFs : 1 < n => n - 1 \in IFs
BY NumIFsAssumption DEF IFs

\* initNetwork's baselines are the counters themselves: no interface is off.
LEMMA InitInv == Init => IInv
<1> SUFFICES ASSUME Init PROVE IInv
  OBVIOUS
<1>1. TypeOK
  BY InitTypes
<1>2. OffsetInv
  <2>1. 1 \in IFs
    BY IFsRange, NumIFsAssumption
  <2>2. ASSUME NEW n \in IFs PROVE Offset(n) = 0
    <3>1. seen = baseline /\ baseline[n] \in Int
      BY <1>1 DEF Init, TypeOK
    <3> QED
      BY <3>1 DEF Offset
  <2>3. ASSUME NEW n \in IFs, 1 < n PROVE moved[n - 1] = 0
    BY <2>3, IFBefore DEF Init
  <2> QED
    BY <2>1, <2>2, <2>3, IFsRange DEF Init, OffsetInv
<1>3. AddedInv /\ CurrentInv /\ TotalInv
  BY IFsRange DEF Init, AddedInv, CurrentInv, TotalInv
<1> QED
  BY <1>1, <1>2, <1>3 DEF IInv

\* A turn of the loop: interface i adds what it moved to the sum it finds, and
\* leaves its baseline off by that sum.
LEMMA SampleInv ==
    ASSUME IInv, i \in IFs, NEW read \in Nat, Sample(read)
    PROVE  IInv'
<1> DEFINE sum == current + read - baseline[i]
<1>0. TypeOK /\ OffsetInv /\ AddedInv /\ CurrentInv /\ TotalInv
  BY DEF IInv
<1>1. TypeOK'
  BY <1>0, SampleTypes
<1>2. /\ i \in Int /\ 1 =< i /\ i =< NumIFs /\ 1 \in IFs
      /\ i' = i + 1 /\ sum \in Int /\ steady \in Nat /\ steady' = steady
  <2>1. i \in Int /\ 1 =< i /\ i =< NumIFs /\ 1 \in IFs
    BY IFsRange, NumIFsAssumption
  <2>2. i' = i + 1 /\ steady' = steady
    BY DEF Sample
  <2>3. sum \in Int /\ steady \in Nat
    BY <1>0 DEF TypeOK
  <2> QED
    BY <2>1, <2>2, <2>3
<1>3. /\ current' = sum
      /\ \A n \in IFs :
             IF n = i
             THEN /\ baseline'[n] - seen'[n] = current
                  /\ moved'[n] = read - seen[n]
                  /\ added'[n] = sum
             ELSE /\ baseline'[n] - seen'[n] = baseline[n] - seen[n]
                  /\ moved'[n] = moved[n]
                  /\ added'[n] = added[n]
  BY <1>0 DEF TypeOK, Sample, Accumulated, NewBaseline
<1>4. same' => same /\ moved[i] = moved'[i]
  <2>1. same' = (same /\ moved[i] = read - seen[i])
    BY Zenon DEF Sample
  <2>2. moved'[i] = read - seen[i]
    BY <1>3
  <2> QED
    BY <2>1, <2>2, Zenon
<1>5. ASSUME NEW n \in IFs, 1 < n PROVE n - 1 \in IFs
  BY <1>5, IFBefore
<1> HIDE DEF sum
<1>6. OffsetInv'
  <2>1. Offset(1)' = 0
    BY <1>0, <1>2, <1>3 DEF Offset, OffsetInv, CurrentInv
  <2>2. ASSUME NEW n \in IFs, 1 < n, n < i' PROVE Offset(n)' = added'[n - 1]
    <3>1. n \in Int /\ n - 1 \in IFs /\ n - 1 # i
      BY <1>2, <2>2, <1>5, IFsRange
    <3>2. CASE n = i
      BY <1>0, <1>3, <2>2, <3>1, <3>2 DEF Offset, CurrentInv
    <3>3. CASE n < i
      BY <1>0, <1>3, <2>2, <3>1, <3>3 DEF Offset, OffsetInv
    <3> QED
      BY <1>2, <2>2, <3>1, <3>2, <3>3
  <2>3. ASSUME NEW n \in IFs, 1 < n, n >= i', n =< steady' + 2, n > i' \/ same'
        PROVE  Offset(n)' = moved'[n - 1]
    <3>1. n \in Int /\ n - 1 \in IFs /\ n > i
      BY <1>2, <2>3, <1>5, IFsRange
    <3>2. Offset(n) = moved[n - 1]
      BY <1>0, <1>2, <2>3, <3>1 DEF OffsetInv
    <3>3. Offset(n)' = Offset(n)
      BY <1>3, <3>1 DEF Offset
    <3>4. moved'[n - 1] = moved[n - 1]
      BY <1>2, <1>3, <1>4, <2>3, <3>1
    <3> QED
      BY <3>2, <3>3, <3>4
  <2> QED
    BY <2>1, <2>2, <2>3 DEF OffsetInv
<1>7. i = 1 \/ (same' /\ i =< steady + 2) => sum = moved'[i]
  <2> SUFFICES ASSUME i = 1 \/ (same' /\ i =< steady + 2) PROVE current = Offset(i)
    BY <1>0, <1>2, <1>3 DEF Offset, TypeOK, sum
  <2>1. CASE i = 1
    BY <1>0, <2>1 DEF OffsetInv, CurrentInv
  <2>2. CASE i # 1
    <3>1. 1 < i /\ i - 1 \in IFs /\ i - 1 < i
      BY <1>2, <1>5, <2>2
    <3>2. same /\ i =< steady + 2 /\ i - 1 =< steady + 2
      BY <1>2, <1>4, <2>2
    <3>3. Offset(i) = moved[i - 1]
      BY <1>0, <1>2, <3>1, <3>2 DEF OffsetInv
    <3>4. added[i - 1] = moved[i - 1]
      BY <1>0, <3>1, <3>2 DEF AddedInv, Settled
    <3> QED
      BY <1>0, <2>2, <3>3, <3>4 DEF CurrentInv
  <2> QED
    BY <2>1, <2>2
<1>8. AddedInv'
  <2> SUFFICES ASSUME NEW n \in IFs, n < i', Settled(n)' PROVE added'[n] = moved'[n]
    BY DEF AddedInv
  <2>1. n \in Int /\ (n = 1 \/ (same' /\ n =< steady + 2))
    BY <1>2, IFsRange DEF Settled
  <2>2. CASE n = i
    BY <1>3, <1>7, <2>1, <2>2
  <2>3. CASE n < i
    BY <1>0, <1>3, <1>4, <2>1, <2>3 DEF AddedInv, Settled
  <2> QED
    BY <1>2, <2>1, <2>2, <2>3
<1>9. CurrentInv'
  BY <1>2, <1>3 DEF CurrentInv
<1>10. TotalInv'
  <2> SUFFICES ASSUME \A n \in 1 .. i : moved'[n] >= 0,
                      \A n \in 1 .. i : n = 1 \/ (same' /\ n =< steady + 2)
               PROVE  total' = exact'
    BY <1>2 DEF TotalInv, Settled
  <2>1. i \in 1 .. i /\ sum = moved'[i] /\ sum >= 0
    BY <1>2, <1>7
  <2>2. \A n \in 1 .. i - 1 : moved[n] >= 0 /\ Settled(n)
    <3> SUFFICES ASSUME NEW n \in 1 .. i - 1 PROVE moved[n] >= 0 /\ Settled(n)
      OBVIOUS
    <3>1. n \in IFs /\ n # i /\ n \in 1 .. i
      <4>1. n \in Int /\ 1 =< n /\ n =< i - 1
        BY <1>2
      <4>2. n =< NumIFs /\ n # i /\ n \in 1 .. i
        BY <1>2, <4>1, NumIFsAssumption
      <4> QED
        BY <4>1, <4>2, IFsRange
    <3>2. moved'[n] >= 0 /\ (n = 1 \/ (same' /\ n =< steady + 2))
      BY <3>1
    <3> QED
      BY <1>3, <1>4, <3>1, <3>2 DEF Settled
  <2>3. total = exact
    BY <1>0, <2>2 DEF TotalInv
  <2>4. total' = AtLeastZero(total + sum) /\ exact' = exact + (read - seen[i])
    BY DEF Sample, Accumulated, sum
  <2>5. total + sum \in Int /\ total + sum >= 0
    BY <1>0, <1>2, <2>1 DEF TypeOK
  <2>6. moved'[i] = read - seen[i]
    BY <1>3
  <2> QED
    BY <2>1, <2>3, <2>4, <2>5, <2>6, ClampNat
<1> QED
  BY <1>1, <1>6, <1>8, <1>9, <1>10 DEF IInv

\* The insert ends a round: what was carried in it is the next round's offset.
LEMMA InsertInv == IInv /\ InsertRow => IInv'
<1> SUFFICES ASSUME IInv, InsertRow PROVE IInv'
  OBVIOUS
<1>0. TypeOK /\ OffsetInv /\ AddedInv
  BY DEF IInv
<1>1. TypeOK'
  BY <1>0, StepTypes DEF Next
<1>2. /\ i = NumIFs + 1 /\ i' = 1 /\ steady \in Nat /\ same \in BOOLEAN
      /\ steady' = IF same THEN steady + 1 ELSE 0
      /\ UNCHANGED <<baseline, seen, moved, added>>
  BY <1>0 DEF InsertRow, TypeOK
<1>3. OffsetInv'
  <2>1. Offset(1)' = 0
    BY <1>0, <1>2 DEF OffsetInv, Offset
  <2>2. ASSUME NEW n \in IFs, 1 < n, n =< steady' + 2 PROVE Offset(n)' = moved'[n - 1]
    <3>1. n \in Int /\ n < i /\ n - 1 \in IFs /\ n - 1 < i
      BY <1>2, <2>2, IFsRange, NumIFsAssumption
    <3>2. Settled(n - 1)
      BY <1>2, <2>2, <3>1 DEF Settled
    <3>3. Offset(n) = added[n - 1] /\ added[n - 1] = moved[n - 1]
      BY <1>0, <2>2, <3>1, <3>2 DEF OffsetInv, AddedInv
    <3> QED
      BY <1>2, <3>3 DEF Offset
  <2>3. \A n \in IFs : ~ (1 < n /\ n < i')
    BY <1>2, IFsRange
  <2> QED
    BY <2>1, <2>2, <2>3 DEF OffsetInv
<1>4. AddedInv' /\ CurrentInv' /\ TotalInv'
  BY <1>2, IFsRange DEF InsertRow, AddedInv, CurrentInv, TotalInv
<1> QED
  BY <1>1, <1>3, <1>4 DEF IInv

\* IInv is inductive: traffic and resets only touch the system's counters.
LEMMA StepInv == IInv /\ [Next]_vars => IInv'
<1> SUFFICES ASSUME IInv, [Next]_vars PROVE IInv'
  OBVIOUS
<1>1. TypeOK'
  BY StepTypes DEF IInv
<1>2. CASE SampleIF
  <2>1. PICK read \in {os[i], recv[i]} : Sample(read)
    BY <1>2 DEF SampleIF
  <2>2. i \in IFs /\ read \in Nat
    BY <1>2, <2>1 DEF SampleIF, IInv, TypeOK
  <2> QED
    BY <2>1, <2>2, SampleInv
<1>3. CASE InsertRow
  BY <1>3, InsertInv
<1>4. CASE Traffic \/ Reset \/ UNCHANGED vars
  <2>1. UNCHANGED <<baseline, i, current, total, history>>
    BY <1>4 DEF Traffic, Reset, vars, code
  <2>2. OffsetInv' /\ AddedInv' /\ CurrentInv' /\ TotalInv'
    BY <2>1 DEF IInv, history, OffsetInv, Offset, AddedInv, CurrentInv, TotalInv, Settled
  <2> QED
    BY <1>1, <2>2 DEF IInv
<1> QED
  BY <1>2, <1>3, <1>4 DEF Next

\* How far the errors of currentIn reach along the list of interfaces, for any
\* number of them: the invariant behind SteadyExact.
THEOREM NetworkInvariant == Spec => []IInv
BY InitInv, StepInv, PTL DEF Spec

\* The invariant at the insert: every interface has settled when the traffic
\* of NumIFs - 1 further rounds repeated, so the total is the exact sum.
LEMMA InvSteady == IInv => SteadyExact
<1> SUFFICES ASSUME IInv, i = NumIFs + 1, NoneStartedOver, SteadyNow >= NumIFs - 1
             PROVE  total = exact
  BY DEF SteadyExact
<1>1. steady \in Nat /\ TotalInv
  BY DEF IInv, TypeOK
<1>2. \A n \in 1 .. i - 1 : n \in IFs
  BY IFsRange, NumIFsAssumption
<1>3. \A n \in 1 .. i - 1 : moved[n] >= 0
  BY <1>2 DEF NoneStartedOver
<1>4. ASSUME NEW n \in 1 .. i - 1 PROVE Settled(n)
  <2>1. n \in Int /\ 1 =< n /\ n =< NumIFs
    BY <1>2, IFsRange
  <2> QED
    BY <1>1, <2>1, NumIFsAssumption DEF SteadyNow, Settled
<1> QED
  BY <1>1, <1>3, <1>4 DEF TotalInv

\* Carrying currentIn from one interface to the next is an error of transients
\* only: for any number of interfaces, the inserted total is the bytes they
\* moved once the traffic has repeated itself for NumIFs - 1 further rounds.
THEOREM NetworkSettles == Spec => []SteadyExact
BY InitInv, StepInv, InvSteady, PTL DEF Spec
=============================================================================
