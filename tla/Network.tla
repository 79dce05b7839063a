------------------------------ MODULE Network -------------------------------
(***************************************************************************)
(* Network.initNetwork and Network.getNetworkData: how the byte counters   *)
(* of the network interfaces become the traffic of a NETWORK row.          *)
(*                                                                         *)
(* Inbound and outbound traffic go through the same statements on separate *)
(* variables, so one direction is modelled.  The interfaces are sampled    *)
(* one after the other while traffic goes on.  OSHI is external: an        *)
(* interface answers from the counter its last updateAttributes() read,    *)
(* and an update that fails leaves that counter as it was.                 *)
(***************************************************************************)
EXTENDS Integers

CONSTANTS
    NumIFs,      \* netInterfaces.size(); the list is read once, at the start
    Megabit,     \* bits in a megabit
    MaxStart,    \* bound: the counter of an interface when CRUM starts
    MaxBytes,    \* bound: the counter of an interface
    MaxRounds,   \* bound: calls of getNetworkData
    MaxResets    \* bound: counters that start over (an adapter re-enabled)

ASSUME NumIFsAssumption == NumIFs \in Nat \ {0}
ASSUME MegabitAssumption == Megabit \in Nat \ {0}
ASSUME NetworkBoundsAssumption ==
    /\ MaxStart \in Nat /\ MaxBytes \in Nat
    /\ MaxRounds \in Nat /\ MaxResets \in Nat

IFs == 1 .. NumIFs

VARIABLES
    os,        \* the operating system's byte counter of each interface
    recv,      \* the counter as getBytesRecv() returns it
    baseline,  \* baselineBytesIn
    i,         \* the interface sampled next; NumIFs + 1: ready to insert
    current,   \* currentIn
    total,     \* totalInbound
    inbound,   \* INBOUND_TRAFFIC of the last row
    seen,      \* history: recv of each interface when it was last sampled
    moved,     \* history: bytes between the last two samples of an interface
    added,     \* history: the currentIn that interface's turn ended with
    exact,     \* history: bytes the interfaces sampled this round moved
    same,      \* history: have they moved what they moved a round before
    steady,    \* history: rounds in a row that repeated the one before
    rounds,    \* rows inserted
    resets     \* counters that started over

code == <<os, recv, baseline, i, current, total, inbound>>
history == <<seen, moved, added, exact, same, steady>>
vars == <<code, history, rounds, resets>>

TypeOK ==
    /\ os \in [IFs -> Nat]
    /\ recv \in [IFs -> Nat]
    /\ baseline \in [IFs -> Int]
    /\ i \in 1 .. NumIFs + 1
    /\ current \in Int
    /\ total \in Nat
    /\ inbound \in Nat
    /\ seen \in [IFs -> Nat]
    /\ moved \in [IFs -> Int]
    /\ added \in [IFs -> Int]
    /\ exact \in Int
    /\ same \in BOOLEAN
    /\ steady \in Nat
    /\ rounds \in Nat
    /\ resets \in Nat

\* initNetwork: the baseline is the counter the interface was listed with; the
\* update after it reads a counter that may have moved on.
Init ==
    /\ baseline \in [IFs -> 0 .. MaxStart]
    /\ recv \in [IFs -> 0 .. MaxStart]
    /\ \A n \in IFs : recv[n] >= baseline[n]
    /\ os = recv
    /\ i = 1
    /\ current = 0 /\ total = 0 /\ inbound = 0
    /\ seen = baseline
    /\ moved = [n \in IFs |-> 0]
    /\ added = [n \in IFs |-> 0]
    /\ exact = 0 /\ same = TRUE /\ steady = 0
    /\ rounds = 0 /\ resets = 0

-----------------------------------------------------------------------------
\* A faulty variant: the total is not kept from falling below zero.
AtLeastZeroNot(n) == n

AtLeastZero(n) == IF n < 0 THEN 0 ELSE n

\* currentIn is the sum so far: it is not cleared between two interfaces.
Accumulated(read) == current + read - baseline[i]

\* A faulty variant: = for +=.
NewBaselineAssigned(read) == Accumulated(read)

NewBaseline(read) == baseline[i] + Accumulated(read)

\* One turn of getNetworkData's loop; read is recv after updateAttributes().
Sample(read) ==
    /\ recv' = [recv EXCEPT ![i] = read]
    /\ current' = Accumulated(read)
    /\ baseline' = [baseline EXCEPT ![i] = NewBaseline(read)]
    /\ total' = AtLeastZero(total + Accumulated(read))
    /\ i' = i + 1
    /\ seen' = [seen EXCEPT ![i] = read]
    /\ moved' = [moved EXCEPT ![i] = read - seen[i]]
    /\ added' = [added EXCEPT ![i] = Accumulated(read)]
    /\ exact' = exact + (read - seen[i])
    /\ same' = (same /\ moved[i] = read - seen[i])
    /\ UNCHANGED <<os, inbound, steady, rounds, resets>>

SampleIF ==
    /\ i \in IFs
    /\ rounds < MaxRounds
    /\ \E read \in {os[i], recv[i]} : Sample(read)

\* A faulty variant: currentIn is a field, and the next call finds it as it is.
InsertRowField ==
    /\ i = NumIFs + 1
    /\ inbound' = (total * 8) \div Megabit
    /\ i' = 1 /\ total' = 0
    /\ exact' = 0 /\ same' = TRUE
    /\ steady' = IF same THEN steady + 1 ELSE 0
    /\ rounds' = rounds + 1
    /\ UNCHANGED <<os, recv, baseline, current, seen, moved, added, resets>>

\* The row is inserted, and the next call starts its locals from zero.
InsertRow ==
    /\ i = NumIFs + 1
    /\ inbound' = (total * 8) \div Megabit
    /\ i' = 1 /\ current' = 0 /\ total' = 0
    /\ exact' = 0 /\ same' = TRUE
    /\ steady' = IF same THEN steady + 1 ELSE 0
    /\ rounds' = rounds + 1
    /\ UNCHANGED <<os, recv, baseline, seen, moved, added, resets>>

-----------------------------------------------------------------------------
\* The world: traffic at any time, and adapters that start counting again.

Traffic ==
    \E n \in IFs :
        /\ os[n] < MaxBytes
        /\ os' = [os EXCEPT ![n] = @ + 1]
        /\ UNCHANGED <<recv, baseline, i, current, total, inbound, history, rounds, resets>>

Reset ==
    \E n \in IFs :
        /\ resets < MaxResets /\ os[n] > 0
        /\ os' = [os EXCEPT ![n] = 0]
        /\ resets' = resets + 1
        /\ UNCHANGED <<recv, baseline, i, current, total, inbound, history, rounds>>

Next == SampleIF \/ InsertRow \/ Traffic \/ Reset

Spec == Init /\ [][Next]_vars

-----------------------------------------------------------------------------
\* Properties

NoneStartedOver == \A n \in IFs : moved[n] >= 0

\* steady counts the completed rounds; the round under way, once all its
\* interfaces are sampled, extends it when it repeated them too.
SteadyNow == IF same THEN steady + 1 ELSE 0

\* README.md: the network tab shows the total over all interfaces.
TotalIsSum == (i = NumIFs + 1 /\ NoneStartedOver) => total = exact

\* Although currentIn is carried from one interface to the next, and so into
\* the baselines, the error of a round is a difference of traffic between
\* rounds that dies out along the list: when every interface has moved the same
\* number of bytes for NumIFs - 1 further rounds, the total is exact.  With one
\* interface it always is, and an idle machine comes to read zero.
SteadyExact ==
    (i = NumIFs + 1 /\ NoneStartedOver /\ SteadyNow >= NumIFs - 1) => total = exact

\* The inductive invariant behind SteadyExact.  An interface's baseline is off
\* by what its turn found in currentIn; among interfaces 1 .. steady + 1 that
\* was what the interface before it had moved.
Settled(n) == n = 1 \/ (same /\ n =< steady + 2)
Offset(n) == baseline[n] - seen[n]

OffsetInv ==
    /\ Offset(1) = 0
    /\ \A n \in IFs : (1 < n /\ n < i) => Offset(n) = added[n - 1]
    /\ \A n \in IFs :
           (1 < n /\ n >= i /\ n =< steady + 2 /\ (n > i \/ same))
               => Offset(n) = moved[n - 1]

AddedInv == \A n \in IFs : (n < i /\ Settled(n)) => added[n] = moved[n]

CurrentInv == current = IF i = 1 THEN 0 ELSE added[i - 1]

TotalInv ==
    ((\A n \in 1 .. i - 1 : moved[n] >= 0) /\ (\A n \in 1 .. i - 1 : Settled(n)))
        => total = exact

IInv == TypeOK /\ OffsetInv /\ AddedInv /\ CurrentInv /\ TotalInv
=============================================================================
