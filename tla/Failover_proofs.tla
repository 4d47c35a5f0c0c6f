--------------------------- MODULE Failover_proofs ---------------------------
(***************************************************************************)
(* The lease of vyos-failover: the daemon uses the registry as it promises *)
(* to be used, and a TTL longer than two passes carries the lease over one *)
(* lost renewal, for any next hops and any number of faults.  First the    *)
(* registry itself: it implements BearerDemand, for any set of owners, any *)
(* time to live and any ceiling.                                           *)
(***************************************************************************)
EXTENDS Failover, WellFoundedInduction, TLAPS

\* A clamped TTL is Never or between 1 and the ceiling.
LEMMA ClampType ==
    ASSUME NEW ttl \in Int
    PROVE  /\ Clamp(ttl) \in Remaining
           /\ Clamp(ttl) <= MaxTtl
           /\ ttl > 0 => Clamp(ttl) \in Nat \ {0}
           /\ ttl <= 0 => Clamp(ttl) = Never
  BY LeaseAssumption DEF Clamp, Remaining, Never

\* The registry's invariant is inductive.
LEMMA LeaseInvInductive ==
    ASSUME LeaseInv, [LeaseNext]_lease
    PROVE  LeaseInv'
<1> USE LeaseAssumption DEF LeaseInv, Remaining, Never, persistent
<1>1. ASSUME NEW o \in Owners, NEW ttl \in Int, Acquire(o, ttl) PROVE LeaseInv'
  <2>1. left' \in [Owners -> Remaining]
    BY <1>1, ClampType DEF Acquire
  <2>2. \A q \in Owners : left'[q] = IF q = o THEN Clamp(ttl) ELSE left[q]
    BY <1>1 DEF Acquire
  <2>3. persistent' \subseteq PersistentOwners
    <3> SUFFICES ASSUME NEW q \in table', left'[q] = Never PROVE q \in PersistentOwners
      BY DEF persistent
    <3>1. CASE q = o
      BY <1>1, <2>2, <3>1, ClampType DEF Acquire
    <3>2. CASE q # o
      BY <1>1, <2>2, <3>2 DEF Acquire
    <3> QED BY <3>1, <3>2
  <2> QED BY <1>1, <2>1, <2>2, <2>3, ClampType DEF Acquire
<1>2. ASSUME NEW S \in SUBSET Owners, Release(S) PROVE LeaseInv'
  BY <1>2 DEF Release
<1>3. CASE Sweep
  BY <1>3 DEF Sweep, live
<1>4. ASSUME NEW d \in Nat, Tick(d) PROVE LeaseInv'
  BY <1>4 DEF Tick
<1>5. CASE UNCHANGED lease
  BY <1>5 DEF lease
<1> QED BY <1>1, <1>2, <1>3, <1>4, <1>5 DEF LeaseNext

\* LeaseInv holds in every state of the registry: a machine client's lease
\* always runs down and never lasts longer than the ceiling.
THEOREM LeaseInvariant == LeaseSpec => []LeaseInv
<1>1. LeaseInit => LeaseInv
  BY LeaseAssumption DEF LeaseInit, LeaseInv, Remaining, Never, persistent
<1>2. LeaseInv /\ [LeaseNext]_lease => LeaseInv'
  BY LeaseInvInductive
<1> QED BY <1>1, <1>2, PTL DEF LeaseSpec

\* Every step of the registry is a step of the abstract demand or a stutter.
LEMMA StepSimulation ==
    ASSUME LeaseInv, [LeaseNext]_lease
    PROVE  [Demand!Next]_(Demand!demand)
<1> USE LeaseAssumption DEF LeaseInv, Remaining, Never, live, persistent
<1>1. ASSUME NEW o \in Owners, NEW ttl \in Int, Acquire(o, ttl)
      PROVE  Demand!Acquire(o, ttl <= 0)
  <2>1. \A q \in Owners : left'[q] = IF q = o THEN Clamp(ttl) ELSE left[q]
    BY <1>1 DEF Acquire
  <2>2. live' = live \cup {o}
    BY <1>1, <2>1, ClampType DEF Acquire
  <2> QED BY <1>1, <2>1, <2>2, ClampType DEF Acquire, Demand!Acquire
<1>2. ASSUME NEW S \in SUBSET Owners, Release(S) PROVE Demand!Release(S)
  BY <1>2 DEF Release, Demand!Release
<1>3. CASE Sweep
  BY <1>3 DEF Sweep, Demand!Tidy, Demand!Next
<1>4. ASSUME NEW d \in Nat, Tick(d),
             NEW S \in SUBSET Owners, S = {o \in Owners : left'[o] = 0}
      PROVE  Demand!Lapse(S)
  BY <1>4 DEF Tick, Demand!Lapse, Demand!Time
<1>5. CASE UNCHANGED lease
  BY <1>5 DEF lease, Demand!demand
<1>6. ASSUME NEW o \in Owners, NEW ttl \in Int, Acquire(o, ttl) PROVE Demand!Next
  <2>1. Demand!Acquire(o, ttl <= 0) /\ (ttl <= 0) \in BOOLEAN
    BY <1>1, <1>6
  <2> QED BY <2>1, Zenon DEF Demand!Next
<1>7. ASSUME NEW S \in SUBSET Owners, Release(S) PROVE Demand!Next
  BY <1>2, <1>7 DEF Demand!Next
<1>8. ASSUME NEW d \in Nat, Tick(d) PROVE Demand!Next
  <2>1. PICK S \in SUBSET Owners : S = {o \in Owners : left'[o] = 0}
    OBVIOUS
  <2>2. Demand!Lapse(S)
    BY <1>4, <1>8, <2>1
  <2> QED BY <2>2 DEF Demand!Next
<1> QED BY <1>3, <1>5, <1>6, <1>7, <1>8 DEF LeaseNext

\* The registry implements the abstract demand that the state machine relies
\* on, whatever the clients ask for and however long they wait.
THEOREM LeaseRefinesDemand == LeaseSpec => RefinesDemand
<1>1. LeaseInit => Demand!Init
  BY DEF LeaseInit, Demand!Init, live, persistent
<1>2. LeaseInv /\ [LeaseNext]_lease => [Demand!Next]_(Demand!demand)
  BY StepSimulation
<1> QED BY <1>1, <1>2, LeaseInvariant, PTL DEF LeaseSpec, RefinesDemand, Demand!Spec

-----------------------------------------------------------------------------
\* The longest pass over the next hops.
PassTime == Len(Hops) * MaxPause

\* The longest part of a pass before next hop i.
Probed(i) == (i - 1) * MaxPause

\* At most this time passed since the last renewal that reached the modem: the
\* passes missed, the next hops probed in this one, and one sleep between two
\* passes, which the daemon takes only after a pass without a probe.
Elapsed ==
    IF at = 0
    THEN IF missed = 0 THEN 0 ELSE IF slept THEN PassTime + 1 ELSE 1
    ELSE (IF missed = 0 THEN 1 ELSE PassTime + 1) + (IF slept THEN Probed(at) ELSE 0)

CoverType == at \in 0..Done /\ missed \in 0..2

\* The lease has the rest of its TTL left.
CoverInv ==
    /\ LeaseInv
    /\ CoverType
    /\ running /\ missed <= 1 => left[failover] >= Clamp(Ttl) - Elapsed

\* The TTL spans two passes.
Spanning == Clamp(Ttl) > 2 * PassTime + 1

-----------------------------------------------------------------------------
\* A set of naturals that is not empty has a least element.
LEMMA LeastExists ==
    ASSUME NEW S \in SUBSET Nat, S # {}
    PROVE  Min(S) \in S /\ \A y \in S : Min(S) <= y
<1> DEFINE less == {ss \in Nat \X Nat : ss[1] < ss[2]}
<1>1. IsWellFoundedOn(less, Nat)
  BY NatLessThanWellFounded, Zenon DEF OpToRel
<1> HIDE DEF less
<1>2. PICK x \in S : \A y \in S : ~ (<<y, x>> \in less)
  BY <1>1, WFMin
<1>3. \A y, z \in Nat : y < z => <<y, z>> \in less
  BY DEF less
<1>4. ASSUME NEW y \in S PROVE x <= y
  <2>1. x \in Nat /\ y \in Nat
    OBVIOUS
  <2>2. ~ (y < x)
    BY <1>2, <1>3, <2>1, Zenon
  <2> QED BY <2>1, <2>2
<1> QED BY <1>4 DEF Min

\* The next hop to probe comes after the last one, or the pass is done.
LEMMA FollowingType ==
    ASSUME NEW i \in 0..Len(Hops), NEW configured
    PROVE  Following(i, configured) \in (i + 1)..Done
<1> DEFINE S == {j \in Indices : j > i /\ Hops[j].route \in configured} \cup {Done}
<1>1. Len(Hops) \in Nat /\ Indices = 1..Len(Hops)
  BY FailoverAssumption DEF Indices
<1>2. S \in SUBSET ((i + 1)..Done) /\ S # {}
  BY <1>1 DEF Done
<1>3. Min(S) \in S
  BY <1>1, <1>2, LeastExists DEF Done
<1> QED BY <1>2, <1>3 DEF Following

-----------------------------------------------------------------------------
\* Every step of the daemon is a step of the registry or leaves it alone.
LEMMA LeaseStep ==
    ASSUME [Next]_vars
    PROVE  [LeaseNext]_lease
<1>1. ASSUME NEW configured \in SUBSET Routes, Begin(configured) PROVE LeaseNext
  BY <1>1 DEF Begin, Pass, LeaseNext
<1>2. ASSUME NEW alive \in BOOLEAN, NEW refused \in BOOLEAN, NEW d \in 1..MaxPause,
             Check(alive, refused, d)
      PROVE  LeaseNext
  BY <1>2, FailoverAssumption DEF Check, Pass, LeaseNext
<1>3. ASSUME NEW lost \in BOOLEAN, Reconcile(lost) PROVE [LeaseNext]_lease
  <2>1. UNCHANGED lease \/ Acquire(failover, Ttl) \/ Release({failover})
    BY <1>3 DEF Reconcile
  <2>2. failover \in Owners /\ {failover} \in SUBSET Owners /\ Ttl \in Int
    BY FailoverAssumption
  <2> QED BY <2>1, <2>2 DEF LeaseNext
<1>4. CASE Operator
  <2>1. PICK o \in PersistentOwners : Acquire(o, 0) \/ Release({o})
    BY <1>4 DEF Operator
  <2>2. o \in Owners /\ {o} \in SUBSET Owners /\ 0 \in Int
    BY LeaseAssumption
  <2> QED BY <2>1, <2>2 DEF LeaseNext
<1>5. CASE Wait
  BY <1>5 DEF Wait, LeaseNext
<1>6. CASE SweepLeases
  BY <1>6 DEF SweepLeases, LeaseNext
<1>7. CASE NoGateway \/ LoseRoute \/ Kill \/ Start \/ UNCHANGED vars
  BY <1>7 DEF NoGateway, LoseRoute, Kill, Start, vars
<1> QED BY <1>1, <1>2, <1>3, <1>4, <1>5, <1>6, <1>7 DEF Next, Work

\* The daemon is a client of the registry.
THEOREM FailoverIsClient == Spec => LeaseSpec
<1>1. Init => LeaseInit
  BY DEF Init
<1>2. [Next]_vars => [LeaseNext]_lease
  BY LeaseStep
<1> QED BY <1>1, <1>2, PTL DEF Spec, LeaseSpec

\* What vyos-failover does to the registry is demand as the modem's state
\* machine expects it.
THEOREM FailoverRefinesDemand == Spec => RefinesDemand
  BY FailoverIsClient, LeaseRefinesDemand, PTL

-----------------------------------------------------------------------------
\* Facts about the constants and the times built from them.
LEMMA Times ==
    /\ Len(Hops) \in Nat \ {0}
    /\ Indices = 1..Len(Hops)
    /\ MaxPause \in Nat \ {0}
    /\ PassTime \in Nat
    /\ MaxPause <= PassTime
    /\ \A i \in 1..Done : Probed(i) \in Nat /\ Probed(i) <= PassTime
    /\ \A i \in Indices, j \in 1..Done :
          i < j => Probed(i) + MaxPause <= Probed(j)
<1>1. /\ Len(Hops) \in Nat \ {0}
      /\ Indices = 1..Len(Hops)
      /\ MaxPause \in Nat \ {0}
  BY FailoverAssumption DEF Indices
<1>2. \A a, b, m \in Nat : a < b => a * m \in Nat /\ a * m + m <= b * m
  <2> SUFFICES ASSUME NEW a \in Nat, NEW b \in Nat, NEW m \in Nat, a < b
               PROVE  a * m \in Nat /\ a * m + m <= b * m
    OBVIOUS
  <2>1. PICK c \in Nat : b = a + 1 + c
    <3>1. b - a - 1 \in Nat /\ b = a + 1 + (b - a - 1)
      OBVIOUS
    <3> QED BY <3>1
  <2>2. b * m = a * m + m + c * m
    BY <2>1
  <2>3. c * m \in Nat /\ a * m \in Nat
    OBVIOUS
  <2> QED BY <2>2, <2>3
<1>3. PassTime \in Nat /\ MaxPause <= PassTime
  BY <1>1, <1>2 DEF PassTime
<1>4. ASSUME NEW i \in 1..Done
      PROVE  Probed(i) \in Nat /\ Probed(i) <= PassTime
  <2>1. i - 1 \in Nat /\ (i - 1 < Len(Hops) \/ i - 1 = Len(Hops))
    BY <1>1 DEF Done
  <2>2. CASE i - 1 < Len(Hops)
    BY <1>1, <1>2, <2>1, <2>2 DEF PassTime, Probed
  <2>3. CASE i - 1 = Len(Hops)
    BY <1>1, <1>3, <2>3 DEF PassTime, Probed
  <2> QED BY <2>1, <2>2, <2>3
<1>5. ASSUME NEW i \in Indices, NEW j \in 1..Done, i < j
      PROVE  Probed(i) + MaxPause <= Probed(j)
  <2>1. i - 1 \in Nat /\ j - 1 \in Nat /\ i - 1 < j - 1
    BY <1>1, <1>5 DEF Done
  <2> QED BY <1>1, <1>2, <2>1 DEF Probed
<1> QED BY <1>1, <1>3, <1>4, <1>5

\* The daemon's own types: its counters stay below their thresholds, its routes
\* and interfaces are configured ones.
THEOREM FailoverTypes == Spec => []TypeOK
<1>1. Init => TypeOK
  BY FailoverAssumption, LeaseAssumption
  DEF Init, TypeOK, LeaseInit, LeaseInv, Remaining, Never, persistent, Zero, Done, Indices
<1>2. ASSUME TypeOK, [Next]_vars
      PROVE  TypeOK'
  <2> USE DEF TypeOK
  <2>1. LeaseInv'
    BY <1>2, LeaseStep, LeaseInvInductive
  <2>2. /\ Len(Hops) \in Nat /\ Indices = 1..Len(Hops)
        /\ \A i \in Indices : Hops[i].iface \in Ifaces
        /\ FailureCount \in Nat /\ SuccessCount \in Nat /\ HoldDown \in Nat
        /\ MaxFaults \in Nat
    BY FailoverAssumption, Times DEF Ifaces
  <2>3. ASSUME NEW b, Fault(b)
        PROVE  faults' \in 0..MaxFaults
    BY <1>2, <2>2, <2>3 DEF Fault
  <2>4. ASSUME NEW d \in Nat, Pass(d)
        PROVE  since' \in {Never} \cup 0..HoldDown
    BY <1>2, <2>2, <2>4 DEF Pass, Never
  <2>5. ASSUME NEW i \in 0..Len(Hops), NEW configured
        PROVE  Following(i, configured) \in 0..Done
    BY <2>2, FollowingType DEF Done
  <2>6. ASSUME NEW configured \in SUBSET Routes, Begin(configured)
        PROVE  TypeOK'
    <3>1. at' \in 0..Done
      BY <2>2, <2>5, <2>6 DEF Begin
    <3>2. since' \in {Never} \cup 0..HoldDown
      BY <2>4, <2>6 DEF Begin
    <3> QED BY <1>2, <2>1, <2>6, <3>1, <3>2 DEF Begin
  <2>7. ASSUME NEW alive \in BOOLEAN, NEW refused \in BOOLEAN, NEW d \in 1..MaxPause,
               Check(alive, refused, d)
        PROVE  TypeOK'
    <3>1. at \in 0..Len(Hops) /\ d \in Nat /\ at \in Indices
      BY <2>2, <2>7, FailoverAssumption DEF Check
    <3>2. at' \in 0..Done
      BY <2>5, <2>7, <3>1 DEF Check
    <3>3. since' \in {Never} \cup 0..HoldDown
      BY <2>4, <2>7, <3>1 DEF Check
    <3>4. faults' \in 0..MaxFaults
      BY <2>3, <2>7 DEF Check
    <3>5. fails' \in [Indices -> 0..FailureCount] /\ succs' \in [Indices -> 0..SuccessCount]
      BY <1>2, <2>2, <2>7, <3>1 DEF Check, Count
    <3>6. present' \subseteq Indices
      BY <1>2, <2>7, <3>1 DEF Check
    <3>7. healthy' \subseteq Ifaces
      BY <1>2, <2>2, <2>7, <3>1 DEF Check
    <3>8. running' = running /\ routes' = routes /\ missed' = missed /\ slept' = TRUE
      BY <2>7 DEF Check
    <3> QED BY <1>2, <2>1, <3>2, <3>3, <3>4, <3>5, <3>6, <3>7, <3>8
  <2>8. CASE NoGateway
    <3>1. at' \in 0..Done
      BY <2>2, <2>5, <2>8 DEF NoGateway
    <3> QED BY <1>2, <2>1, <2>8, <3>1 DEF NoGateway
  <2>9. ASSUME NEW lost \in BOOLEAN, Reconcile(lost)
        PROVE  TypeOK'
    <3>1. faults' \in 0..MaxFaults
      BY <2>3, <2>9 DEF Reconcile
    <3>2. since' \in {Never} \cup 0..HoldDown /\ missed' \in 0..2 /\ at' = 0
      <4>1. since' \in {since, 0, Never}
        BY <2>9 DEF Reconcile
      <4>2. missed' = 0 \/ missed' = 2 \/ (missed # 2 /\ missed' = missed + 1)
        BY <2>9 DEF Reconcile
      <4>3. at' = 0
        BY <2>9 DEF Reconcile
      <4>4. since' \in {Never} \cup 0..HoldDown
        BY <1>2, <2>2, <4>1 DEF Never
      <4> QED BY <1>2, <4>2, <4>3, <4>4
    <3>3. UNCHANGED <<running, routes, fails, succs, present, healthy, slept>>
      BY <2>9 DEF Reconcile
    <3> QED BY <1>2, <2>1, <3>1, <3>2, <3>3 DEF Done
  <2>10. CASE LoseRoute
    <3>1. faults' \in 0..MaxFaults
      BY <2>3, <2>10 DEF LoseRoute
    <3> QED BY <1>2, <2>1, <2>10, <3>1 DEF LoseRoute
  <2>11. CASE Kill
    BY <1>2, <2>1, <2>11 DEF Kill
  <2>12. CASE Start
    BY <1>2, <2>1, <2>2, <2>12 DEF Start, Zero, Done
  <2>13. CASE Wait \/ Operator \/ SweepLeases \/ UNCHANGED vars
    BY <1>2, <2>1, <2>13 DEF Wait, Operator, SweepLeases, local, vars
  <2> QED BY <1>2, <2>6, <2>7, <2>8, <2>9, <2>10, <2>11, <2>12, <2>13 DEF Next, Work
<1> QED BY <1>1, <1>2, PTL DEF Spec

\* A lease that has more left than d has d less after a time d.
LEMMA TickLeft ==
    ASSUME LeaseInv, NEW d \in Nat, Tick(d), NEW n \in Int, left[failover] >= n
    PROVE  left'[failover] >= n - d
  BY FailoverAssumption DEF LeaseInv, Tick, Remaining, Never

\* The bound itself never exceeds two passes and one sleep.
LEMMA ElapsedType ==
    ASSUME CoverType
    PROVE  Elapsed \in Nat /\ (missed <= 1 => Elapsed <= 2 * PassTime + 1)
  BY Times DEF CoverType, Elapsed, Done

\* The bound on the time since the last renewal is kept by every step: a pass
\* adds what it sleeps, and a reconciliation that renews starts again.
LEMMA CoverInductive ==
    ASSUME CoverInv, [Next]_vars
    PROVE  CoverInv'
<1>1. LeaseInv'
  BY LeaseStep, LeaseInvInductive DEF CoverInv
<1>2. Clamp(Ttl) \in Nat
  BY ClampType, FailoverAssumption
<1>3. left'[failover] \in Int /\ left[failover] \in Int
  BY <1>1, FailoverAssumption DEF CoverInv, LeaseInv, Remaining, Never
<1>4. LeaseInv /\ CoverType /\ at \in 0..Done /\ missed \in 0..2 /\ Done = Len(Hops) + 1
  BY DEF CoverInv, CoverType, Done
<1>5. running /\ missed <= 1 => left[failover] >= Clamp(Ttl) - Elapsed
  BY DEF CoverInv
<1> DEFINE Kept == running' /\ missed' <= 1 => left'[failover] >= Clamp(Ttl) - Elapsed'
           Later(d) == Elapsed + d <= Elapsed'
\* A step that spends at most the time by which the bound grows.
<1>6. ASSUME NEW d \in Nat, running, missed' = missed, CoverType',
             missed <= 1 => Later(d),
             missed <= 1 => left'[failover] >= left[failover] - d
      PROVE  Kept
  <2>1. Elapsed \in Nat
    BY <1>4, ElapsedType
  <2>2. Elapsed' \in Nat
    BY <1>6, Times DEF CoverType, Elapsed, Done
  <2> QED BY <1>2, <1>3, <1>4, <1>5, <1>6, <2>1, <2>2
<1>7. ASSUME NEW configured \in SUBSET Routes, Begin(configured)
      PROVE  CoverType' /\ Kept
  <2> DEFINE d == IF slept THEN 0 ELSE 1
  <2>1. at = 0 /\ running /\ missed' = missed /\ slept' = FALSE /\ Tick(d)
    BY <1>7 DEF Begin, Pass
  <2>2. at' \in 1..Done
    BY <1>7, <2>1, FollowingType, Times DEF Begin
  <2>3. CoverType'
    BY <1>4, <2>1, <2>2 DEF CoverType
  <2>4. missed <= 1 => Later(d)
    BY <1>4, <2>1, <2>2, Times DEF Elapsed
  <2>5. left'[failover] >= left[failover] - d
    BY <1>3, <1>4, <2>1, TickLeft
  <2> QED BY <1>6, <2>1, <2>3, <2>4, <2>5
<1>8. ASSUME NEW alive \in BOOLEAN, NEW refused \in BOOLEAN, NEW d \in 1..MaxPause,
             Check(alive, refused, d)
      PROVE  CoverType' /\ Kept
  <2>1. at \in Indices /\ running /\ missed' = missed /\ slept' = TRUE /\ Tick(d)
    BY <1>8 DEF Check, Pass
  <2>2. at' \in 1..Done /\ at < at'
    BY <1>4, <1>8, <2>1, FollowingType, Times DEF Check
  <2>3. CoverType' /\ d \in Nat
    BY <1>4, <2>1, <2>2, Times DEF CoverType
  <2>4. missed <= 1 => Later(d)
    BY <1>4, <2>1, <2>2, Times DEF Elapsed
  <2>5. left'[failover] >= left[failover] - d
    BY <1>3, <1>4, <2>1, <2>3, TickLeft
  <2> QED BY <1>6, <2>1, <2>3, <2>4, <2>5
<1>9. ASSUME NoGateway PROVE CoverType' /\ Kept
  <2>1. at \in Indices /\ running /\ missed' = missed /\ slept' = slept /\ left' = left
    BY <1>9 DEF NoGateway, lease
  <2>2. at' \in 1..Done /\ at < at'
    BY <1>4, <1>9, <2>1, FollowingType, Times DEF NoGateway
  <2>3. CoverType'
    BY <1>4, <2>1, <2>2 DEF CoverType
  <2>4. missed <= 1 => Later(0)
    BY <1>4, <2>1, <2>2, Times DEF Elapsed
  <2> QED BY <1>3, <1>6, <2>1, <2>3, <2>4
<1>10. ASSUME NEW lost \in BOOLEAN, Reconcile(lost) PROVE CoverType' /\ Kept
  <2>1. at = Done /\ at' = 0 /\ running /\ slept' = slept
    BY <1>10 DEF Reconcile
  <2>2. \/ missed' = 0 /\ Acquire(failover, Ttl)
        \/ missed' = 2
        \/ missed # 2 /\ missed' = missed + 1 /\ UNCHANGED lease
    BY <1>10 DEF Reconcile, Renews
  <2>3. CoverType'
    BY <1>4, <2>1, <2>2, Times DEF CoverType
  <2>4. CASE missed' = 0 /\ Acquire(failover, Ttl)
    <3>1. left'[failover] = Clamp(Ttl)
      BY <1>4, <2>4, FailoverAssumption DEF Acquire, LeaseInv
    <3>2. Elapsed' = 0
      BY <2>1, <2>4 DEF Elapsed
    <3> QED BY <1>2, <2>3, <3>1, <3>2
  <2>5. CASE missed' = 2
    BY <2>3, <2>5
  <2>6. CASE missed = 0 /\ missed' = 1 /\ UNCHANGED lease
    <3>1. Elapsed = 1 + IF slept THEN Probed(Done) ELSE 0
      BY <1>4, <2>1, <2>6, Times DEF Elapsed
    <3>2. Elapsed' = IF slept THEN PassTime + 1 ELSE 1
      BY <2>1, <2>6 DEF Elapsed
    <3>3. Probed(Done) \in Nat /\ Probed(Done) <= PassTime /\ PassTime \in Nat
      BY <1>4, Times
    <3>4. left' = left
      BY <2>6 DEF lease
    <3> QED BY <1>2, <1>3, <1>5, <2>1, <2>3, <2>6, <3>1, <3>2, <3>3, <3>4
  <2> QED BY <1>4, <2>2, <2>3, <2>4, <2>5, <2>6
<1>11. ASSUME Kill \/ Start \/ Wait PROVE CoverType' /\ Kept
  BY <1>11 DEF Kill, Start, Wait, local, CoverInv, CoverType, Done
\* The other steps leave the daemon's state and its lease alone.
<1>12. ASSUME Operator \/ SweepLeases \/ LoseRoute \/ UNCHANGED vars
       PROVE  CoverType' /\ Kept
  <2>1. at' = at /\ missed' = missed /\ slept' = slept /\ running' = running
    BY <1>12 DEF Operator, SweepLeases, LoseRoute, local, vars
  <2>2. left'[failover] = left[failover]
    <3>1. CASE Operator
      BY <1>4, <3>1, FailoverAssumption, LeaseAssumption
      DEF Operator, Acquire, Release, LeaseInv
    <3>2. CASE SweepLeases \/ LoseRoute \/ UNCHANGED vars
      BY <3>2 DEF SweepLeases, Sweep, LoseRoute, lease, vars
    <3> QED BY <1>12, <3>1, <3>2
  <2>3. Elapsed' = Elapsed /\ CoverType'
    BY <1>4, <2>1 DEF Elapsed, CoverType
  <2> QED BY <1>5, <2>1, <2>2, <2>3
<1> QED BY <1>1, <1>7, <1>8, <1>9, <1>10, <1>11, <1>12 DEF CoverInv, Next, Work

\* With a TTL that spans two passes and the sleep between them, the bearer stays
\* leased through one lost renewal, whatever the probes, the configuration and
\* the kernel do.
THEOREM LeaseCovers == ASSUME Spanning PROVE Spec => []Covered
<1>1. Init => CoverInv
  BY Times, LeaseAssumption
  DEF Init, LeaseInit, CoverInv, CoverType, LeaseInv, Remaining, Never, persistent, Done
<1>2. CoverInv /\ [Next]_vars => CoverInv'
  BY CoverInductive
<1>3. CoverInv => Covered
  <2> SUFFICES ASSUME CoverInv, running, missed <= 1 PROVE failover \in live
    BY DEF Covered
  <2>1. Clamp(Ttl) \in Nat /\ PassTime \in Nat
    BY ClampType, FailoverAssumption, Times
  <2>2. Elapsed \in Nat /\ Elapsed <= 2 * PassTime + 1
    BY ElapsedType DEF CoverInv
  <2>3. left[failover] \in Int
    BY FailoverAssumption DEF CoverInv, LeaseInv, Remaining, Never
  <2>4. left[failover] > 0
    BY <2>1, <2>2, <2>3 DEF CoverInv, Spanning
  <2> QED BY <2>4, FailoverAssumption DEF CoverInv, LeaseInv, live
<1> QED BY <1>1, <1>2, <1>3, PTL DEF Spec

=============================================================================
