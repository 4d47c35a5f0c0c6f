----------------------------- MODULE BearerLease -----------------------------
(***************************************************************************)
(* The registry of bearer leases of one interface, vyos.utils.wwan.        *)
(* bearer_lease, behind the D-Bus calls that fill it.  Time is kept as the *)
(* time a lease has left (expires_at - now): a step that takes time lowers *)
(* it.  What is only shown to the user (reason, age) is left out.          *)
(***************************************************************************)
EXTENDS Integers

CONSTANTS
    Owners,             \* _LEASE_OWNER_ALLOWLIST
    PersistentOwners,   \* _LEASE_PERSISTENT_OWNERS
    MaxTtl              \* DEFAULT_MAX_TTL

ASSUME LeaseAssumption ==
    /\ PersistentOwners \subseteq Owners
    /\ MaxTtl \in Nat \ {0}

VARIABLES
    table,      \* owners with an entry in _leases
    left,       \* the time each entry has left, Never for a persistent one
    event       \* history: the call just served, as in BearerDemand

lease == <<table, left, event>>

Never == -1     \* expires_at = None

Remaining == Nat \cup {Never}

\* is_live(), for the entries there are.
live == {o \in table : left[o] # 0}

persistent == {o \in table : left[o] = Never}

Demand == INSTANCE BearerDemand WITH live <- live, persistent <- persistent

LeaseInit ==
    /\ table = {}
    /\ left = [o \in Owners |-> 0]
    /\ event = Demand!Housekeeping

\* Mutant: no ceiling.
ClampNone(ttl) == ttl

\* Mutant: every lease is persistent.
ClampForever(ttl) == Never

\* A TTL of zero or less asks for a persistent lease, any other is clamped.
Clamp(ttl) == IF ttl <= 0 THEN Never ELSE IF ttl < MaxTtl THEN ttl ELSE MaxTtl

\* Mutant: a renewal keeps the old deadline.
AcquireOnce(o, ttl) ==
    /\ table' = table \cup {o}
    /\ event' = <<"acquire", {o}>>
    /\ left' = [left EXCEPT ![o] = IF o \in table THEN @ ELSE Clamp(ttl)]

\* bearer_lease_acquire(): a new lease or a renewal.
Acquire(o, ttl) ==
    /\ ttl <= 0 => o \in PersistentOwners
    /\ table' = table \cup {o}
    /\ event' = <<"acquire", {o}>>
    /\ left' = [left EXCEPT ![o] = Clamp(ttl)]

\* bearer_lease_release(); clear() releases all owners.
Release(S) ==
    /\ event' = <<"release", S>>
    /\ table' = table \ S
    /\ left' = [o \in Owners |-> IF o \in S THEN 0 ELSE left[o]]

\* Mutant: every entry is dropped.
SweepAll ==
    /\ event' = Demand!Housekeeping
    /\ table' = {}
    /\ UNCHANGED left

\* Removes expired entries.
Sweep ==
    /\ event' = Demand!Housekeeping
    /\ table' = live
    /\ UNCHANGED left

\* Time passes.
Tick(d) ==
    /\ event' = Demand!Time
    /\ UNCHANGED table
    /\ left' = [o \in Owners |->
                  IF left[o] = Never THEN Never
                  ELSE IF left[o] <= d THEN 0 ELSE left[o] - d]

LeaseNext ==
    \/ \E o \in Owners, ttl \in Int : Acquire(o, ttl)
    \/ \E S \in SUBSET Owners : Release(S)
    \/ Sweep
    \/ \E d \in Nat : Tick(d)

LeaseSpec == LeaseInit /\ [][LeaseNext]_lease

-----------------------------------------------------------------------------
\* Only entries have time left, at most the ceiling unless persistent, and
\* only the operator's identities are persistent: "a stuck lease cannot pin
\* the bearer up forever".
LeaseInv ==
    /\ table \subseteq Owners
    /\ left \in [Owners -> Remaining]
    /\ \A o \in Owners : o \notin table => left[o] = 0
    /\ \A o \in Owners : left[o] <= MaxTtl
    /\ persistent \subseteq PersistentOwners

\* The registry implements the abstract demand: every accepted request takes
\* effect, on its owner alone and also on an entry that ran out and was not yet
\* swept; time ends only the leases with a TTL; and sweep() is "purely
\* housekeeping": it changes nothing that any_live() can see.
RefinesDemand == Demand!Spec

=============================================================================
