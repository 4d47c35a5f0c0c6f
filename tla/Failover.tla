------------------------------ MODULE Failover ------------------------------
(***************************************************************************)
(* vyos-failover: a daemon that probes the next hops of its routes in turn,*)
(* installs and withdraws them with hysteresis, and holds a bearer lease   *)
(* on the connect-on-demand modem that the traffic is steered to.  It uses *)
(* the registry of BearerLease as the owner "failover": every step of this *)
(* module is one step of the registry, and time passes in the steps that   *)
(* sleep.  Probes answer in any way; VRFs and address families are left    *)
(* out, and a DHCP gateway comes and goes but does not change.             *)
(***************************************************************************)
EXTENDS BearerLease, Sequences, FiniteSetsExt

CONSTANTS
    Hops,           \* the next hops in the order in which they are probed:
                    \* [route, iface, metric, dhcp]
    Wwan,           \* the connect-on-demand interface
    FailureCount,   \* failure_count
    SuccessCount,   \* success_count
    MaxPause,       \* longest probe and sleep of one next hop (bound)
    HoldDown,       \* failover_release_holddown
    Ttl,            \* failover_lease_ttl
    MaxFaults       \* routes lost, additions refused and calls lost (bound)

failover == "failover"  \* failover_lease_owner

ASSUME FailoverAssumption ==
    /\ failover \in Owners \ PersistentOwners
    /\ Hops \in Seq([route : STRING, iface : STRING, metric : Int, dhcp : BOOLEAN])
    /\ Hops # <<>>
    /\ Ttl \in Nat \ {0}
    /\ MaxPause \in Nat \ {0}
    /\ FailureCount \in Nat /\ SuccessCount \in Nat
    /\ HoldDown \in Nat
    /\ MaxFaults \in Nat

VARIABLES
    running,    \* ~kill_called
    at,         \* 0 before a pass, then the next hop, then Done
    routes,     \* all_routes
    fails,      \* nexthop_health_state[...]['fail'], up to failure_count
    succs,      \* nexthop_health_state[...]['success'], up to success_count
    present,    \* next hops whose route is in the kernel's table
    healthy,    \* interfaces for which alive_by_iface is true
    since,      \* time since hold_state[Wwan], Never when there is none
    slept,      \* had_sleeps
    missed,     \* history: reconciliations since the last renewal that
                \* reached the modem, 2 when there are more or it was released
    faults

local == <<running, at, routes, fails, succs, present, healthy, since, slept,
           missed, faults>>

vars == <<lease, local>>

Indices == DOMAIN Hops
Done == Len(Hops) + 1
Routes == {Hops[i].route : i \in Indices}
Ifaces == {Hops[i].iface : i \in Indices}

Fault(b) ==
    /\ b => faults < MaxFaults
    /\ faults' = IF b THEN faults + 1 ELSE faults

\* Time passes, for the leases and for the hold-down.
Pass(d) ==
    /\ Tick(d)
    /\ since' = IF since = Never THEN Never
                ELSE IF since + d > HoldDown THEN HoldDown ELSE since + d

\* The next hop to probe after i.
Following(i, configured) ==
    Min({j \in Indices : j > i /\ Hops[j].route \in configured} \cup {Done})

Zero == [i \in Indices |-> 0]

Init ==
    /\ LeaseInit
    /\ running = TRUE
    /\ at = 0
    /\ routes = {}
    /\ fails = Zero
    /\ succs = Zero
    /\ present = {}
    /\ healthy = {}
    /\ since = Never
    /\ slept = TRUE
    /\ missed = 2
    /\ faults = 0

\* Mutant: the routes of removed configuration stay.
BeginKeep(configured) ==
    /\ running
    /\ at = 0
    /\ Pass(IF slept THEN 0 ELSE 1)
    /\ routes' = configured
    /\ healthy' = {}
    /\ slept' = FALSE
    /\ at' = Following(0, configured)
    /\ UNCHANGED <<running, present, fails, succs, missed, faults>>

\* A pass starts: it sleeps if the last one did not, and update_configuration()
\* deletes the routes that are not configured any more.  hold_state, the health
\* counters and the lease are left as they are.
Begin(configured) ==
    /\ running
    /\ at = 0
    /\ Pass(IF slept THEN 0 ELSE 1)
    /\ routes' = configured
    /\ present' = {i \in present : Hops[i].route \in configured}
    /\ healthy' = {}
    /\ slept' = FALSE
    /\ at' = Following(0, configured)
    /\ UNCHANGED <<running, fails, succs, missed, faults>>

\* Mutant: a failure does not reset the count of successes, nor the reverse.
CountSticky(i, alive) ==
    /\ succs' = [succs EXCEPT ![i] =
                   IF alive /\ @ < SuccessCount THEN @ + 1 ELSE @]
    /\ fails' = [fails EXCEPT ![i] =
                   IF ~alive /\ @ < FailureCount THEN @ + 1 ELSE @]

Count(i, alive) ==
    /\ succs' = [succs EXCEPT ![i] =
                   IF ~alive THEN 0
                   ELSE IF @ < SuccessCount THEN @ + 1 ELSE @]
    /\ fails' = [fails EXCEPT ![i] =
                   IF alive THEN 0
                   ELSE IF @ < FailureCount THEN @ + 1 ELSE @]

\* effective_alive, from the counters this probe leaves.
EffectiveAlive(i) ==
    IF i \in present THEN fails'[i] < FailureCount ELSE succs'[i] >= SuccessCount

\* One next hop is probed: counters, snapshot, route, sleep.  `ip route add`
\* may be refused.
Check(alive, refused, d) ==
    /\ running
    /\ at \in Indices
    /\ Count(at, alive)
    /\ healthy' = IF EffectiveAlive(at) THEN healthy \cup {Hops[at].iface}
                  ELSE healthy \ {Hops[at].iface}
    /\ refused => at \notin present /\ EffectiveAlive(at)
    /\ present' = IF EffectiveAlive(at) /\ ~refused THEN present \cup {at}
                  ELSE present \ {at}
    /\ Fault(refused)
    /\ Pass(d)
    /\ slept' = TRUE
    /\ at' = Following(at, routes)
    /\ UNCHANGED <<running, routes, missed>>

\* process_dhcp_interface() finds no gateway: the route by the previous one is
\* deleted and the next hop skipped, without a probe and without a sleep.
NoGateway ==
    /\ running
    /\ at \in Indices
    /\ Hops[at].dhcp
    /\ present' = present \ {at}
    /\ at' = Following(at, routes)
    /\ UNCHANGED <<lease, running, routes, fails, succs, healthy, since, slept,
                   missed, faults>>

\* The kernel drops a route, as when its link goes down.
LoseRoute ==
    /\ \E i \in present : present' = present \ {i}
    /\ Fault(TRUE)
    /\ UNCHANGED <<lease, running, at, routes, fails, succs, healthy, since, slept,
                   missed>>

NextHops(r) == {i \in Indices : Hops[i].route = r}

\* The hops S with the lowest metric, the first of them on a tie.
Lowest(S) ==
    CHOOSE i \in S : \A j \in S : \/ Hops[i].metric < Hops[j].metric
                                  \/ Hops[i].metric = Hops[j].metric /\ i <= j

\* active_connect_on_demand_wwans(): the winner is chosen from the snapshot,
\* which knows interfaces and not next hops.
ActiveIn(r) ==
    LET alive == {i \in NextHops(r) : Hops[i].iface \in healthy}
    IN  alive # {} /\ Hops[Lowest(alive)].iface = Wwan

Managed == \E r \in routes : \E i \in NextHops(r) : Hops[i].iface = Wwan

\* The modem takes part, and is the egress or was a short time ago.
Renews(active) ==
    Managed /\ (active \/ (since # Never /\ since < HoldDown))

\* Mutant: the lease is taken once, when the modem becomes the egress.
ReconcileOnce(lost) ==
    LET active == \E r \in routes : ActiveIn(r)
        renew  == Renews(active)
    IN  /\ running
        /\ at = Done
        /\ Fault(lost)
        /\ lost => Managed
        /\ since' = IF ~Managed THEN since
                    ELSE IF active THEN 0
                    ELSE IF renew THEN since ELSE Never
        /\ IF lost \/ ~Managed \/ (renew /\ failover \in table) THEN UNCHANGED lease
           ELSE IF renew THEN Acquire(failover, Ttl) ELSE Release({failover})
        /\ missed' = IF renew /\ ~lost THEN 0
                     ELSE IF (Managed /\ ~renew) \/ missed = 2 THEN 2 ELSE missed + 1
        /\ at' = 0
        /\ UNCHANGED <<running, routes, fails, succs, present, healthy, slept>>

\* reconcile_failover_leases(): hold_state is changed before the call to the
\* modem, which may fail; the exception is logged and the next pass goes on.
Reconcile(lost) ==
    LET active == \E r \in routes : ActiveIn(r)
        renew  == Renews(active)
    IN  /\ running
        /\ at = Done
        /\ Fault(lost)
        /\ lost => Managed
        /\ since' = IF ~Managed THEN since
                    ELSE IF active THEN 0
                    ELSE IF renew THEN since ELSE Never
        /\ IF lost \/ ~Managed THEN UNCHANGED lease
           ELSE IF renew THEN Acquire(failover, Ttl) ELSE Release({failover})
        /\ missed' = IF renew /\ ~lost THEN 0
                     ELSE IF (Managed /\ ~renew) \/ missed = 2 THEN 2 ELSE missed + 1
        /\ at' = 0
        /\ UNCHANGED <<running, routes, fails, succs, present, healthy, slept>>

\* SIGTERM, or an exit on an unreadable configuration: flush_all_routes() runs
\* at exit, and the lease is left to its TTL.
Kill ==
    /\ running
    /\ running' = FALSE
    /\ present' = {}
    /\ UNCHANGED <<lease, at, routes, fails, succs, healthy, since, slept, missed,
                   faults>>

\* The service is started again: it remembers nothing and flushes its routes.
Start ==
    /\ ~running
    /\ running' = TRUE
    /\ at' = 0
    /\ routes' = {}
    /\ fails' = Zero
    /\ succs' = Zero
    /\ present' = {}
    /\ healthy' = {}
    /\ since' = Never
    /\ slept' = TRUE
    /\ missed' = 2
    /\ UNCHANGED <<lease, faults>>

\* Time passes without the daemon.
Wait ==
    /\ ~running
    /\ Tick(1)
    /\ UNCHANGED local

\* Another client takes a persistent lease, or gives it up.
Operator ==
    /\ \E o \in PersistentOwners : Acquire(o, 0) \/ Release({o})
    /\ UNCHANGED local

\* The modem's daemon sweeps its registry.
SweepLeases == Sweep /\ UNCHANGED local

Work ==
    \/ \E configured \in SUBSET Routes : Begin(configured)
    \/ \E alive, refused \in BOOLEAN, d \in 1..MaxPause : Check(alive, refused, d)
    \/ NoGateway
    \/ \E lost \in BOOLEAN : Reconcile(lost)

Next == Work \/ LoseRoute \/ Kill \/ Start \/ Wait \/ Operator \/ SweepLeases

Spec == Init /\ [][Next]_vars

\* The daemon's loop goes on and time passes.
FairSpec == Spec /\ WF_vars(Work) /\ WF_vars(Wait)

-----------------------------------------------------------------------------
TypeOK ==
    /\ LeaseInv
    /\ running \in BOOLEAN /\ slept \in BOOLEAN
    /\ at \in 0..Done
    /\ routes \subseteq Routes
    /\ fails \in [Indices -> 0..FailureCount]
    /\ succs \in [Indices -> 0..SuccessCount]
    /\ present \subseteq Indices
    /\ healthy \subseteq Ifaces
    /\ since \in {Never} \cup 0..HoldDown
    /\ missed \in 0..2
    /\ faults \in 0..MaxFaults

\* The route that a packet for r takes.
Egress(r) ==
    LET there == present \cap NextHops(r)
    IN  IF there = {} THEN 0 ELSE Lowest(there)

SteeredToModem == \E r \in Routes : Egress(r) # 0 /\ Hops[Egress(r)].iface = Wwan

\* While the modem is the egress or in its hold-down the bearer is leased, even
\* when one renewal is lost: the "missed renewal" is "self-correcting".  It
\* needs a TTL longer than two passes.
Covered == running /\ since # Never /\ missed <= 1 => failover \in live

\* A next hop that answers every probe from some time on gets its route, one
\* that answers none loses it, whatever the kernel and the configuration did
\* before.
RouteFollows ==
    \A i \in Indices : ~Hops[i].dhcp =>
        /\ <>[](running /\ Hops[i].route \in routes /\ fails[i] = 0)
              => <>[](i \in present)
        /\ <>[](running /\ succs[i] = 0) => <>[](i \notin present)

\* "the lease tracks exactly the link failover steers to" (the docstring of
\* active_connect_on_demand_wwans): traffic that stays on the modem gets it a
\* lease for good, traffic that stays off it ends the lease.
EgressLeased ==
    /\ <>[]SteeredToModem => <>[](failover \in live)
    /\ <>[](~SteeredToModem /\ \E r \in Routes : Egress(r) # 0)
          => <>[](failover \notin live)

\* A daemon that is stopped for good leaves no demand behind.
LeaseEnds == <>[](~running) => <>[](failover \notin live)

=============================================================================
