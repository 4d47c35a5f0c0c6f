---------------------------- MODULE BearerDemand ----------------------------
(***************************************************************************)
(* What the registry of bearer leases promises the modem's state machine:  *)
(* a set of owners that want the bearer up.  An owner is added by its own  *)
(* request and stays until it gives up its demand or, unless the demand is *)
(* persistent, until the demand lapses.  WwanBearer is built on this view. *)
(***************************************************************************)
CONSTANT Owners

VARIABLES
    live,           \* owners with a live demand
    persistent,     \* the ones among them whose demand does not lapse
    event           \* what the last step was: a request and its owners, the
                    \* passing of time, or the registry's own housekeeping

demand == <<live, persistent, event>>

Housekeeping == <<"none", {}>>
Time == <<"time", {}>>

Init == live = {} /\ persistent = {} /\ event = Housekeeping

Acquire(o, forever) ==
    /\ event' = <<"acquire", {o}>>
    /\ live' = live \cup {o}
    /\ persistent' = IF forever THEN persistent \cup {o} ELSE persistent \ {o}

Release(S) ==
    /\ event' = <<"release", S>>
    /\ live' = live \ S
    /\ persistent' = persistent \ S

\* Time ends demands, the persistent ones excepted.
Lapse(S) ==
    /\ event' = Time
    /\ S \cap persistent = {}
    /\ live' = live \ S
    /\ UNCHANGED persistent

\* Nothing else changes what anyone demands.
Tidy ==
    /\ event' = Housekeeping
    /\ UNCHANGED <<live, persistent>>

Next ==
    \/ \E o \in Owners, forever \in BOOLEAN : Acquire(o, forever)
    \/ \E S \in SUBSET Owners : Release(S) \/ Lapse(S)
    \/ Tidy

Spec == Init /\ [][Next]_demand

=============================================================================
