------------------------------ MODULE FRRender ------------------------------
(***************************************************************************)
(* The one long-lived FRRender object of the commit daemon                 *)
(* (python/vyos/frrender.py, used by call_frr_render of vyos-commitd and   *)
(* vyos-configd) and the FRR daemons it reconfigures.  generate() compares *)
(* the requested dictionary and the DHCP gateways with the pair it cached  *)
(* last time, caches the new pair, renders the file; apply() tests the     *)
(* file, reloads FRR with it up to count_max times and saves the result.   *)
(*                                                                         *)
(* A configuration text is abstracted to the dictionary and the gateway it *)
(* was rendered from: a record [dict, gw].                                 *)
(***************************************************************************)
EXTENDS Naturals

CONSTANTS
    Dicts,      \* the dictionaries get_frrender_dict can return
    VrfDicts,   \* those with routing protocols inside a VRF
    BadDicts,   \* those whose rendered text contains "!!"
    Gateways,   \* the values get_dhcp_router can return
    CountMax,   \* count_max of apply()
    Empty,      \* the empty cache of a new FRRender object
    NoConf,     \* the configuration FRR is packaged with
    Mixed       \* an FRR configuration after an interrupted reload or write

ASSUME DictsAssumption == VrfDicts \subseteq Dicts /\ BadDicts \subseteq Dicts
ASSUME CountMaxAssumption == CountMax \in Nat \ {0}

Text == [dict: Dicts, gw: Gateways]

ASSUME NotTextAssumption == NoConf \notin Text /\ Mixed \notin Text

Confs == Text \cup {NoConf, Mixed}

\* What generate() remembers.  keys: whether the rendering added the 'vrf' keys
\* to the very dictionary object that is cached.
Entries == [dict: Dicts, gw: Gateways, keys: {"original", "added"}]

ASSUME EmptyAssumption == Empty \notin Entries

VARIABLES
    pc,         \* where the running call of call_frr_render is
    target,     \* [dict, gw] of the running or the latest call
    cache,      \* cached_config_dict and cached_dhcp_gateways
    frrConf,    \* /run/frr/config/vyos.frr.conf
    running,    \* what the FRR daemons run
    startup,    \* /run/frr/config/frr.conf, read when FRR starts
    lease,      \* the router of the DHCP lease file
    count,      \* count of apply()
    result,     \* what the latest call returned to the daemon
    track       \* history: "kept" if the latest call that filled the cache has
                \* not failed, its lease did not change before it was rendered
                \* and FRR did not restart between the reload and the save

vars == <<pc, target, cache, frrConf, running, startup, lease, count, result,
          track>>

Init ==
    /\ pc = "idle"
    /\ target \in Text
    /\ cache = Empty
    /\ frrConf = NoConf
    /\ running = NoConf
    /\ startup = NoConf
    /\ lease \in Gateways
    /\ count = 0
    /\ result = "none"
    /\ track = "lost"

-----------------------------------------------------------------------------
\* The cached dictionary equals a freshly read d: the one object holds no key
\* that the rendering added.
SameDict(d) == cache # Empty /\ cache.dict = d /\ cache.keys = "original"

\* Mutant: the skip looks at the dictionary alone.
IgnoreGateways == cache # Empty

SameGateways == cache # Empty /\ cache.gw = lease

\* generate(), up to the early return: nothing changed since the cached call.
GenerateUnchanged(d) ==
    /\ pc = "idle"
    /\ SameDict(d) /\ SameGateways
    /\ target' = [dict |-> d, gw |-> lease]
    /\ result' = "unchanged"
    /\ UNCHANGED <<pc, cache, frrConf, running, startup, lease, count, track>>

\* generate(), up to the two assignments of the cache.
GenerateChanged(d) ==
    /\ pc = "idle"
    /\ ~(SameDict(d) /\ SameGateways)
    /\ target' = [dict |-> d, gw |-> lease]
    /\ cache' = [dict |-> d, gw |-> lease, keys |-> "original"]
    /\ track' = "kept"
    /\ pc' = "render"
    /\ result' = "none"
    /\ UNCHANGED <<frrConf, running, startup, lease, count>>

\* Mutant: the rendering marks the protocols outside of the VRFs as well.
MarkAll(d) == "added"

\* The loop over the VRFs writes the name of the VRF into the dictionary of
\* each of its protocols.
RenderedKeys(d) == IF d \in VrfDicts THEN "added" ELSE "original"

\* A call ends with an exception, which call_frr_render reports.
Fail ==
    /\ pc' = "idle"
    /\ result' = "error"
    /\ track' = "lost"

\* The rest of generate(): the templates read the lease file again; the
\* protocols of each VRF are marked with the name of their VRF in place.
Render ==
    /\ pc = "render"
    /\ target.dict \notin BadDicts
    /\ cache' = [cache EXCEPT !.keys = RenderedKeys(target.dict)]
    /\ frrConf' = [dict |-> target.dict, gw |-> lease]
    /\ pc' = "test"
    /\ UNCHANGED <<target, running, startup, lease, count, result, track>>

\* A template raises, the text contains "!!" or the file cannot be written.
RenderFail ==
    /\ pc = "render"
    /\ \E m \in {"original", RenderedKeys(target.dict)} :
          cache' = [cache EXCEPT !.keys = m]
    /\ frrConf' \in {frrConf, Mixed}
    /\ Fail
    /\ UNCHANGED <<target, running, startup, lease, count>>

\* apply(): frr-reload.py --test accepts or refuses the file.
TestOk ==
    /\ pc = "test"
    /\ pc' = "reload"
    /\ count' = 0
    /\ UNCHANGED <<target, cache, frrConf, running, startup, lease, result, track>>

TestFail ==
    /\ pc = "test"
    /\ Fail
    /\ UNCHANGED <<target, cache, frrConf, running, startup, lease, count>>

\* One pass of the loop of apply() whose frr-reload.py --reload succeeds, and
\* the comparison of count with count_max after the loop.
ReloadOk ==
    /\ pc = "reload"
    /\ count' = count + 1
    /\ running' = frrConf
    /\ \/ /\ count' < CountMax
          /\ pc' = "write"
          /\ UNCHANGED <<result, track>>
       \/ /\ count' >= CountMax
          /\ Fail
    /\ UNCHANGED <<target, cache, frrConf, startup, lease>>

\* Mutants: the failed pass is not counted; it is counted once too often.
ReloadFailUncounted ==
    /\ pc = "reload"
    /\ running' \in {running, Mixed, frrConf}
    /\ UNCHANGED <<pc, target, cache, frrConf, startup, lease, count, result, track>>

ReloadFailOverrun ==
    /\ pc = "reload"
    /\ count' = count + 1
    /\ running' \in {running, Mixed, frrConf}
    /\ IF count > CountMax THEN Fail ELSE UNCHANGED <<pc, result, track>>
    /\ UNCHANGED <<target, cache, frrConf, startup, lease>>

\* One pass of the loop whose reload exits with an error: FRR took nothing,
\* part or all of the file.
ReloadFail ==
    /\ pc = "reload"
    /\ count' = count + 1
    /\ running' \in {running, Mixed, frrConf}
    /\ \/ /\ count' < CountMax
          /\ UNCHANGED <<pc, result, track>>
       \/ /\ count' >= CountMax
          /\ Fail
    /\ UNCHANGED <<target, cache, frrConf, startup, lease>>

\* vtysh --writeconfig, the last statement of apply().
WriteConfig ==
    /\ pc = "write"
    /\ startup' = running
    /\ pc' = "idle"
    /\ result' = "applied"
    /\ UNCHANGED <<target, cache, frrConf, running, lease, count, track>>

WriteConfigFail ==
    /\ pc = "write"
    /\ startup' \in {startup, Mixed}
    /\ Fail
    /\ UNCHANGED <<target, cache, frrConf, running, lease, count>>

-----------------------------------------------------------------------------
\* dhclient writes a new lease file at any time.
LeaseChange ==
    /\ lease' \in Gateways \ {lease}
    /\ track' = IF pc = "render" THEN "lost" ELSE track
    /\ UNCHANGED <<pc, target, cache, frrConf, running, startup, count, result>>

\* The FRR daemons crash or are restarted: they read the startup file.
FrrRestart ==
    /\ running # startup
    /\ running' = startup
    /\ track' = IF pc = "write" THEN "lost" ELSE track
    /\ UNCHANGED <<pc, target, cache, frrConf, startup, lease, count, result>>

\* The commit daemon dies and systemd starts it again with a new FRRender.
DaemonRestart ==
    /\ cache # Empty
    /\ pc' = "idle"
    /\ cache' = Empty
    /\ result' = "none"
    /\ track' = "lost"
    /\ count' = 0
    /\ UNCHANGED <<target, frrConf, running, startup, lease>>

Step == \/ Render \/ RenderFail \/ TestOk \/ TestFail
        \/ ReloadOk \/ ReloadFail \/ WriteConfig \/ WriteConfigFail

Next ==
    \/ \E d \in Dicts : GenerateUnchanged(d) \/ GenerateChanged(d)
    \/ Step
    \/ LeaseChange
    \/ FrrRestart
    \/ DaemonRestart

\* The call runs synchronously in the daemon, which is always scheduled.
Spec == Init /\ [][Next]_vars /\ WF_vars(Step)

-----------------------------------------------------------------------------
\* The type of every variable of the renderer and of the FRR files.
TypeOK ==
    /\ pc \in {"idle", "render", "test", "reload", "write"}
    /\ target \in Text
    /\ cache \in Entries \cup {Empty}
    /\ frrConf \in Confs
    /\ running \in Confs
    /\ startup \in Confs
    /\ lease \in Gateways
    /\ count \in 0..CountMax
    /\ result \in {"none", "unchanged", "applied", "error"}
    /\ track \in {"kept", "lost"}

\* A success of call_frr_render, whether it applied the configuration or
\* skipped it as unchanged, means that FRR runs, and will restart with, the
\* requested dictionary and the gateway of the moment, as long as the call
\* that filled the cache itself was applied undisturbed.
SuccessIsApplied ==
    pc = "idle" /\ track = "kept" /\ result \in {"unchanged", "applied"}
        => running = target /\ startup = target

\* Why it holds: the inductive invariant.  The cache describes the call
\* that filled it; an undisturbed call carries its target through the
\* rendered file to the running and the saved configuration.
Tracks(conf) == conf = [dict |-> cache.dict, gw |-> cache.gw]

InFlight ==
    pc # "idle" => /\ cache # Empty
                   /\ Tracks(target)
                   /\ pc = "reload" => count < CountMax

Carried ==
    track = "kept" =>
        /\ cache # Empty
        /\ pc = "render" => lease = cache.gw
        /\ pc \in {"test", "reload", "write"} => Tracks(frrConf)
        /\ pc = "write" => Tracks(running)
        /\ pc = "idle" => /\ Tracks(running) /\ Tracks(startup)
                          /\ result \in {"applied", "unchanged"}
                          /\ Tracks(target)

\* The cache is about the latest call, whatever became of it, and only the
\* dictionary of a VRF was changed by its rendering.
Compared ==
    cache # Empty => /\ Tracks(target)
                     /\ cache.keys = "added" => cache.dict \in VrfDicts

Inv == TypeOK /\ InFlight /\ Carried /\ Compared

\* Every call returns to the daemon: the reload loop is bounded.
CallReturns == pc # "idle" ~> pc = "idle"

\* What the comment in _call_frr_render claims of the skip: the previous
\* configuration it compares with is one that was applied, so that a skipped
\* call leaves FRR with the requested dictionary.
SkipMeansApplied ==
    result = "unchanged" /\ pc = "idle"
        => running \in Text /\ running.dict = target.dict

\* A call renders and reloads only for a cause: the daemon is new, the call asks
\* for another dictionary or meets another gateway than the one before, however
\* that one ended, or its dictionary has VRF protocols, whose rendering has
\* changed the cached object.
ReloadsForCause ==
    [][pc = "idle" /\ pc' = "render" =>
        \/ cache = Empty
        \/ target' # target
        \/ target'.dict \in VrfDicts]_vars

\* What the docstring of generate and the comment in _call_frr_render promise:
\* "Returns False if no changes to configuration were made", also for
\* dictionaries with VRF protocols, if the call before was applied undisturbed.
UnchangedSkipped ==
    [][track = "kept" /\ pc = "idle" /\ pc' = "render" => target' # target]_vars
=============================================================================
