# TLA+ models of VyOS

This directory holds TLA+ models of the parts of vyos-1x that keep state and run
concurrently. One group decides whether a committed configuration is the one the
system runs: the daemons that run the configuration scripts, the FRR renderer
behind them, the revision archive with commit-confirm, and the lock files. The
other keeps the network connected: the WWAN modem's state machine, its bearer
leases, the failover daemon that holds one, and the keepalived FIFO. The models
are checked with TLC on small instances; every safety property that holds is also
proved with TLAPS, for every instance.

Paths below are relative to the repository.

## The system

| Part | State it keeps | Operations | Hard behaviour |
|---|---|---|---|
| FRR renderer, `python/vyos/frrender.py` | the cached dictionary and DHCP gateways, the rendered file, FRR's running and saved configuration | `generate`, `apply` | a failure after the cache was filled; a lease that changes between comparison and rendering; FRR restarts |
| Commit daemon, `src/services/vyos-commitd` | the session with its calls and replies, one `Config` per session | run a session: calls in order, FRR at the end | one call of several failing, dry runs |
| Dependent scripts, `python/vyos/configdep.py` | the pending list of each `Config`, and a module variable that refers to one of them | `set_dependents`, `call_dependents`, `run_conditionally` | nested loops over one shared list; a list that outlives its commit |
| Config daemon and shim, `src/services/vyos-configd`, `src/shim/vyshim.c` | the `Config` of the last handshake; two marker files | announce, send strings, send a node, pass through | an alarm of 10 ms; late answers; a second client; a daemon that dies |
| Revisions and commit-confirm, `python/vyos/config_mgmt.py` | revision files, commit log, a systemd timer, a temporary log entry | post-commit hook, `commit_confirm`, `confirm`, `revert`, `revert_soft`, `rollback` | sessions that interleave with a pending confirmation; the timer racing `confirm`; failing steps |
| Lock files, `python/vyos/utils/locking.py` | a file, and who has locked it | `acquire`, `release` | the path names another file at every step |
| REST API, `src/services/api/rest/routers.py` | a global lock, a shared session, background jobs | configure, confirm, retrieve | commit and timer are two steps |
| `vyos-hostsd` | name servers, hosts, zones; a state file | add, delete, set, get, apply | a crash while the state file is written |
| VTI up/down database, `python/vyos/utils/vti_updown_db.py` | a text file of interface wishes | add, remove, commit | read-modify-write without a lock |
| WWAN modem state machine, `python/vyos/utils/wwan/interfaces_wwan_state_machine.py` | the state, the operator's flags, the data-limit hold, lease ownership, a dozen asyncio tasks | signals of ModemManager, connect and disconnect, recovery, retry, watchdog, lease reconciler | what was read before an await is stale after it; signals that are lost, late or meet a state that ignores them; several tasks that drive one bearer |
| Bearer leases, `python/vyos/utils/wwan/bearer_lease.py` | owner and expiry of each lease | acquire, release, sweep | entries that expire before they are swept; clamped and persistent leases |
| Failover, `src/helpers/vyos-failover.py` | health counters, installed routes, the hold-down | one pass of the main loop, kill, restart | probes take time while a lease runs out; lost renewals, lost routes, reconfiguration within a count |
| WAN load balancing, `src/helpers/vyos-load-balancer.py` | health counters, nftables | main loop, signal handlers | signals in the middle of a pass |
| Keepalived FIFO, `src/system/keepalived-fifo.py` | a bounded queue and an event | read, process, stop | two threads that wait for each other |
| Everything else: interface classes, configuration scripts, operational commands, templates, migration, image tools | mostly none | | see `components` in `PROJECT.json` |

How they interact. A commit reaches the scripts in one of two ways. The legacy
backend runs one `vyshim` process per script, which asks `vyos-configd` over
ZeroMQ to run it; the newer backend sends the whole commit as one session to
`vyos-commitd`. In both daemons a script may run dependent scripts through
`vyos.configdep`, and after the last script the daemon calls its one `FRRender`
object. After the commit the post-commit hooks run `config-mgmt`, which archives
the active configuration. The REST API and the commit-confirm timer start
commits of their own. `vyos-failover` reads the routes a commit wrote, probes
their next hops, and asks the modem's state machine over D-Bus for a bearer
lease while traffic is steered to a connect-on-demand modem; the state machine
brings the bearer up for as long as a lease or the operator wants it. What each part must guarantee is listed with its run below.

## Modules

**FRRender** (with `MC_FRRender`). One action per step of `generate` and
`apply`: the comparison with the cache (`GenerateUnchanged`,
`GenerateChanged`), the rendering, the `--test` run, each pass of the reload
loop, and the saving of FRR's configuration, each with its failure. `FrrRestart`,
`DaemonRestart` and `LeaseChange` are the environment. A configuration text is
the pair of the dictionary and the gateway it was rendered from. Two details of
the code matter: the cache is assigned before anything is rendered, and the
rendering writes VRF names into the dictionary object that is cached (`keys`).

**Commitd** (with `MC_Commitd`). Sessions, calls, and a stack of running scripts
because dependents nest. `SetDependents` registers one dependent and
`CallDependent` is one pass of the loop that runs them; between any two of these
the script may raise (`Caught`, `Raised`), also after `call_dependents` has returned. Which dependents a script registers is
fixed when it is started, because the configuration it reads does not change
while it runs. `list[g]` is the dependency list of the `Config` object
of session `g`, `bound` says whose list the module variable of `vyos.configdep`
refers to. `Registers`, `Callers`, `Guarded` and `Ignorers` describe the scripts;
the instance is taken from `data/config-mode-dependencies`. A dry run leaves out
generate and apply and calls the dependents unconditionally.

**CommitWork**. What a commit may expect of the daemon: a set of scripts to run,
which running scripts add to, worked off one at a time, and FRR rendered after the
last. `Commitd` implements it (`RefinesWork == Work!Spec`): `work` is the pending
list together with the calls to come, `active` the innermost script until it
enters `call_dependents`. A dependent that `run_conditionally` defers changes
nothing in that set, which is what makes the deferral correct; a mistake in
`scripts_called` or `commit_scripts` would lose a script or run it twice. An error
empties the set for the rest of the session.

**Configd**. The shim process of the current script, the daemon, the queue of
the daemon's socket and the DHCP helper as a second client. `Announce` to
`HandshakeDone` is `initialization` of `vyshim.c`; `RecvInit` to `RecvString` is
`initialization` of the daemon. The daemon's fatal cases (a string where it
expects JSON, a node inside the announcement loop) are `RecvUnexpected`. The
legacy commit that starts the shims and ZeroMQ itself are external and
modelled from their use.

**ConfigMgmt** (with `MC_ConfigMgmt`). Commits (also failed ones, for the hooks
run after both), the REST commit-confirm in its steps, `confirm`, both kinds of
revert, rollback, save and reboot. Two kinds of processes work on the archive: the
post-commit hook, of which the commit lock lets one run at a time, and `confirm`,
which takes no lock. Both go through the steps of `Archive`: the active
configuration is saved to a file in `/tmp` (`ArchiveSave`), compared with the last
one (`ArchiveCompare`) and moved (`ArchiveMove`), the log is read (`ReadLog`) and
written (`WriteLog`), and logrotate runs (`Rotate`). A step of one process may come
between any two of the other, and a step that fails has an action beside it
(`ArchiveFails`, `WriteLogFails`, `RotateFails`), after which the process goes on as
the code does. A reboot ends every process where it is. A log entry is abstracted
to the configuration that was active when it was written, which lets the log be
compared with the revision files. `settled`, `mixed`, `logFate` and `revFate` are
history variables for the properties.

**Locking**. Processes that share one lock name; opening, locking and removing
the file are separate steps, and files are told apart from the path.

**WwanBearer**. One modem with one SIM. `m` is the state machine with its tasks
(`Machine`); a step is the code of one task from one await to the next. `Edges`,
`Target` and `Fire` are the transition table and `transition()` with everything
it starts and cancels; `OnSearching` to `OnConnected` are `handle_modem_event`;
`ApplyStart` and `ApplyDial` are `apply_modem_configuration`, which four callers
run; `RecoveryRead` to `RecoveryPoll` are `handle_disconnection_recovery`,
`RetryWake` to `RetryCheck` the retry loop of FAILED, `WatchTransient` to
`WatchHold` the watchdog, `Reconcile` and `Sweep` the lease reconciler; the
operations of clients keep their D-Bus names. Where the code awaits, the task has
a phase of its own and other tasks and signals may come first: the watchdog
between its test of the state, its read of the modem and the CONNECTED it then
fires (`WatchTransient`, `WatchRead`) and between cancelling the tasks and looking
at the state again (`WatchJoin`), the retry loop between its disconnect, its sleep
and its CONNECT (`RetryClear`, `RetryConnect`), the recovery between verifying,
dropping and redialling (`RecoveryVerify` to `RecoveryRedial`). ModemManager
(`mm`, `sigs`) is external: it changes state, its signals arrive later and in
order, and a read in the middle of a connect or disconnect finds the states 9 or
10 in between (`InBetween`), which make the recovery give up (`GiveUp`).

**BearerDemand**, **BearerLease**. `BearerDemand` is what a client of leases may
rely on: a set of owners with demand, changed by their requests and by time.
`BearerLease` is the registry with entries, expiry, clamping and sweeping, and
implements it: `RefinesDemand == Demand!Spec` with `live` and `persistent` as the
mapping. `event` is a history variable that names the call, so that a step
cannot pass as another owner's. `WwanBearer` uses the abstract view: a set
`live` from which leases lapse.

**Failover** (with `MC_Failover`). `vyos-failover` composed with the registry,
which it EXTENDS: each step of the daemon is one step of the registry, and the
steps that sleep or probe let time pass for the leases and the hold-down. `Check`
is one next hop with its probe, counters and route change; `Reconcile` is the end
of a pass; `Begin` reads a changed configuration; `Kill`, `Start`, `LoseRoute` and
another lease owner interfere.

**KeepalivedFifo**. The two threads and the main thread, with every statement
that touches the queue, the event or the stop flag a step of its own. Messages
are counted; `aborted` remembers that an exception ended the last drain.

**FRRender_proofs**, **Commitd_proofs**, **Configd_proofs**, **ConfigMgmt_proofs**,
**Locking_proofs**, **WwanBearer_proofs**, **KeepalivedFifo_proofs**. The theorems
about the module of that name. **Failover_proofs**: those about `BearerLease` and
`Failover`.

`Commitd` and `Configd` keep only which commit FRR was rendered from, and
`FRRender` takes any sequence of calls, so it covers the calls that both daemons
make.

## Runs

| Run | Shows |
|---|---|
| `frrender` | `SuccessIsApplied`: a reported success is true of FRR, and FRR would restart with it, if the call that filled the cache was itself applied undisturbed. `ReloadsForCause`: FRR is reloaded only by a new daemon, for another dictionary or gateway than the call before, or for VRF protocols. `CallReturns`: every call ends. |
| `frrender_skip` | Violated `SkipMeansApplied`: after a failed rendering or reload the same configuration is skipped as unchanged. |
| `commitd` | `Settled`: a commit without errors has applied every registered dependent. `CallIsolated`: the leftovers of a failed call are not run by the next. `OwnConfig`: no script runs with the `Config` of another session, unless an earlier session failed. `FrrFollows`: success of all calls implies that FRR was rendered from this session. `SessionEnds`. `RefinesWork`: a session without an error runs each script once per request, and renders FRR after the last (`CommitWork`). |
| `configd` | `OwnConfig`: no node is run with an older commit's configuration, whatever announcements time out, also when the daemon dies or the second client gets in between. Without these two, `NeverUnexpected`: repeated announcements never stop the daemon; `CommitEnds`: every commit ends. `RenderedLast`: FRR is rendered from the configuration of the commit it is rendered for and, without timeouts, exactly by the last script. |
| `configmgmt` | `LogMatchesArchive`: while nobody works on the archive, line *i* of the log is about revision file *i*, if no step failed or was cut off by a reboot, no hook ran during a confirm and commit-revisions was not lowered below the number of revisions. `RevertTarget`: revision 0 is the last final configuration, unless another session committed during a commit-confirm or the latest archiving failed. |
| `configmgmt_confirm` | Violated `UnconfirmedNotArchived`: any other commit, even a failed one, archives the unconfirmed configuration. |
| `locking` | `LocksAreOwned`, and `LockFileRemoved`: the last process to finish removes the file. |
| `locking_unlink` | Violated `UnlinksUnlocked`: a process removes a file that another has locked. |
| `wwan` | `LoopEndsWithFailed`: a step that leaves FAILED ends the retry loop, except for the loop's own CONNECT and for a CONNECTED of the watchdog after a read that FAILED has overtaken. `OperatorBearerKept`: the lease reconciler never idles a bearer the operator asked for. `Settles`: no transient state lasts. `DemandServed`: a bearer wanted from some time on is up from some time on. `InSync`: in the end the state machine agrees with ModemManager. `OwnershipEnds`: a lapsed lease leaves the reconciler no ownership, whatever state it lapsed in. |
| `failover` | `Covered`: while the modem is the egress or in its hold-down it has a lease, even with one lost renewal. `RouteFollows`: a next hop that always answers gets its route, one that never does loses it, whatever happened before. `EgressLeased`: the lease follows the egress. `LeaseEnds`: a dead daemon's lease ends. `RefinesDemand`: the registry implements `BearerDemand`. |
| `failover_egress` | Violated `EgressLeased`: with two gateways on one interface the lease does not follow the egress. |
| `keepalived_fifo` | `NoLostWakeup`, `StallNeedsFailure`: reader and processor block each other only after an exception. `Served`: without one the queue is emptied again and again. `Stops`: SIGTERM ends the program if the queue is never full. |

The violated properties state what a comment, docstring or test of the
repository says; each is explained under `findings` in `PROJECT.json`.

### Disagreements without a run

These are stated beside the others and are known to be violated; a `.cfg` that
names one finds the counterexample. They have no run of their own.

* `Commitd!DeferredToPriority`: after a failed commit a leftover dependent runs
  before its own call (`configdep.py:166`). `Commitd!IgnoresOwnDependents`:
  `vpn_ipsec`, as a dependent of `pki`, ignores the error of pki's dependent
  (`vpn_ipsec.py:892`).
* `Configd!SingleClient`: a request of the DHCP helper is taken for a string of a
  handshake (`vyos-configd:190`). `Configd!CommitRendered`: a single script that
  is passed through leaves FRR unconfigured (`vyshim.c:115`).
* `WwanBearer!IdleOtherwise`: the pseudocode of `bearer_lease.py:43` says IDLE
  without demand, but recovery and the retry loop reconnect a connect-on-demand
  modem that nobody wants up, and the first configuration dials after it parked
  the modem (`interfaces_wwan_state_machine.py:4160`).
* `WwanBearer!DisconnectStands`: every CONNECT clears the operator's disconnect
  flag, also one that the daemon fires by itself
  (`interfaces_wwan_state_machine.py:3421`); `disconnect_bearer` says the flag
  keeps the daemon from reconnecting "behind the operator's back".
* `WwanBearer!RetryOwnsFailed`: `transition()` cancels the retry loop "when leaving
  FAILED state (but not when the retry loop itself triggers the transition)"
  (`interfaces_wwan_state_machine.py:3538`). The watchdog awaits a read of the modem
  and fires CONNECTED without looking at the state again (15864). If a dial failed
  meanwhile and the bearer came up late, the state is FAILED, which has no such edge,
  and the fallback to CONFIGURING (3569) leaves the loop alive. The
  counterexample needs three events. `LoopEndsWithFailed`, which holds, says that
  nothing else leaves the loop alive.
* `FRRender!UnchangedSkipped`: `generate` "Returns False if no changes to
  configuration were made" (`frrender.py:693`), and FRR is applied "only [...] if
  anything changed" (`vyos-commitd:298`). The rendering writes the names of the VRFs
  into the cached object (`frrender.py:832`), so an unchanged dictionary with VRF
  protocols is rendered and reloaded by every commit. `ReloadsForCause`, which holds,
  has this as its exception.
* `ConfigMgmt!RevisionsExist`: a revision number is valid below the number of log
  lines (`config_mgmt.py:339`), but after commit-revisions was lowered the log has one
  entry less and logrotate keeps only the files up to the new limit (868, 737).
* `ConfigMgmt!OneRevisionList`: the numbered log lines are the completion help of
  rollback (`config_mgmt.py:626`), but `confirm` archives without the commit lock
  (282), and a hook of another session between its steps leaves lines about other
  revisions.
* `KeepalivedFifo!FinishesAll`: the SIGTERM handler is "to allow finish all
  messages processing" (`keepalived-fifo.py:173`), but a processor that leaves
  its loop before the reader has put its last batch leaves it unprocessed.

### Bounds

* FRRender: a plain, a VRF and an unrenderable dictionary, two gateways, three
  reload passes instead of five. Nothing else is bounded; the cases differ only
  in these classes.
* Commitd: two sessions of at most two calls. Two sessions are needed for a list
  that outlives its commit, two calls for deferral and isolation; the
  dependency chain pki, vpn_ipsec, protocols_nhrp is two deep, and pki may
  register a script twice.
* Configd: three commits of up to three scripts, of which the second is outside
  the include file, two timeouts, one death of the daemon and one request of the
  second client, so that a repeated announcement, a late answer and a stale
  marker all meet a later commit.
* ConfigMgmt: three configurations, a limit of one or two revisions that commits
  raise and lower, so that every revision is rotated out; one `confirm` at a time;
  four requests or failures in a behaviour. A commit-confirm, its confirmation and
  a commit of another session between them take two, so that a failure and another
  commit still follow; what the processes do once started is not bounded. A log
  that is cut off by a reboot in the middle of its writing is left out.
* Locking: three processes, one file more than processes so that a new file
  always exists.
* WwanBearer: three connection modes, one lease owner besides the operator, at
  most three undelivered signals, one recovery attempt instead of three, and two
  failures or requests in a behaviour. Two is what a race needs: one event that
  starts a task and another in the middle of it. One connection attempt of a
  REGISTERED signal runs at a time. A disconnect that outlasts a whole
  connection attempt, a watchdog deadline that passes while something is
  still under way, and a signal that is handled only after a sleep of seconds
  (`Slept`) count as failures of timing; a `Simple.Connect` whose caller
  was cancelled may still complete and counts as `OutOfBand`.
* Failover: an uplink, an uplink with DHCP and a modem; a pause of one unit per
  next hop, two failures and one success to change a route, a hold-down of three
  and a TTL of 8 against a ceiling of 7, so that clamping happens and a renewal
  may come late; two faults of any kind. `failover_egress` has two gateways
  on one interface and needs no fault.
* KeepalivedFifo: a queue of three, batches of two and six messages, so that the
  queue fills twice; three exceptions.

Deadlock checking is off where the program may stop: in `configd` a shim waits
for a dead daemon for ever, as `vyshim.c` has no timeout there; in the
`configmgmt` runs nobody has to commit again; in `wwan` a
modem at rest has nothing to do once the events are used up; in
`keepalived_fifo` the program ends.

### Fairness

`FRRender` and `Commitd` assume weak fairness of the steps of the call or
session in progress: it runs synchronously in one thread and nothing blocks it.
`Configd` assumes weak fairness of the shim and of the daemon, two processes the
kernel schedules. The alarm, the DHCP helper, leases and restarts are never
forced. `WwanBearer` assumes weak fairness of each asyncio task, of the delivery of
signals, of the watchdog and the sweep loop, which the event loop schedules, and
of registration: a network that is never found again serves no demand. Failures
are bounded, so liveness is about what happens once they stop. `Failover`
assumes that the daemon's loop goes on and that time passes; `KeepalivedFifo` that
its three threads run. Notifications, requests and signals are never forced.
`ConfigMgmt` and `Locking` state no liveness.

## Proofs

`FRRender_proofs` proves, for all sets of dictionaries and gateways and every
`count_max`, `Typing`, `Truthful` and `ReloadHasCause`. `SuccessIsApplied` is not
inductive: it says nothing while a call is running. `Inv` adds `InFlight` (the
cache describes the running call, and the loop counter is below its limit) and
`Carried` (while the call is undisturbed its target has reached the rendered
file, then the running, then the saved configuration), and `Compared` that the cache
is about the latest call, which `ReloadsForCause` rests on. The assumptions are that
the special values differ from configurations and that `count_max` is positive.

`Locking_proofs` proves `LockingTypes`, `Ownership` and `Removal` for every set of processes.
`LockFileRemoved` only speaks of the moment when all are done; `Attended` says why
it holds: a file that the path names always has a process that will still lock
it, holds it, or is about to open the path again. A process that gives up found
the file locked, so the holder is in charge; `RemovedIsGone` excludes the one
holder that is not, the process that has already removed it, because a new file
is never one that somebody still has open.

`Failover_proofs` proves `LeaseInvariant` and that the registry implements
`BearerDemand` (`LeaseRefinesDemand`), for every set of owners and every TTL. The
invariant says that owners without an entry have no time left; without it a
sweep could end demand.

About the daemon it proves `FailoverTypes`, `FailoverIsClient` (every step of the composition is a step
of the registry or leaves it alone), from which `FailoverRefinesDemand` follows,
and `LeaseCovers`: `Covered` holds for every list of next hops and all bounds,
provided `Spanning`, i.e. the clamped TTL exceeds two passes and the one step
between them; `PassTime` is the longest pass. In the instance of the run TLC
finds a violation when the clamped TTL is two passes. The code's numbers meet it while a pass takes less
than a minute. `Covered` is not inductive: `CoverInv` adds how much time may have
passed since the last renewal that arrived (`Elapsed`), as a function of where
the pass is and of the renewals missed since.

`KeepalivedFifo_proofs` proves `WakeupNotLost` and `NoStallWithoutFailure` for every
queue size that holds the lines of one read. The invariant `FifoInv` adds where
in its loops each thread may be while messages are queued without the event
(`Announced`), and the sizes of queue and batch (`Counted`). `FifoTypes` needs that
no more messages are read than were written.

`Commitd_proofs` proves `CommitdTypes`, `DependentsApplied` (`Settled`),
`CallsAreIsolated`, `ScriptsRunWithOwnConfig` (`OwnConfig`) and
`RenderedBeforeSuccess` (`FrrFollows`), and that a session implements `CommitWork`
(`SessionIsWork`), for any scripts, any dependencies between
them, and any number of sessions and calls. One invariant, `CommitdInv`, carries
them, for they need each other:

* `OwnConfig` holds because a session without an error leaves its list empty
  (`NoLeftovers`), so that a `call_dependents` that finds the list of an earlier
  session through the stale module variable finds nothing in it.
* The list is empty because somebody always works it off (`Drained`): a script
  that has registered something and has yet to reach `call_dependents`, or one
  that is in its loop. This needs that a script that registered something reaches
  its own list there although other scripts ran since (`StackOK`: only the
  innermost script is outside `call_dependents`, and `bound` still is its
  `Config`).
* `Settled` holds because a registered script that was not applied yet is pending,
  running or has its own call to come (`OwedAccounted`). The last case rests on
  the sets that `run_conditionally` looks at (`CallsKnown`): what is in
  `commit_scripts` and not in `scripts_called` is a call that has not begun.
* `FrrFollows` speaks of the end of a session; `RenderedWhenDone` of every state in
  which all replies are there.
* The refinement goes through the actions. The two that matter are `BeginCall`,
  which may clear the list only because it is empty without an error (`Drained`),
  and `CallDependent`: a deferred target is one of the calls to come, and one that
  is run is not, which takes both directions of `CallsKnown`.

The assumptions on the scripts (`ScriptsAssumption`) are what the proof needs of
the repository's scripts: one that registers dependents imports
`call_dependents`, and one that calls it only conditionally does so if it
registered something. The lemmas about `append_uniq`, `RemoveAt`, `Front` and
`SubSeq` are stated for all sequences.

`Configd_proofs` proves `ConfigdTypes`, `ScriptsRunWithTheirConfig` (`OwnConfig`),
`RenderedFromOwnConfig` (`RenderedLast`) and `DaemonNeverSurprised`
(`NeverUnexpected`), for any number of commits, scripts, timeouts, deaths and
requests of the second client. `ConfigdInv` describes the protocol from both ends:
where a shim can be and what it has been answered (`ShimInv`), which requests may
still wait in the socket and that those of processes that gave up are ahead of
the one of the process that waits (`QueueInv`), and how many of this commit's
strings the daemon has (`DaemonInv`). The crucial part is `NoInit`: a process that
has been answered knows that no older announcement is left in the queue, so
nothing can make the daemon replace its `Config` before the node arrives.
`DaemonNeverSurprised` needs a second invariant, `InStep`, that ties the daemon's
position to the shim's as long as nobody dies or interferes.

`ConfigMgmt_proofs` proves `ConfigMgmtTypes`, `LogIsTheRevisionList`
(`LogMatchesArchive`) and `RevertsToSettled` (`RevertTarget`), for any
configurations, any limit and any number of requests and failures. Both properties
speak of the moments when nobody works on the archive; `ArchiveInv` says what holds
in between:

* `TopIsRevision0`: the configuration archived last is revision 0, unless a process
  is between its move and its logrotate, or the latest archiving failed.
* `ArchivesSettled`: what has been archived, and what a process is about to archive,
  is final unless sessions overlapped (`mixed`); `OverlapIsMixed` and
  `HookArchivesRunning` are what that needs: of a timer, a commit-confirm that has
  yet to start one, a revert and a confirm there are two only in such an overlap, and
  the copy of a hook is the active configuration, because the hook holds the commit
  lock.
* As long as nothing came between log and files (`logFate = "kept"`), `LogInFlight`
  says by how much the log is ahead of the files at each step of the one process
  that works on them, and `EntryIsRunning` that a pending entry in `/tmp` is about
  the active configuration, without which `confirm` could put a wrong line into the
  log.

The conditions of the two theorems are needed: `RevisionsExist`, `OneRevisionList` and
`UnconfirmedNotArchived` drop one each and are violated.

`WwanBearer_proofs` proves `WwanTypes` and the action properties `LoopEnded`
(`LoopEndsWithFailed`) and `OperatorBearerStays` (`OperatorBearerKept`), for any
number of signals, failures, requests and lease owners. `TypeOK` is the whole
inductive invariant; the work is in the steps, which fire several transitions after
each other. The proof reduces them to one predicate on machines, `Reachable`, that
each way of firing (`Fire`, `FireIn`, `Written`, the reconciler, the watchdog)
preserves: the new machine has its type, has no retry loop if it left FAILED
(`LoopEnds`) and has not idled a requested bearer (`BearerKept`). The two exceptions
of `LoopEndsWithFailed` (`Exception`) are reached by `RetrySteps` and
`WatchdogSteps` only. `Table` is what all this needs of the transition table: only
ENTER_IDLE leads to REGISTERED_IDLE, and only CONNECTION_FAILED to FAILED.

Every inductive invariant was first checked by TLC on the instance of the
component's run.

Only model-checked is all liveness: `CallReturns`, `SessionEnds`, `CommitEnds`, and
the liveness properties of `wwan`, `failover` and `keepalived_fifo`. It rests on
fairness and ENABLED, which the prover does not handle. That the loops of
`call_dependents` end, in particular, is an induction over the dependencies that
`SessionEnds` checks for those of the instance only. The violated
properties are refuted by TLC's counterexamples and need no proof.

## Not modelled

Most of the code: of some 147,000 lines the larger part are configuration
scripts, operational commands, interface wrappers, templates, code generators and
migrations that turn a dictionary into commands or text and keep no state between
calls. They have no interleavings or histories that a model would add to, and
translating them line by line would be a copy. The map therefore covers only
a small share of the lines, those of the components that hold state.

Within the modelled components:

* `Configd`: the value of `VYOS_TAGNODE_VALUE`; `Commitd`: a session whose caches
  cannot be read (it changes nothing); `ConfigMgmt`: the remote archive and
  commit-revisions 0, which removes the hook.
* `WwanBearer`: SIM states and SIM failover, the disabled or locked modem and the
  disable and enable by which the retry loop answers it, airplane mode, reconfiguration, the
  ping monitor, the debounced signal of the bearer object, ModemManager states
  below 7, the escalations (radio cycle, hardware reset), and the end of a
  billing cycle. `DemandServed` and `InSync` therefore say nothing while one of
  these is at work.
* `Failover`: VRFs, address families, a DHCP gateway that changes its address, and
  a wall clock that jumps.
* `KeepalivedFifo`: the text of messages, and a notification split by a read.

`PROJECT.json` lists the other components with the reasons.

## Plan

Done: FRRender, Commitd, Configd, ConfigMgmt, Locking, KeepalivedFifo, BearerLease,
Failover, WwanBearer.

1. `VtiUpDown`: concurrent updates of the database by the IPsec hook and the
   scripts, against a specification with atomic updates.
2. `Hostsd`: pending and applied state, the state file, restarts.
3. `LoadBalancer`: health counters and the signal handlers that share them.
4. `RestApi`: the global lock, the self-referential commit after the response,
   background jobs, and its composition with `ConfigMgmt`.
5. `CommitWork` for `Configd`: its commits without a timeout and without a script
   that is passed through.
6. The SIM states of `WwanBearer`, in a module of their own over the bearer.
7. Proofs: with every safety property proved, the refinements of 5, and the
   safety properties of the modules to come.
