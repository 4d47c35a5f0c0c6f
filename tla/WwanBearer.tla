----------------------------- MODULE WwanBearer -----------------------------
(***************************************************************************)
(* The data bearer of one WWAN modem with one SIM: the state machine of    *)
(* vyos.utils.wwan, its asyncio tasks, the D-Bus operations of its clients *)
(* and ModemManager, whose state and signals are external.                 *)
(*                                                                         *)
(* All of this runs on one event loop: a step is the code from one await   *)
(* to the next, so what was read before an await may be stale after it.    *)
(* A reply of ModemManager is taken as current when it is handled; while   *)
(* it carries a call out, its answer may be a state in between.            *)
(* ModemManager's state is 7 (searching), 8 (registered) or 11             *)
(* (connected), 9 (disconnecting) in a signal and 9 or 10 in between.      *)
(*                                                                         *)
(* Left out: the SIM states, the disabled and the locked modem, airplane   *)
(* mode, reconfiguration, the ping monitor and the debounced signal of the *)
(* bearer object.  Whether a bearer path is known, which APN answers and   *)
(* how long anything takes are free choices.                               *)
(***************************************************************************)
EXTENDS Naturals, Sequences, FiniteSets

CONSTANTS
    Modes,          \* the connection modes looked at
    Owners,         \* clients that may hold a bearer lease
    MaxSignals,     \* bound: undelivered signals of ModemManager
    MaxEvents,      \* bound: failures of the network, of calls and of timing, and
                    \* requests of the operator and of lease owners, together
    MaxRecovery     \* max_recovery_before_sim_switch

ASSUME WwanAssumption ==
    /\ Modes \subseteq {"always-on", "connect-on-demand", "dial-on-demand"}
    /\ MaxSignals \in Nat /\ MaxEvents \in Nat /\ MaxRecovery \in Nat \ {0}

VARIABLES
    mode,       \* connection_mode
    mm,         \* ModemManager's state of the modem
    sigs,       \* its PropertiesChanged signals, not yet handled
    live,       \* owners of a live bearer lease
    m,          \* the state machine and its tasks, see Machine
    events      \* failures and requests so far

vars == <<mode, mm, sigs, live, m, events>>

States == {"SCANNING", "CONFIGURING", "CONNECTING", "CONNECTED", "DISCONNECTING",
           "DISCONNECTED", "REGISTERED_IDLE", "FAILED"}

Transient == {"CONNECTING", "DISCONNECTING", "CONFIGURING"}

\* Coroutines that run apply_modem_configuration(); "signal" stands for the
\* ones that a REGISTERED signal starts.
Callers == {"signal", "connector", "recovery", "retry"}

Machine ==
    [fsm : States,
     user : BOOLEAN,                                   \* user_disconnected
     requested : BOOLEAN,                              \* bearer_requested
     hold : BOOLEAN,                                   \* _data_limit_hold
     owns : BOOLEAN,                                   \* _lease_owns_bearer
     armed : BOOLEAN,                                  \* _lease_idle_deadline is set
     initial : {"none", "config", "dial", "park", "drop"},  \* _configure_modem_initial
     teardown : {"none", "run", "ok", "failed"},       \* _ondemand_disconnect_task
     fsweep : BOOLEAN,                                 \* _disconnect_bearer of FAILED
     connector : {"none", "wait", "apply"},            \* _ondemand_connect_task
     recovery : {"none", "sleep", "again", "verify", "drop", "settle",
                 "apply", "last", "check", "poll"},
     attempt : 0..MaxRecovery,                         \* disconnection_recovery_attempts
     retry : {"none", "sleep", "clear", "pause", "apply", "check"}, \* _failed_retry_task
     watch : {"none", "read", "join", "scan"},         \* where the watchdog is
     stuck : Transient \cup {"none"},                  \* the state it found stuck
     apply : [Callers -> {"off", "start", "dial"}]]

Init ==
    /\ mode \in Modes
    /\ mm \in {7, 8}
    /\ sigs = <<>>
    /\ live = {}
    /\ m = [fsm |-> "CONFIGURING", user |-> FALSE, requested |-> FALSE, hold |-> FALSE,
            owns |-> FALSE, armed |-> FALSE, initial |-> "config", teardown |-> "none",
            fsweep |-> FALSE, connector |-> "none", recovery |-> "none", attempt |-> 0,
            retry |-> "none", watch |-> "none", stuck |-> "none", apply |-> [t \in Callers |-> "off"]]
    /\ events = 0

-----------------------------------------------------------------------------
(* The table of transitions and transition().                              *)

Edges ==
    LET from(S, ev, to) == {<<s, ev, to>> : s \in S}
    IN  from({"CONFIGURING", "REGISTERED_IDLE", "DISCONNECTED", "FAILED"},
             "CONNECT", "CONNECTING")
        \cup from({"CONNECTING", "REGISTERED_IDLE", "DISCONNECTED", "DISCONNECTING"},
                  "CONNECTED", "CONNECTED")
        \cup from({"CONFIGURING", "CONNECTED", "CONNECTING"}, "ENTER_IDLE", "REGISTERED_IDLE")
        \cup from({"CONNECTED"}, "DISCONNECT", "DISCONNECTING")
        \cup from({"DISCONNECTING"}, "DISCONNECTED", "DISCONNECTED")
        \cup from({"DISCONNECTING"}, "CONFIG_UPDATE", "CONFIGURING")
        \cup from({"CONFIGURING", "CONNECTED", "DISCONNECTED", "FAILED", "REGISTERED_IDLE"},
                  "RECONFIGURE", "CONFIGURING")
        \cup from({"CONNECTING", "CONNECTED", "CONFIGURING", "DISCONNECTING", "DISCONNECTED",
                   "SCANNING"}, "CONNECTION_FAILED", "FAILED")
        \cup from(States \ {"SCANNING"}, "START_SCAN", "SCANNING")

\* The state that an event leads to; without an edge, transition() logs the
\* error and, in FAILED, falls back to RECONFIGURE.
Target(s, ev) ==
    IF \E e \in Edges : e[1] = s /\ e[2] = ev
    THEN (CHOOSE e \in Edges : e[1] = s /\ e[2] = ev)[3]
    ELSE IF s = "FAILED" /\ ev # "CONNECTION_FAILED" THEN "CONFIGURING" ELSE s

HasEdge(s, ev) == \E e \in Edges : e[1] = s /\ e[2] = ev

\* A cancelled task is gone, and with it the call it was in.
Stop(s, t) == [s EXCEPT ![t] = "none", !.apply[t] = "off"]

\* Mutant: leaving FAILED does not cancel the loop.
FailedRetryKept(s, to, by) ==
    IF by = "retry" \/ to # "FAILED" \/ s.fsm = "FAILED" THEN s
    ELSE [Stop(s, "retry") EXCEPT !.retry = "sleep"]

\* _start_failed_retry() and _cancel_failed_retry(), which transition() calls
\* unless the retry task itself made the transition.
FailedRetry(s, to, by) ==
    IF by = "retry" \/ (s.fsm = "FAILED") = (to = "FAILED") THEN s
    ELSE [Stop(s, "retry") EXCEPT !.retry = IF to = "FAILED" THEN "sleep" ELSE "none"]

\* transition(ev), called by the task "by".
Fire(s, ev, by) ==
    IF <<s.fsm, ev>> \in {<<"CONNECTING", "CONNECT">>, <<"CONNECTED", "CONNECTED">>} THEN s
    ELSE LET to == Target(s.fsm, ev)
             done == HasEdge(s.fsm, ev)
             r == IF done THEN FailedRetry(s, to, by) ELSE s
         IN  [r EXCEPT
                !.fsm = to,
                !.user = @ /\ ev # "CONNECT",
                !.teardown = IF ev = "ENTER_IDLE" /\ s.fsm = "CONNECTED" /\ @ # "run"
                             THEN "run" ELSE @,
                !.connector = IF /\ done /\ ev = "CONNECT" /\ @ = "none"
                                 /\ s.fsm \in {"REGISTERED_IDLE", "DISCONNECTED"}
                              THEN "wait" ELSE @,
                !.fsweep = @ \/ (to = "FAILED" /\ s.fsm # "FAILED")]

\* An event that is fired only in one state.
FireIn(s, st, ev, by) == IF s.fsm = st THEN Fire(s, ev, by) ELSE s

-----------------------------------------------------------------------------
(* ModemManager and what every step is made of.                            *)

Emit(S) == Len(sigs) + Len(S) <= MaxSignals /\ sigs' = sigs \o S

\* A failure uses up one of the MaxEvents.
Fault == events < MaxEvents /\ events' = events + 1

\* Simple.Disconnect, done.
Disconnect ==
    \/ mm = 11 /\ mm' = 8 /\ Emit(<<9, 8>>)
    \/ mm # 11 /\ UNCHANGED <<mm, sigs>>

\* A step of the daemon that leaves ModemManager and the requests alone.
Local(s) == m' = s /\ UNCHANGED <<mode, mm, sigs, live>>

\* A step that ends in a Simple.Disconnect.
Dropping(s) == m' = s /\ Disconnect /\ UNCHANGED <<mode, live>>

Quiet == UNCHANGED events

\* A connect or a disconnect of some task is under way: 10 or 9 is read.
InBetween ==
    \/ mm = 8 /\ (m.initial = "dial" \/ \E c \in Callers : m.apply[c] = "dial")
    \/ /\ mm = 11
       /\ \/ m.teardown = "run" \/ m.fsweep \/ m.initial \in {"park", "drop"}
          \/ m.recovery = "drop" \/ m.retry = "clear"

\* A sleep of seconds is over.  A signal that is still not handled then is late,
\* a failure of timing.
Slept == (sigs = <<>> /\ Quiet) \/ (sigs # <<>> /\ Fault)

\* After a sleep, a read of ModemManager's state that finds it in between or fails.
ReadsNothing == (InBetween /\ Slept) \/ Fault

\* The network drops the bearer, which stays registered, or drops the modem.
NetworkDrop ==
    /\ Fault
    /\ \/ mm = 11 /\ mm' = 8 /\ Emit(<<8>>)
       \/ mm \in {8, 11} /\ mm' = 7 /\ Emit(<<7>>)
    /\ UNCHANGED <<mode, live, m>>

\* A bearer comes up out of band, or a Simple.Connect whose caller was
\* cancelled completes after all.
OutOfBand ==
    /\ Fault
    /\ mm = 8 /\ mm' = 11 /\ Emit(<<11>>)
    /\ UNCHANGED <<mode, live, m>>

Register ==
    /\ mm = 7 /\ mm' = 8 /\ Emit(<<8>>)
    /\ UNCHANGED <<mode, live, m, events>>

-----------------------------------------------------------------------------
(* handle_modem_event().                                                   *)

\* handle_disconnection_recovery() as a new task: coalesced with a running one.
Recover(s) ==
    IF s.user \/ s.recovery # "none" THEN s ELSE [s EXCEPT !.recovery = "sleep"]

Busy(s) == s.initial # "none"

OnSearching(s) ==
    CASE s.fsm = "CONFIGURING" /\ ~Busy(s) -> Fire(s, "CONNECT", "signal")
      [] s.fsm = "CONNECTED" /\ ~s.user /\ ~Busy(s) -> Recover(Fire(s, "DISCONNECT", "signal"))
      [] OTHER -> s

\* Mutant: the loss of the bearer while CONNECTED goes unnoticed.
OnRegisteredBlind(s) ==
    LET Apply(r) == [r EXCEPT !.apply["signal"] = "start"]
        parked == mode = "connect-on-demand" /\ ~s.requested
        r == IF s.fsm \in {"FAILED", "DISCONNECTED"} THEN Fire(s, "RECONFIGURE", "signal") ELSE s
    IN  CASE s.fsm \in {"CONNECTING", "CONFIGURING"} /\ ~Busy(s) -> Apply(s)
          [] s.fsm = "DISCONNECTED" /\ parked -> Fire(r, "ENTER_IDLE", "signal")
          [] s.fsm \in {"DISCONNECTED", "REGISTERED_IDLE", "FAILED"} /\ ~parked /\ ~s.user ->
                Apply(Fire(r, "CONNECT", "signal"))
          [] OTHER -> s

OnRegistered(s) ==
    LET Apply(r) == [r EXCEPT !.apply["signal"] = "start"]
        parked == mode = "connect-on-demand" /\ ~s.requested
        r == IF s.fsm \in {"FAILED", "DISCONNECTED"} THEN Fire(s, "RECONFIGURE", "signal") ELSE s
    IN  CASE s.fsm \in {"CONNECTING", "CONFIGURING"} /\ ~Busy(s) -> Apply(s)
          [] s.fsm = "DISCONNECTED" /\ parked -> Fire(r, "ENTER_IDLE", "signal")
          [] s.fsm \in {"DISCONNECTED", "REGISTERED_IDLE", "FAILED"} /\ ~parked /\ ~s.user ->
                Apply(Fire(r, "CONNECT", "signal"))
          [] s.fsm = "CONNECTED" /\ ~s.user -> Recover(Fire(s, "DISCONNECT", "signal"))
          [] s.fsm = "DISCONNECTING" -> Recover(s)
          [] OTHER -> s

OnDisconnecting(s) ==
    IF s.fsm = "CONNECTED" THEN Recover(Fire(s, "DISCONNECT", "signal")) ELSE s

OnConnected(s) ==
    IF (s.fsm = "CONNECTING" /\ ~Busy(s)) \/ (s.fsm = "DISCONNECTING" /\ ~s.user)
    THEN Fire(s, "CONNECTED", "signal") ELSE s

\* The oldest signal.  Bound: one connection attempt of a REGISTERED signal at
\* a time; the next one takes its place.
Deliver ==
    /\ sigs # <<>>
    /\ m' = CASE Head(sigs) = 7 -> OnSearching(m)
              [] Head(sigs) = 8 -> OnRegistered(m)
              [] Head(sigs) = 9 -> OnDisconnecting(m)
              [] Head(sigs) = 11 -> OnConnected(m)
    /\ sigs' = Tail(sigs)
    /\ UNCHANGED <<mode, mm, live, events>>

-----------------------------------------------------------------------------
(* apply_modem_configuration(), and the tasks that disconnect.             *)

\* The call of c returns: its caller goes on.
Return(s, c) ==
    LET r == [s EXCEPT !.apply[c] = "off"]
    IN  CASE c = "connector" -> [r EXCEPT !.connector = "none"]
          [] c = "recovery" -> [r EXCEPT !.recovery = IF @ = "last" THEN "none" ELSE "check"]
          [] c = "retry" -> [r EXCEPT !.retry = "check"]
          [] OTHER -> r

Failed(c) == Return(Fire(m, "CONNECTION_FAILED", c), c)

\* The registration gate, then a bearer that is already up is adopted, if it
\* carries data.
ApplyStart(c) ==
    /\ m.apply[c] = "start"
    /\ \/ mm = 7 /\ Fault /\ Local(Failed(c))
       \/ mm = 8 /\ Quiet /\ Local([m EXCEPT !.apply[c] = "dial"])
       \/ /\ mm = 11 /\ Quiet
          /\ Local(Return(FireIn(FireIn(m, "CONFIGURING", "CONNECT", c),
                                "CONNECTING", "CONNECTED", c), c))
       \/ mm = 11 /\ Fault /\ m.user /\ Local(Return(m, c))
       \/ mm = 11 /\ Fault /\ ~m.user /\ Dropping(Failed(c))

\* A disconnect that outlasts a whole connection attempt is a failure of timing.
Timely ==
    \/ ~m.fsweep /\ m.teardown # "run" /\ Quiet
    \/ (m.fsweep \/ m.teardown = "run") /\ Fault

\* The APN cascade.  A success is left to the signal.
ApplyDial(c) ==
    /\ m.apply[c] = "dial"
    /\ \/ /\ mm = 8 /\ mm' = 11 /\ Emit(<<11>>)
          /\ m' = Return(m, c) /\ Timely
          /\ UNCHANGED <<mode, live>>
       \/ mm = 11 /\ Quiet /\ Local(Return(m, c))
       \/ mm = 7 /\ Quiet /\ Local(Failed(c))
       \/ Fault /\ Local(Failed(c))

\* _disconnect_bearer(): the tracked bearer, then the sweep, which may time out
\* after the former has worked.
Teardown ==
    /\ m.teardown = "run"
    /\ \/ Quiet /\ Dropping([m EXCEPT !.teardown = "ok"])
       \/ Fault /\ Dropping([m EXCEPT !.teardown = "failed"])
       \/ Fault /\ Local([m EXCEPT !.teardown = "failed"])

FailedSweep ==
    /\ m.fsweep
    /\ \/ Quiet /\ Dropping([m EXCEPT !.fsweep = FALSE])
       \/ Fault /\ Local([m EXCEPT !.fsweep = FALSE])

\* _connect_after_ondemand_disconnect() waits for the teardown; when that takes
\* too long it is left to itself, as a sweep that nobody waits for.
Connector ==
    LET r == [m EXCEPT !.teardown = "none", !.connector = "none"]
    IN  /\ m.connector = "wait"
        /\ \/ /\ m.teardown = "run" /\ Fault
              /\ Local([FireIn(r, "CONNECTING", "CONNECTION_FAILED", "connector") EXCEPT
                          !.fsweep = TRUE])
           \/ /\ m.teardown = "failed" /\ Quiet
              /\ Local(FireIn(r, "CONNECTING", "CONNECTION_FAILED", "connector"))
           \/ /\ m.teardown \in {"none", "ok"} /\ (m.fsm # "CONNECTING" \/ m.user) /\ Quiet
              /\ Local(r)
           \/ /\ m.teardown \in {"none", "ok"} /\ m.fsm = "CONNECTING" /\ ~m.user /\ Quiet
              /\ Local([r EXCEPT !.connector = "apply", !.apply["connector"] = "start"])

-----------------------------------------------------------------------------
(* handle_disconnection_recovery().                                        *)

ToConfiguring(s) ==
    FireIn(FireIn(s, "DISCONNECTING", "CONFIG_UPDATE", "recovery"),
           "DISCONNECTED", "RECONFIGURE", "recovery")

Attempt(s, phase) == [s EXCEPT !.recovery = phase, !.apply["recovery"] = "start"]

\* The recovery fails; the next one starts its count afresh.
GiveUp ==
    Fire([m EXCEPT !.recovery = "none", !.attempt = 0], "CONNECTION_FAILED", "recovery")

\* After the pause, what ModemManager says.  Connected: the tracked bearer is
\* verified, without one all are dropped, as always after a wait ("again").
RecoveryRead ==
    /\ m.recovery \in {"sleep", "again"}
    /\ \/ mm = 11 /\ m.recovery = "sleep" /\ Slept /\ Local([m EXCEPT !.recovery = "verify"])
       \/ mm = 11 /\ Slept /\ Local([m EXCEPT !.recovery = "drop"])
       \/ /\ mm = 8 /\ Slept
          /\ Local([Attempt(ToConfiguring(m), "apply") EXCEPT !.attempt = 1])
       \/ /\ mm = 7 /\ Slept
          /\ Local([FireIn(m, "DISCONNECTING", "DISCONNECTED", "recovery") EXCEPT
                      !.recovery = "poll"])
       \/ ReadsNothing /\ Local(GiveUp)

\* The bearer is up after all, or stale.
RecoveryVerify ==
    /\ m.recovery = "verify"
    /\ \/ /\ mm = 11 /\ Quiet
          /\ Local([FireIn(m, "DISCONNECTING", "CONNECTED", "recovery") EXCEPT
                      !.recovery = "none"])
       \/ ((mm # 11 /\ Quiet) \/ Fault) /\ Local([m EXCEPT !.recovery = "drop"])

\* The stale bearer is dropped, if that works; a pause; then one attempt.
RecoveryDrop ==
    LET s == [m EXCEPT !.recovery = "settle"]
    IN  m.recovery = "drop" /\ ((Quiet /\ Dropping(s)) \/ (Fault /\ Local(s)))

RecoveryRedial ==
    m.recovery = "settle" /\ Slept /\ Local(Attempt(ToConfiguring(m), "last"))

\* Mutant: one attempt too many.
RecoveryCheckMore ==
    /\ m.recovery = "check" /\ Slept /\ mm # 11 /\ m.attempt <= MaxRecovery
    /\ Local([Attempt(m, "apply") EXCEPT !.attempt = @ + 1])

\* After an attempt: done, the next one, or all are used up.
RecoveryCheck ==
    /\ m.recovery = "check"
    /\ \/ mm = 11 /\ Slept /\ Local([m EXCEPT !.recovery = "none", !.attempt = 0])
       \/ /\ mm # 11 /\ m.attempt < MaxRecovery /\ Slept
          /\ Local([Attempt(m, "apply") EXCEPT !.attempt = @ + 1])
       \/ mm # 11 /\ m.attempt = MaxRecovery /\ Slept /\ Local(GiveUp)
       \/ ReadsNothing /\ Local(GiveUp)

\* The wait for registration; a registered modem starts the recovery afresh.
RecoveryPoll ==
    /\ m.recovery = "poll"
    /\ \/ m.user /\ Slept /\ Local([m EXCEPT !.recovery = "none"])
       \/ ~m.user /\ mm # 7 /\ Slept /\ Local([m EXCEPT !.recovery = "again"])
       \/ ((mm = 7 /\ Fault) \/ (InBetween /\ Slept)) /\ Local(GiveUp)

-----------------------------------------------------------------------------
(* _failed_retry_loop(), _finalize_connected_from_signal() and             *)
(* _configure_modem_initial().                                             *)

OnDemand == mode \in {"connect-on-demand", "dial-on-demand"}

RetryWake ==
    /\ m.retry = "sleep" /\ Slept
    /\ Local([m EXCEPT !.retry = IF m.fsm # "FAILED" \/ (m.user /\ OnDemand)
                                THEN "none" ELSE "clear"])

\* The state is read and the stale bearer dropped; neither has to work.
RetryClear ==
    /\ m.retry = "clear"
    /\ \/ Quiet /\ Dropping([m EXCEPT !.retry = "pause"])
       \/ Fault /\ Local([m EXCEPT !.retry = "pause"])
       \/ Fault /\ Local([m EXCEPT !.retry = IF m.fsm = "FAILED" THEN "sleep" ELSE "none"])

\* Two seconds and the bands later: nothing is read again.
RetryConnect ==
    /\ m.retry = "pause" /\ Slept
    /\ Local([Fire(m, "CONNECT", "retry") EXCEPT !.retry = "apply", !.apply["retry"] = "start"])

RetryCheck ==
    /\ m.retry = "check" /\ Slept
    /\ Local([m EXCEPT !.retry = IF m.fsm = "FAILED" THEN "sleep" ELSE "none"])

\* The bearer carries no data.
FinalizeFails ==
    /\ m.fsm = "CONNECTED" /\ mm = 11 /\ ~m.user
    /\ Fault
    /\ Dropping(Fire(m, "CONNECTION_FAILED", "finalize"))

\* The scan found the modem; the stored configuration is applied.
ScanFound ==
    /\ m.fsm = "SCANNING" /\ Quiet
    /\ Local([m EXCEPT !.fsm = "CONFIGURING", !.initial = "config"])

\* The bearer policy; whether or not it parks the modem, dialling follows.
InitialConfig ==
    LET s == [m EXCEPT !.initial = "dial"]
        held == [s EXCEPT !.user = TRUE, !.requested = FALSE]
    IN  /\ m.initial = "config" /\ Quiet
        /\ Local(IF m.fsm # "CONFIGURING" THEN s
                 ELSE IF m.hold THEN Fire(held, "ENTER_IDLE", "initial")
                 ELSE IF mode = "connect-on-demand" /\ ~m.requested
                 THEN Fire(s, "ENTER_IDLE", "initial")
                 ELSE Fire(s, "CONNECT", "initial"))

\* The connection attempt; a bearer that nobody waits for any more is dropped
\* again, which takes a step of its own.
InitialDial ==
    LET s == [m EXCEPT !.initial = "none"]
    IN  /\ m.initial = "dial"
        /\ \/ /\ mm \in {8, 11} /\ Timely
              /\ m' = CASE m.user /\ OnDemand -> [m EXCEPT !.initial = "park"]
                        [] ~(m.user /\ OnDemand) /\ m.fsm \in {"CONNECTING", "CONNECTED"} ->
                              Fire(s, "CONNECTED", "initial")
                        [] OTHER -> [m EXCEPT !.initial = "drop"]
              /\ mm' = 11 /\ Emit(IF mm = 8 THEN <<11>> ELSE <<>>)
              /\ UNCHANGED <<mode, live>>
           \/ Fault /\ Local(Fire(s, "CONNECTION_FAILED", "initial"))

InitialDrop ==
    LET s == [m EXCEPT !.initial = "none"]
    IN  /\ m.initial \in {"park", "drop"} /\ Quiet
        /\ Dropping(IF m.initial = "park"
                    THEN FireIn(s, "CONNECTING", "ENTER_IDLE", "initial") ELSE s)

-----------------------------------------------------------------------------
(* _transient_state_watchdog().                                            *)

\* _cancel_stale_driver_tasks(): the attempt of a REGISTERED signal and the
\* sweep of FAILED are not among the tasks it knows.
CancelDrivers(s) ==
    LET r == Stop(Stop(Stop(s, "connector"), "recovery"), "retry")
    IN  [r EXCEPT !.initial = "none", !.teardown = "none"]

\* Something that is bound to move a transient state on before the deadline.
Driven ==
    \/ sigs # <<>> \/ m.initial # "none" \/ m.connector # "none" \/ m.recovery # "none"
    \/ \E c \in Callers : m.apply[c] # "off"

\* The data-limit hold suspends the watchdog until the bearer is up.
Held == m.hold /\ m.fsm # "CONNECTED"

\* Mutant: CONFIGURING has no deadline.
WatchTransientShort ==
    /\ m.watch = "none" /\ ~Held /\ m.fsm \in Transient \ {"CONFIGURING"}
    /\ (~Driven /\ Quiet) \/ (Driven /\ Fault)
    /\ IF ~m.user THEN Local([m EXCEPT !.watch = "read", !.stuck = m.fsm])
                   ELSE Local([CancelDrivers(m) EXCEPT !.watch = "join", !.stuck = m.fsm])

\* _recover_stuck_transient_state(): the deadline has passed, with nothing left
\* to wait for, or (a failure of timing) in the middle of something.
WatchTransient ==
    /\ m.watch = "none" /\ ~Held /\ m.fsm \in Transient
    /\ (~Driven /\ Quiet) \/ (Driven /\ Fault)
    /\ IF m.fsm # "CONFIGURING" /\ ~m.user
       THEN Local([m EXCEPT !.watch = "read", !.stuck = m.fsm])
       ELSE Local([CancelDrivers(m) EXCEPT !.watch = "join", !.stuck = m.fsm])

\* A modem that is connected makes it CONNECTED, whatever the state is by now;
\* otherwise the tasks are cancelled, whatever they are by now.
WatchRead ==
    /\ m.watch = "read"
    /\ \/ /\ mm = 11 /\ Quiet
          /\ Local([Fire(m, "CONNECTED", "watchdog") EXCEPT !.watch = "none", !.stuck = "none"])
       \/ /\ ((mm # 11 \/ InBetween) /\ Quiet) \/ Fault
          /\ Local([CancelDrivers(m) EXCEPT !.watch = "join"])

\* Only now is the state looked at again.
WatchJoin ==
    LET s == [m EXCEPT !.watch = "none", !.stuck = "none"]
    IN  /\ m.watch = "join" /\ Quiet
        /\ Local(IF m.fsm = m.stuck THEN Fire(s, "CONNECTION_FAILED", "watchdog") ELSE s)

\* _restart_fsm_scan(), first the tasks, then the state.
Rescan == Local([CancelDrivers(m) EXCEPT !.watch = "scan"])

WatchScan ==
    /\ m.watch = "scan" /\ Quiet
    /\ Local([Fire(m, "START_SCAN", "watchdog") EXCEPT !.watch = "none"])

DesiredUp(s) == ~s.user /\ (mode # "connect-on-demand" \/ s.requested)

Resting ==
    m.watch = "none" /\ ~Held /\ m.fsm \in {"REGISTERED_IDLE", "DISCONNECTED"}

\* Mutant: only a bearer that is up counts as a divergence.
WatchRestingUp ==
    /\ Resting /\ Quiet /\ mm = 11
    /\ Local(IF DesiredUp(m) THEN Fire(m, "CONNECTED", "watchdog")
             ELSE [m EXCEPT !.teardown = "run"])

\* _reconcile_resting_state(); another state than 8 and 11 must last.
WatchResting ==
    /\ Resting
    /\ \/ mm = 11 /\ DesiredUp(m) /\ Quiet /\ Local(Fire(m, "CONNECTED", "watchdog"))
       \/ /\ mm = 11 /\ ~DesiredUp(m) /\ m.teardown # "run" /\ Quiet
          /\ Local([m EXCEPT !.teardown = "run"])
       \/ mm = 8 /\ DesiredUp(m) /\ Quiet /\ Local(Fire(m, "CONNECT", "watchdog"))
       \/ ((mm = 7 /\ Quiet) \/ (InBetween /\ Fault)) /\ Rescan

WatchFailed ==
    /\ m.watch = "none" /\ ~Held /\ m.fsm = "FAILED" /\ m.retry = "none"
    /\ ~(m.user /\ OnDemand) /\ Quiet
    /\ Local([m EXCEPT !.retry = "sleep"])

\* The loop is at work for too long.
WatchRetry ==
    /\ m.watch = "none" /\ ~Held /\ m.fsm = "FAILED" /\ m.retry \notin {"none", "sleep"}
    /\ Fault /\ Rescan

\* The bearer came back: the hold is stale.
WatchHold ==
    /\ m.watch = "none" /\ m.hold /\ m.fsm = "CONNECTED" /\ Quiet
    /\ Local([m EXCEPT !.hold = FALSE])

-----------------------------------------------------------------------------
(* Bearer leases and the requests of clients.                              *)

\* Mutant: the operator's request is not looked at.
ReconcileGreedy(s, L) ==
    CASE mode = "always-on" -> s
      [] mode # "always-on" /\ s.hold -> [s EXCEPT !.armed = FALSE]
      [] mode # "always-on" /\ ~s.hold /\ s.fsm \in Transient \cup {"SCANNING"} -> s
      [] OTHER ->
           IF L # {}
           THEN LET r == [s EXCEPT !.owns = TRUE, !.armed = FALSE,
                                   !.user = @ /\ s.fsm = "CONNECTED"]
                IN  FireIn(r, "REGISTERED_IDLE", "CONNECT", "lease")
           ELSE IF ~s.owns \/ s.fsm # "CONNECTED"
           THEN [s EXCEPT !.owns = FALSE, !.armed = FALSE]
           ELSE IF ~s.armed THEN [s EXCEPT !.armed = TRUE]
           ELSE Fire([s EXCEPT !.armed = FALSE, !.owns = FALSE], "ENTER_IDLE", "lease")

\* _reconcile_bearer_demand() with the live leases L.
Reconcile(s, L) ==
    CASE mode = "always-on" -> s
      [] mode # "always-on" /\ s.hold -> [s EXCEPT !.armed = FALSE]
      [] mode # "always-on" /\ ~s.hold /\ s.fsm \in Transient \cup {"SCANNING"} -> s
      [] OTHER ->
           IF L # {}
           THEN LET r == [s EXCEPT !.owns = TRUE, !.armed = FALSE,
                                   !.user = @ /\ s.fsm = "CONNECTED"]
                IN  FireIn(r, "REGISTERED_IDLE", "CONNECT", "lease")
           ELSE IF ~s.owns \/ s.fsm # "CONNECTED" \/ s.requested
           THEN [s EXCEPT !.owns = FALSE, !.armed = FALSE]
           ELSE IF ~s.armed THEN [s EXCEPT !.armed = TRUE]
           ELSE Fire([s EXCEPT !.armed = FALSE, !.owns = FALSE], "ENTER_IDLE", "lease")

\* Mutant: the loop ends with the last lease.
SweepShort ==
    /\ live # {} /\ Reconcile(m, live) # m
    /\ Quiet /\ Local(Reconcile(m, live))

\* A tick of _lease_sweep_loop(), which runs while a lease or the bearer is owned.
Sweep ==
    /\ m.owns \/ live # {}
    /\ Reconcile(m, live) # m
    /\ Quiet /\ Local(Reconcile(m, live))

Lapse(o) ==
    /\ o \in live /\ live' = live \ {o}
    /\ UNCHANGED <<mode, mm, sigs, m, events>>

Request(s, L) ==
    /\ mode # "always-on" /\ Fault
    /\ m' = s /\ live' = L
    /\ UNCHANGED <<mode, mm, sigs>>

bearer_lease_acquire(o) ==
    LET L == live \cup {o} IN Request(Reconcile([m EXCEPT !.armed = FALSE], L), L)

bearer_lease_release(o) ==
    LET L == live \ {o} IN o \in live /\ Request(Reconcile(m, L), L)

\* connect() and connect_bearer(), which also connect from REGISTERED_IDLE.
connect(states) ==
    LET r == [m EXCEPT !.user = FALSE, !.requested = TRUE]
    IN  Request(IF m.fsm \in states THEN Fire(r, "CONNECT", "client") ELSE r, live)

disconnect ==
    /\ m.fsm = "CONNECTED"
    /\ Request(Fire([m EXCEPT !.user = TRUE, !.requested = FALSE], "ENTER_IDLE", "client"), live)

\* "I no longer need the bearer": a live lease keeps it.
disconnect_bearer ==
    LET r == [m EXCEPT !.requested = FALSE, !.user = @ \/ live = {}]
    IN  Request(IF live = {} THEN FireIn(r, "CONNECTED", "ENTER_IDLE", "client") ELSE r, live)

\* _handle_data_limit_disconnect(), in every mode.
DataLimit ==
    /\ m.fsm = "CONNECTED" /\ ~m.hold /\ Fault
    /\ Local(Fire([m EXCEPT !.hold = TRUE, !.user = TRUE, !.requested = FALSE],
                  "DISCONNECT", "usage"))

-----------------------------------------------------------------------------
Recovery ==
    \/ RecoveryRead \/ RecoveryVerify \/ RecoveryDrop \/ RecoveryRedial
    \/ RecoveryCheck \/ RecoveryPoll

Retry == RetryWake \/ RetryClear \/ RetryConnect \/ RetryCheck

Tasks ==
    \/ \E c \in Callers : ApplyStart(c) \/ ApplyDial(c)
    \/ Teardown \/ FailedSweep \/ Connector
    \/ Recovery \/ Retry
    \/ ScanFound \/ InitialConfig \/ InitialDial \/ InitialDrop

Watchdog ==
    \/ WatchTransient \/ WatchRead \/ WatchJoin \/ WatchScan
    \/ WatchResting \/ WatchFailed \/ WatchRetry \/ WatchHold

Environment ==
    \/ NetworkDrop \/ OutOfBand \/ Register \/ FinalizeFails \/ DataLimit
    \/ \E o \in Owners : Lapse(o) \/ bearer_lease_acquire(o) \/ bearer_lease_release(o)
    \/ connect({"FAILED", "REGISTERED_IDLE"}) \/ connect({"REGISTERED_IDLE"})
    \/ disconnect \/ disconnect_bearer

Next == Deliver \/ Tasks \/ Watchdog \/ Sweep \/ Environment

Spec == Init /\ [][Next]_vars

\* Types of the variables, and the bounds.
TypeOK ==
    /\ mode \in Modes /\ mm \in {7, 8, 11} /\ live \subseteq Owners
    /\ sigs \in Seq({7, 8, 9, 11}) /\ Len(sigs) <= MaxSignals
    /\ m \in Machine
    /\ events \in 0..MaxEvents

Fairness ==
    /\ WF_vars(Deliver) /\ WF_vars(Register) /\ WF_vars(Sweep)
    /\ \A c \in Callers : WF_vars(ApplyStart(c) \/ ApplyDial(c))
    /\ WF_vars(Teardown) /\ WF_vars(FailedSweep) /\ WF_vars(Connector)
    /\ WF_vars(Recovery) /\ WF_vars(Retry)
    /\ WF_vars(ScanFound \/ InitialConfig \/ InitialDial \/ InitialDrop)
    /\ WF_vars(Watchdog)

FairSpec == Spec /\ Fairness

-----------------------------------------------------------------------------
(* Properties.                                                             *)

\* "Cancel retry task when leaving FAILED state (but not when the retry loop
\* itself triggers the transition)" (transition()): before its CONNECT the loop
\* exists only while the state is FAILED.
RetryOwnsFailed == m.retry \in {"sleep", "clear", "pause"} => m.fsm = "FAILED"

\* A step that leaves FAILED ends the retry loop, so that no old loop drops and
\* redials a newer connection.  Two may leave it running: the loop's own CONNECT,
\* and a CONNECTED that the watchdog fires after a read which FAILED has
\* overtaken.
LoopEndsWithFailed ==
    [][m.fsm = "FAILED" /\ m'.fsm # "FAILED" /\ m'.retry # "none" =>
        \/ m.retry = "pause" /\ m'.retry = "apply"
        \/ m.watch = "read" /\ m'.fsm = "CONFIGURING"]_vars

\* "a bearer the existing FSM logic brought up -- dial-on-demand's
\* connect-at-boot, an operator connect_bearer() -- is never torn down by it"
\* (_reconcile_bearer_demand()), here the operator's half: a connected bearer
\* that the operator asked for is idled only by a step that withdraws the
\* request.
OperatorBearerKept ==
    [][m.requested /\ m.fsm = "CONNECTED" /\ m'.fsm = "REGISTERED_IDLE" => ~m'.requested]_vars

\* No transient state lasts, whatever signal was lost, ignored or late: the
\* task that drives it or the watchdog ends it.  The data-limit hold, which
\* suspends the watchdog, is excepted.
Settles == []<>(m.fsm \notin Transient \/ m.hold)

Demand == DesiredUp(m) \/ (~m.user /\ live # {})

\* A bearer that is wanted from some time on is up from some time on: the
\* recovery, the retry loop, the watchdog, the handlers of signals and the
\* lease reconciler do not undo each other's work for ever.
DemandServed ==
    <>[](Demand /\ ~m.hold) => <>[](m.fsm = "CONNECTED" /\ mm = 11)

\* The state machine agrees with ModemManager about the bearer in the end,
\* unless a disconnect or a data-limit hold stands.
InSync ==
    <>[](~m.user /\ ~m.hold) => <>[](m.fsm = "CONNECTED" <=> mm = 11)

\* The reconciler does not stay the owner of a bearer nobody leases: it idles
\* it or hands it back, in whatever state the expiry of the lease met it.
OwnershipEnds == []<>(~m.owns \/ live # {} \/ m.hold)

\* What bearer_lease.py says of connect-on-demand: IDLE without demand.  A
\* lapsed lease leaves no bearer behind.
IdleOtherwise ==
    <>[](mode = "connect-on-demand" /\ ~m.requested /\ live = {} /\ ~m.user)
        => <>[](mm # 11)

\* What disconnect_bearer() says of its flag: only a connect of a client, or
\* the demand of a lease, clears it.
DisconnectStands ==
    [][m.user /\ ~m'.user =>
        \/ live' # {}
        \/ connect({"FAILED", "REGISTERED_IDLE"}) \/ connect({"REGISTERED_IDLE"})]_vars

=============================================================================
