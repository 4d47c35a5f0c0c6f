-------------------------- MODULE WwanBearer_proofs --------------------------
(***************************************************************************)
(* The state machine of the modem: what becomes of the retry loop when     *)
(* FAILED is left, and of the operator's bearer, for any number of         *)
(* signals, failures, requests and lease owners.                           *)
(***************************************************************************)
EXTENDS WwanBearer, SequenceTheorems, TLAPS

\* What LoopEndsWithFailed says of a step to the machine s, without its two
\* exceptions.
LoopEnds(s) == m.fsm = "FAILED" /\ s.fsm # "FAILED" => s.retry = "none"

\* What OperatorBearerKept says of a step to the machine s.
BearerKept(s) ==
    m.requested /\ m.fsm = "CONNECTED" /\ s.fsm = "REGISTERED_IDLE" => ~s.requested

\* A machine that this step may lead to, or pass through.
Reachable(s) == s \in Machine /\ LoopEnds(s) /\ BearerKept(s)

\* The events that FAILED ignores, or has an edge for that ends the loop when
\* anybody but the loop itself fires them.
Handled(s, ev, by) ==
    s.fsm = "FAILED" =>
        \/ ev = "CONNECTION_FAILED"
        \/ by # "retry" /\ ev \in {"CONNECT", "RECONFIGURE", "START_SCAN"}

-----------------------------------------------------------------------------
\* What the table of transitions says of FAILED and REGISTERED_IDLE.
LEMMA Table ==
    ASSUME NEW st \in States, NEW ev
    PROVE  /\ Target(st, ev) \in States
           /\ Target(st, ev) = "REGISTERED_IDLE" => st = "REGISTERED_IDLE" \/ ev = "ENTER_IDLE"
           /\ Target(st, ev) = "FAILED" => st = "FAILED" \/ ev = "CONNECTION_FAILED"
           /\ HasEdge("FAILED", ev) <=> ev \in {"CONNECT", "RECONFIGURE", "START_SCAN"}
           /\ ~HasEdge(st, ev) /\ st # "FAILED" => Target(st, ev) = st
           /\ st = "FAILED" /\ ev = "CONNECTION_FAILED" => Target(st, ev) = st
           /\ st = "FAILED" /\ ~HasEdge(st, ev) /\ ev # "CONNECTION_FAILED"
                => Target(st, ev) = "CONFIGURING"
<1>1. \A e \in Edges : e[3] \in States
  BY DEF Edges, States
<1>2. \A e \in Edges : e[3] = "REGISTERED_IDLE" => e[2] = "ENTER_IDLE"
  BY DEF Edges, States
<1>8. \A e \in Edges : e[3] = "FAILED" => e[2] = "CONNECTION_FAILED"
  BY DEF Edges, States
<1>3. \A e \in Edges : e[1] = "FAILED" => e[2] \in {"CONNECT", "RECONFIGURE", "START_SCAN"}
  BY DEF Edges, States
<1>4. \A x \in {"CONNECT", "RECONFIGURE", "START_SCAN"} : \E e \in Edges : e[1] = "FAILED" /\ e[2] = x
  <2>1. <<"FAILED", "CONNECT", "CONNECTING">> \in Edges
    BY DEF Edges
  <2>2. <<"FAILED", "RECONFIGURE", "CONFIGURING">> \in Edges
    BY DEF Edges
  <2>3. <<"FAILED", "START_SCAN", "SCANNING">> \in Edges
    BY DEF Edges, States
  <2> QED BY <2>1, <2>2, <2>3
<1>5. HasEdge("FAILED", ev) <=> ev \in {"CONNECT", "RECONFIGURE", "START_SCAN"}
  BY <1>3, <1>4 DEF HasEdge
<1>6. CASE HasEdge(st, ev)
  <2>1. PICK e \in Edges : e[1] = st /\ e[2] = ev /\ Target(st, ev) = e[3]
    BY <1>6 DEF HasEdge, Target
  <2>2. e[3] \in States
    BY <1>1
  <2> QED BY <1>2, <1>8, <1>5, <1>6, <2>1, <2>2
<1>7. CASE ~HasEdge(st, ev)
  <2>1. Target(st, ev) = IF st = "FAILED" /\ ev # "CONNECTION_FAILED" THEN "CONFIGURING" ELSE st
    BY <1>7 DEF HasEdge, Target
  <2> QED BY <1>5, <1>7, <2>1 DEF States
<1> QED BY <1>6, <1>7

\* Cancelling a task.
LEMMA StopKeeps ==
    ASSUME NEW s \in Machine, NEW t \in {"connector", "recovery", "retry"}
    PROVE  /\ Stop(s, t) \in Machine
           /\ Stop(s, t).fsm = s.fsm /\ Stop(s, t).requested = s.requested
           /\ Stop(s, t).retry = IF t = "retry" THEN "none" ELSE s.retry
  BY DEF Stop, Machine, Callers

\* What transition() does with the loop of FAILED.
LEMMA FailedRetryKeeps ==
    ASSUME NEW s \in Machine, NEW to, NEW by
    PROVE  LET r == FailedRetry(s, to, by) IN
           /\ r \in Machine /\ r.fsm = s.fsm /\ r.requested = s.requested
           /\ by = "retry" => r.retry = s.retry
           /\ by # "retry" /\ s.fsm = "FAILED" /\ to = "FAILED" => r.retry = s.retry
           /\ by # "retry" /\ s.fsm = "FAILED" /\ to # "FAILED" => r.retry = "none"
           /\ by # "retry" /\ s.fsm # "FAILED" /\ to # "FAILED" => r.retry = s.retry
<1>1. CASE by = "retry" \/ (s.fsm = "FAILED") = (to = "FAILED")
  BY <1>1 DEF FailedRetry
<1>2. CASE ~(by = "retry" \/ (s.fsm = "FAILED") = (to = "FAILED"))
  <2>1. /\ Stop(s, "retry") \in Machine
        /\ Stop(s, "retry").fsm = s.fsm /\ Stop(s, "retry").requested = s.requested
    BY StopKeeps
  <2>2. FailedRetry(s, to, by) =
          [Stop(s, "retry") EXCEPT !.retry = IF to = "FAILED" THEN "sleep" ELSE "none"]
    BY <1>2 DEF FailedRetry
  <2> QED BY <1>2, <2>1, <2>2 DEF Machine
<1> QED BY <1>1, <1>2

\* The fields that transition() writes.
Written(r, to, u, t, c, w) ==
    [r EXCEPT !.fsm = to, !.user = u, !.teardown = t, !.connector = c, !.fsweep = w]

TeardownPhases == {"none", "run", "ok", "failed"}
ConnectorPhases == {"none", "wait", "apply"}

LEMMA WrittenKeeps ==
    ASSUME NEW r \in Machine, NEW to \in States, NEW u \in BOOLEAN, NEW w \in BOOLEAN,
           NEW t \in TeardownPhases, NEW c \in ConnectorPhases
    PROVE  Written(r, to, u, t, c, w) \in Machine
<1> DEFINE a == [r EXCEPT !.fsm = to]
           b == [a EXCEPT !.user = u]
           d == [b EXCEPT !.teardown = t]
           e == [d EXCEPT !.connector = c]
           f == [e EXCEPT !.fsweep = w]
<1>1. a \in Machine
  BY DEF Machine
<1>2. b \in Machine
  <2> HIDE DEF a
  <2> QED BY <1>1 DEF Machine
<1>3. d \in Machine
  <2> HIDE DEF b
  <2> QED BY <1>2 DEF Machine, TeardownPhases
<1>4. e \in Machine
  <2> HIDE DEF d
  <2> QED BY <1>3 DEF Machine, ConnectorPhases
<1>5. f \in Machine
  <2> HIDE DEF e
  <2> QED BY <1>4 DEF Machine
<1>6. Written(r, to, u, t, c, w) = f
  BY DEF Written
<1> QED BY <1>5, <1>6, Zenon

\* transition() as a whole.
LEMMA FireKeeps ==
    ASSUME NEW s \in Machine, NEW ev, NEW by
    PROVE  /\ Fire(s, ev, by) \in Machine
           /\ Fire(s, ev, by).requested = s.requested
           /\ Fire(s, ev, by).fsm = "REGISTERED_IDLE"
                => s.fsm = "REGISTERED_IDLE" \/ ev = "ENTER_IDLE"
           /\ Fire(s, ev, by).fsm = "FAILED" => s.fsm = "FAILED" \/ ev = "CONNECTION_FAILED"
           /\ Handled(s, ev, by) /\ LoopEnds(s) => LoopEnds(Fire(s, ev, by))
           /\ s.fsm = "FAILED" /\ ev = "CONNECTED" => Fire(s, ev, by).fsm = "CONFIGURING"
           /\ s.fsm = "FAILED" /\ ev = "CONNECTION_FAILED" => Fire(s, ev, by).fsm = "FAILED"
<1>1. CASE <<s.fsm, ev>> \in {<<"CONNECTING", "CONNECT">>, <<"CONNECTED", "CONNECTED">>}
  <2>1. Fire(s, ev, by) = s
    BY <1>1 DEF Fire
  <2> QED BY <1>1, <2>1
<1>2. CASE <<s.fsm, ev>> \notin {<<"CONNECTING", "CONNECT">>, <<"CONNECTED", "CONNECTED">>}
  <2> DEFINE to == Target(s.fsm, ev)
             done == HasEdge(s.fsm, ev)
             r == IF done THEN FailedRetry(s, to, by) ELSE s
             u == r.user /\ ev # "CONNECT"
             t == IF ev = "ENTER_IDLE" /\ s.fsm = "CONNECTED" /\ r.teardown # "run"
                  THEN "run" ELSE r.teardown
             c == IF /\ done /\ ev = "CONNECT" /\ r.connector = "none"
                     /\ s.fsm \in {"REGISTERED_IDLE", "DISCONNECTED"}
                  THEN "wait" ELSE r.connector
             w == r.fsweep \/ (to = "FAILED" /\ s.fsm # "FAILED")
  <2>1. Fire(s, ev, by) = [r EXCEPT !.fsm = to, !.user = u, !.teardown = t,
                                    !.connector = c, !.fsweep = w]
    BY <1>2 DEF Fire
  <2>2. s.fsm \in States
    BY DEF Machine
  <2>3. r \in Machine /\ r.requested = s.requested
    BY FailedRetryKeeps
  <2>4. /\ to \in States
        /\ to = "REGISTERED_IDLE" => s.fsm = "REGISTERED_IDLE" \/ ev = "ENTER_IDLE"
        /\ to = "FAILED" => s.fsm = "FAILED" \/ ev = "CONNECTION_FAILED"
    BY <2>2, Table
  <2>5. ASSUME Handled(s, ev, by), LoopEnds(s), m.fsm = "FAILED", to # "FAILED"
        PROVE  r.retry = "none"
    <3>1. CASE s.fsm = "FAILED"
      <4>1. by # "retry" /\ ev \in {"CONNECT", "RECONFIGURE", "START_SCAN"}
        BY <2>2, <2>5, <3>1, Table DEF Handled
      <4>2. done
        BY <2>2, <3>1, <4>1, Table
      <4> QED BY <2>5, <3>1, <4>1, <4>2, FailedRetryKeeps
    <3>2. CASE s.fsm # "FAILED"
      <4>1. s.retry = "none"
        BY <2>5, <3>2 DEF LoopEnds
      <4> QED BY <2>5, <3>2, <4>1, FailedRetryKeeps
    <3> QED BY <3>1, <3>2
  <2>12. /\ s.fsm = "FAILED" /\ ev = "CONNECTED" => to = "CONFIGURING"
         /\ s.fsm = "FAILED" /\ ev = "CONNECTION_FAILED" => to = "FAILED"
    BY <2>2, Table
  <2>6. u \in BOOLEAN /\ w \in BOOLEAN
    OBVIOUS
  <2>7. t \in TeardownPhases /\ c \in ConnectorPhases
    BY <2>3 DEF Machine, TeardownPhases, ConnectorPhases
  <2> HIDE DEF to, done, r, u, t, c, w
  <2>8. Fire(s, ev, by) = Written(r, to, u, t, c, w)
    BY <2>1 DEF Written
  <2>9. Written(r, to, u, t, c, w) \in Machine
    BY <2>3, <2>4, <2>6, <2>7, WrittenKeeps, Zenon
  <2>10. /\ Written(r, to, u, t, c, w).fsm = to
         /\ Written(r, to, u, t, c, w).requested = r.requested
         /\ Written(r, to, u, t, c, w).retry = r.retry
    BY <2>3 DEF Written, Machine
  <2> DEFINE f == Written(r, to, u, t, c, w)
  <2> HIDE DEF f
  <2>11. /\ Fire(s, ev, by) = f
         /\ f \in Machine /\ f.fsm = to /\ f.requested = r.requested /\ f.retry = r.retry
    BY <2>8, <2>9, <2>10 DEF f
  <2> QED BY <2>3, <2>4, <2>5, <2>11, <2>12 DEF LoopEnds
<1> QED BY <1>1, <1>2

-----------------------------------------------------------------------------
\* Idling a bearer is legal unless it takes an operator's bearer away.
MayIdle(s) == ~s.requested \/ ~(m.requested /\ m.fsm = "CONNECTED")

\* transition(), called with an event that the state has an edge for.
LEMMA FireReaches ==
    ASSUME NEW s, Reachable(s), NEW ev, NEW by, Handled(s, ev, by),
           ev = "ENTER_IDLE" => MayIdle(s)
    PROVE  /\ Reachable(Fire(s, ev, by)) /\ Fire(s, ev, by).requested = s.requested
           /\ Fire(s, ev, by).fsm = "FAILED" => s.fsm = "FAILED" \/ ev = "CONNECTION_FAILED"
<1>1. s \in Machine
  BY DEF Reachable
<1> DEFINE f == Fire(s, ev, by)
<1>2. /\ f \in Machine /\ f.requested = s.requested
      /\ f.fsm = "REGISTERED_IDLE" => s.fsm = "REGISTERED_IDLE" \/ ev = "ENTER_IDLE"
      /\ f.fsm = "FAILED" => s.fsm = "FAILED" \/ ev = "CONNECTION_FAILED"
      /\ LoopEnds(f)
  BY <1>1, FireKeeps DEF Reachable
<1> HIDE DEF f
<1>3. BearerKept(f)
  BY <1>2 DEF Reachable, BearerKept, MayIdle
<1> QED BY <1>2, <1>3 DEF Reachable, f

\* transition(), called with any other event.
LEMMA FireKeepsBearer ==
    ASSUME NEW s \in Machine, BearerKept(s), NEW ev, ev # "ENTER_IDLE", NEW by
    PROVE  Fire(s, ev, by) \in Machine /\ BearerKept(Fire(s, ev, by))
<1> DEFINE f == Fire(s, ev, by)
<1>2. /\ f \in Machine /\ f.requested = s.requested
      /\ f.fsm = "REGISTERED_IDLE" => s.fsm = "REGISTERED_IDLE" \/ ev = "ENTER_IDLE"
  BY FireKeeps
<1> HIDE DEF f
<1>3. BearerKept(f)
  BY <1>2 DEF BearerKept
<1> QED BY <1>2, <1>3 DEF f

\* A step that does not change the state.
LEMMA QuietReaches ==
    ASSUME Reachable(m), NEW s \in Machine, s.fsm = m.fsm
    PROVE  Reachable(s)
  BY DEF Reachable, LoopEnds, BearerKept

LEMMA FireInReaches ==
    ASSUME NEW s, Reachable(s), NEW st, st # "FAILED", NEW ev, ev = "ENTER_IDLE" => MayIdle(s),
           NEW by
    PROVE  Reachable(FireIn(s, st, ev, by)) /\ FireIn(s, st, ev, by).requested = s.requested
<1>1. CASE s.fsm = st
  <2>1. Handled(s, ev, by)
    BY <1>1 DEF Handled
  <2> QED BY <1>1, <2>1, FireReaches DEF FireIn
<1>2. CASE s.fsm # st
  BY <1>2 DEF FireIn
<1> QED BY <1>1, <1>2

\* Steps of a task that change neither the state nor the request.
LEMMA RecoverReaches ==
    ASSUME NEW s, Reachable(s)
    PROVE  Reachable(Recover(s))
<1>1. CASE s.user \/ s.recovery # "none"
  BY <1>1, Zenon DEF Recover
<1>2. CASE ~(s.user \/ s.recovery # "none")
  <2>1. Recover(s) = [s EXCEPT !.recovery = "sleep"]
    BY <1>2, Zenon DEF Recover
  <2>2. [s EXCEPT !.recovery = "sleep"] \in Machine
    BY DEF Reachable, Machine
  <2> QED BY <2>1, <2>2 DEF Reachable, Machine, LoopEnds, BearerKept
<1> QED BY <1>1, <1>2

LEMMA AttemptReaches ==
    ASSUME NEW s, Reachable(s), NEW phase \in {"apply", "last"}
    PROVE  Reachable(Attempt(s, phase))
<1>1. Attempt(s, phase) \in Machine
  BY DEF Attempt, Reachable, Machine, Callers
<1> QED BY <1>1 DEF Attempt, Reachable, Machine, LoopEnds, BearerKept

\* The call of apply_modem_configuration() returns.
LEMMA ReturnReaches ==
    ASSUME NEW s, Reachable(s), NEW c \in Callers,
           c = "retry" /\ m.fsm = "FAILED" => s.fsm = "FAILED"
    PROVE  Reachable(Return(s, c))
<1> DEFINE r == [s EXCEPT !.apply[c] = "off"]
<1>1. r \in Machine /\ r.fsm = s.fsm /\ r.requested = s.requested /\ r.retry = s.retry
  BY DEF Reachable, Machine
<1>2. Return(s, c) =
        CASE c = "connector" -> [r EXCEPT !.connector = "none"]
          [] c = "recovery" -> [r EXCEPT !.recovery = IF r.recovery = "last" THEN "none" ELSE "check"]
          [] c = "retry" -> [r EXCEPT !.retry = "check"]
          [] OTHER -> r
  BY DEF Return
<1> HIDE DEF r
<1>3. CASE c = "connector"
  <2>1. Return(s, c) = [r EXCEPT !.connector = "none"]
    BY <1>2, <1>3
  <2>2. [r EXCEPT !.connector = "none"] \in Machine
    BY <1>1 DEF Machine
  <2> QED BY <1>1, <1>3, <2>1, <2>2 DEF Reachable, Machine, LoopEnds, BearerKept
<1>4. CASE c = "recovery"
  <2> DEFINE p == IF r.recovery = "last" THEN "none" ELSE "check"
  <2>1. Return(s, c) = [r EXCEPT !.recovery = p]
    BY <1>2, <1>4
  <2>2. [r EXCEPT !.recovery = p] \in Machine
    BY <1>1 DEF Machine
  <2> QED BY <1>1, <1>4, <2>1, <2>2 DEF Reachable, Machine, LoopEnds, BearerKept
<1>5. CASE c = "retry"
  <2>1. Return(s, c) = [r EXCEPT !.retry = "check"]
    BY <1>2, <1>5
  <2>2. [r EXCEPT !.retry = "check"] \in Machine
    BY <1>1 DEF Machine
  <2> QED BY <1>1, <1>5, <2>1, <2>2 DEF Reachable, Machine, LoopEnds, BearerKept
<1>6. CASE c = "signal"
  <2>1. Return(s, c) = r
    BY <1>2, <1>6
  <2> QED BY <1>1, <1>6, <2>1 DEF Reachable, LoopEnds, BearerKept
<1> QED BY <1>3, <1>4, <1>5, <1>6 DEF Callers

LEMMA CancelDriversReaches ==
    ASSUME NEW s, Reachable(s)
    PROVE  Reachable(CancelDrivers(s))
<1>1. s \in Machine
  BY DEF Reachable
<1> DEFINE a == Stop(s, "connector")
           b == Stop(a, "recovery")
           c == Stop(b, "retry")
<1>2. a \in Machine /\ a.fsm = s.fsm /\ a.requested = s.requested /\ a.retry = s.retry
  BY <1>1, StopKeeps
<1> HIDE DEF a
<1>3. b \in Machine /\ b.fsm = s.fsm /\ b.requested = s.requested /\ b.retry = s.retry
  BY <1>2, StopKeeps
<1> HIDE DEF b
<1>4. c \in Machine /\ c.fsm = s.fsm /\ c.requested = s.requested /\ c.retry = "none"
  BY <1>3, StopKeeps
<1>5. CancelDrivers(s) = [c EXCEPT !.initial = "none", !.teardown = "none"]
  BY DEF CancelDrivers, a, b
<1> HIDE DEF c
<1>6. [c EXCEPT !.initial = "none", !.teardown = "none"] \in Machine
  BY <1>4 DEF Machine
<1> QED BY <1>4, <1>5, <1>6 DEF Reachable, Machine, LoopEnds, BearerKept

LEMMA ToConfiguringReaches ==
    ASSUME NEW s, Reachable(s)
    PROVE  Reachable(ToConfiguring(s))
<1>1. Reachable(FireIn(s, "DISCONNECTING", "CONFIG_UPDATE", "recovery"))
  BY FireInReaches
<1> QED BY <1>1, FireInReaches DEF ToConfiguring

\* handle_modem_event() in its four branches.
LEMMA SignalReaches ==
    ASSUME NEW s, Reachable(s)
    PROVE  /\ Reachable(OnSearching(s)) /\ Reachable(OnRegistered(s))
           /\ Reachable(OnDisconnecting(s)) /\ Reachable(OnConnected(s))
<1>1. ASSUME s.fsm = "CONNECTED"
      PROVE  Reachable(Recover(Fire(s, "DISCONNECT", "signal")))
  BY <1>1, FireReaches, RecoverReaches DEF Handled
<1>2. Reachable(OnSearching(s))
  <2>1. CASE s.fsm = "CONFIGURING" /\ ~Busy(s)
    <3>1. Reachable(Fire(s, "CONNECT", "signal"))
      BY FireReaches DEF Handled
    <3> QED BY <2>1, <3>1, Zenon DEF OnSearching
  <2>2. CASE s.fsm = "CONNECTED" /\ ~s.user /\ ~Busy(s)
    <3>1. OnSearching(s) = Recover(Fire(s, "DISCONNECT", "signal"))
      BY <2>2 DEF OnSearching
    <3> QED BY <1>1, <2>2, <3>1
  <2>3. CASE /\ ~(s.fsm = "CONFIGURING" /\ ~Busy(s))
             /\ ~(s.fsm = "CONNECTED" /\ ~s.user /\ ~Busy(s))
    BY <2>3, Zenon DEF OnSearching
  <2> QED BY <2>1, <2>2, <2>3
<1>3. Reachable(OnDisconnecting(s))
  BY <1>1 DEF OnDisconnecting
<1>4. Reachable(OnConnected(s))
  <2>1. CASE (s.fsm = "CONNECTING" /\ ~Busy(s)) \/ (s.fsm = "DISCONNECTING" /\ ~s.user)
    <3>1. Reachable(Fire(s, "CONNECTED", "signal"))
      BY <2>1, FireReaches DEF Handled
    <3> QED BY <2>1, <3>1, Zenon DEF OnConnected
  <2>2. CASE ~((s.fsm = "CONNECTING" /\ ~Busy(s)) \/ (s.fsm = "DISCONNECTING" /\ ~s.user))
    BY <2>2, Zenon DEF OnConnected
  <2> QED BY <2>1, <2>2
<1> DEFINE Apply(r) == [r EXCEPT !.apply["signal"] = "start"]
           parked == mode = "connect-on-demand" /\ ~s.requested
           r == IF s.fsm \in {"FAILED", "DISCONNECTED"} THEN Fire(s, "RECONFIGURE", "signal") ELSE s
<1>5. ASSUME NEW t, Reachable(t) PROVE Reachable(Apply(t))
  <2>1. Apply(t) \in Machine
    BY <1>5 DEF Reachable, Machine, Callers
  <2> QED BY <1>5, <2>1 DEF Reachable, Machine, LoopEnds, BearerKept
<1>6. Reachable(r) /\ r.requested = s.requested /\ (r.fsm = "FAILED" => s.fsm = "FAILED")
  <2>1. CASE s.fsm \in {"FAILED", "DISCONNECTED"}
    BY <2>1, FireReaches DEF Handled
  <2>2. CASE s.fsm \notin {"FAILED", "DISCONNECTED"}
    BY <2>2
  <2> QED BY <2>1, <2>2
<1>7. OnRegistered(s) =
        CASE s.fsm \in {"CONNECTING", "CONFIGURING"} /\ ~Busy(s) -> Apply(s)
          [] s.fsm = "DISCONNECTED" /\ parked -> Fire(r, "ENTER_IDLE", "signal")
          [] s.fsm \in {"DISCONNECTED", "REGISTERED_IDLE", "FAILED"} /\ ~parked /\ ~s.user ->
                Apply(Fire(r, "CONNECT", "signal"))
          [] s.fsm = "CONNECTED" /\ ~s.user -> Recover(Fire(s, "DISCONNECT", "signal"))
          [] s.fsm = "DISCONNECTING" -> Recover(s)
          [] OTHER -> s
  BY DEF OnRegistered
<1>8. Reachable(Apply(Fire(r, "CONNECT", "signal")))
  BY <1>5, <1>6, FireReaches DEF Handled
<1>9. ASSUME s.fsm = "DISCONNECTED", parked
      PROVE  Reachable(Fire(r, "ENTER_IDLE", "signal"))
  BY <1>6, <1>9, FireReaches DEF Handled, MayIdle
<1>10. Reachable(Apply(s)) /\ Reachable(Recover(s))
  BY <1>5, RecoverReaches
<1> HIDE DEF Apply, r
<1>11. Reachable(OnRegistered(s))
  <2>1. CASE s.fsm \in {"CONNECTING", "CONFIGURING"}
    BY <1>7, <1>10, <2>1
  <2>2. CASE s.fsm = "DISCONNECTED"
    BY <1>7, <1>8, <1>9, <2>2
  <2>3. CASE s.fsm \in {"REGISTERED_IDLE", "FAILED"}
    BY <1>7, <1>8, <2>3
  <2>4. CASE s.fsm = "CONNECTED"
    BY <1>1, <1>7, <2>4
  <2>5. CASE s.fsm = "DISCONNECTING"
    BY <1>7, <1>10, <2>5
  <2>6. CASE s.fsm = "SCANNING"
    BY <1>7, <2>6
  <2> QED BY <2>1, <2>2, <2>3, <2>4, <2>5, <2>6 DEF Reachable, Machine, States
<1> QED BY <1>2, <1>3, <1>4, <1>11

\* The lease reconciler idles a bearer only if the operator did not ask for it.
LEMMA ReconcileReaches ==
    ASSUME NEW s, Reachable(s), NEW L
    PROVE  Reachable(Reconcile(s, L))
<1>1. s \in Machine
  BY DEF Reachable
<1> DEFINE r == [s EXCEPT !.owns = TRUE, !.armed = FALSE, !.user = @ /\ s.fsm = "CONNECTED"]
           a == [s EXCEPT !.armed = FALSE]
           b == [s EXCEPT !.owns = FALSE, !.armed = FALSE]
           c == [s EXCEPT !.armed = TRUE]
           d == [s EXCEPT !.armed = FALSE, !.owns = FALSE]
<1>2. Reachable(r)
  <2>1. r \in Machine
    BY <1>1 DEF Machine
  <2> QED BY <2>1 DEF Reachable, Machine, LoopEnds, BearerKept
<1>3. Reachable(a)
  <2>1. a \in Machine
    BY <1>1 DEF Machine
  <2> QED BY <2>1 DEF Reachable, Machine, LoopEnds, BearerKept
<1>4. Reachable(b)
  <2>1. b \in Machine
    BY <1>1 DEF Machine
  <2> QED BY <2>1 DEF Reachable, Machine, LoopEnds, BearerKept
<1>5. Reachable(c)
  <2>1. c \in Machine
    BY <1>1 DEF Machine
  <2> QED BY <2>1 DEF Reachable, Machine, LoopEnds, BearerKept
<1>6. Reachable(d) /\ d.fsm = s.fsm /\ d.requested = s.requested
  <2>1. d \in Machine
    BY <1>1 DEF Machine
  <2> QED BY <2>1 DEF Reachable, Machine, LoopEnds, BearerKept
<1>7. Reachable(FireIn(r, "REGISTERED_IDLE", "CONNECT", "lease"))
  BY <1>2, FireInReaches
<1>8. ASSUME s.fsm = "CONNECTED", ~s.requested
      PROVE  Reachable(Fire(d, "ENTER_IDLE", "lease"))
  BY <1>6, <1>8, FireReaches DEF Handled, MayIdle
<1>9. \/ Reconcile(s, L) = s \/ Reconcile(s, L) = a
      \/ Reconcile(s, L) = FireIn(r, "REGISTERED_IDLE", "CONNECT", "lease")
      \/ Reconcile(s, L) = b \/ Reconcile(s, L) = c
      \/ /\ Reconcile(s, L) = Fire(d, "ENTER_IDLE", "lease")
         /\ s.fsm = "CONNECTED" /\ ~s.requested
  BY DEF Reconcile
<1> HIDE DEF r, a, b, c, d
<1> QED BY <1>3, <1>4, <1>5, <1>7, <1>8, <1>9

-----------------------------------------------------------------------------
(* The steps: where each leads the machine.                                *)

LEMMA SignalSteps ==
    ASSUME Reachable(m), sigs # <<>>, Head(sigs) \in {7, 8, 9, 11}, Deliver
    PROVE  Reachable(m')
<1>1. m' \in {OnSearching(m), OnRegistered(m), OnDisconnecting(m), OnConnected(m)}
  BY DEF Deliver
<1> QED BY <1>1, SignalReaches

LEMMA ApplySteps ==
    ASSUME Reachable(m), NEW c \in Callers, ApplyStart(c) \/ ApplyDial(c)
    PROVE  Reachable(m')
<1> DEFINE fail == Fire(m, "CONNECTION_FAILED", c)
<1>1. Reachable(Failed(c))
  <2>1. m \in Machine /\ m.fsm \in States
    BY DEF Reachable, Machine
  <2>2. Reachable(fail)
    BY FireReaches DEF Handled
  <2>3. m.fsm = "FAILED" => fail.fsm = "FAILED"
    BY <2>1, FireKeeps
  <2> HIDE DEF fail
  <2>4. Reachable(Return(fail, c))
    BY <2>2, <2>3, ReturnReaches
  <2> QED BY <2>4 DEF Failed, fail
<1>2. Reachable(Return(m, c))
  BY ReturnReaches
<1>3. Reachable([m EXCEPT !.apply[c] = "dial"])
  <2>1. [m EXCEPT !.apply[c] = "dial"] \in Machine
    BY DEF Reachable, Machine
  <2> QED BY <2>1 DEF Reachable, Machine, LoopEnds, BearerKept
<1>4. Reachable(Return(FireIn(FireIn(m, "CONFIGURING", "CONNECT", c),
                              "CONNECTING", "CONNECTED", c), c))
  <2> DEFINE f == FireIn(m, "CONFIGURING", "CONNECT", c)
             g == FireIn(f, "CONNECTING", "CONNECTED", c)
  <2>1. Reachable(f) /\ (m.fsm = "FAILED" => f.fsm = "FAILED")
    BY FireInReaches DEF FireIn
  <2> HIDE DEF f
  <2>2. Reachable(g) /\ (f.fsm = "FAILED" => g.fsm = "FAILED")
    BY <2>1, FireInReaches DEF FireIn
  <2> HIDE DEF g
  <2>3. Reachable(Return(g, c))
    BY <2>1, <2>2, ReturnReaches
  <2> QED BY <2>3 DEF f, g
<1>5. \/ m' = Failed(c) \/ m' = Return(m, c) \/ m' = [m EXCEPT !.apply[c] = "dial"]
      \/ m' = Return(FireIn(FireIn(m, "CONFIGURING", "CONNECT", c),
                            "CONNECTING", "CONNECTED", c), c)
  BY DEF ApplyStart, ApplyDial, Local, Dropping
<1> QED BY <1>1, <1>2, <1>3, <1>4, <1>5

LEMMA DisconnectSteps ==
    ASSUME Reachable(m), Teardown \/ FailedSweep \/ Connector
    PROVE  Reachable(m')
<1> USE DEF Reachable
<1>1. CASE Teardown
  <2>1. PICK p \in {"ok", "failed"} : m' = [m EXCEPT !.teardown = p]
    BY <1>1 DEF Teardown, Dropping, Local
  <2>2. m' \in Machine /\ m'.fsm = m.fsm /\ m'.retry = m.retry
    BY <2>1 DEF Machine
  <2> QED BY <2>2 DEF LoopEnds, BearerKept
<1>2. CASE FailedSweep
  <2>1. m' = [m EXCEPT !.fsweep = FALSE]
    BY <1>2 DEF FailedSweep, Dropping, Local
  <2>2. m' \in Machine /\ m'.fsm = m.fsm /\ m'.retry = m.retry
    BY <2>1 DEF Machine
  <2> QED BY <2>2 DEF LoopEnds, BearerKept
<1>3. CASE Connector
  <2> DEFINE r == [m EXCEPT !.teardown = "none", !.connector = "none"]
             f == FireIn(r, "CONNECTING", "CONNECTION_FAILED", "connector")
             a == [r EXCEPT !.connector = "apply", !.apply["connector"] = "start"]
  <2>1. r \in Machine /\ r.fsm = m.fsm
    BY DEF Machine
  <2>2. m' = [f EXCEPT !.fsweep = TRUE] \/ m' = f \/ m' = r \/ m' = a
    BY <1>3 DEF Connector, Local
  <2> HIDE DEF r
  <2>3. a \in Machine /\ a.fsm = m.fsm
    BY <2>1 DEF Machine, Callers
  <2>4. Reachable(r)
    BY <2>1 DEF LoopEnds, BearerKept
  <2> HIDE DEF a
  <2>5. Reachable(a)
    BY <2>3 DEF LoopEnds, BearerKept
  <2>6. Reachable(f)
    BY <2>4, FireInReaches
  <2> HIDE DEF f
  <2>7. Reachable([f EXCEPT !.fsweep = TRUE])
    <3>1. [f EXCEPT !.fsweep = TRUE] \in Machine
      BY <2>6 DEF Machine
    <3> QED BY <2>6, <3>1 DEF Machine, LoopEnds, BearerKept
  <2> QED BY <2>2, <2>4, <2>5, <2>6, <2>7
<1> QED BY <1>1, <1>2, <1>3

LEMMA RecoverySteps ==
    ASSUME Reachable(m), Recovery
    PROVE  Reachable(m')
<1>1. ASSUME NEW s, Reachable(s),
             NEW p \in {"none", "again", "verify", "drop", "settle", "poll"}
      PROVE  Reachable([s EXCEPT !.recovery = p])
  <2>1. [s EXCEPT !.recovery = p] \in Machine
    BY <1>1 DEF Reachable, Machine
  <2> QED BY <1>1, <2>1 DEF Reachable, Machine, LoopEnds, BearerKept
<1>2. ASSUME NEW s, Reachable(s), NEW k \in 0..MaxRecovery
      PROVE  Reachable([s EXCEPT !.attempt = k])
  <2>1. [s EXCEPT !.attempt = k] \in Machine
    BY <1>2 DEF Reachable, Machine
  <2> QED BY <1>2, <2>1 DEF Reachable, Machine, LoopEnds, BearerKept
<1> DEFINE ended == [m EXCEPT !.recovery = "none", !.attempt = 0]
<1>3. Reachable(ended)
  <2>1. Reachable([m EXCEPT !.recovery = "none"])
    BY <1>1
  <2>2. 0 \in 0..MaxRecovery
    BY WwanAssumption
  <2> QED BY <1>2, <2>1, <2>2
<1>4. Reachable(GiveUp)
  <2> HIDE DEF ended
  <2>1. Reachable(Fire(ended, "CONNECTION_FAILED", "recovery"))
    BY <1>3, FireReaches DEF Handled
  <2> QED BY <2>1 DEF GiveUp, ended
<1>5. CASE RecoveryRead
  <2> DEFINE h == Attempt(ToConfiguring(m), "apply")
             d == FireIn(m, "DISCONNECTING", "DISCONNECTED", "recovery")
  <2>1. Reachable(h) /\ Reachable(d)
    BY FireInReaches, ToConfiguringReaches, AttemptReaches
  <2>2. \/ m' = [m EXCEPT !.recovery = "verify"] \/ m' = [m EXCEPT !.recovery = "drop"]
        \/ m' = [h EXCEPT !.attempt = 1] \/ m' = [d EXCEPT !.recovery = "poll"]
        \/ m' = GiveUp
    BY <1>5 DEF RecoveryRead, Local
  <2>3. 1 \in 0..MaxRecovery
    BY WwanAssumption
  <2> HIDE DEF h, d
  <2>4. Reachable([h EXCEPT !.attempt = 1])
    BY <1>2, <2>1, <2>3
  <2> QED BY <1>1, <1>4, <2>1, <2>2, <2>4
<1>6. CASE RecoveryVerify
  <2> DEFINE f == FireIn(m, "DISCONNECTING", "CONNECTED", "recovery")
  <2>1. m' = [f EXCEPT !.recovery = "none"] \/ m' = [m EXCEPT !.recovery = "drop"]
    BY <1>6 DEF RecoveryVerify, Local
  <2>2. Reachable(f)
    BY FireInReaches
  <2> HIDE DEF f
  <2> QED BY <1>1, <2>1, <2>2
<1>7. CASE RecoveryDrop
  <2>1. m' = [m EXCEPT !.recovery = "settle"]
    BY <1>7 DEF RecoveryDrop, Local, Dropping
  <2> QED BY <1>1, <2>1
<1>8. CASE RecoveryRedial
  <2>1. m' = Attempt(ToConfiguring(m), "last")
    BY <1>8 DEF RecoveryRedial, Local
  <2> QED BY <2>1, ToConfiguringReaches, AttemptReaches
<1>9. CASE RecoveryCheck
  <2> DEFINE f == Attempt(m, "apply")
             k == f.attempt + 1
  <2>1. \/ m' = ended \/ m' = GiveUp
        \/ m.attempt < MaxRecovery /\ m' = [f EXCEPT !.attempt = k]
    BY <1>9 DEF RecoveryCheck, Local
  <2>2. Reachable(f)
    BY AttemptReaches
  <2>3. f.attempt = m.attempt
    BY DEF Attempt, Reachable, Machine
  <2>4. m.attempt < MaxRecovery => k \in 0..MaxRecovery
    BY <2>3, WwanAssumption DEF Reachable, Machine
  <2> HIDE DEF ended, f, k
  <2>5. m.attempt < MaxRecovery => Reachable([f EXCEPT !.attempt = k])
    BY <1>2, <2>2, <2>4
  <2> QED BY <1>3, <1>4, <2>1, <2>5
<1>10. CASE RecoveryPoll
  <2>1. \/ m' = [m EXCEPT !.recovery = "none"] \/ m' = [m EXCEPT !.recovery = "again"]
        \/ m' = GiveUp
    BY <1>10 DEF RecoveryPoll, Local
  <2> QED BY <1>1, <1>4, <2>1
<1> QED BY <1>5, <1>6, <1>7, <1>8, <1>9, <1>10 DEF Recovery

\* The two steps that may leave the loop of FAILED running.
Exception ==
    \/ m.retry = "pause" /\ m'.retry = "apply"
    \/ m.watch = "read" /\ m'.fsm = "CONFIGURING"

\* Where a step leads.
Reached == m' \in Machine /\ BearerKept(m') /\ (LoopEnds(m') \/ Exception)

\* The loop of FAILED: only its CONNECT leaves the state.
LEMMA RetrySteps ==
    ASSUME Reachable(m), Retry
    PROVE  Reached
<1>1. ASSUME NEW p \in {"none", "sleep", "clear", "pause"}, m' = [m EXCEPT !.retry = p]
      PROVE  Reached
  <2>1. m' \in Machine /\ m'.fsm = m.fsm
    BY <1>1 DEF Reachable, Machine
  <2> QED BY <2>1, QuietReaches DEF Reachable, Reached
<1>2. CASE RetryWake \/ RetryClear \/ RetryCheck
  <2>1. PICK p \in {"none", "sleep", "clear", "pause"} : m' = [m EXCEPT !.retry = p]
    BY <1>2 DEF RetryWake, RetryClear, RetryCheck, Local, Dropping
  <2> QED BY <1>1, <2>1
<1>3. CASE RetryConnect
  <2> DEFINE f == Fire(m, "CONNECT", "retry")
  <2>1. m' = [f EXCEPT !.retry = "apply", !.apply["retry"] = "start"] /\ m.retry = "pause"
    BY <1>3 DEF RetryConnect, Local
  <2>2. f \in Machine /\ BearerKept(f)
    BY FireKeepsBearer DEF Reachable, BearerKept
  <2> HIDE DEF f
  <2> DEFINE a == [f.apply EXCEPT !["retry"] = "start"]
  <2>5. a \in [Callers -> {"off", "start", "dial"}]
    BY <2>2 DEF Machine, Callers
  <2>6. m' = [f EXCEPT !.retry = "apply", !.apply = a]
    BY <2>1
  <2> HIDE DEF a
  <2>3. m' \in Machine
    BY <2>2, <2>5, <2>6 DEF Machine
  <2>4. m'.fsm = f.fsm /\ m'.requested = f.requested /\ m'.retry = "apply"
    BY <2>2, <2>6 DEF Machine
  <2> QED BY <2>1, <2>2, <2>3, <2>4 DEF Reached, Exception, BearerKept
<1> QED BY <1>2, <1>3 DEF Retry

\* Applying the stored configuration.
LEMMA InitialSteps ==
    ASSUME Reachable(m), ScanFound \/ InitialConfig \/ InitialDial \/ InitialDrop
    PROVE  Reachable(m')
<1>1. ASSUME NEW p \in {"none", "config", "dial", "park", "drop"}
      PROVE  LET s == [m EXCEPT !.initial = p]
             IN  Reachable(s) /\ s.fsm = m.fsm /\ s.requested = m.requested
  <2> DEFINE s == [m EXCEPT !.initial = p]
  <2>1. s \in Machine /\ s.fsm = m.fsm /\ s.retry = m.retry /\ s.requested = m.requested
    BY DEF Reachable, Machine
  <2> HIDE DEF s
  <2>2. Reachable(s)
    BY <2>1, QuietReaches
  <2> QED BY <2>1, <2>2 DEF s
<1>2. CASE ScanFound
  <2>1. m' = [m EXCEPT !.fsm = "CONFIGURING", !.initial = "config"] /\ m.fsm = "SCANNING"
    BY <1>2 DEF ScanFound, Local
  <2>2. m' \in Machine /\ m'.fsm = "CONFIGURING" /\ m'.retry = m.retry
    BY <2>1 DEF Reachable, Machine, States
  <2> QED BY <2>1, <2>2 DEF Reachable, LoopEnds, BearerKept
<1>3. CASE InitialConfig
  <2> DEFINE s == [m EXCEPT !.initial = "dial"]
             held == [s EXCEPT !.user = TRUE, !.requested = FALSE]
  <2>1. Reachable(s) /\ s.fsm = m.fsm /\ s.requested = m.requested
    BY <1>1
  <2>2. \/ m' = s
        \/ /\ m.fsm = "CONFIGURING"
           /\ m' \in {Fire(held, "ENTER_IDLE", "initial"), Fire(s, "ENTER_IDLE", "initial"),
                     Fire(s, "CONNECT", "initial")}
    BY <1>3 DEF InitialConfig, Local
  <2> HIDE DEF s
  <2>3. held \in Machine /\ held.fsm = s.fsm /\ held.retry = s.retry
    BY <2>1 DEF Reachable, Machine
  <2> HIDE DEF held
  <2>4. Reachable(held) /\ (m.fsm = "CONFIGURING" => held.fsm = "CONFIGURING")
    BY <2>1, <2>3 DEF Reachable, LoopEnds, BearerKept
  <2>5. ASSUME m.fsm = "CONFIGURING"
        PROVE  /\ Reachable(Fire(held, "ENTER_IDLE", "initial"))
               /\ Reachable(Fire(s, "ENTER_IDLE", "initial"))
               /\ Reachable(Fire(s, "CONNECT", "initial"))
    BY <2>1, <2>4, <2>5, FireReaches DEF Handled, MayIdle
  <2> QED BY <2>1, <2>2, <2>5
<1>4. CASE InitialDial
  <2> DEFINE s == [m EXCEPT !.initial = "none"]
  <2>1. Reachable(s) /\ s.fsm = m.fsm
    BY <1>1
  <2>2. \/ m' \in {[m EXCEPT !.initial = "park"], [m EXCEPT !.initial = "drop"],
                   Fire(s, "CONNECTION_FAILED", "initial")}
        \/ m.fsm \in {"CONNECTING", "CONNECTED"} /\ m' = Fire(s, "CONNECTED", "initial")
    BY <1>4 DEF InitialDial, Local
  <2> HIDE DEF s
  <2>3. Reachable([m EXCEPT !.initial = "park"]) /\ Reachable([m EXCEPT !.initial = "drop"])
    BY <1>1
  <2>4. /\ Reachable(Fire(s, "CONNECTION_FAILED", "initial"))
        /\ m.fsm \in {"CONNECTING", "CONNECTED"} => Reachable(Fire(s, "CONNECTED", "initial"))
    BY <2>1, FireReaches DEF Handled
  <2> QED BY <2>2, <2>3, <2>4
<1>5. CASE InitialDrop
  <2> DEFINE s == [m EXCEPT !.initial = "none"]
  <2>1. Reachable(s) /\ s.fsm = m.fsm
    BY <1>1
  <2>2. m' = s \/ m' = FireIn(s, "CONNECTING", "ENTER_IDLE", "initial")
    BY <1>5 DEF InitialDrop, Dropping
  <2> HIDE DEF s
  <2>3. CASE m.fsm = "CONNECTING"
    BY <2>1, <2>2, <2>3, FireInReaches DEF MayIdle
  <2>4. CASE m.fsm # "CONNECTING"
    BY <2>1, <2>2, <2>4 DEF FireIn
  <2> QED BY <2>3, <2>4
<1> QED BY <1>2, <1>3, <1>4, <1>5

\* The watchdog moves on.
Moved(s, w, k) == [s EXCEPT !.watch = w, !.stuck = k]

LEMMA WatchMoves ==
    ASSUME NEW s \in Machine, NEW w \in {"none", "read", "join", "scan"},
           NEW k \in Transient \cup {"none"}
    PROVE  /\ Moved(s, w, k) \in Machine /\ Moved(s, w, k).fsm = s.fsm
           /\ Moved(s, w, k).requested = s.requested /\ Moved(s, w, k).retry = s.retry
<1> DEFINE q == [s EXCEPT !.watch = w]
           r == [q EXCEPT !.stuck = k]
<1>1. q \in Machine
  BY DEF Machine
<1>2. q.fsm = s.fsm /\ q.requested = s.requested /\ q.retry = s.retry
  BY DEF Machine
<1>3. Moved(s, w, k) = r
  BY DEF Moved
<1> HIDE DEF q
<1>4. r \in Machine
  BY <1>1 DEF Machine
<1>5. r.fsm = q.fsm /\ r.requested = q.requested /\ r.retry = q.retry
  BY <1>1 DEF Machine
<1> QED BY <1>2, <1>3, <1>4, <1>5

LEMMA WatchReaches ==
    ASSUME NEW s, Reachable(s), NEW w \in {"none", "read", "join", "scan"}
    PROVE  /\ Reachable([s EXCEPT !.watch = w])
           /\ \A k \in Transient \cup {"none"} : Reachable([s EXCEPT !.watch = w, !.stuck = k])
<1>1. [s EXCEPT !.watch = w] \in Machine
  BY DEF Reachable, Machine
<1>2. Reachable([s EXCEPT !.watch = w])
  BY <1>1 DEF Reachable, Machine, LoopEnds, BearerKept
<1>3. ASSUME NEW k \in Transient \cup {"none"}
      PROVE  Reachable([s EXCEPT !.watch = w, !.stuck = k])
  <2> DEFINE r == Moved(s, w, k)
  <2>1. r \in Machine /\ r.fsm = s.fsm /\ r.requested = s.requested /\ r.retry = s.retry
    <3>1. s \in Machine
      BY DEF Reachable
    <3> QED BY <3>1, WatchMoves, Zenon
  <2> HIDE DEF r
  <2>2. Reachable(r)
    BY <2>1 DEF Reachable, LoopEnds, BearerKept
  <2> QED BY <2>2 DEF r, Moved
<1> QED BY <1>2, <1>3

\* Only its CONNECTED after a read finds FAILED without an edge.
LEMMA WatchdogSteps ==
    ASSUME Reachable(m), Watchdog \/ FinalizeFails
    PROVE  Reached
<1>1. Reachable(CancelDrivers(m))
  BY CancelDriversReaches
<1>2. Reachable(m') => Reached
  BY DEF Reachable, Reached
<1>3. CASE WatchTransient
  <2>1. PICK s \in {m, CancelDrivers(m)}, w \in {"read", "join"}, k \in Transient :
          m' = [s EXCEPT !.watch = w, !.stuck = k]
    BY <1>3 DEF WatchTransient, Local
  <2>2. Reachable(m')
    BY <1>1, <2>1, WatchReaches
  <2> QED BY <1>2, <2>2
<1>4. CASE WatchRead
  <2> DEFINE f == Fire(m, "CONNECTED", "watchdog")
             c == CancelDrivers(m)
             g == [f EXCEPT !.watch = "none", !.stuck = "none"]
  <2>1. m' = g \/ m' = [c EXCEPT !.watch = "join"]
    BY <1>4 DEF WatchRead, Local
  <2>2. Reachable([c EXCEPT !.watch = "join"])
    <3> HIDE DEF c
    <3> QED BY <1>1, WatchReaches DEF c
  <2>3. CASE m' = g /\ m.fsm # "FAILED"
    <3>1. Reachable(f)
      BY <2>3, FireReaches DEF Handled
    <3> HIDE DEF f
    <3> QED BY <1>2, <2>3, <3>1, WatchReaches
  <2>4. CASE m' = g /\ m.fsm = "FAILED"
    <3>1. f \in Machine /\ BearerKept(f) /\ f.fsm = "CONFIGURING"
      BY <2>4, FireKeepsBearer, FireKeeps DEF Reachable
    <3> HIDE DEF f
    <3>2. g \in Machine /\ g.fsm = f.fsm /\ g.requested = f.requested
      BY <3>1, WatchMoves DEF Moved
    <3>3. m.watch = "read"
      BY <1>4 DEF WatchRead
    <3> QED BY <2>4, <3>1, <3>2, <3>3 DEF Reached, Exception, BearerKept
  <2> QED BY <1>2, <2>1, <2>2, <2>3, <2>4
<1>5. CASE WatchJoin
  <2> DEFINE s == [m EXCEPT !.watch = "none", !.stuck = "none"]
  <2>1. m' = s \/ m' = Fire(s, "CONNECTION_FAILED", "watchdog")
    BY <1>5 DEF WatchJoin, Local
  <2>2. Reachable(s)
    BY WatchReaches
  <2> HIDE DEF s
  <2> QED BY <1>2, <2>1, <2>2, FireReaches DEF Handled
<1>6. CASE WatchScan
  <2> DEFINE f == Fire(m, "START_SCAN", "watchdog")
  <2>1. m' = [f EXCEPT !.watch = "none"]
    BY <1>6 DEF WatchScan, Local
  <2>2. Reachable(f)
    BY FireReaches DEF Handled
  <2> HIDE DEF f
  <2> QED BY <1>2, <2>1, <2>2, WatchReaches
<1>7. CASE WatchResting \/ WatchRetry
  <2> DEFINE c == CancelDrivers(m)
  <2>1. \/ m' = [c EXCEPT !.watch = "scan"] \/ m' = Fire(m, "CONNECT", "watchdog")
        \/ m.fsm # "FAILED" /\ m' = Fire(m, "CONNECTED", "watchdog")
        \/ m' = [m EXCEPT !.teardown = "run"]
    BY <1>7 DEF WatchResting, WatchRetry, Resting, Rescan, Local
  <2>2. ASSUME m' = [m EXCEPT !.teardown = "run"]
        PROVE  m' \in Machine /\ m'.fsm = m.fsm
    BY <2>2 DEF Reachable, Machine
  <2>3. Reachable([c EXCEPT !.watch = "scan"])
    <3> HIDE DEF c
    <3> QED BY <1>1, WatchReaches DEF c
  <2>4. /\ Reachable(Fire(m, "CONNECT", "watchdog"))
        /\ m.fsm # "FAILED" => Reachable(Fire(m, "CONNECTED", "watchdog"))
    BY FireReaches DEF Handled
  <2> QED BY <1>2, <2>1, <2>2, <2>3, <2>4, QuietReaches
<1>8. CASE WatchFailed
  <2>1. m' = [m EXCEPT !.retry = "sleep"]
    BY <1>8 DEF WatchFailed, Local
  <2>2. m' \in Machine /\ m'.fsm = m.fsm
    BY <2>1 DEF Reachable, Machine
  <2> QED BY <1>2, <2>2, QuietReaches
<1>10. CASE WatchHold
  <2>1. m' = [m EXCEPT !.hold = FALSE]
    BY <1>10 DEF WatchHold, Local
  <2>2. m' \in Machine /\ m'.fsm = m.fsm
    BY <2>1 DEF Reachable, Machine
  <2> QED BY <1>2, <2>2, QuietReaches
<1>9. CASE FinalizeFails
  <2>1. m' = Fire(m, "CONNECTION_FAILED", "finalize")
    BY <1>9 DEF FinalizeFails, Dropping
  <2> QED BY <1>2, <2>1, FireReaches DEF Handled
<1> QED BY <1>3, <1>4, <1>5, <1>6, <1>7, <1>8, <1>9, <1>10 DEF Watchdog

\* Leases, their sweep, the requests of clients and the data limit.
LEMMA RequestSteps ==
    ASSUME Reachable(m),
           \/ Sweep \/ DataLimit \/ disconnect \/ disconnect_bearer
           \/ \E o \in Owners : Lapse(o) \/ bearer_lease_acquire(o) \/ bearer_lease_release(o)
           \/ connect({"FAILED", "REGISTERED_IDLE"}) \/ connect({"REGISTERED_IDLE"})
    PROVE  Reachable(m')
<1>1. CASE Sweep
  BY <1>1, ReconcileReaches DEF Sweep, Local
<1>2. CASE \E o \in Owners : Lapse(o)
  BY <1>2 DEF Lapse
<1>3. CASE \E o \in Owners : bearer_lease_acquire(o)
  <2>1. PICK L : m' = Reconcile([m EXCEPT !.armed = FALSE], L)
    BY <1>3 DEF bearer_lease_acquire, Request
  <2> DEFINE s == [m EXCEPT !.armed = FALSE]
  <2>2. s \in Machine /\ s.fsm = m.fsm /\ s.retry = m.retry
    BY DEF Reachable, Machine
  <2> HIDE DEF s
  <2>3. Reachable(s)
    BY <2>2, QuietReaches
  <2> QED BY <2>1, <2>3, ReconcileReaches DEF s
<1>4. CASE \E o \in Owners : bearer_lease_release(o)
  BY <1>4, ReconcileReaches DEF bearer_lease_release, Request
<1>5. ASSUME NEW states, connect(states)
      PROVE  Reachable(m')
  <2> DEFINE r == [m EXCEPT !.user = FALSE, !.requested = TRUE]
  <2>1. m' = Fire(r, "CONNECT", "client") \/ m' = r
    BY <1>5 DEF connect, Request
  <2>2. r \in Machine /\ r.fsm = m.fsm /\ r.retry = m.retry
    BY DEF Reachable, Machine
  <2> HIDE DEF r
  <2>3. Reachable(r)
    BY <2>2, QuietReaches
  <2> QED BY <2>1, <2>3, FireReaches DEF Handled
<1>6. CASE disconnect
  <2> DEFINE r == [m EXCEPT !.user = TRUE, !.requested = FALSE]
  <2>1. m' = Fire(r, "ENTER_IDLE", "client") /\ m.fsm = "CONNECTED"
    BY <1>6 DEF disconnect, Request
  <2>2. r \in Machine /\ r.fsm = m.fsm /\ r.retry = m.retry /\ ~r.requested
    BY DEF Reachable, Machine
  <2> HIDE DEF r
  <2>3. Reachable(r)
    BY <2>2, QuietReaches
  <2> QED BY <2>1, <2>2, <2>3, FireReaches DEF Handled, MayIdle
<1>7. CASE disconnect_bearer
  <2> DEFINE u == m.user \/ live = {}
             r == [m EXCEPT !.requested = FALSE, !.user = u]
  <2>1. m' = FireIn(r, "CONNECTED", "ENTER_IDLE", "client") \/ m' = r
    BY <1>7 DEF disconnect_bearer, Request
  <2>2. u \in BOOLEAN
    OBVIOUS
  <2> HIDE DEF u
  <2>3. r \in Machine /\ r.fsm = m.fsm /\ r.retry = m.retry /\ ~r.requested
    BY <2>2 DEF Reachable, Machine
  <2> HIDE DEF r
  <2>4. Reachable(r)
    BY <2>3, QuietReaches
  <2> QED BY <2>1, <2>3, <2>4, FireInReaches DEF MayIdle
<1>8. CASE DataLimit
  <2> DEFINE r == [m EXCEPT !.hold = TRUE, !.user = TRUE, !.requested = FALSE]
  <2>1. m' = Fire(r, "DISCONNECT", "usage") /\ m.fsm = "CONNECTED"
    BY <1>8 DEF DataLimit, Local
  <2>2. r \in Machine /\ r.fsm = m.fsm /\ r.retry = m.retry
    BY DEF Reachable, Machine
  <2> HIDE DEF r
  <2>3. Reachable(r)
    BY <2>2, QuietReaches
  <2> QED BY <2>1, <2>2, <2>3, FireReaches DEF Handled
<1> QED BY <1>1, <1>2, <1>3, <1>4, <1>5, <1>6, <1>7, <1>8

\* Every step.
LEMMA NextReaches ==
    ASSUME TypeOK, Next
    PROVE  Reached
<1>1. Reachable(m)
  BY DEF Reachable, TypeOK, LoopEnds, BearerKept
<1>2. Reachable(m') => Reached
  BY DEF Reachable, Reached
<1>3. CASE Deliver
  <2>1. sigs # <<>> /\ sigs \in Seq({7, 8, 9, 11})
    BY <1>3 DEF Deliver, TypeOK
  <2>2. Head(sigs) \in {7, 8, 9, 11}
    BY <2>1
  <2> QED BY <1>1, <1>2, <1>3, <2>1, <2>2, SignalSteps
<1>4. CASE Tasks
  BY <1>1, <1>2, <1>4, ApplySteps, DisconnectSteps, RecoverySteps, RetrySteps, InitialSteps DEF Tasks
<1>5. CASE Watchdog
  BY <1>1, <1>5, WatchdogSteps
<1>6. CASE Sweep
  BY <1>1, <1>2, <1>6, RequestSteps
<1>7. CASE Environment
  <2>1. CASE NetworkDrop \/ OutOfBand \/ Register
    <3>1. m' = m
      BY <2>1 DEF NetworkDrop, OutOfBand, Register
    <3> QED BY <1>1, <1>2, <3>1
  <2>2. CASE FinalizeFails
    BY <1>1, <2>2, WatchdogSteps
  <2>3. CASE \/ DataLimit \/ disconnect \/ disconnect_bearer
             \/ \E o \in Owners : Lapse(o) \/ bearer_lease_acquire(o) \/ bearer_lease_release(o)
             \/ connect({"FAILED", "REGISTERED_IDLE"}) \/ connect({"REGISTERED_IDLE"})
    BY <1>1, <1>2, <2>3, RequestSteps
  <2> QED BY <1>7, <2>1, <2>2, <2>3 DEF Environment
<1> QED BY <1>3, <1>4, <1>5, <1>6, <1>7 DEF Next

-----------------------------------------------------------------------------
(* The modem and its signals.                                              *)

SignalsOK == mm \in {7, 8, 11} /\ sigs \in Seq({7, 8, 9, 11}) /\ Len(sigs) <= MaxSignals

LEMMA EmitKeeps ==
    ASSUME SignalsOK, NEW S \in Seq({7, 8, 9, 11}), Emit(S), mm' \in {7, 8, 11}
    PROVE  SignalsOK'
<1>1. sigs' \in Seq({7, 8, 9, 11}) /\ Len(sigs') = Len(sigs) + Len(S)
  BY DEF Emit, SignalsOK
<1> QED BY <1>1 DEF Emit, SignalsOK

LEMMA DroppingKeeps ==
    ASSUME SignalsOK, NEW s, Dropping(s)
    PROVE  SignalsOK'
<1>1. <<9, 8>> \in Seq({7, 8, 9, 11})
  OBVIOUS
<1> QED BY <1>1, EmitKeeps DEF Dropping, Disconnect, SignalsOK

LEMMA SignalsKept ==
    ASSUME SignalsOK, Next
    PROVE  SignalsOK'
<1>1. ASSUME UNCHANGED <<mm, sigs>>
      PROVE  SignalsOK'
  BY <1>1 DEF SignalsOK
<1>2. ASSUME NEW s, Local(s) \/ Dropping(s)
      PROVE  SignalsOK'
  BY <1>1, <1>2, DroppingKeeps DEF Local
<1>3. ASSUME NEW s, NEW L, Request(s, L)
      PROVE  SignalsOK'
  BY <1>1, <1>3 DEF Request
<1>4. <<>> \in Seq({7, 8, 9, 11}) /\ \A x \in {7, 8, 9, 11} : <<x>> \in Seq({7, 8, 9, 11})
  OBVIOUS
<1>5. CASE Deliver
  <2>1. /\ Tail(sigs) \in Seq({7, 8, 9, 11}) /\ Len(Tail(sigs)) <= Len(sigs)
        /\ Len(sigs) \in Nat /\ Len(Tail(sigs)) \in Nat
    BY <1>5 DEF Deliver, SignalsOK
  <2> QED BY <1>5, <2>1, WwanAssumption DEF Deliver, SignalsOK
<1>6. CASE Tasks
  <2>1. ASSUME NEW c \in Callers, ApplyStart(c)
        PROVE  SignalsOK'
    BY <1>2, <2>1 DEF ApplyStart
  <2>2. ASSUME NEW c \in Callers, ApplyDial(c)
        PROVE  SignalsOK'
    BY <1>2, <1>4, <2>2, EmitKeeps DEF ApplyDial
  <2>3. CASE Teardown \/ FailedSweep \/ Connector
    BY <1>2, <2>3 DEF Teardown, FailedSweep, Connector
  <2>4. CASE Recovery
    BY <1>2, <2>4 DEF Recovery, RecoveryRead, RecoveryVerify, RecoveryDrop, RecoveryRedial,
                      RecoveryCheck, RecoveryPoll, Slept, ReadsNothing
  <2>5. CASE Retry
    BY <1>2, <2>5 DEF Retry, RetryWake, RetryClear, RetryConnect, RetryCheck, Slept
  <2>6. CASE ScanFound \/ InitialConfig \/ InitialDrop
    BY <1>2, <2>6 DEF ScanFound, InitialConfig, InitialDrop
  <2>7. CASE InitialDial
    <3>1. \/ mm' = 11 /\ Emit(IF mm = 8 THEN <<11>> ELSE <<>>)
          \/ Local(Fire([m EXCEPT !.initial = "none"], "CONNECTION_FAILED", "initial"))
      BY <2>7 DEF InitialDial
    <3> QED BY <1>2, <1>4, <3>1, EmitKeeps
  <2> QED BY <1>6, <2>1, <2>2, <2>3, <2>4, <2>5, <2>6, <2>7 DEF Tasks
<1>7. CASE Watchdog \/ Sweep
  BY <1>2, <1>7 DEF Watchdog, WatchTransient, WatchRead, WatchJoin, WatchScan, WatchResting,
                    WatchFailed, WatchRetry, WatchHold, Rescan, Sweep
<1>8. CASE Environment
  <2>1. CASE NetworkDrop \/ OutOfBand \/ Register
    BY <1>4, <2>1, EmitKeeps DEF NetworkDrop, OutOfBand, Register
  <2>2. CASE FinalizeFails \/ DataLimit
    BY <1>2, <2>2 DEF FinalizeFails, DataLimit
  <2>3. CASE \E o \in Owners : Lapse(o) \/ bearer_lease_acquire(o) \/ bearer_lease_release(o)
    BY <1>1, <1>3, <2>3 DEF Lapse, bearer_lease_acquire, bearer_lease_release
  <2>4. ASSUME NEW states, connect(states)
        PROVE  SignalsOK'
    BY <1>3, <2>4 DEF connect
  <2>5. CASE disconnect \/ disconnect_bearer
    BY <1>3, <2>5 DEF disconnect, disconnect_bearer
  <2> QED BY <1>8, <2>1, <2>2, <2>3, <2>4, <2>5 DEF Environment
<1> QED BY <1>5, <1>6, <1>7, <1>8 DEF Next

\* The configuration, the leases and the count of failures.
LEMMA RequestsKept ==
    ASSUME TypeOK, Next
    PROVE  mode' = mode /\ live' \subseteq Owners /\ events' \in 0..MaxEvents
<1>1. UNCHANGED events \/ Fault => events' \in 0..MaxEvents
  BY WwanAssumption DEF TypeOK, Fault
<1>2. ASSUME NEW s, Local(s) \/ Dropping(s), Quiet \/ Fault
      PROVE  mode' = mode /\ live' \subseteq Owners /\ events' \in 0..MaxEvents
  BY <1>1, <1>2 DEF Local, Dropping, TypeOK, Quiet
<1>3. ASSUME NEW s, NEW L \in SUBSET Owners, Request(s, L)
      PROVE  mode' = mode /\ live' \subseteq Owners /\ events' \in 0..MaxEvents
  BY <1>1, <1>3 DEF Request
<1>4. CASE Deliver
  BY <1>1, <1>4 DEF Deliver, TypeOK
<1>5. CASE Tasks
  <2>1. ASSUME NEW c \in Callers, ApplyStart(c) \/ ApplyDial(c)
        PROVE  mode' = mode /\ live' \subseteq Owners /\ events' \in 0..MaxEvents
    BY <1>1, <1>2, <2>1 DEF ApplyStart, ApplyDial, Timely, Quiet, TypeOK
  <2>2. CASE Teardown \/ FailedSweep \/ Connector
    BY <1>2, <2>2 DEF Teardown, FailedSweep, Connector
  <2>3. CASE Recovery
    BY <1>2, <2>3 DEF Recovery, RecoveryRead, RecoveryVerify, RecoveryDrop, RecoveryRedial,
                      RecoveryCheck, RecoveryPoll, Slept, ReadsNothing
  <2>4. CASE Retry
    BY <1>2, <2>4 DEF Retry, RetryWake, RetryClear, RetryConnect, RetryCheck, Slept
  <2>5. CASE ScanFound \/ InitialConfig \/ InitialDrop
    BY <1>2, <2>5 DEF ScanFound, InitialConfig, InitialDrop
  <2>6. CASE InitialDial
    <3>1. UNCHANGED <<mode, live>> /\ (Quiet \/ Fault)
      BY <2>6 DEF InitialDial, Timely, Local
    <3> QED BY <1>1, <3>1 DEF Quiet, TypeOK
  <2> QED BY <1>5, <2>1, <2>2, <2>3, <2>4, <2>5, <2>6 DEF Tasks
<1>6. CASE Watchdog \/ Sweep
  BY <1>2, <1>6 DEF Watchdog, WatchTransient, WatchRead, WatchJoin, WatchScan, WatchResting,
                    WatchFailed, WatchRetry, WatchHold, Rescan, Sweep
<1>7. CASE Environment
  <2>1. CASE NetworkDrop \/ OutOfBand \/ Register
    BY <1>1, <2>1 DEF NetworkDrop, OutOfBand, Register, TypeOK
  <2>2. CASE FinalizeFails \/ DataLimit
    BY <1>2, <2>2 DEF FinalizeFails, DataLimit
  <2>3. CASE \E o \in Owners : Lapse(o)
    BY <1>1, <2>3 DEF Lapse, TypeOK
  <2>4. CASE \E o \in Owners : bearer_lease_acquire(o) \/ bearer_lease_release(o)
    BY <1>3, <2>4 DEF bearer_lease_acquire, bearer_lease_release, TypeOK
  <2>5. ASSUME NEW states, connect(states)
        PROVE  mode' = mode /\ live' \subseteq Owners /\ events' \in 0..MaxEvents
    BY <1>3, <2>5 DEF connect, TypeOK
  <2>6. CASE disconnect \/ disconnect_bearer
    BY <1>3, <2>6 DEF disconnect, disconnect_bearer, TypeOK
  <2> QED BY <1>7, <2>1, <2>2, <2>3, <2>4, <2>5, <2>6 DEF Environment
<1> QED BY <1>4, <1>5, <1>6, <1>7 DEF Next

-----------------------------------------------------------------------------
\* The variables and the bounds have their types in every state, for any
\* number of signals, failures, requests and owners.
THEOREM WwanTypes ==
    Spec => []TypeOK
<1>1. Init => TypeOK
  <2> SUFFICES ASSUME Init PROVE TypeOK
    OBVIOUS
  <2>1. m \in Machine
    BY WwanAssumption DEF Init, Machine, States
  <2>2. sigs \in Seq({7, 8, 9, 11}) /\ Len(sigs) = 0
    BY DEF Init
  <2>3. events \in 0..MaxEvents /\ Len(sigs) <= MaxSignals
    BY <2>2, WwanAssumption DEF Init
  <2> QED BY <2>1, <2>2, <2>3 DEF Init, TypeOK
<1>2. TypeOK /\ [Next]_vars => TypeOK'
  <2> SUFFICES ASSUME TypeOK, [Next]_vars PROVE TypeOK'
    OBVIOUS
  <2>1. CASE Next
    <3>1. Reached
      BY <2>1, NextReaches
    <3>2. SignalsOK'
      BY <2>1, SignalsKept DEF TypeOK, SignalsOK
    <3>3. mode' = mode /\ live' \subseteq Owners /\ events' \in 0..MaxEvents
      BY <2>1, RequestsKept
    <3> QED BY <3>1, <3>2, <3>3 DEF TypeOK, Reached, SignalsOK
  <2>2. CASE UNCHANGED vars
    BY <2>2 DEF vars, TypeOK
  <2> QED BY <2>1, <2>2
<1> QED BY <1>1, <1>2, PTL DEF Spec

\* A step that leaves FAILED ends the retry loop, in transition() or by
\* cancelling the tasks, with the loop's own CONNECT and the watchdog's
\* overtaken CONNECTED as the only exceptions: whoever else leaves FAILED, a
\* signal, a client, the watchdog or the recovery, no old loop drops and
\* redials the connection that is made next.
THEOREM LoopEnded ==
    Spec => LoopEndsWithFailed
<1>1. TypeOK /\ [Next]_vars =>
        [m.fsm = "FAILED" /\ m'.fsm # "FAILED" /\ m'.retry # "none" =>
            \/ m.retry = "pause" /\ m'.retry = "apply"
            \/ m.watch = "read" /\ m'.fsm = "CONFIGURING"]_vars
  <2> SUFFICES ASSUME TypeOK, Next, m.fsm = "FAILED", m'.fsm # "FAILED", m'.retry # "none"
               PROVE  Exception
    BY DEF Exception
  <2>1. Reached
    BY NextReaches
  <2> QED BY <2>1 DEF Reached, LoopEnds
<1> QED BY <1>1, WwanTypes, PTL DEF Spec, LoopEndsWithFailed

\* No signal, task, watchdog or lease idles a connected bearer that the
\* operator asked for: whatever fires ENTER_IDLE does so in a state other than
\* CONNECTED, or with the request withdrawn in the same step.
THEOREM OperatorBearerStays ==
    Spec => OperatorBearerKept
<1>1. TypeOK /\ [Next]_vars =>
        [m.requested /\ m.fsm = "CONNECTED" /\ m'.fsm = "REGISTERED_IDLE" => ~m'.requested]_vars
  <2> SUFFICES ASSUME TypeOK, Next
               PROVE  m.requested /\ m.fsm = "CONNECTED" /\ m'.fsm = "REGISTERED_IDLE" => ~m'.requested
    OBVIOUS
  <2>1. Reached
    BY NextReaches
  <2> QED BY <2>1 DEF Reached, BearerKept
<1> QED BY <1>1, WwanTypes, PTL DEF Spec, OperatorBearerKept
=============================================================================
