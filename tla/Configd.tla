------------------------------ MODULE Configd ------------------------------
(***************************************************************************)
(* The request/reply protocol around vyos-configd.                         *)
(*                                                                         *)
(* A commit of the legacy backend (external) runs one vyshim process per   *)
(* script.  The first vyshim that finds COMMIT_MARKER performs a handshake *)
(* with the daemon: it announces "init", guarded by an alarm of 10 ms, and *)
(* then sends six strings, among them the active and the session           *)
(* configuration, each answered before the next is sent.  Afterwards every *)
(* vyshim sends its script as a "node" and waits for the result.  When the *)
(* announcement times out, or the daemon cannot serve the node, vyshim     *)
(* runs the script itself.                                                 *)
(*                                                                         *)
(* A second client, vyos-request-configd-update.py, is started by the DHCP *)
(* client and sends a "node" of its own whenever no commit holds the lock. *)
(*                                                                         *)
(* The sockets are ZeroMQ REQ and REP (external): a client has at most one *)
(* request outstanding, and the daemon receives requests in the order of   *)
(* their arrival.  The strings' contents are abstracted to the commit they *)
(* come from.                                                              *)
(***************************************************************************)
EXTENDS Naturals, Sequences, SequencesExt

CONSTANTS
    MaxScripts,     \* bound: scripts in a commit
    Excluded,       \* positions of scripts outside configd-include.json
    MaxCommits,     \* bound: commits in a behaviour
    MaxTimeouts,    \* bound: alarms that fire
    MaxKills,       \* bound: deaths of the daemon from outside
    MaxUpdates,     \* bound: requests of the DHCP client
    None            \* no configuration

ASSUME NoneAssumption == None \notin Nat
ASSUME BoundsAssumption ==
    /\ MaxScripts \in Nat \ {0} /\ MaxCommits \in Nat
    /\ MaxTimeouts \in Nat /\ MaxKills \in Nat /\ MaxUpdates \in Nat

\* active, session, pid, sudo_user, temp_config_dir, changes_only_dir
NStrings == 6

VARIABLES
    commit,         \* the latest commit
    size, script,   \* its number of scripts; the one that runs, 0 if none
    initialMarker,  \* COMMIT_MARKER exists
    queueMarker,    \* QUEUE_MARKER exists
    shim,           \* where the vyshim process is
    sent,           \* strings of the handshake it has sent
    answer,         \* the reply it has received, or "none"
    good,           \* all scripts of the commit succeeded so far
    updater,        \* where vyos-request-configd-update.py is
    queue,          \* requests that wait for the daemon
    daemon,         \* "main", "loop", "strings" (in initialization), "down"
    got,            \* senders of the strings of this handshake
    peer,           \* the sender of the announcement answered last
    config,         \* the commit whose Config object the daemon keeps
    rendered,       \* history: commits FRR was rendered from, by script
    timeouts, kills, updates

shimVars == <<shim, sent, answer>>
commitVars == <<commit, size, script, initialMarker, queueMarker, good>>
daemonVars == <<daemon, got, peer, config, rendered>>
bounds == <<timeouts, kills, updates>>
vars == <<commitVars, shimVars, updater, queue, daemonVars, bounds>>

Codes == {"SUCCESS", "ERROR_COMMIT", "ERROR_COMMIT_APPLY", "ERROR_DAEMON", "PASS"}

\* A request: who sent it (the vyshim of a commit; one that has gone; the
\* DHCP update) and what it is.
Request(from, kind, last) == [from |-> from, gen |-> commit, kind |-> kind, last |-> last]

Init ==
    /\ commit = 0 /\ size = 0 /\ script = 0
    /\ initialMarker = FALSE /\ queueMarker = FALSE /\ good = TRUE
    /\ shim = "off" /\ sent = 0 /\ answer = "none"
    /\ updater = "off"
    /\ queue = <<>>
    /\ daemon = "main" /\ got = <<>> /\ peer = "none" /\ config = None
    /\ rendered = {}
    /\ timeouts = 0 /\ kills = 0 /\ updates = 0

-----------------------------------------------------------------------------
\* The commit algorithm: it marks the beginning, and the last script before
\* it runs it.
BeginCommit(n) ==
    /\ script = 0 /\ commit < MaxCommits
    /\ commit' = commit + 1
    /\ size' = n /\ script' = 1
    /\ initialMarker' = TRUE
    /\ queueMarker' = (queueMarker \/ n = 1)
    /\ good' = TRUE
    /\ shim' = "start" /\ sent' = 0 /\ answer' = "none"
    /\ UNCHANGED <<updater, queue, daemonVars, bounds>>

NextScript ==
    /\ shim \in {"ok", "failed"} /\ script < size
    /\ script' = script + 1
    /\ queueMarker' = (queueMarker \/ script + 1 = size)
    /\ good' = (good /\ shim = "ok")
    /\ shim' = "start" /\ sent' = 0 /\ answer' = "none"
    /\ UNCHANGED <<commit, size, initialMarker, updater, queue, daemonVars, bounds>>

EndCommit ==
    /\ shim \in {"ok", "failed"} /\ script = size
    /\ script' = 0
    /\ good' = (good /\ shim = "ok")
    /\ shim' = "off"
    /\ UNCHANGED <<commit, size, initialMarker, queueMarker, sent, answer, updater,
                   queue, daemonVars, bounds>>

-----------------------------------------------------------------------------
\* main() of vyshim: the first process of a commit announces itself.
Announce ==
    /\ shim = "start" /\ initialMarker
    /\ queue' = Append(queue, Request("shim", "init", FALSE))
    /\ shim' = "announced"
    /\ UNCHANGED <<commitVars, sent, answer, updater, daemonVars, bounds>>

\* The alarm interrupts zmq_recv, or fires just after it: the process will
\* not read the answer and runs the script itself.  Its request may still
\* reach the daemon.
Orphan(q) == [i \in DOMAIN q |-> IF q[i].from = "shim" THEN [q[i] EXCEPT !.from = "gone"]
                                                      ELSE q[i]]
Withdrawn(q) == {RemoveAt(q, i) : i \in {j \in DOMAIN q : q[j].from = "shim"}}

\* Mutant: the marker is removed although the announcement timed out.
AlarmRemovesMarker ==
    /\ shim = "announced" /\ timeouts < MaxTimeouts
    /\ timeouts' = timeouts + 1
    /\ shim' = "pass" /\ answer' = "none"
    /\ initialMarker' = FALSE
    /\ queue' \in {Orphan(queue)} \cup Withdrawn(queue)
    /\ peer' = IF peer = "shim" THEN "gone" ELSE peer
    /\ UNCHANGED <<commit, size, script, queueMarker, good, sent, updater, daemon, got,
                   config, rendered, kills, updates>>

AlarmFires ==
    /\ shim = "announced" /\ timeouts < MaxTimeouts
    /\ timeouts' = timeouts + 1
    /\ shim' = "pass" /\ answer' = "none"
    /\ queue' \in {Orphan(queue)} \cup Withdrawn(queue)
    /\ peer' = IF peer = "shim" THEN "gone" ELSE peer
    /\ UNCHANGED <<commitVars, sent, updater, daemon, got, config, rendered, kills,
                   updates>>

\* Mutant: one string too many.
SendOneMore ==
    /\ \/ shim = "announced"
       \/ shim = "handshake" /\ sent <= NStrings
    /\ answer # "none"
    /\ answer' = "none"
    /\ sent' = sent + 1
    /\ shim' = "handshake"
    /\ queue' = Append(queue, Request("shim", "string", FALSE))
    /\ UNCHANGED <<commitVars, updater, daemonVars, bounds>>

\* The handshake goes on: one string per answer, then the marker is removed.
SendString ==
    /\ \/ shim = "announced"
       \/ shim = "handshake" /\ sent < NStrings
    /\ answer # "none"
    /\ answer' = "none"
    /\ sent' = sent + 1
    /\ shim' = "handshake"
    /\ queue' = Append(queue, Request("shim", "string", FALSE))
    /\ UNCHANGED <<commitVars, updater, daemonVars, bounds>>

HandshakeDone ==
    /\ shim = "handshake" /\ sent = NStrings /\ answer # "none"
    /\ answer' = "none"
    /\ initialMarker' = FALSE
    /\ shim' = "start"
    /\ UNCHANGED <<commit, size, script, queueMarker, good, sent, updater, queue,
                   daemonVars, bounds>>

\* Mutant: the marker of the last script is not consumed.
SendNodeKeepsMarker ==
    /\ shim = "start" /\ ~initialMarker
    /\ queue' = Append(queue, Request("shim", "node", queueMarker))
    /\ shim' = "node"
    /\ UNCHANGED <<commitVars, sent, answer, updater, daemonVars, bounds>>

\* The node is sent; the process that finds QUEUE_MARKER is the last one.
SendNode ==
    /\ shim = "start" /\ ~initialMarker
    /\ queueMarker' = FALSE
    /\ queue' = Append(queue, Request("shim", "node", queueMarker))
    /\ shim' = "node"
    /\ UNCHANGED <<commit, size, script, initialMarker, good, sent, answer, updater,
                   daemonVars, bounds>>

\* vyshim's reading of the result.
ReadResult ==
    /\ shim = "node" /\ answer # "none"
    /\ answer' = "none"
    /\ shim' = CASE answer = "SUCCESS" -> "ok"
                 [] answer \in {"PASS", "ERROR_DAEMON"} -> "pass"
                 [] OTHER -> "failed"
    /\ UNCHANGED <<commitVars, sent, updater, queue, daemonVars, bounds>>

\* pass_through: the script runs in a process of its own.  It leaves FRR to
\* the daemon, whose service is running.
PassThrough ==
    /\ shim = "pass"
    /\ shim' \in {"ok", "failed"}
    /\ UNCHANGED <<commitVars, sent, answer, updater, queue, daemonVars, bounds>>

-----------------------------------------------------------------------------
\* vyos-request-configd-update.py: wait_for_commit_lock, then, later, the
\* request.
UpdateChecksLock ==
    /\ updater = "off" /\ updates < MaxUpdates
    /\ script = 0
    /\ updates' = updates + 1
    /\ updater' = "checked"
    /\ UNCHANGED <<commitVars, shimVars, queue, daemonVars, timeouts, kills>>

UpdateSends ==
    /\ updater = "checked"
    /\ queue' = Append(queue, Request("update", "node", TRUE))
    /\ updater' = "waits"
    /\ UNCHANGED <<commitVars, shimVars, daemonVars, bounds>>

-----------------------------------------------------------------------------
\* The daemon's answer reaches the client that waits for it.
Answer(r, code) ==
    /\ answer' = IF r.from = "shim" THEN code ELSE answer
    /\ updater' = IF r.from = "update" THEN "off" ELSE updater

Receive(r) == queue # <<>> /\ r = Head(queue) /\ queue' = Tail(queue)

\* The main loop receives an announcement and enters initialization.
RecvInit(r) ==
    /\ daemon = "main" /\ Receive(r) /\ r.kind = "init"
    /\ Answer(r, "init")
    /\ daemon' = "loop" /\ got' = <<>> /\ peer' = r.from
    /\ UNCHANGED <<commitVars, shim, sent, config, rendered, bounds>>

\* Mutants: only the first announcement is understood; the second one is not
\* answered.
TakeFirst(r) ==
    /\ daemon = "loop" /\ Receive(r) /\ r.kind # "node"
    /\ Answer(r, "active")
    /\ daemon' = "strings" /\ got' = <<r>>
    /\ UNCHANGED <<commitVars, shim, sent, peer, config, rendered, bounds>>

IgnoreSecond(r) ==
    /\ daemon = "loop" /\ Receive(r) /\ r.kind = "init"
    /\ UNCHANGED <<commitVars, shimVars, updater, daemonVars, bounds>>

\* initialization: "check first for resent init msg, in case of client timeout".
RecvInitAgain(r) ==
    /\ daemon = "loop" /\ Receive(r) /\ r.kind = "init"
    /\ Answer(r, "init")
    /\ peer' = r.from
    /\ UNCHANGED <<commitVars, shim, sent, daemon, got, config, rendered, bounds>>

RecvActive(r) ==
    /\ daemon = "loop" /\ Receive(r) /\ r.kind = "string"
    /\ Answer(r, "active")
    /\ daemon' = "strings" /\ got' = <<r>>
    /\ UNCHANGED <<commitVars, shim, sent, peer, config, rendered, bounds>>

\* The Config object for what was received: both configurations must be
\* configuration texts.
ConfigOf(s) ==
    IF s[1].kind = "string" /\ s[2].kind = "string" THEN s[1].gen ELSE None

\* The other five strings, whatever they are.
RecvString(r) ==
    /\ daemon = "strings" /\ Receive(r)
    /\ Answer(r, "string")
    /\ got' = Append(got, r)
    /\ IF Len(got') = NStrings
       THEN daemon' = "main" /\ config' = ConfigOf(got')
       ELSE UNCHANGED <<daemon, config>>
    /\ UNCHANGED <<commitVars, shim, sent, peer, rendered, bounds>>

\* A node without a configuration, or for a script outside the include file.
RecvNodeUnserved(r) ==
    /\ daemon = "main" /\ Receive(r) /\ r.kind = "node"
    /\ \/ config = None /\ Answer(r, "ERROR_DAEMON")
       \/ config # None /\ r.from = "shim" /\ script \in Excluded /\ Answer(r, "PASS")
    /\ UNCHANGED <<commitVars, shim, sent, daemonVars, bounds>>

\* process_node_data runs the script; after the last one FRR is rendered.
RecvNode(r) ==
    /\ daemon = "main" /\ Receive(r) /\ r.kind = "node"
    /\ config # None /\ ~(r.from = "shim" /\ script \in Excluded)
    /\ \E code \in {"SUCCESS", "ERROR_COMMIT", "ERROR_COMMIT_APPLY"} :
          /\ Answer(r, code)
          /\ rendered' = IF r.last /\ code = "SUCCESS"
                         THEN rendered \cup {[config |-> config, commit |-> r.gen,
                                              script |-> IF r.from = "shim" THEN script ELSE 0]}
                         ELSE rendered
    /\ UNCHANGED <<commitVars, shim, sent, daemon, got, peer, config, bounds>>

\* The daemon stops on a request it does not expect: the main loop cannot
\* parse a string; initialization leaves a node unanswered and receives again,
\* which the REP socket refuses.
Unexpected(r) == \/ daemon = "main" /\ r.kind = "string"
                 \/ daemon = "loop" /\ r.kind = "node"

Down == daemon' = "down" /\ config' = None /\ got' = <<>> /\ peer' = "none"

RecvUnexpected(r) ==
    /\ Receive(r) /\ Unexpected(r)
    /\ Down
    /\ UNCHANGED <<commitVars, shimVars, updater, rendered, bounds>>

\* The daemon is killed; requests in its buffers are lost, others are not.
Kill ==
    /\ daemon # "down" /\ kills < MaxKills
    /\ kills' = kills + 1
    /\ Down
    /\ queue' \in {queue, <<>>}
    /\ UNCHANGED <<commitVars, shimVars, updater, rendered, timeouts, updates>>

\* systemd restarts it.
Restart ==
    /\ daemon = "down"
    /\ daemon' = "main"
    /\ UNCHANGED <<commitVars, shimVars, updater, queue, got, peer, config, rendered, bounds>>

Daemon == \/ \E r \in {queue[i] : i \in DOMAIN queue} :
                \/ RecvInit(r) \/ RecvInitAgain(r) \/ RecvActive(r) \/ RecvString(r)
                \/ RecvNodeUnserved(r) \/ RecvNode(r) \/ RecvUnexpected(r)
          \/ Restart

Shim == \/ Announce \/ SendString \/ HandshakeDone \/ SendNode \/ ReadResult
        \/ PassThrough \/ NextScript \/ EndCommit

\* The bound on the number of commits is reached.
Exhausted == script = 0 /\ commit = MaxCommits /\ UNCHANGED vars

Next ==
    \/ \E n \in 1..MaxScripts : BeginCommit(n)
    \/ Shim \/ Daemon \/ AlarmFires
    \/ UpdateChecksLock \/ UpdateSends
    \/ Kill
    \/ Exhausted

\* The processes are scheduled; the DHCP client and the alarm need not act.
Spec == Init /\ [][Next]_vars /\ WF_vars(Shim) /\ WF_vars(Daemon)

-----------------------------------------------------------------------------
Requests == [from: {"shim", "gone", "update"}, gen: 0..MaxCommits,
             kind: {"init", "string", "node"}, last: BOOLEAN]

\* The types of the processes and of the requests between them.
TypeOK ==
    /\ commit \in 0..MaxCommits /\ size \in 0..MaxScripts /\ script \in 0..size
    /\ initialMarker \in BOOLEAN /\ queueMarker \in BOOLEAN /\ good \in BOOLEAN
    /\ shim \in {"off", "start", "announced", "handshake", "node", "pass", "ok", "failed"}
    /\ sent \in 0..NStrings
    /\ answer \in Codes \cup {"none", "init", "active", "string"}
    /\ updater \in {"off", "checked", "waits"}
    /\ queue \in Seq(Requests) /\ got \in Seq(Requests) /\ Len(got) <= NStrings
    /\ daemon \in {"main", "loop", "strings", "down"}
    /\ peer \in {"none", "shim", "gone", "update"}
    /\ config \in (1..MaxCommits) \cup {None}

\* A script that the daemon runs for a commit runs with the configuration of
\* that commit, never with the one kept from an earlier commit: a vyshim sends
\* its node only after this commit's handshake, unless the daemon has lost it.
OwnConfig ==
    \A i \in DOMAIN queue :
        i = 1 /\ daemon = "main" /\ queue[i].from = "shim" /\ queue[i].kind = "node"
            => config \in {commit, None}

\* Whatever announcements time out, the daemon is never stopped by a request,
\* as long as it was not restarted and there is no second client.
NeverUnexpected ==
    queue # <<>> /\ kills = 0 /\ updates = 0 => ~Unexpected(Head(queue))

\* FRR is rendered from the configuration of the commit it is rendered for, and
\* as long as no announcement timed out once per commit, after its last script.
RenderedLast ==
    \A e \in rendered : e.script # 0 =>
        /\ e.config = e.commit
        /\ timeouts = 0 /\ e.commit = commit => e.script = size

\* A commit that began ends: no process waits for an answer for ever, unless
\* the daemon was killed or a second client got in between.
CommitEnds == script # 0 ~> script = 0 \/ kills > 0 \/ updates > 0

\* The handshake of initialization is "synchronous for ipc from single client"
\* (the comment in vyos-configd): every string comes from the client whose
\* announcement was answered.
SingleClient == \A i \in DOMAIN got : got[i].from = peer

\* A commit whose scripts all succeeded has FRR rendered from its
\* configuration: "if initial communication failed, pass through execution of
\* script" (vyshim.c) is a substitute for running it in the daemon.
CommitRendered ==
    script = 0 /\ commit > 0 /\ good =>
        \E e \in rendered : e.commit = commit /\ e.config = commit
=============================================================================
