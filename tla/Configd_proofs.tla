--------------------------- MODULE Configd_proofs ---------------------------
(***************************************************************************)
(* The protocol around vyos-configd, for any number of commits, scripts,   *)
(* timeouts, deaths of the daemon and requests of the DHCP client.         *)
(***************************************************************************)
EXTENDS Configd, SequenceTheorems, TLAPS

\* Counters that are not bounded by TypeOK.
Counters == timeouts \in Nat /\ kills \in Nat /\ updates \in Nat

\* Where a vyshim process can be in its commit.
ShimInv ==
    /\ script = 0 <=> shim = "off"
    /\ shim # "off" => commit >= 1
    /\ shim \in {"announced", "handshake"} => initialMarker
    /\ shim = "node" => ~initialMarker
    /\ shim = "announced" => sent = 0
    /\ shim = "start" /\ initialMarker => sent = 0 /\ answer = "none"
    /\ shim = "start" => answer = "none"
    /\ shim = "handshake" => sent >= 1

\* What may wait for the daemon: the request of the process that waits for its
\* answer, announcements of processes that have gone, and nodes of the client.
Legit(r) ==
    /\ r.gen <= commit
    /\ r.from = "gone" => r.kind = "init"
    /\ r.from = "update" => r.kind = "node"
    /\ r.from = "shim" =>
          /\ answer = "none" /\ r.gen = commit
          /\ <<shim, r.kind>> \in {<<"announced", "init">>, <<"handshake", "string">>,
                                   <<"node", "node">>}
          /\ r.last /\ timeouts = 0 => script = size

\* A process has at most one request, and what went wrong before it is ahead.
QueueInv ==
    /\ \A i \in 1..Len(queue) : Legit(queue[i])
    /\ \A i, j \in 1..Len(queue) :
          queue[j].from = "shim" /\ queue[i].from \in {"shim", "gone"} => i <= j

\* The daemon has answered this commit's announcement.
Talking ==
    \/ shim = "announced" /\ answer # "none"
    \/ shim = "handshake"
    \/ ~initialMarker

\* By then it has answered the announcements before it, too.
NoInit == Talking => \A i \in 1..Len(queue) : queue[i].kind # "init"

\* How far the daemon is: the strings it has come from this commit, and their
\* number keeps up with the process, so that it is not still waiting for one
\* when the process is done.
DaemonInv ==
    /\ daemon = "strings" =>
          /\ shim = "handshake"
          /\ Len(got) >= 1 /\ Len(got) < NStrings
          /\ got[1].kind = "string" /\ got[1].gen = commit
          /\ Len(got) >= sent \/ (answer = "none" /\ Len(got) + 1 >= sent)
    /\ daemon = "loop" =>
          /\ initialMarker
          /\ shim = "handshake" => answer = "none" /\ sent = 1
    /\ daemon \in {"main", "down"} /\ Talking => config \in {commit, None}

\* The marker of the last script is there only before its vyshim has read it.
MarkerInv ==
    timeouts = 0 /\ queueMarker
        => script = size /\ shim \in {"start", "announced", "handshake"}

\* FRR was rendered for commits up to this one, as RenderedLast says.
RenderedInv == RenderedLast /\ \A e \in rendered : e.commit \in 0..commit

Protocol == ShimInv /\ QueueInv /\ NoInit /\ DaemonInv /\ MarkerInv /\ RenderedInv

ConfigdInv == TypeOK /\ Counters /\ Protocol

\* Without a second client and a death of the daemon both keep step.
InStep ==
    kills = 0 /\ updates = 0 =>
        /\ daemon # "down" /\ updater = "off"
        /\ \A i \in 1..Len(queue) : queue[i].from # "update"
        /\ shim = "announced" /\ answer # "none" => daemon = "loop"
        /\ shim = "handshake" =>
              IF answer = "none"
              THEN IF sent = 1 THEN daemon = "loop"
                               ELSE daemon = "strings" /\ sent = Len(got) + 1
              ELSE IF sent = NStrings THEN daemon = "main"
                                      ELSE daemon = "strings" /\ Len(got) = sent
-----------------------------------------------------------------------------
\* What the queue is after one of its operations.
LEMMA Received ==
    ASSUME NEW r, queue \in Seq(Requests), Receive(r)
    PROVE  /\ r \in Requests /\ r = queue[1] /\ 1 \in 1..Len(queue)
           /\ queue' \in Seq(Requests) /\ Len(queue') = Len(queue) - 1
           /\ \A i \in 1..Len(queue') : queue'[i] = queue[i + 1] /\ i + 1 \in 2..Len(queue)
  BY DEF Receive

LEMMA Sent ==
    ASSUME NEW r \in Requests, queue \in Seq(Requests), queue' = Append(queue, r)
    PROVE  /\ queue' \in Seq(Requests) /\ Len(queue') = Len(queue) + 1
           /\ \A i \in 1..Len(queue) : queue'[i] = queue[i]
           /\ queue'[Len(queue')] = r
  OBVIOUS

\* A process that gives up leaves no request of a process that waits.
LEMMA GivenUp ==
    ASSUME queue \in Seq(Requests), QueueInv,
           queue' \in {Orphan(queue)} \cup Withdrawn(queue)
    PROVE  /\ queue' \in Seq(Requests)
           /\ \A i \in 1..Len(queue') : \E j \in 1..Len(queue) :
                 /\ queue'[i].kind = queue[j].kind /\ queue'[i].gen = queue[j].gen
                 /\ queue'[i].from = IF queue[j].from = "shim" THEN "gone"
                                                                ELSE queue[j].from
<1>1. CASE queue' = Orphan(queue)
  <2>1. DOMAIN queue = 1..Len(queue) /\ Len(queue) \in Nat
    OBVIOUS
  <2>2. \A i \in 1..Len(queue) : queue[i] \in Requests
    OBVIOUS
  <2>3. queue' = [i \in 1..Len(queue) |->
                    IF queue[i].from = "shim" THEN [queue[i] EXCEPT !.from = "gone"]
                                              ELSE queue[i]]
    BY <1>1, <2>1 DEF Orphan
  <2>4. \A i \in 1..Len(queue) : queue'[i] \in Requests
    BY <2>2, <2>3 DEF Requests
  <2>5. queue' \in Seq(Requests) /\ Len(queue') = Len(queue)
    BY <2>1, <2>3, <2>4
  <2>6. \A i \in 1..Len(queue) :
          /\ queue'[i].kind = queue[i].kind /\ queue'[i].gen = queue[i].gen
          /\ queue'[i].from = IF queue[i].from = "shim" THEN "gone" ELSE queue[i].from
    BY <2>2, <2>3 DEF Requests
  <2> QED BY <2>5, <2>6
<1>2. CASE queue' \in Withdrawn(queue)
  <2>1. PICK k \in 1..Len(queue) : queue[k].from = "shim" /\ queue' = RemoveAt(queue, k)
    BY <1>2 DEF Withdrawn
  <2> DEFINE before == SubSeq(queue, 1, k - 1)
             after == SubSeq(queue, k + 1, Len(queue))
  <2>2. Len(queue) \in Nat /\ \A i \in 1..Len(queue) : queue[i] \in Requests
    OBVIOUS
  <2>3. /\ before \in Seq(Requests) /\ Len(before) = k - 1
        /\ \A i \in 1..(k - 1) : before[i] = queue[i]
    BY <2>2, SubSeqProperties
  <2>4. /\ after \in Seq(Requests) /\ Len(after) = Len(queue) - k
        /\ \A i \in 1..(Len(queue) - k) : after[i] = queue[k + i]
    BY <2>2, SubSeqProperties
  <2>5. queue' = before \o after
    BY <2>1 DEF RemoveAt
  <2> HIDE DEF before, after
  <2>6. /\ queue' \in Seq(Requests) /\ Len(queue') = Len(queue) - 1
        /\ \A i \in 1..Len(queue') :
              queue'[i] = IF i < k THEN queue[i] ELSE queue[i + 1]
    <3>1. /\ before \o after \in Seq(Requests)
          /\ Len(before \o after) = Len(before) + Len(after)
          /\ \A i \in 1..(Len(before) + Len(after)) : (before \o after)[i] =
                IF i <= Len(before) THEN before[i] ELSE after[i - Len(before)]
      BY <2>3, <2>4, ConcatProperties
    <3>2. queue' \in Seq(Requests) /\ Len(queue') = Len(queue) - 1
      BY <2>2, <2>3, <2>4, <2>5, <3>1
    <3>3. ASSUME NEW i \in 1..Len(queue')
          PROVE  queue'[i] = IF i < k THEN queue[i] ELSE queue[i + 1]
      <4>1. i \in 1..(Len(before) + Len(after)) /\ k \in 1..Len(queue)
        BY <2>2, <2>3, <2>4, <3>2
      <4>2. CASE i < k
        BY <2>2, <2>3, <2>5, <3>1, <4>1, <4>2
      <4>3. CASE i >= k
        <5>1. queue'[i] = after[i - (k - 1)]
          BY <2>2, <2>3, <2>5, <3>1, <4>1, <4>3
        <5>2. i - (k - 1) \in 1..(Len(queue) - k) /\ k + (i - (k - 1)) = i + 1
          BY <2>2, <2>3, <2>4, <4>1, <4>3
        <5> QED BY <2>4, <4>1, <4>3, <5>1, <5>2
      <4> QED BY <2>2, <4>1, <4>2, <4>3
    <3> QED BY <3>2, <3>3
  <2>7. ASSUME NEW i \in 1..Len(queue')
        PROVE  \E j \in 1..Len(queue) : queue'[i] = queue[j] /\ queue[j].from # "shim"
    <3>1. \A j \in 1..Len(queue) : j # k => queue[j].from # "shim"
      BY <2>1 DEF QueueInv
    <3>2. CASE i < k
      BY <2>2, <2>6, <3>1, <3>2
    <3>3. CASE i >= k
      <4>1. i + 1 \in 1..Len(queue) /\ i + 1 # k /\ queue'[i] = queue[i + 1]
        BY <2>2, <2>6, <3>3
      <4> QED BY <3>1, <4>1
    <3> QED BY <2>2, <2>6, <3>2, <3>3
  <2> QED BY <2>6, <2>7
<1> QED BY <1>1, <1>2

-----------------------------------------------------------------------------
\* The requests that the clients make.
LEMMA RequestType ==
    ASSUME commit \in 0..MaxCommits, NEW from \in {"shim", "gone", "update"},
           NEW kind \in {"init", "string", "node"}, NEW last \in BOOLEAN
    PROVE  Request(from, kind, last) \in Requests
  BY DEF Request, Requests

LEMMA RequestFields ==
    ASSUME NEW r \in Requests
    PROVE  /\ r.gen \in Nat /\ r.from \in {"shim", "gone", "update"}
           /\ r.kind \in {"init", "string", "node"} /\ r.last \in BOOLEAN
  BY BoundsAssumption DEF Requests

\* The type invariant in parts, each with the steps that disturb it.
CommitTypes == commit \in 0..MaxCommits /\ size \in 0..MaxScripts /\ script \in 0..size
FlagTypes == initialMarker \in BOOLEAN /\ queueMarker \in BOOLEAN /\ good \in BOOLEAN
ShimTypes ==
    /\ shim \in {"off", "start", "announced", "handshake", "node", "pass", "ok", "failed"}
    /\ sent \in 0..NStrings
ClientTypes ==
    /\ answer \in Codes \cup {"none", "init", "active", "string"}
    /\ updater \in {"off", "checked", "waits"}
GotTypes == got \in Seq(Requests) /\ Len(got) <= NStrings
DaemonTypes ==
    /\ daemon \in {"main", "loop", "strings", "down"}
    /\ peer \in {"none", "shim", "gone", "update"}
    /\ config \in (1..MaxCommits) \cup {None}

LEMMA TypeParts ==
    TypeOK <=> /\ CommitTypes /\ FlagTypes /\ ShimTypes /\ ClientTypes
               /\ queue \in Seq(Requests) /\ GotTypes /\ DaemonTypes
  BY DEF TypeOK, CommitTypes, FlagTypes, ShimTypes, ClientTypes, GotTypes, DaemonTypes

LEMMA ClientTypesInductive ==
    ASSUME CommitTypes, FlagTypes, ShimTypes, ShimInv, Counters, [Next]_vars
    PROVE  CommitTypes' /\ FlagTypes' /\ ShimTypes' /\ Counters'
<1>1. CommitTypes'
  <2>1. ASSUME NEW n \in 1..MaxScripts, BeginCommit(n) PROVE CommitTypes'
    BY <2>1, BoundsAssumption DEF BeginCommit, CommitTypes
  <2>2. CASE NextScript \/ EndCommit
    BY <2>2, BoundsAssumption DEF NextScript, EndCommit, CommitTypes
  <2>3. ASSUME UNCHANGED <<commit, size, script>> PROVE CommitTypes'
    BY <2>3 DEF CommitTypes
  <2> QED BY <2>1, <2>2, <2>3
      DEF Next, Shim, Daemon, Announce, SendString, HandshakeDone, SendNode, ReadResult,
          PassThrough, AlarmFires, UpdateChecksLock, UpdateSends, RecvInit, RecvInitAgain,
          RecvActive, RecvString, RecvNodeUnserved, RecvNode, RecvUnexpected, Kill,
          Restart, Exhausted, vars, commitVars
<1>2. FlagTypes'
  <2>1. ASSUME NEW n \in 1..MaxScripts, BeginCommit(n) PROVE FlagTypes'
    BY <2>1, Zenon DEF BeginCommit, FlagTypes
  <2>2. CASE NextScript
    BY <2>2, Zenon DEF NextScript, FlagTypes
  <2>3. CASE EndCommit
    BY <2>3, Zenon DEF EndCommit, FlagTypes
  <2>4. CASE HandshakeDone \/ SendNode
    BY <2>4, Zenon DEF HandshakeDone, SendNode, FlagTypes
  <2>5. ASSUME UNCHANGED <<initialMarker, queueMarker, good>> PROVE FlagTypes'
    BY <2>5, Zenon DEF FlagTypes
  <2> QED BY <2>1, <2>2, <2>3, <2>4, <2>5
      DEF Next, Shim, Daemon, Announce, SendString, ReadResult,
          PassThrough, AlarmFires, UpdateChecksLock, UpdateSends, RecvInit, RecvInitAgain,
          RecvActive, RecvString, RecvNodeUnserved, RecvNode, RecvUnexpected, Kill,
          Restart, Exhausted, vars, commitVars
<1>3. ShimTypes'
  <2> USE DEF ShimTypes
  <2>1. ASSUME NEW n \in 1..MaxScripts, BeginCommit(n) PROVE ShimTypes'
    BY <2>1 DEF BeginCommit, NStrings
  <2>2. CASE NextScript \/ EndCommit
    BY <2>2 DEF NextScript, EndCommit, NStrings
  <2>3. CASE Announce \/ HandshakeDone \/ SendNode \/ ReadResult \/ PassThrough
    BY <2>3 DEF Announce, HandshakeDone, SendNode, ReadResult, PassThrough
  <2>4. CASE SendString
    BY <2>4 DEF SendString, ShimInv, NStrings
  <2>5. CASE AlarmFires
    BY <2>5 DEF AlarmFires
  <2>6. ASSUME UNCHANGED <<shim, sent>> PROVE ShimTypes'
    BY <2>6
  <2> QED BY <2>1, <2>2, <2>3, <2>4, <2>5, <2>6
      DEF Next, Shim, Daemon, UpdateChecksLock, UpdateSends, RecvInit, RecvInitAgain,
          RecvActive, RecvString, RecvNodeUnserved, RecvNode, RecvUnexpected, Kill,
          Restart, Exhausted, vars, shimVars
<1>4. Counters'
  <2>1. CASE AlarmFires \/ UpdateChecksLock \/ Kill
    BY <2>1 DEF AlarmFires, UpdateChecksLock, Kill, Counters
  <2>2. ASSUME UNCHANGED bounds PROVE Counters'
    BY <2>2 DEF bounds, Counters
  <2> QED BY <2>1, <2>2
      DEF Next, Shim, Daemon, BeginCommit, NextScript, EndCommit, Announce, SendString,
          HandshakeDone, SendNode, ReadResult, PassThrough, UpdateSends, RecvInit,
          RecvInitAgain, RecvActive, RecvString, RecvNodeUnserved, RecvNode,
          RecvUnexpected, Restart, Exhausted, vars
<1> QED BY <1>1, <1>2, <1>3, <1>4

LEMMA ReplyTypesInductive ==
    ASSUME ClientTypes, DaemonTypes, GotTypes, FlagTypes, queue \in Seq(Requests), CommitTypes,
           QueueInv, DaemonInv, ShimInv, [Next]_vars
    PROVE  ClientTypes' /\ queue' \in Seq(Requests) /\ GotTypes' /\ DaemonTypes'
<1>0. commit \in Nat /\ commit \in 0..MaxCommits
  BY BoundsAssumption DEF CommitTypes
<1>1. ClientTypes'
  <2> USE DEF ClientTypes
  <2>1. ASSUME NEW r, NEW code \in Codes \cup {"init", "active", "string"}, Answer(r, code)
        PROVE  ClientTypes'
    BY <2>1, Zenon DEF Answer
  <2>2. ASSUME NEW r, \/ RecvInit(r) \/ RecvInitAgain(r) \/ RecvActive(r) \/ RecvString(r)
                      \/ RecvNodeUnserved(r) \/ RecvNode(r)
        PROVE  \E code \in Codes \cup {"init", "active", "string"} : Answer(r, code)
    BY <2>2 DEF RecvInit, RecvInitAgain, RecvActive, RecvString, RecvNodeUnserved,
       RecvNode, Codes
  <2>3. ASSUME answer' \in {answer, "none"}, updater' \in {updater, "checked", "waits"}
        PROVE  ClientTypes'
    BY <2>3
  <2> HIDE DEF ClientTypes
  <2> QED BY <2>1, <2>2, <2>3
      DEF Next, Shim, Daemon, BeginCommit, NextScript, EndCommit, Announce, SendString,
          HandshakeDone, SendNode, ReadResult, PassThrough, AlarmFires, UpdateChecksLock,
          UpdateSends, RecvUnexpected, Kill, Restart, Exhausted, vars, shimVars
<1>2. queue' \in Seq(Requests)
  <2>1. ASSUME NEW from \in {"shim", "update"}, NEW kind \in {"init", "string", "node"},
               NEW last \in BOOLEAN, queue' = Append(queue, Request(from, kind, last))
        PROVE  queue' \in Seq(Requests)
    BY <1>0, <2>1, Sent, RequestType
  <2>2. CASE Announce \/ SendString \/ UpdateSends
    BY <2>1, <2>2 DEF Announce, SendString, UpdateSends
  <2>3. CASE SendNode
    <3>1. SendNode => \E last \in BOOLEAN : queue' = Append(queue, Request("shim", "node", last))
      BY Zenon DEF SendNode, FlagTypes
    <3> QED BY <2>1, <2>3, <3>1
  <2>4. CASE AlarmFires
    BY <2>4, GivenUp DEF AlarmFires
  <2>5. ASSUME NEW r, Receive(r) PROVE queue' \in Seq(Requests)
    BY <2>5, Received
  <2>6. CASE Kill
    <3>1. queue' = queue \/ queue' = <<>>
      BY <2>6 DEF Kill
    <3> QED BY <3>1, EmptySeq
  <2>7. CASE UNCHANGED queue
    BY <2>7
  <2> QED BY <2>2, <2>3, <2>4, <2>5, <2>6, <2>7
      DEF Next, Shim, Daemon, BeginCommit, NextScript, EndCommit, HandshakeDone, ReadResult,
          PassThrough, UpdateChecksLock, RecvInit, RecvInitAgain, RecvActive, RecvString,
          RecvNodeUnserved, RecvNode, RecvUnexpected, Restart, Exhausted, vars
<1>3. GotTypes' /\ DaemonTypes'
  <2> USE DEF GotTypes, DaemonTypes, NStrings
  <2>1. ASSUME got' = <<>>, daemon' \in {"loop", "down"}, config' \in {config, None},
               peer' \in {"none", "shim", "gone", "update"}
        PROVE  GotTypes' /\ DaemonTypes'
    BY <2>1
  <2>2. ASSUME NEW r, RecvInit(r) \/ RecvInitAgain(r)
        PROVE  GotTypes' /\ DaemonTypes'
    <3>1. r \in Requests
      BY <2>2, Received DEF RecvInit, RecvInitAgain
    <3>2. r.from \in {"none", "shim", "gone", "update"}
      BY <3>1 DEF Requests
    <3> QED BY <2>1, <2>2, <3>2 DEF RecvInit, RecvInitAgain
  <2>3. ASSUME NEW r, RecvActive(r)
        PROVE  GotTypes' /\ DaemonTypes'
    <3>1. r \in Requests
      BY <2>3, Received DEF RecvActive
    <3> QED BY <2>3, <3>1 DEF RecvActive
  <2>4. ASSUME NEW r, RecvString(r)
        PROVE  GotTypes' /\ DaemonTypes'
    <3>0. Len(got) \in Nat /\ Len(got) >= 1 /\ Len(got) <= 5
      BY <2>4 DEF RecvString, DaemonInv
    <3>1. r \in Requests /\ got[1].gen = commit /\ commit >= 1
      BY <2>4, Received DEF RecvString, DaemonInv, ShimInv
    <3>2. got' \in Seq(Requests) /\ Len(got') = Len(got) + 1 /\ got'[1] = got[1]
      BY <2>4, <3>0, <3>1 DEF RecvString
    <3>3. ConfigOf(got') \in (1..MaxCommits) \cup {None}
      BY <1>0, <3>0, <3>1, <3>2 DEF ConfigOf
    <3>4. peer' = peer /\ daemon' \in {daemon, "main"}
      BY <2>4 DEF RecvString
    <3>5. config' = config \/ config' = ConfigOf(got')
      BY <2>4 DEF RecvString
    <3>6. GotTypes'
      BY <3>0, <3>2
    <3> HIDE DEF GotTypes
    <3>7. config' \in (1..MaxCommits) \cup {None}
      BY <3>3, <3>5
    <3>8. DaemonTypes'
      BY <3>4, <3>7
    <3> QED BY <3>6, <3>8
  <2>5. ASSUME NEW r, RecvUnexpected(r) PROVE GotTypes' /\ DaemonTypes'
    BY <2>1, <2>5 DEF RecvUnexpected, Down
  <2>6. CASE Kill
    BY <2>1, <2>6 DEF Kill, Down
  <2>7. CASE Restart
    BY <2>7 DEF Restart
  <2>8. CASE AlarmFires
    BY <2>8 DEF AlarmFires
  <2>9. ASSUME UNCHANGED <<daemon, got, peer, config>> PROVE GotTypes' /\ DaemonTypes'
    BY <2>9
  <2> HIDE DEF GotTypes, DaemonTypes
  <2> QED BY <2>2, <2>3, <2>4, <2>5, <2>6, <2>7, <2>8, <2>9
      DEF Next, Shim, Daemon, BeginCommit, NextScript, EndCommit, Announce, SendString,
          HandshakeDone, SendNode, ReadResult, PassThrough, UpdateChecksLock,
          UpdateSends, RecvNodeUnserved, RecvNode, Exhausted, vars, daemonVars
<1> QED BY <1>1, <1>2, <1>3

LEMMA TypesInductive ==
    ASSUME ConfigdInv, [Next]_vars
    PROVE  TypeOK' /\ Counters'
<1>1. /\ CommitTypes /\ FlagTypes /\ ShimTypes /\ ClientTypes /\ Counters
      /\ queue \in Seq(Requests) /\ GotTypes /\ DaemonTypes
      /\ ShimInv /\ QueueInv /\ DaemonInv
  BY TypeParts DEF ConfigdInv, Protocol
<1>2. CommitTypes' /\ FlagTypes' /\ ShimTypes' /\ Counters'
  BY <1>1, ClientTypesInductive
<1>3. ClientTypes' /\ queue' \in Seq(Requests) /\ GotTypes' /\ DaemonTypes'
  BY <1>1, ReplyTypesInductive
<1> QED BY <1>2, <1>3
        DEF TypeOK, CommitTypes, FlagTypes, ShimTypes, ClientTypes, GotTypes, DaemonTypes

-----------------------------------------------------------------------------
\* The commit and its vyshim go on without a request.
LEMMA CommitStep ==
    ASSUME ConfigdInv,
           \/ \E n \in 1..MaxScripts : BeginCommit(n)
           \/ NextScript \/ EndCommit \/ HandshakeDone \/ ReadResult \/ PassThrough
    PROVE  Protocol'
<1> USE DEF ConfigdInv, Protocol
<1>1. /\ commit \in Nat /\ size \in Nat /\ script \in Nat /\ script <= size
      /\ sent \in 0..NStrings /\ queue \in Seq(Requests) /\ got \in Seq(Requests)
      /\ initialMarker \in BOOLEAN /\ queueMarker \in BOOLEAN
      /\ shim \in {"off", "start", "announced", "handshake", "node", "pass", "ok", "failed"}
  BY BoundsAssumption DEF TypeOK
<1>2. UNCHANGED <<queue, daemonVars, bounds>> /\ commit' >= commit
  BY <1>1 DEF BeginCommit, NextScript, EndCommit, HandshakeDone, ReadResult, PassThrough,
     commitVars
<1>3. \A i \in 1..Len(queue) : queue[i].from # "shim"
  BY <1>1 DEF BeginCommit, NextScript, EndCommit, HandshakeDone, ReadResult, PassThrough,
     QueueInv, Legit, ShimInv
<1>4. QueueInv'
  <2>1. commit' \in Nat
    BY <1>1 DEF BeginCommit, NextScript, EndCommit, HandshakeDone, ReadResult, PassThrough,
       commitVars
  <2>2. ASSUME NEW i \in 1..Len(queue) PROVE Legit(queue[i])'
    <3>1. queue[i] \in Requests /\ queue[i].gen \in Nat
      BY <1>1, RequestFields
    <3> QED BY <1>1, <1>2, <1>3, <2>1, <3>1 DEF QueueInv, Legit
  <2> QED BY <1>2, <1>3, <2>2 DEF QueueInv
<1>5. ShimInv'
  BY <1>1 DEF BeginCommit, NextScript, EndCommit, HandshakeDone, ReadResult, PassThrough,
     commitVars, ShimInv
<1>6. NoInit'
  BY <1>1, <1>2 DEF BeginCommit, NextScript, EndCommit, HandshakeDone, ReadResult,
     PassThrough, commitVars, ShimInv, NoInit, Talking
<1>7. DaemonInv'
  BY <1>1, <1>2 DEF BeginCommit, NextScript, EndCommit, HandshakeDone, ReadResult,
     PassThrough, commitVars, daemonVars, ShimInv, DaemonInv, Talking, NStrings
<1>8. MarkerInv'
  <2>1. timeouts' = timeouts
    BY <1>2 DEF bounds
  <2>2. ASSUME NEW n \in 1..MaxScripts, BeginCommit(n) PROVE MarkerInv'
    <3>1. timeouts = 0 => ~queueMarker
      BY <2>2 DEF BeginCommit, ShimInv, MarkerInv
    <3>2. queueMarker' => queueMarker \/ n = 1
      BY <2>2, Zenon DEF BeginCommit
    <3> QED BY <2>1, <2>2, <3>1, <3>2 DEF BeginCommit, MarkerInv
  <2>3. CASE NextScript
    <3>1. timeouts = 0 => ~queueMarker
      BY <2>3 DEF NextScript, MarkerInv
    <3>2. queueMarker' => queueMarker \/ script + 1 = size
      BY <2>3, Zenon DEF NextScript
    <3> QED BY <2>1, <2>3, <3>1, <3>2 DEF NextScript, MarkerInv
  <2>4. CASE EndCommit \/ HandshakeDone \/ ReadResult \/ PassThrough
    BY <2>1, <2>4 DEF EndCommit, HandshakeDone, ReadResult, PassThrough, commitVars, MarkerInv
  <2> QED BY <2>2, <2>3, <2>4
<1>9. RenderedInv'
  BY <1>1, <1>2 DEF BeginCommit, NextScript, EndCommit, HandshakeDone, ReadResult,
     PassThrough, commitVars, daemonVars, bounds, RenderedInv, RenderedLast
<1> QED BY <1>4, <1>5, <1>6, <1>7, <1>8, <1>9

\* A vyshim process sends a request: it had none.
LEMMA RequestStep ==
    ASSUME ConfigdInv, Announce \/ SendString \/ SendNode
    PROVE  Protocol'
<1> USE DEF ConfigdInv, Protocol
<1>1. /\ commit \in Nat /\ commit \in 0..MaxCommits /\ sent \in 0..NStrings
      /\ queue \in Seq(Requests) /\ got \in Seq(Requests) /\ script \in Nat /\ size \in Nat
      /\ queueMarker \in BOOLEAN /\ initialMarker \in BOOLEAN
  BY BoundsAssumption DEF TypeOK
<1>2. PICK kind \in {"init", "string", "node"}, last \in BOOLEAN :
        /\ queue' = Append(queue, Request("shim", kind, last))
        /\ <<shim', kind>> \in {<<"announced", "init">>, <<"handshake", "string">>,
                                <<"node", "node">>}
        /\ kind = "init" => shim = "start" /\ initialMarker
        /\ last => kind = "node" /\ queueMarker
  <2>1. CASE Announce
    BY <2>1 DEF Announce
  <2>2. CASE SendString
    BY <2>2 DEF SendString
  <2>3. CASE SendNode
    <3>1. /\ queue' = Append(queue, Request("shim", "node", queueMarker))
          /\ shim' = "node"
      BY <2>3 DEF SendNode
    <3> QED BY <1>1, <3>1
  <2> QED BY <2>1, <2>2, <2>3
<1>3. /\ UNCHANGED <<commit, size, script, initialMarker, daemonVars, bounds>>
      /\ answer' = "none" /\ shim' # "off"
      /\ shim # "off" /\ shim \notin {"pass", "node"}
      /\ queueMarker' => queueMarker
  <2>1. /\ UNCHANGED <<commit, size, script, initialMarker, daemonVars, bounds>>
        /\ answer' = "none" /\ shim' # "off"
        /\ shim # "off" /\ shim \notin {"pass", "node"}
    BY DEF Announce, SendString, SendNode, commitVars, ShimInv
  <2>2. queueMarker' = queueMarker \/ queueMarker' = FALSE
    BY DEF Announce, SendString, SendNode, commitVars
  <2>3. queueMarker' => queueMarker
    BY <2>2, Zenon
  <2> QED BY <2>1, <2>3
<1>4. \A i \in 1..Len(queue) : queue[i].from # "shim" /\ Legit(queue[i])
  BY DEF Announce, SendString, SendNode, QueueInv, Legit
<1> DEFINE r == Request("shim", kind, last)
<1>5. r \in Requests /\ r.from = "shim" /\ r.gen = commit /\ r.kind = kind /\ r.last = last
  BY <1>1, <1>2, RequestType DEF Request
<1> HIDE DEF r
<1>6. /\ queue' \in Seq(Requests) /\ Len(queue') = Len(queue) + 1
      /\ \A i \in 1..Len(queue) : queue'[i] = queue[i]
      /\ queue'[Len(queue')] = r
  BY <1>1, <1>2, <1>5, Sent DEF r
<1>7. Len(queue) \in Nat /\ \A i \in 1..Len(queue') :
          i \in 1..Len(queue) \/ i = Len(queue')
  BY <1>1, <1>6
<1>8. QueueInv'
  <2>1. last /\ timeouts = 0 => script = size
    BY <1>2 DEF MarkerInv
  <2>2. ASSUME NEW i \in 1..Len(queue') PROVE Legit(queue[i])'
    <3>1. CASE i \in 1..Len(queue)
      <4>1. queue'[i] = queue[i] /\ queue[i].from # "shim" /\ Legit(queue[i])
        BY <1>4, <1>6, <3>1
      <4> QED BY <1>3, <4>1 DEF Legit
    <3>2. CASE i = Len(queue')
      BY <1>1, <1>2, <1>3, <1>5, <1>6, <2>1, <3>2 DEF Legit, bounds
    <3> QED BY <1>7, <3>1, <3>2
  <2>3. ASSUME NEW i \in 1..Len(queue'), NEW j \in 1..Len(queue'),
               queue'[j].from = "shim"
        PROVE  i <= j
    BY <1>4, <1>6, <1>7, <2>3
  <2> QED BY <2>2, <2>3 DEF QueueInv
<1>9. ShimInv'
  <2>1. CASE Announce
    BY <1>3, <2>1 DEF Announce, commitVars, ShimInv
  <2>2. CASE SendString
    BY <1>1, <1>3, <2>2 DEF SendString, commitVars, ShimInv
  <2>3. CASE SendNode
    BY <1>1, <1>3, <2>3 DEF SendNode, ShimInv
  <2> QED BY <2>1, <2>2, <2>3
<1>10. NoInit'
  <2> SUFFICES ASSUME Talking'
               PROVE  \A i \in 1..Len(queue') : queue'[i].kind # "init"
    BY DEF NoInit
  <2>1. Talking /\ kind # "init"
    BY <1>2, <1>3 DEF Talking, Announce, SendString, SendNode
  <2> QED BY <1>5, <1>6, <1>7, <2>1 DEF NoInit
<1>11. DaemonInv'
  <2>1. CASE Announce
    BY <1>1, <1>3, <2>1 DEF Announce, commitVars, daemonVars, DaemonInv, Talking
  <2>2. CASE SendString
    BY <1>1, <1>3, <2>2 DEF SendString, commitVars, daemonVars, DaemonInv, Talking, ShimInv
  <2>3. CASE SendNode
    BY <1>1, <1>3, <2>3 DEF SendNode, daemonVars, DaemonInv, Talking
  <2> QED BY <2>1, <2>2, <2>3
<1>12. MarkerInv'
  BY <1>1, <1>3 DEF Announce, SendString, SendNode, commitVars, bounds, MarkerInv
<1>13. RenderedInv'
  BY <1>3 DEF daemonVars, bounds, RenderedInv, RenderedLast
<1> QED BY <1>8, <1>9, <1>10, <1>11, <1>12, <1>13

\* The alarm fires: what is left of the announcement comes from a process that
\* has gone.
LEMMA AlarmStep ==
    ASSUME ConfigdInv, AlarmFires
    PROVE  Protocol'
<1> USE DEF ConfigdInv, Protocol
<1>1. /\ UNCHANGED <<commit, size, script, initialMarker, sent, daemon, got, config, rendered>>
      /\ shim = "announced" /\ shim' = "pass" /\ answer' = "none"
      /\ timeouts' > 0 /\ initialMarker
  BY DEF AlarmFires, commitVars, Counters, ShimInv
<1>2. /\ queue' \in Seq(Requests)
      /\ \A i \in 1..Len(queue') : \E j \in 1..Len(queue) :
            /\ queue'[i].kind = queue[j].kind /\ queue'[i].gen = queue[j].gen
            /\ queue'[i].from = IF queue[j].from = "shim" THEN "gone"
                                                           ELSE queue[j].from
  BY GivenUp DEF AlarmFires, TypeOK
<1>3. \A i \in 1..Len(queue') : queue'[i].from # "shim" /\ Legit(queue[i])'
  <2> TAKE i \in 1..Len(queue')
  <2>1. PICK j \in 1..Len(queue) :
            /\ queue'[i].kind = queue[j].kind /\ queue'[i].gen = queue[j].gen
            /\ queue'[i].from = IF queue[j].from = "shim" THEN "gone"
                                                           ELSE queue[j].from
    BY <1>2
  <2>2. Legit(queue[j])
    BY DEF QueueInv
  <2> QED BY <1>1, <2>1, <2>2 DEF Legit
<1>4. QueueInv'
  BY <1>3 DEF QueueInv
<1>5. ShimInv' /\ NoInit' /\ DaemonInv'
  BY <1>1 DEF ShimInv, NoInit, Talking, DaemonInv
<1>6. MarkerInv' /\ RenderedInv'
  <2>1. timeouts' # 0
    BY <1>1
  <2> QED BY <1>1, <2>1 DEF MarkerInv, RenderedInv, RenderedLast
<1> QED BY <1>4, <1>5, <1>6

-----------------------------------------------------------------------------
\* The daemon takes the request at the head of the queue.
LEMMA ReceiveKeeps ==
    ASSUME ConfigdInv, NEW r, Receive(r), UNCHANGED <<commitVars, shim, sent, bounds>>,
           answer' = answer \/ r.from = "shim"
    PROVE  /\ r \in Requests /\ Legit(r) /\ (Talking => r.kind # "init")
           /\ ShimInv' /\ QueueInv' /\ NoInit' /\ MarkerInv'
<1> USE DEF ConfigdInv, Protocol
<1>1. /\ r \in Requests /\ r = queue[1] /\ 1 \in 1..Len(queue) /\ Len(queue) \in Nat
      /\ queue' \in Seq(Requests) /\ Len(queue') = Len(queue) - 1
      /\ \A i \in 1..Len(queue') : queue'[i] = queue[i + 1] /\ i + 1 \in 2..Len(queue)
  <2>1. queue \in Seq(Requests)
    BY DEF TypeOK
  <2>2. Len(queue) \in Nat
    BY <2>1
  <2> QED BY <2>1, <2>2, Received
<1>2. Legit(r)
  BY <1>1 DEF QueueInv
<1>3. UNCHANGED <<commit, size, script, initialMarker, queueMarker, shim, sent, timeouts>>
  BY DEF commitVars, bounds
\* Behind the request of the process that waits there are only updates.
<1>4. ASSUME r.from = "shim", NEW i \in 1..Len(queue')
      PROVE  queue'[i].from = "update"
  <2>1. queue'[i] = queue[i + 1] /\ i + 1 \in 1..Len(queue) /\ ~ (i + 1 <= 1)
    BY <1>1
  <2>2. queue[i + 1].from \notin {"shim", "gone"}
    BY <1>1, <1>4, <2>1 DEF QueueInv, Legit
  <2>3. queue[i + 1] \in Requests
    BY <2>1 DEF TypeOK
  <2> QED BY <2>1, <2>2, <2>3, RequestFields
<1>5. \A i \in 1..Len(queue') : Legit(queue[i])'
  <2> TAKE i \in 1..Len(queue')
  <2>1. queue'[i] = queue[i + 1] /\ Legit(queue[i + 1])
    BY <1>1 DEF QueueInv
  <2>2. CASE r.from = "shim"
    BY <1>3, <1>4, <2>1, <2>2 DEF Legit
  <2>3. CASE answer' = answer
    BY <1>3, <2>1, <2>3 DEF Legit
  <2> QED BY <2>2, <2>3
<1>6. ASSUME NEW i \in 1..Len(queue'), NEW j \in 1..Len(queue'),
             queue'[j].from = "shim", queue'[i].from \in {"shim", "gone"}
      PROVE  i <= j
  <2>1. i + 1 \in 1..Len(queue) /\ j + 1 \in 1..Len(queue)
        /\ queue'[i] = queue[i + 1] /\ queue'[j] = queue[j + 1]
    BY <1>1
  <2>2. i + 1 <= j + 1
    BY <1>6, <2>1 DEF QueueInv
  <2> QED BY <2>2
<1>7. QueueInv'
  BY <1>5, <1>6 DEF QueueInv
<1>8. ShimInv'
  <2>1. CASE r.from = "shim"
    BY <1>2, <1>3, <2>1 DEF ShimInv, Legit
  <2>2. CASE answer' = answer
    BY <1>3, <2>2 DEF ShimInv
  <2> QED BY <2>1, <2>2
<1>9. NoInit'
  <2>1. CASE r.from = "shim"
    BY <1>4, <1>5, <2>1 DEF NoInit, Legit
  <2>2. CASE answer' = answer
    BY <1>1, <1>3, <2>2 DEF NoInit, Talking
  <2> QED BY <2>1, <2>2
<1>10. MarkerInv'
  BY <1>3 DEF MarkerInv
<1>11. Talking => r.kind # "init"
  BY <1>1 DEF NoInit
<1> QED BY <1>1, <1>2, <1>7, <1>8, <1>9, <1>10, <1>11

\* The daemon answers a request.
LEMMA DaemonStep ==
    ASSUME ConfigdInv, NEW r,
           \/ RecvInit(r) \/ RecvInitAgain(r) \/ RecvActive(r) \/ RecvString(r)
           \/ RecvNodeUnserved(r) \/ RecvNode(r) \/ RecvUnexpected(r)
    PROVE  Protocol'
<1> USE DEF ConfigdInv, Protocol
<1>1. /\ Receive(r) /\ UNCHANGED <<commitVars, shim, sent, bounds>>
      /\ answer' = answer \/ r.from = "shim"
  BY DEF RecvInit, RecvInitAgain, RecvActive, RecvString, RecvNodeUnserved, RecvNode,
     RecvUnexpected, Answer, shimVars
<1>2. /\ r \in Requests /\ Legit(r) /\ (Talking => r.kind # "init")
      /\ ShimInv' /\ QueueInv' /\ NoInit' /\ MarkerInv'
  BY <1>1, ReceiveKeeps
<1>3. UNCHANGED <<commit, size, script, initialMarker, shim, sent, timeouts>>
  BY <1>1 DEF commitVars, bounds
<1>4. /\ got \in Seq(Requests) /\ sent \in 0..NStrings /\ Len(got) \in Nat
      /\ config \in (1..MaxCommits) \cup {None} /\ commit \in Nat
  BY BoundsAssumption DEF TypeOK
<1>5. r.from \in {"shim", "gone", "update"} /\ r.kind \in {"init", "string", "node"}
      /\ r.gen \in Nat
  BY <1>2, RequestFields
<1>6. DaemonInv'
  <2>1. CASE RecvInit(r) \/ RecvInitAgain(r)
    <3>1. daemon' = "loop" /\ r.kind = "init"
      BY <2>1 DEF RecvInit, RecvInitAgain
    <3> QED BY <1>2, <1>3, <3>1 DEF DaemonInv, Talking
  <2>2. CASE RecvActive(r)
    <3>1. /\ daemon = "loop" /\ daemon' = "strings" /\ r.kind = "string" /\ got' = <<r>>
          /\ Len(got') = 1 /\ got'[1] = r
      BY <2>2 DEF RecvActive
    <3>2. r.from = "shim" /\ shim = "handshake" /\ r.gen = commit
      BY <1>2, <1>5, <3>1 DEF Legit
    <3> QED BY <1>3, <3>1, <3>2 DEF DaemonInv, NStrings
  <2>3. CASE RecvString(r)
    <3>1. /\ daemon = "strings" /\ got' = Append(got, r) /\ Answer(r, "string")
          /\ shim = "handshake" /\ Len(got) >= 1
          /\ got[1].kind = "string" /\ got[1].gen = commit
      BY <2>3 DEF RecvString, DaemonInv
    <3>2. Len(got') = Len(got) + 1 /\ got'[1] = got[1]
      BY <1>2, <1>4, <3>1
    <3>3. CASE Len(got') = NStrings
      <4>1. daemon' = "main" /\ config' = ConfigOf(got')
        BY <2>3, <3>3 DEF RecvString
      <4>2. config' \in {commit, None}
        BY <3>1, <3>2, <4>1 DEF ConfigOf
      <4> QED BY <1>3, <4>1, <4>2 DEF DaemonInv
    <3>4. CASE Len(got') # NStrings
      <4>1. daemon' = "strings" /\ Len(got') < NStrings
        BY <2>3, <1>4, <3>1, <3>2, <3>4 DEF RecvString, DaemonInv, NStrings
      <4>2. Len(got') >= sent
        BY <1>4, <3>1, <3>2 DEF DaemonInv, NStrings
      <4> QED BY <1>3, <1>4, <3>1, <3>2, <4>1, <4>2 DEF DaemonInv
    <3> QED BY <3>3, <3>4
  \* The answer to a node does not make the daemon talk to a new process.
  <2>4. CASE RecvNodeUnserved(r) \/ RecvNode(r)
    <3>1. UNCHANGED <<daemon, got, config>> /\ daemon = "main" /\ r.kind = "node"
      BY <2>4 DEF RecvNodeUnserved, RecvNode, daemonVars
    <3>2. Talking' => Talking
      BY <1>1, <1>2, <1>3, <3>1 DEF Talking, Legit
    <3> QED BY <1>3, <3>1, <3>2 DEF DaemonInv
  <2>5. CASE RecvUnexpected(r)
    <3>1. daemon' = "down" /\ config' = None
      BY <2>5 DEF RecvUnexpected, Down
    <3> QED BY <3>1 DEF DaemonInv
  <2> QED BY <2>1, <2>2, <2>3, <2>4, <2>5
<1>7. RenderedInv'
  <2>1. CASE RecvNode(r)
    <3>1. /\ daemon = "main" /\ r.kind = "node" /\ config # None
          /\ \/ rendered' = rendered
             \/ /\ r.last
                /\ rendered' = rendered \cup {[config |-> config, commit |-> r.gen,
                                   script |-> IF r.from = "shim" THEN script ELSE 0]}
      BY <2>1 DEF RecvNode
    <3>2. r.from = "shim" => config = commit /\ r.gen = commit
                             /\ (r.last /\ timeouts = 0 => script = size)
      BY <1>2, <3>1 DEF Legit, ShimInv, DaemonInv, Talking
    <3>3. r.gen \in 0..commit
      BY <1>2, <1>4, <1>5 DEF Legit
    <3> QED BY <1>3, <3>1, <3>2, <3>3 DEF RenderedInv, RenderedLast
  <2>2. CASE rendered' = rendered
    BY <1>3, <2>2 DEF RenderedInv, RenderedLast
  <2> QED BY <2>1, <2>2 DEF RecvInit, RecvInitAgain, RecvActive, RecvString,
             RecvNodeUnserved, RecvUnexpected, daemonVars
<1> QED BY <1>2, <1>6, <1>7

\* The DHCP client, the daemon's death and its restart.
LEMMA OtherStep ==
    ASSUME ConfigdInv,
           UpdateChecksLock \/ UpdateSends \/ Kill \/ Restart \/ Exhausted \/ UNCHANGED vars
    PROVE  Protocol'
<1> USE DEF ConfigdInv, Protocol
<1>1. UNCHANGED <<commit, size, script, initialMarker, queueMarker, shim, sent, answer,
                  rendered, timeouts>>
  BY DEF UpdateChecksLock, UpdateSends, Kill, Restart, Exhausted, vars, commitVars,
     shimVars, daemonVars, bounds
<1>2. ShimInv' /\ MarkerInv' /\ RenderedInv'
  BY <1>1 DEF ShimInv, MarkerInv, RenderedInv, RenderedLast
<1>3. DaemonInv'
  <2>1. CASE Kill
    BY <2>1 DEF Kill, Down, DaemonInv
  <2>2. CASE Restart
    BY <1>1, <2>2 DEF Restart, DaemonInv, Talking
  <2>3. CASE UNCHANGED daemonVars
    BY <1>1, <2>3 DEF daemonVars, DaemonInv, Talking
  <2> QED BY <2>1, <2>2, <2>3
          DEF UpdateChecksLock, UpdateSends, Exhausted, vars
<1>4. QueueInv' /\ NoInit'
  <2>1. CASE UpdateSends
    <3> DEFINE r == Request("update", "node", TRUE)
    <3>1. commit \in 0..MaxCommits /\ commit \in Nat /\ queue \in Seq(Requests)
      BY BoundsAssumption DEF TypeOK
    <3>2. r \in Requests /\ r.from = "update" /\ r.kind = "node" /\ r.gen = commit
      BY <3>1, RequestType DEF Request
    <3>3. queue' = Append(queue, r)
      BY <2>1 DEF UpdateSends
    <3> HIDE DEF r
    <3>4. /\ Len(queue') = Len(queue) + 1 /\ Len(queue) \in Nat
          /\ \A i \in 1..Len(queue) : queue'[i] = queue[i]
          /\ queue'[Len(queue')] = r
      BY <3>1, <3>2, <3>3, Sent
    <3>5. \A i \in 1..Len(queue') :
             \/ i \in 1..Len(queue) /\ queue'[i] = queue[i]
             \/ i = Len(queue') /\ queue'[i] = r
      BY <3>4
    <3>6. \A i \in 1..Len(queue') : Legit(queue[i])'
      <4> TAKE i \in 1..Len(queue')
      <4>1. CASE i \in 1..Len(queue) /\ queue'[i] = queue[i]
        BY <1>1, <4>1 DEF QueueInv, Legit
      <4>2. CASE queue'[i] = r
        BY <1>1, <3>1, <3>2, <4>2 DEF Legit
      <4> QED BY <3>5, <4>1, <4>2
    <3>7. ASSUME NEW i \in 1..Len(queue'), NEW j \in 1..Len(queue'),
                 queue'[j].from = "shim", queue'[i].from \in {"shim", "gone"}
          PROVE  i <= j
      BY <3>2, <3>5, <3>7 DEF QueueInv
    <3>8. NoInit'
      BY <1>1, <3>2, <3>5 DEF NoInit, Talking
    <3> QED BY <3>6, <3>7, <3>8 DEF QueueInv
  <2>2. CASE UNCHANGED queue
    BY <1>1, <2>2 DEF QueueInv, Legit, NoInit, Talking
  <2>3. CASE queue' = <<>>
    <3>1. 1..Len(queue') = {}
      BY <2>3
    <3> QED BY <3>1 DEF QueueInv, NoInit
  <2> QED BY <2>1, <2>2, <2>3 DEF UpdateChecksLock, Kill, Restart, Exhausted, vars
<1> QED BY <1>2, <1>3, <1>4

LEMMA ConfigdInitially ==
    ASSUME Init
    PROVE  ConfigdInv /\ InStep
<1>1. queue = <<>> /\ Len(queue) = 0 /\ Len(got) = 0 /\ 1..0 = {}
      /\ queue \in Seq(Requests) /\ got \in Seq(Requests)
  BY EmptySeq DEF Init
<1>2. TypeOK
  <2>1. CommitTypes /\ ShimTypes /\ ClientTypes /\ GotTypes /\ DaemonTypes
    BY <1>1, BoundsAssumption
    DEF Init, CommitTypes, ShimTypes, ClientTypes, GotTypes, DaemonTypes, NStrings
  <2>2. FlagTypes
    BY DEF Init, FlagTypes
  <2> QED BY <1>1, <2>1, <2>2, TypeParts
<1>3. Counters /\ ShimInv /\ DaemonInv /\ MarkerInv /\ RenderedInv
  BY DEF Init, Counters, ShimInv, DaemonInv, MarkerInv, RenderedInv, RenderedLast
<1>4. QueueInv /\ NoInit
  BY <1>1 DEF QueueInv, NoInit
<1>5. InStep
  BY <1>1 DEF Init, InStep
<1> QED BY <1>2, <1>3, <1>4, <1>5 DEF ConfigdInv, Protocol

LEMMA ConfigdInductive ==
    ASSUME ConfigdInv, [Next]_vars
    PROVE  ConfigdInv'
<1>1. TypeOK' /\ Counters'
  BY TypesInductive
<1>2. Protocol'
  <2>1. CASE \/ \E n \in 1..MaxScripts : BeginCommit(n)
             \/ NextScript \/ EndCommit \/ HandshakeDone \/ ReadResult \/ PassThrough
    BY <2>1, CommitStep
  <2>2. CASE Announce \/ SendString \/ SendNode
    BY <2>2, RequestStep
  <2>3. CASE AlarmFires
    BY <2>3, AlarmStep
  <2>4. ASSUME NEW r, \/ RecvInit(r) \/ RecvInitAgain(r) \/ RecvActive(r) \/ RecvString(r)
                      \/ RecvNodeUnserved(r) \/ RecvNode(r) \/ RecvUnexpected(r)
        PROVE  Protocol'
    BY <2>4, DaemonStep
  <2>5. CASE \/ UpdateChecksLock \/ UpdateSends \/ Kill \/ Restart \/ Exhausted
             \/ UNCHANGED vars
    BY <2>5, OtherStep
  <2> QED BY <2>1, <2>2, <2>3, <2>4, <2>5 DEF Next, Shim, Daemon
<1> QED BY <1>1, <1>2 DEF ConfigdInv

-----------------------------------------------------------------------------
\* The requests, the processes and the daemon keep their types.
THEOREM ConfigdTypes == Spec => []TypeOK
<1>1. ConfigdInv => TypeOK
  BY DEF ConfigdInv
<1> QED BY <1>1, ConfigdInitially, ConfigdInductive, PTL DEF Spec

\* No script of a commit runs in the daemon with the configuration of another
\* commit, whatever times out, dies or gets in between.
THEOREM ScriptsRunWithTheirConfig == Spec => []OwnConfig
<1>1. ConfigdInv => OwnConfig
  <2> SUFFICES ASSUME ConfigdInv, NEW i \in DOMAIN queue, daemon = "main",
                      queue[i].from = "shim", queue[i].kind = "node"
               PROVE  config \in {commit, None}
    BY DEF OwnConfig
  <2>1. i \in 1..Len(queue)
    BY DEF ConfigdInv, TypeOK
  <2>2. shim = "node"
    BY <2>1 DEF ConfigdInv, Protocol, QueueInv, Legit
  <2> QED BY <2>2 DEF ConfigdInv, Protocol, ShimInv, DaemonInv, Talking
<1> QED BY <1>1, ConfigdInitially, ConfigdInductive, PTL DEF Spec

\* FRR is rendered from the configuration of its own commit, and once per commit
\* after the last script unless an announcement timed out.
THEOREM RenderedFromOwnConfig == Spec => []RenderedLast
<1>1. ConfigdInv => RenderedLast
  BY DEF ConfigdInv, Protocol, RenderedInv
<1> QED BY <1>1, ConfigdInitially, ConfigdInductive, PTL DEF Spec

-----------------------------------------------------------------------------
\* While both keep step no request is unexpected.
LEMMA NothingUnexpected ==
    ASSUME ConfigdInv, InStep
    PROVE  NeverUnexpected
<1> SUFFICES ASSUME queue # <<>>, kills = 0, updates = 0
             PROVE  ~Unexpected(Head(queue))
  BY DEF NeverUnexpected
<1>1. /\ Head(queue) = queue[1] /\ 1 \in 1..Len(queue) /\ queue[1] \in Requests
  BY DEF ConfigdInv, TypeOK
<1>2. /\ Legit(queue[1]) /\ queue[1].from \in {"shim", "gone"}
  BY <1>1, RequestFields DEF ConfigdInv, Protocol, QueueInv, InStep
<1>3. CASE queue[1].kind = "string"
  <2>1. shim = "handshake" /\ answer = "none"
    BY <1>2, <1>3 DEF Legit
  <2> QED BY <1>1, <1>3, <2>1 DEF InStep, Unexpected
<1>4. CASE queue[1].kind = "node"
  <2>1. ~initialMarker
    BY <1>2, <1>4 DEF Legit, ConfigdInv, Protocol, ShimInv
  <2> QED BY <1>1, <1>4, <2>1 DEF ConfigdInv, Protocol, DaemonInv, Unexpected
<1> QED BY <1>1, <1>3, <1>4 DEF Unexpected

LEMMA InStepInductive ==
    ASSUME ConfigdInv, InStep, [Next]_vars
    PROVE  InStep'
<1> SUFFICES ASSUME kills' = 0, updates' = 0
             PROVE  InStep'
  BY DEF InStep
<1> USE DEF ConfigdInv, Protocol
<1>1. kills = 0 /\ updates = 0
  <2>1. \/ UNCHANGED <<kills, updates>>
        \/ kills' = kills + 1 /\ UNCHANGED updates
        \/ updates' = updates + 1 /\ UNCHANGED kills
    BY DEF Next, Shim, Daemon, BeginCommit, NextScript, EndCommit, Announce, SendString,
       HandshakeDone, SendNode, ReadResult, PassThrough, AlarmFires, UpdateChecksLock,
       UpdateSends, RecvInit, RecvInitAgain, RecvActive, RecvString, RecvNodeUnserved,
       RecvNode, RecvUnexpected, Kill, Restart, Exhausted, vars, bounds
  <2> QED BY <2>1 DEF Counters
<1>2. /\ daemon # "down" /\ updater = "off"
      /\ \A i \in 1..Len(queue) : queue[i].from # "update"
      /\ sent \in 0..NStrings /\ queue \in Seq(Requests) /\ got \in Seq(Requests)
      /\ Len(got) \in Nat /\ Len(queue) \in Nat
  BY <1>1 DEF InStep, TypeOK
<1>3. ASSUME NEW n \in 1..MaxScripts, BeginCommit(n) PROVE InStep'
  BY <1>2, <1>3 DEF BeginCommit, daemonVars, InStep
<1>4. CASE NextScript \/ EndCommit \/ HandshakeDone \/ ReadResult \/ PassThrough
  BY <1>2, <1>4 DEF NextScript, EndCommit, HandshakeDone, ReadResult, PassThrough,
     daemonVars, InStep
<1>5. CASE Announce \/ SendString \/ SendNode
  <2>1. PICK kind \in {"init", "string", "node"}, last \in {TRUE, FALSE, queueMarker} :
          queue' = Append(queue, Request("shim", kind, last))
    BY <1>5 DEF Announce, SendString, SendNode
  <2>2. commit \in 0..MaxCommits /\ last \in BOOLEAN
    BY DEF TypeOK
  <2> DEFINE r == Request("shim", kind, last)
  <2>3. r \in Requests /\ r.from = "shim"
    BY <2>2, RequestType DEF Request
  <2> HIDE DEF r
  <2>4. /\ Len(queue') = Len(queue) + 1
        /\ \A i \in 1..Len(queue) : queue'[i] = queue[i]
        /\ queue'[Len(queue')] = r
    BY <1>2, <2>1, <2>3, Sent DEF r
  <2>5. \A i \in 1..Len(queue') : queue'[i].from # "update"
    BY <1>2, <2>3, <2>4
  <2>6. daemon' = daemon /\ got' = got /\ updater' = updater
    BY <1>5 DEF Announce, SendString, SendNode, daemonVars
  <2>7. CASE Announce \/ SendNode
    BY <1>2, <2>5, <2>6, <2>7 DEF Announce, SendNode, ShimInv, InStep
  <2>8. CASE SendString
    <3>1. shim' = "handshake" /\ answer' = "none" /\ sent' = sent + 1 /\ answer # "none"
      BY <2>8 DEF SendString
    <3>2. CASE shim = "announced"
      <4>1. sent' = 1 /\ daemon = "loop"
        BY <1>1, <3>1, <3>2 DEF ShimInv, InStep
      <4> QED BY <1>2, <2>5, <2>6, <3>1, <4>1 DEF InStep
    <3>3. CASE shim = "handshake" /\ sent < NStrings
      <4>1. daemon = "strings" /\ Len(got) = sent /\ sent' # 1
        BY <1>1, <1>2, <3>1, <3>3 DEF ShimInv, InStep, NStrings
      <4> QED BY <1>2, <2>5, <2>6, <3>1, <4>1 DEF InStep
    <3> QED BY <2>8, <3>2, <3>3 DEF SendString
  <2> QED BY <1>5, <2>7, <2>8
<1>6. CASE AlarmFires
  <2>1. \A i \in 1..Len(queue') : queue'[i].from # "update"
    BY <1>2, <1>6, GivenUp DEF AlarmFires
  <2> QED BY <1>2, <1>6, <2>1 DEF AlarmFires, InStep
<1>7. ASSUME NEW r, \/ RecvInit(r) \/ RecvInitAgain(r) \/ RecvActive(r) \/ RecvString(r)
                    \/ RecvNodeUnserved(r) \/ RecvNode(r)
      PROVE  InStep'
  <2>1. /\ Receive(r) /\ UNCHANGED <<commitVars, shim, sent, bounds>>
        /\ answer' = answer \/ r.from = "shim"
        /\ updater' = updater \/ r.from = "update"
    BY <1>7 DEF RecvInit, RecvInitAgain, RecvActive, RecvString, RecvNodeUnserved,
       RecvNode, Answer
  <2>2. r \in Requests /\ Legit(r) /\ (Talking => r.kind # "init")
    BY <2>1, ReceiveKeeps
  <2>3. /\ r = queue[1] /\ 1 \in 1..Len(queue) /\ Len(queue') = Len(queue) - 1
        /\ \A i \in 1..Len(queue') : queue'[i] = queue[i + 1] /\ i + 1 \in 2..Len(queue)
    BY <1>2, <2>1, Received
  <2>4. r.from \in {"shim", "gone"} /\ r.kind \in {"init", "string", "node"}
    BY <1>2, <2>2, <2>3, RequestFields
  <2>5. /\ updater' = "off" /\ shim' = shim /\ sent' = sent
        /\ \A i \in 1..Len(queue') : queue'[i].from # "update"
    <3>1. \A i \in 1..Len(queue') : i + 1 \in 1..Len(queue)
      BY <1>2, <2>3
    <3> QED BY <1>2, <2>1, <2>3, <2>4, <3>1
  <2>6. CASE RecvInit(r) \/ RecvInitAgain(r)
    <3>1. daemon' = "loop" /\ r.kind = "init"
      BY <2>6 DEF RecvInit, RecvInitAgain
    <3>2. shim # "handshake"
      BY <2>2, <3>1 DEF Talking
    <3> QED BY <2>5, <3>1, <3>2 DEF InStep
  <2>7. CASE RecvActive(r)
    <3>1. /\ daemon = "loop" /\ daemon' = "strings" /\ r.kind = "string" /\ got' = <<r>>
          /\ Len(got') = 1 /\ Answer(r, "active")
      BY <2>7 DEF RecvActive
    <3>2. r.from = "shim" /\ shim = "handshake" /\ answer = "none"
      BY <2>2, <2>4, <3>1 DEF Legit
    <3>3. answer' = "active" /\ sent = 1
      BY <1>1, <3>1, <3>2 DEF Answer, InStep
    <3> QED BY <2>5, <3>1, <3>2, <3>3 DEF InStep, NStrings
  <2>8. CASE RecvString(r)
    <3>1. /\ daemon = "strings" /\ got' = Append(got, r) /\ Answer(r, "string")
          /\ shim = "handshake"
      BY <2>8 DEF RecvString, DaemonInv
    <3>2. Len(got') = Len(got) + 1
      BY <1>2, <2>2, <3>1
    <3>3. r.from = "shim" /\ answer = "none"
      BY <2>2, <2>4, <3>1 DEF Legit, Talking
    <3>4. answer' = "string" /\ sent = Len(got')
      BY <1>1, <3>1, <3>2, <3>3 DEF Answer, InStep
    <3>5. daemon' = IF Len(got') = NStrings THEN "main" ELSE "strings"
      BY <2>8, <3>1 DEF RecvString
    <3> QED BY <2>5, <3>1, <3>4, <3>5 DEF InStep
  <2>9. CASE RecvNodeUnserved(r) \/ RecvNode(r)
    <3>1. daemon' = "main" /\ r.kind = "node"
      BY <2>9 DEF RecvNodeUnserved, RecvNode, daemonVars
    <3>2. shim = "node"
      BY <2>2, <2>4, <3>1 DEF Legit
    <3> QED BY <2>5, <3>1, <3>2 DEF InStep
  <2> QED BY <1>7, <2>6, <2>7, <2>8, <2>9
\* The remaining steps are of the second client, or follow a death.
<1>8. ASSUME NEW r, RecvUnexpected(r) PROVE FALSE
  BY <1>1, <1>8, NothingUnexpected DEF RecvUnexpected, Receive, NeverUnexpected
<1>9. ASSUME UpdateChecksLock \/ UpdateSends \/ Kill \/ Restart PROVE FALSE
  BY <1>1, <1>2, <1>9 DEF UpdateChecksLock, UpdateSends, Kill, Restart
<1>10. CASE Exhausted \/ UNCHANGED vars
  BY <1>1, <1>10 DEF Exhausted, vars, shimVars, daemonVars, bounds, InStep
<1> QED BY <1>3, <1>4, <1>5, <1>6, <1>7, <1>8, <1>9, <1>10 DEF Next, Shim, Daemon

\* With one client and without a death the daemon is never stopped by a request,
\* however many announcements time out.
THEOREM DaemonNeverSurprised == Spec => []NeverUnexpected
<1>1. Init => ConfigdInv /\ InStep
  BY ConfigdInitially
<1>2. ConfigdInv /\ InStep /\ [Next]_vars => (ConfigdInv /\ InStep)'
  BY ConfigdInductive, InStepInductive
<1>3. ConfigdInv /\ InStep => NeverUnexpected
  BY NothingUnexpected
<1> QED BY <1>1, <1>2, <1>3, PTL DEF Spec
=============================================================================
