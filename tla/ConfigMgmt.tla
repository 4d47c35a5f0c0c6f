----------------------------- MODULE ConfigMgmt -----------------------------
(***************************************************************************)
(* Commit revisions and commit-confirm (python/vyos/config_mgmt.py, and    *)
(* the REST operation in services/api/rest/routers.py that uses them).     *)
(*                                                                         *)
(* Every commit runs the post-commit hook commit_revision: the active      *)
(* configuration becomes revision 0 of the archive, older ones move up.    *)
(* A commit under commit-confirm does not: it waits for confirm, and a     *)
(* timer reverts it, by a reboot or by loading revision 0.  Sessions do    *)
(* not exclude each other between these steps.                             *)
(*                                                                         *)
(* The archive is updated by two kinds of processes: the hook of a commit, *)
(* of which the commit lock lets only one run, and confirm, which takes no *)
(* lock (bound: one confirm at a time).  Each step of a process is one     *)
(* access to what they share: the active configuration, the copy archived  *)
(* last, the commit log and the revision files.                            *)
(*                                                                         *)
(* A configuration is a member of Configs; an entry of the commit log is   *)
(* abstracted to the configuration that was active when it was written.    *)
(***************************************************************************)
EXTENDS Naturals, Sequences, SequencesExt

CONSTANTS
    Configs,    \* configurations
    Revisions,  \* the values commit-revisions can be set to
    LastIndex,  \* no revision file has a larger index
    None,       \* no file
    MaxEvents   \* bound: requests and failures in a behaviour

ASSUME NoneAssumption == None \notin Configs
ASSUME RevisionsAssumption ==
    /\ LastIndex \in Nat /\ MaxEvents \in Nat
    /\ Revisions \subseteq 1..LastIndex /\ Revisions # {}

Index == 0..LastIndex

Procs == {"hook", "confirm"}

VARIABLES
    running,    \* the active configuration
    saved,      \* config.boot
    top,        \* archive/config.boot, the configuration archived last
    files,      \* archive/config.boot.N.gz
    log,        \* archive/commits, the newest entry first
    revisions,  \* commit-revisions, also in logrotate's configuration
    rebootMode, \* commit-confirm reverts by a reboot
    entry,      \* /tmp/commit-rev-entry
    timer,      \* the systemd timer: "off", "armed"
    rest,       \* a commit-confirm: "committing", or "committed" and its timer
                \* not yet started
    reverting,  \* revision 0 as revert_soft has read it, until it commits it
    at,         \* where the post-commit hook and confirm() are
    tmp,        \* /tmp/config.boot.PID of each
    lines,      \* the log each is about to write
    own,        \* the entry that confirm() has read
    limit,      \* max_revisions of confirm(), 0 without one
    events,     \* requests and failures so far
    settled,    \* history: the latest configuration that is not provisional
    mixed,      \* history: "yes" if another session committed while a
                \* provisional configuration was active, or confirm() met the
                \* revert
    logFate,    \* history: what has come between the log and the files:
                \* nothing ("kept"), a lower commit-revisions ("lowered"), a
                \* hook during a confirm ("overlapped") or a step that failed
                \* or was cut off ("failed")
    revFate     \* history: "kept" if the latest archiving has succeeded

vars == <<running, saved, top, files, log, revisions, rebootMode, entry, timer, rest,
          reverting, at, tmp, lines, own, limit, events, settled, mixed, logFate, revFate>>

archive == <<top, files, log>>
process == <<tmp, lines, own, limit>>
config == <<running, saved, revisions, rebootMode>>
session == <<timer, rest, reverting>>

Init ==
    /\ running \in Configs
    /\ saved = running /\ top = running /\ settled = running
    /\ files = [i \in Index |-> IF i = 0 THEN running ELSE None]
    /\ log = <<running>>
    /\ revisions \in Revisions
    /\ rebootMode \in {"reboot", "reload"}
    /\ entry = None /\ timer = "off" /\ rest = "idle" /\ reverting = None
    /\ at = [p \in Procs |-> "idle"]
    /\ tmp = [p \in Procs |-> None]
    /\ lines = [p \in Procs |-> <<>>]
    /\ own = None /\ limit = 0 /\ events = 0
    /\ mixed = "no" /\ logFate = "kept" /\ revFate = "kept"

-----------------------------------------------------------------------------
\* A request of a user or a failure, of which a behaviour has a bounded number.
Happens == events < MaxEvents /\ events' = events + 1

Goto(p, phase) == at' = [at EXCEPT ![p] = phase]

\* What a process has no more use for.
Forget(p) ==
    /\ tmp' = [tmp EXCEPT ![p] = None]
    /\ IF p = "confirm" THEN own' = None /\ limit' = 0 ELSE UNCHANGED <<own, limit>>

\* A process ends.
End(p) ==
    /\ Goto(p, "idle")
    /\ lines' = [lines EXCEPT ![p] = <<>>]
    /\ Forget(p)

\* confirm() has read its entry, but not yet updated the archive.
Confirming == at["confirm"] \notin {"idle", "checked", "stopped"}

\* The log is worse off than it was.
Worse(fate) ==
    logFate' = CASE logFate = "failed" -> "failed"
                 [] logFate = "overlapped" /\ fate = "lowered" -> "overlapped"
                 [] OTHER -> fate

Overlapping == IF Confirming THEN Worse("overlapped") ELSE UNCHANGED logFate

\* The post-commit hook of a commit, which holds the commit lock until it ends.
\* It either archives or, under commit-confirm, writes the entry to /tmp.
StartHook(phase) ==
    /\ at["hook"] = "idle"
    /\ Goto("hook", phase)
    /\ Overlapping

\* A provisional configuration is active, or about to be confirmed or reverted.
Unconfirmed ==
    timer = "armed" \/ rest # "idle" \/ at["confirm"] \notin {"idle", "checked"}

Provisional == Unconfirmed \/ reverting # None

\* A configuration becomes final.
Settle(c) == settled' = c /\ mixed' = "no"

\* ... if it is not committed in the middle of a commit-confirm.
SettleUnless(provisional, c) ==
    IF provisional THEN settled' = settled /\ mixed' = "yes" ELSE Settle(c)

-----------------------------------------------------------------------------
\* _archive_active_config of process p, and what its callers do when it returns
\* True.

\* confirm() makes the active configuration final, unless another session or
\* another commit-confirm has got in between or the revert is under way.
ArchiveSave(p) ==
    /\ at[p] = "save"
    /\ tmp' = [tmp EXCEPT ![p] = running]
    /\ Goto(p, "compare")
    /\ CASE p = "confirm" /\ reverting # None -> settled' = settled /\ mixed' = "yes"
         [] /\ p = "confirm" /\ reverting = None /\ rest = "idle" /\ timer = "off"
            /\ at["hook"] \in {"idle", "entry"} -> Settle(running)
         [] OTHER -> UNCHANGED <<settled, mixed>>
    /\ UNCHANGED <<config, archive, session, entry, lines, own, limit, logFate,
                   revFate, events>>

\* The configuration is not saved or not moved: the process returns False and
\* only logs it.  An entry in /tmp is then about another configuration.
ArchiveFails(p) ==
    /\ Happens
    /\ at[p] \in {"save", "move"}
    /\ End(p)
    /\ IF entry = None THEN UNCHANGED logFate ELSE Worse("failed")
    /\ revFate' = "failed"
    /\ UNCHANGED <<config, archive, session, entry, settled, mixed>>

ArchiveCompare(p) ==
    /\ at[p] = "compare"
    /\ IF tmp[p] = top THEN End(p) ELSE Goto(p, "move") /\ UNCHANGED process
    /\ UNCHANGED <<config, archive, session, entry, settled, mixed, logFate, revFate,
                   events>>

ArchiveMove(p) ==
    /\ at[p] = "move"
    /\ top' = tmp[p]
    /\ Goto(p, "read")
    /\ UNCHANGED <<config, files, log, session, entry, process, settled, mixed,
                   logFate, revFate, events>>

\* Mutant: the newest entry goes when there are too many.
AddLogEntryNewest(c, n) ==
    IF Len(log) + 1 > n THEN Tail(<<c>> \o log) ELSE <<c>> \o log

\* The new log of _add_log_entry: the oldest entry goes when there are too many.
AddLogEntry(c, n) ==
    IF Len(log) + 1 > n THEN Front(<<c>> \o log) ELSE <<c>> \o log

\* _add_log_entry reads the log; its entry is the one of confirm() or new.
ReadLog(p) ==
    /\ at[p] = "read"
    /\ LET e == IF p = "confirm" /\ own # None THEN own ELSE tmp[p]
           n == IF p = "confirm" THEN limit ELSE revisions
       IN lines' = [lines EXCEPT ![p] = AddLogEntry(e, n)]
    /\ Goto(p, "write")
    /\ Forget(p)
    /\ UNCHANGED <<config, archive, session, entry, settled, mixed, logFate, revFate,
                   events>>

WriteLog(p) ==
    /\ at[p] = "write"
    /\ log' = lines[p]
    /\ lines' = [lines EXCEPT ![p] = <<>>]
    /\ Goto(p, "rotate")
    /\ UNCHANGED <<config, top, files, session, entry, tmp, own, limit, settled,
                   mixed, logFate, revFate, events>>

\* The log cannot be opened for writing; that is logged.
WriteLogFails(p) ==
    /\ Happens
    /\ at[p] = "write"
    /\ lines' = [lines EXCEPT ![p] = <<>>]
    /\ Goto(p, "rotate")
    /\ Worse("failed")
    /\ UNCHANGED <<config, archive, session, entry, tmp, own, limit, settled, mixed,
                   revFate>>

\* What logrotate does with "rotate n", "start 0" and "copy".
Rotated(n) ==
    [i \in Index |-> CASE i = 0 -> top
                       [] i > 0 /\ i < n -> files[i - 1]
                       [] i = n -> None
                       [] OTHER -> files[i]]

\* _update_archive.
Rotate(p) ==
    /\ at[p] = "rotate"
    /\ files' = Rotated(revisions)
    /\ End(p)
    /\ IF revisions < Len(log) THEN Worse("lowered") ELSE UNCHANGED logFate
    /\ revFate' = "kept"
    /\ UNCHANGED <<config, top, log, session, entry, settled, mixed, events>>

\* logrotate fails; that is logged.
RotateFails(p) ==
    /\ Happens
    /\ at[p] = "rotate"
    /\ End(p)
    /\ Worse("failed")
    /\ revFate' = "failed"
    /\ UNCHANGED <<config, archive, session, entry, settled, mixed>>

-----------------------------------------------------------------------------
\* A commit of any session that changes something; it may change
\* commit-revisions, whose script writes logrotate's configuration before the
\* hook runs.
Commit(c, n) ==
    /\ Happens
    /\ c # running
    /\ StartHook("save")
    /\ running' = c
    /\ revisions' = n
    /\ SettleUnless(Provisional, c)
    /\ UNCHANGED <<saved, rebootMode, archive, session, entry, process, revFate>>

\* The commit fails; the hook runs nevertheless.
CommitFails ==
    /\ Happens
    /\ StartHook("save")
    /\ SettleUnless(Provisional, running)
    /\ UNCHANGED <<config, archive, session, entry, process, revFate>>

\* Mutant: the hook does not look at IN_COMMIT_CONFIRM.
CommitUnderConfirmArchived(c) ==
    /\ Happens
    /\ rest = "idle"
    /\ c # running
    /\ StartHook("save")
    /\ running' = c
    /\ rest' = "committed"
    /\ mixed' = IF Provisional THEN "yes" ELSE mixed
    /\ UNCHANGED <<saved, revisions, rebootMode, archive, entry, timer, reverting,
                   process, settled, revFate>>

\* run_commit_confirm: a commit with IN_COMMIT_CONFIRM.  Without changes there
\* is neither a lock nor a hook.
CommitUnderConfirm(c) ==
    /\ Happens
    /\ rest = "idle"
    /\ \/ /\ c # running
          /\ StartHook("entry")
          /\ rest' = "committing"
       \/ /\ c = running
          /\ rest' = "committed"
          /\ UNCHANGED <<at, logFate>>
    /\ running' = c
    /\ mixed' = IF Provisional THEN "yes" ELSE mixed
    /\ UNCHANGED <<saved, revisions, rebootMode, archive, entry, timer, reverting,
                   process, settled, revFate>>

CommitUnderConfirmFails ==
    /\ Happens
    /\ rest = "idle"
    /\ StartHook("entry")
    /\ UNCHANGED <<config, archive, session, entry, process, settled, mixed, revFate>>

\* The hook writes the log entry to a temporary file.
EndEntry ==
    /\ at["hook"] = "entry"
    /\ Goto("hook", "idle")
    /\ rest' = IF rest = "committing" THEN "committed" ELSE rest
    /\ UNCHANGED <<config, archive, timer, reverting, process, settled, mixed,
                   revFate>>

WriteEntry ==
    /\ EndEntry
    /\ entry' = running
    /\ UNCHANGED <<events, logFate>>

\* An error is only logged; an entry that was there before is about another
\* configuration.
WriteEntryFails ==
    /\ Happens
    /\ EndEntry
    /\ UNCHANGED entry
    /\ IF entry = None THEN UNCHANGED logFate ELSE Worse("failed")

\* ... then commit_confirm, which leaves the timer of a pending confirm alone,
\* or fails when systemd-run does.
StartTimer ==
    /\ rest = "committed"
    /\ rest' = "idle"
    /\ timer' = "armed"
    /\ UNCHANGED <<config, archive, entry, reverting, at, process, settled, mixed,
                   logFate, revFate, events>>

StartTimerFails ==
    /\ Happens
    /\ rest = "committed" /\ timer = "off"
    /\ rest' = "idle"
    /\ UNCHANGED <<config, archive, entry, timer, reverting, at, process, settled,
                   mixed, logFate, revFate>>

\* confirm(): the timer must be active; it is stopped, unless it has elapsed
\* meanwhile; the notifier is killed, else confirm ends with an error; the
\* entry is read.  The timer may count as active while its revert runs.
ConfirmCheck ==
    /\ at["confirm"] = "idle"
    /\ timer = "armed" \/ reverting # None
    /\ Goto("confirm", "checked")
    /\ limit' = revisions
    /\ UNCHANGED <<config, archive, session, entry, tmp, lines, own, settled, mixed,
                   logFate, revFate, events>>

ConfirmStop ==
    /\ at["confirm"] = "checked"
    /\ timer = "armed" \/ reverting # None
    /\ timer' = "off"
    /\ Goto("confirm", "stopped")
    /\ UNCHANGED <<config, archive, rest, reverting, entry, process, settled, mixed,
                   logFate, revFate, events>>

ConfirmStopFails ==
    /\ at["confirm"] = "checked"
    /\ timer = "off"
    /\ End("confirm")
    /\ UNCHANGED <<config, archive, session, entry, settled, mixed, logFate, revFate,
                   events>>

ConfirmKillFails ==
    /\ Happens
    /\ at["confirm"] = "stopped"
    /\ End("confirm")
    /\ UNCHANGED <<config, archive, session, entry, settled, mixed, logFate, revFate>>

ConfirmEntry ==
    /\ at["confirm"] = "stopped"
    /\ Goto("confirm", "save")
    /\ own' = entry
    /\ entry' = None
    /\ IF at["hook"] # "idle" THEN Worse("overlapped") ELSE UNCHANGED logFate
    /\ UNCHANGED <<config, archive, session, tmp, lines, limit, settled, mixed,
                   revFate, events>>

-----------------------------------------------------------------------------
\* The system boots at any time: every process ends where it is, and the saved
\* configuration is loaded by a commit.  A log that is cut off in the middle of
\* its writing is left out.
Boot(c) ==
    /\ running' = c /\ saved' = c
    /\ entry' = None /\ timer' = "off" /\ rest' = "idle" /\ reverting' = None
    /\ at' = [at EXCEPT !["hook"] = "save", !["confirm"] = "idle"]
    /\ tmp' = [p \in Procs |-> None] /\ lines' = [p \in Procs |-> <<>>]
    /\ own' = None /\ limit' = 0
    /\ Settle(c)
    /\ IF \E p \in Procs : at[p] = "rotate" THEN Worse("failed") ELSE UNCHANGED logFate
    /\ revFate' = IF \E p \in Procs : at[p] \in {"read", "write", "rotate"} THEN "failed"
                                                                           ELSE revFate
    /\ UNCHANGED <<archive, revisions, rebootMode>>

\* The timer elapses: revert().
Revert ==
    /\ UNCHANGED events
    /\ timer = "armed" /\ rebootMode = "reboot"
    /\ Boot(saved)

\* The timer elapses: revert_soft() drops the entry and reads revision 0,
RevertSoft ==
    /\ timer = "armed" /\ rebootMode = "reload"
    /\ timer' = "off" /\ entry' = None
    /\ reverting' = files[0]
    /\ UNCHANGED <<config, archive, rest, at, process, settled, mixed, logFate,
                   revFate, events>>

\* ... loads and commits it, with the hook of an ordinary commit,
RevertCommit ==
    /\ reverting # None /\ reverting # running
    /\ StartHook("save")
    /\ running' = reverting
    /\ reverting' = None
    /\ SettleUnless(Unconfirmed, reverting)
    /\ UNCHANGED <<saved, revisions, rebootMode, archive, timer, rest, entry, process,
                   revFate, events>>

\* ... which may fail, but the hook runs;
RevertCommitFails ==
    /\ Happens
    /\ reverting # None
    /\ StartHook("save")
    /\ reverting' = None
    /\ SettleUnless(Unconfirmed, running)
    /\ UNCHANGED <<config, archive, timer, rest, entry, process, revFate>>

\* ... or nothing is committed: it cannot be loaded, is active already, or the
\* commit lock is taken.
RevertSoftEnds ==
    /\ reverting # None
    /\ reverting' = None
    /\ UNCHANGED <<config, archive, timer, rest, entry, at, process, settled, mixed,
                   logFate, revFate, events>>

Save ==
    /\ Happens
    /\ saved' = running
    /\ UNCHANGED <<running, revisions, rebootMode, archive, session, entry, at,
                   process, settled, mixed, logFate, revFate>>

Reboot == Happens /\ Boot(saved)

\* Mutant: the revision file is not opened before it is copied.
RollbackUnread(rev) ==
    /\ Happens
    /\ rev <= Len(log)
    /\ Boot(files[rev])

\* rollback(rev): the revision becomes the saved configuration, then a reboot.
\* A revision whose file is missing raises.
Rollback(rev) ==
    /\ Happens
    /\ rev < Len(log)
    /\ files[rev] # None
    /\ Boot(files[rev])

Archive(p) ==
    \/ ArchiveSave(p) \/ ArchiveFails(p) \/ ArchiveCompare(p) \/ ArchiveMove(p)
    \/ ReadLog(p) \/ WriteLog(p) \/ WriteLogFails(p) \/ Rotate(p) \/ RotateFails(p)

Next ==
    \/ \E p \in Procs : Archive(p)
    \/ \E c \in Configs, n \in Revisions : Commit(c, n)
    \/ CommitFails
    \/ \E c \in Configs : CommitUnderConfirm(c)
    \/ CommitUnderConfirmFails \/ WriteEntry \/ WriteEntryFails
    \/ StartTimer \/ StartTimerFails
    \/ ConfirmCheck \/ ConfirmStop \/ ConfirmStopFails \/ ConfirmKillFails \/ ConfirmEntry
    \/ Revert \/ RevertSoft \/ RevertCommit \/ RevertCommitFails \/ RevertSoftEnds
    \/ Save \/ Reboot
    \/ \E rev \in Index : Rollback(rev)

Spec == Init /\ [][Next]_vars

-----------------------------------------------------------------------------
Phases == {"idle", "checked", "stopped", "entry", "save", "compare", "move", "read",
           "write", "rotate"}

\* The types of the archive, the timer, the processes and the files in /tmp.
TypeOK ==
    /\ running \in Configs /\ saved \in Configs /\ top \in Configs /\ settled \in Configs
    /\ files \in [Index -> Configs \cup {None}]
    /\ log \in Seq(Configs)
    /\ revisions \in Revisions
    /\ rebootMode \in {"reboot", "reload"}
    /\ entry \in Configs \cup {None} /\ own \in Configs \cup {None}
    /\ timer \in {"off", "armed"} /\ rest \in {"idle", "committing", "committed"}
    /\ reverting \in Configs \cup {None}
    /\ at \in [Procs -> Phases]
    /\ at["hook"] \notin {"checked", "stopped"} /\ at["confirm"] # "entry"
    /\ tmp \in [Procs -> Configs \cup {None}]
    /\ lines \in [Procs -> Seq(Configs)]
    /\ limit \in Revisions \cup {0}
    /\ events \in 0..MaxEvents
    /\ mixed \in {"yes", "no"}
    /\ logFate \in {"kept", "lowered", "overlapped", "failed"}
    /\ revFate \in {"kept", "failed"}

Quiet == \A p \in Procs : at[p] \in {"idle", "checked", "stopped", "entry"}

LogNumbersFiles == \A i \in 1..Len(log) : files[i - 1] = log[i]

\* While no process is at work on the archive each line of the commit log is
\* about the revision file of the same number, and that file exists: what
\* rollback, compare and "show system commit" number is one list.  No step may
\* have failed or been cut off by a reboot, no hook have run during a confirm,
\* and commit-revisions not have been lowered below the number of revisions, for
\* _add_log_entry drops one entry and logrotate all files beyond the limit.
LogMatchesArchive ==
    Quiet /\ logFate = "kept" => Len(log) <= LastIndex /\ LogNumbersFiles

\* While no process is at work on the archive revision 0, to which revert_soft
\* goes, is the latest configuration that is not provisional, however hooks and
\* confirm overlap, unless another session committed during the commit-confirm
\* or the latest archiving failed: an unconfirmed commit is never archived.
RevertTarget ==
    Quiet /\ revFate = "kept" /\ mixed = "no" => files[0] = settled

\* "commits under commit-confirm are not added to revision list unless
\* confirmed, hence a soft revert is to revision 0" (revert_soft).
\* While the timer runs, revision 0 is not the commit it would revert.
UnconfirmedNotArchived ==
    /\ Quiet /\ revFate = "kept"
    /\ timer = "armed" /\ entry \notin {None, settled}
    => files[0] # entry

\* "Invalid revision number {rev}: must be 0 < rev < {self.num_revisions}"
\* (rollback): a number below that of the log lines is a revision.
RevisionsExist ==
    Quiet /\ logFate \in {"kept", "lowered"} =>
        \A rev \in Index : rev < Len(log) => files[rev] # None

\* The numbered list of log lines is "used in completion help for 'rollback'"
\* (format_log_data_brief): line N is about revision N, also when another
\* session commits during a confirm.
OneRevisionList == Quiet /\ logFate # "failed" => LogNumbersFiles
=============================================================================
