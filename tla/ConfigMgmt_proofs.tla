-------------------------- MODULE ConfigMgmt_proofs --------------------------
(***************************************************************************)
(* The archive of config_mgmt.py, for any configurations and any values of *)
(* commit-revisions: the commit log numbers the revision files, and        *)
(* revision 0 is what a commit-confirm reverts to, each under the          *)
(* conditions that its definition in ConfigMgmt names.                     *)
(***************************************************************************)
EXTENDS ConfigMgmt, SequenceTheorems, TLAPS

Archiving(p) == at[p] \in {"save", "compare", "move", "read", "write", "rotate"}

\* Process p has moved its copy to the archive and not yet rotated the files.
Moved(p) == at[p] \in {"read", "write", "rotate"}

\* Revision 0 is the configuration archived last.
TopIsRevision0 ==
    /\ files[0] \in Configs
    /\ revFate = "kept" /\ (\A p \in Procs : ~Moved(p)) => files[0] = top

\* Of a timer, a commit-confirm without one, a revert and a confirm there are
\* two only if another session has interfered, except that confirm() may
\* overtake the revert.
OverlapIsMixed ==
    \/ timer = "armed" /\ rest # "idle"
    \/ timer = "armed" /\ reverting # None
    \/ rest # "idle" /\ reverting # None
    \/ at["confirm"] \notin {"idle", "checked"} /\ (timer = "armed" \/ rest # "idle")
    => mixed = "yes"

\* Whatever is on its way to the archive is final.
ArchivesSettled ==
    mixed = "no" =>
        /\ Archiving("hook") => running = settled
        /\ \A p \in Procs : at[p] \in {"compare", "move"} => tmp[p] = settled
        /\ ((\E p \in Procs : Moved(p)) \/ (Quiet /\ revFate = "kept")) => top = settled

\* While a hook runs, the active configuration is the one it archives.
HookArchivesRunning == at["hook"] \in {"compare", "move"} => tmp["hook"] = running

\* A process that is past its first step has a copy.
CopyHeld == \A p \in Procs : at[p] \in {"compare", "move", "read"} => tmp[p] # None

\* The list l is the log to be, about the files after their rotation.
Shifted(l) == \A i \in 1..Len(l) : l[i] = IF i = 1 THEN top ELSE files[i - 2]

\* The log and the files in every phase, as long as nothing came between them.
LogInFlight ==
    /\ at["hook"] = "idle" \/ ~Confirming
    /\ IF \E p \in Procs : at[p] = "rotate" THEN Shifted(log)
                                            ELSE Len(log) <= LastIndex /\ LogNumbersFiles
    /\ \A p \in Procs : /\ at[p] = "write" => Shifted(lines[p])
                        /\ at[p] = "read" => tmp[p] = top

\* The entry in /tmp, and the one confirm() took from there, is about the
\* configuration that confirm() archives, unless that one is archived already.
EntryIsRunning ==
    /\ entry # None /\ at["hook"] = "idle" => running \in {entry, top}
    /\ Moved("hook") => top = running
    /\ Confirming => entry = None
    /\ own # None =>
        /\ at["confirm"] = "save" => running \in {own, top}
        /\ at["confirm"] = "compare" => tmp["confirm"] \in {own, top}
        /\ at["confirm"] \in {"move", "read"} => tmp["confirm"] = own

ArchiveInv ==
    /\ TypeOK
    /\ TopIsRevision0
    /\ OverlapIsMixed
    /\ ArchivesSettled
    /\ HookArchivesRunning
    /\ CopyHeld
    /\ logFate = "kept" => LogInFlight /\ EntryIsRunning

-----------------------------------------------------------------------------
\* What the log is after a new entry: the entry, then as many of the old ones
\* as there is room for; one at most is dropped.
LEMMA AddLogEntryEffect ==
    ASSUME log \in Seq(Configs), NEW c \in Configs, NEW n \in Nat
    PROVE  /\ AddLogEntry(c, n) \in Seq(Configs)
           /\ Len(AddLogEntry(c, n)) = IF Len(log) + 1 > n THEN Len(log) ELSE Len(log) + 1
           /\ \A i \in 1..Len(AddLogEntry(c, n)) :
                 AddLogEntry(c, n)[i] = IF i = 1 THEN c ELSE log[i - 1]
<1> DEFINE longer == <<c>> \o log
<1>1. <<c>> \in Seq(Configs) /\ Len(<<c>>) = 1 /\ <<c>>[1] = c /\ Len(log) \in Nat
  OBVIOUS
<1>2. /\ longer \in Seq(Configs)
      /\ Len(longer) = Len(log) + 1
      /\ \A i \in 1..(Len(log) + 1) : longer[i] = IF i = 1 THEN c ELSE log[i - 1]
  BY <1>1, ConcatProperties
<1> HIDE DEF longer
<1>3. /\ Front(longer) \in Seq(Configs)
      /\ Len(Front(longer)) = Len(log)
      /\ \A i \in 1..Len(log) : Front(longer)[i] = longer[i]
  <2>1. \A i \in 1..Len(log) : longer[i] \in Configs
    BY <1>1, <1>2
  <2>2. Front(longer) = SubSeq(longer, 1, Len(log))
    BY <1>1, <1>2 DEF Front
  <2>3. /\ SubSeq(longer, 1, Len(log)) \in Seq(Configs)
        /\ Len(SubSeq(longer, 1, Len(log))) = IF 1 <= Len(log) THEN Len(log) - 1 + 1 ELSE 0
        /\ \A i \in 1..(Len(log) - 1 + 1) : SubSeq(longer, 1, Len(log))[i] = longer[1 + i - 1]
    BY <1>1, <2>1, SubSeqProperties
  <2> QED BY <1>1, <2>2, <2>3
<1>4. CASE Len(log) + 1 > n
  BY <1>1, <1>2, <1>3, <1>4 DEF AddLogEntry, longer
<1>5. CASE ~ (Len(log) + 1 > n)
  BY <1>1, <1>2, <1>5 DEF AddLogEntry, longer
<1> QED BY <1>4, <1>5

\* What logrotate leaves: revision 0 is new, the others move up by one.
LEMMA RotatedTypes ==
    ASSUME TypeOK
    PROVE  /\ Rotated(revisions) \in [Index -> Configs \cup {None}]
           /\ Rotated(revisions)[0] = top
           /\ \A i \in 1..(revisions - 1) : Rotated(revisions)[i] = files[i - 1]
<1>1. /\ LastIndex \in Nat /\ revisions \in 1..LastIndex
      /\ \A i \in Index : i > 0 => i - 1 \in Index
      /\ 0 \in Index /\ 1..(revisions - 1) \subseteq Index
  BY RevisionsAssumption DEF TypeOK, Index
<1>2. \A i \in Index : files[i] \in Configs \cup {None} /\ i \in Nat
  BY DEF TypeOK, Index
<1>3. top \in Configs
  BY DEF TypeOK
<1> QED BY <1>1, <1>2, <1>3 DEF Rotated

\* Every step keeps the types.
LEMMA TypesKept ==
    ASSUME ArchiveInv, [Next]_vars
    PROVE  TypeOK'
<1> USE RevisionsAssumption, NoneAssumption DEF ArchiveInv, TypeOK, Procs, Phases, archive, process, config, session, Goto
<1>0. <<>> \in Seq(Configs)
  OBVIOUS
<1>1. ASSUME NEW p \in Procs, Archive(p) PROVE TypeOK'
  <2>1. CASE ArchiveSave(p)
    BY <1>1, <2>1 DEF ArchiveSave, Settle
  <2>2. CASE ArchiveFails(p)
    BY <1>1, <2>2 DEF ArchiveFails, End, Forget, Worse, Happens
  <2>3. CASE ArchiveCompare(p)
    <3>1. CASE tmp[p] = top
      <4>1. End(p) /\ UNCHANGED <<config, archive, session, entry, settled, mixed,
                                 logFate, revFate, events>>
        BY <2>3, <3>1 DEF ArchiveCompare
      <4> QED BY <1>0, <4>1 DEF End, Forget
    <3>2. CASE tmp[p] # top
      BY <1>1, <2>3, <3>2 DEF ArchiveCompare
    <3> QED BY <3>1, <3>2
  <2>4. CASE ArchiveMove(p)
    BY <1>1, <2>4 DEF ArchiveMove, CopyHeld
  <2>5. CASE ReadLog(p)
    <3> DEFINE e == IF p = "confirm" /\ own # None THEN own ELSE tmp[p]
               n == IF p = "confirm" THEN limit ELSE revisions
    <3>1. e \in Configs /\ n \in Nat
      BY <2>5 DEF ReadLog, CopyHeld
    <3>2. lines' = [lines EXCEPT ![p] = AddLogEntry(e, n)]
      BY <2>5 DEF ReadLog
    <3>3. AddLogEntry(e, n) \in Seq(Configs)
      BY <3>1, AddLogEntryEffect
    <3> HIDE DEF e, n
    <3>4. lines' \in [Procs -> Seq(Configs)]
      BY <3>2, <3>3
    <3> QED BY <2>5, <3>4 DEF ReadLog, Forget
  <2>6. CASE WriteLog(p)
    BY <1>1, <2>6 DEF WriteLog
  <2>7. CASE WriteLogFails(p)
    BY <1>1, <2>7 DEF WriteLogFails, Worse, Happens
  <2>8. CASE Rotate(p)
    <3>1. Rotated(revisions) \in [Index -> Configs \cup {None}]
      BY RotatedTypes
    <3> QED BY <1>0, <2>8, <3>1 DEF Rotate, End, Forget, Worse
  <2>9. CASE RotateFails(p)
    BY <1>1, <2>9 DEF RotateFails, End, Forget, Worse, Happens
  <2> QED BY <1>1, <2>1, <2>2, <2>3, <2>4, <2>5, <2>6, <2>7, <2>8, <2>9 DEF Archive
<1>2. ASSUME NEW c \in Configs, NEW n \in Revisions, Commit(c, n) PROVE TypeOK'
  BY <1>2 DEF Commit, StartHook, SettleUnless, Settle, Overlapping, Worse, Happens
<1>3. CASE CommitFails
  BY <1>3 DEF CommitFails, StartHook, SettleUnless, Settle, Overlapping, Worse, Happens
<1>4. ASSUME NEW c \in Configs, CommitUnderConfirm(c) PROVE TypeOK'
  BY <1>4 DEF CommitUnderConfirm, StartHook, Overlapping, Worse, Happens
<1>5. CASE CommitUnderConfirmFails
  BY <1>5 DEF CommitUnderConfirmFails, StartHook, Overlapping, Worse, Happens
<1>6. CASE WriteEntry \/ WriteEntryFails
  BY <1>6 DEF WriteEntry, WriteEntryFails, EndEntry, Worse, Happens
<1>7. CASE StartTimer \/ StartTimerFails
  BY <1>7 DEF StartTimer, StartTimerFails, Happens
<1>8. CASE ConfirmCheck
  BY <1>8 DEF ConfirmCheck
<1>9. CASE ConfirmStop
  BY <1>9 DEF ConfirmStop
<1>10. CASE ConfirmStopFails \/ ConfirmKillFails
  <2>1. CASE ConfirmStopFails
    BY <1>0, <2>1 DEF ConfirmStopFails, End, Forget
  <2>2. CASE ConfirmKillFails
    BY <1>0, <2>2 DEF ConfirmKillFails, End, Forget, Happens
  <2> QED BY <1>10, <2>1, <2>2
<1>11. CASE ConfirmEntry
  BY <1>11 DEF ConfirmEntry, Worse
<1>12. CASE RevertSoft
  BY <1>12 DEF RevertSoft, TopIsRevision0
<1>13. CASE RevertCommit
  BY <1>13 DEF RevertCommit, StartHook, SettleUnless, Settle, Overlapping, Worse
<1>14. CASE RevertCommitFails
  BY <1>14 DEF RevertCommitFails, StartHook, SettleUnless, Settle, Overlapping, Worse, Happens
<1>15. CASE RevertSoftEnds \/ Save
  BY <1>15 DEF RevertSoftEnds, Save, Happens
<1>16. ASSUME NEW c \in Configs, Boot(c), events' \in 0..MaxEvents PROVE TypeOK'
  BY <1>16 DEF Boot, Settle, Worse
<1>17. CASE Revert \/ Reboot
  BY <1>16, <1>17 DEF Revert, Reboot, Happens
<1>18. ASSUME NEW rev \in Index, Rollback(rev) PROVE TypeOK'
  BY <1>16, <1>18 DEF Rollback, Happens
<1>19. CASE UNCHANGED vars
  BY <1>19 DEF vars
<1> QED BY <1>1, <1>2, <1>3, <1>4, <1>5, <1>6, <1>7, <1>8, <1>9, <1>10, <1>11, <1>12, <1>13, <1>14, <1>15, <1>17, <1>18, <1>19 DEF Next

\* Only a failed or cut-off step parts revision 0 from the copy archived last.
LEMMA TopKept ==
    ASSUME ArchiveInv, [Next]_vars
    PROVE  TopIsRevision0'
<1> USE RevisionsAssumption, NoneAssumption DEF ArchiveInv, TypeOK, Procs, Phases, TopIsRevision0, OverlapIsMixed, ArchivesSettled, HookArchivesRunning, archive, process, config, session, Goto, Moved, Archiving, Unconfirmed, Provisional, Confirming, Quiet
<1>1. ASSUME NEW p \in Procs, Archive(p) PROVE TopIsRevision0'
  <2>1. CASE ArchiveSave(p)
    BY <1>1, <2>1 DEF ArchiveSave, Settle
  <2>2. CASE ArchiveFails(p)
    BY <1>1, <2>2 DEF ArchiveFails, End, Forget, Worse, Happens
  <2>3. CASE ArchiveCompare(p)
    BY <1>1, <2>3 DEF ArchiveCompare, End, Forget
  <2>4. CASE ArchiveMove(p)
    BY <1>1, <2>4 DEF ArchiveMove
  <2>5. CASE ReadLog(p)
    BY <1>1, <2>5 DEF ReadLog, Forget
  <2>6. CASE WriteLog(p)
    BY <1>1, <2>6 DEF WriteLog
  <2>7. CASE WriteLogFails(p)
    BY <1>1, <2>7 DEF WriteLogFails, Worse, Happens
  <2>8. CASE Rotate(p)
    <3>1. Rotated(revisions)[0] = top
      BY RotatedTypes
    <3> QED BY <2>8, <3>1 DEF Rotate, End, Forget, Worse
  <2>9. CASE RotateFails(p)
    BY <1>1, <2>9 DEF RotateFails, End, Forget, Worse, Happens
  <2> QED BY <1>1, <2>1, <2>2, <2>3, <2>4, <2>5, <2>6, <2>7, <2>8, <2>9 DEF Archive
<1>2. ASSUME NEW c \in Configs, NEW n \in Revisions, Commit(c, n) PROVE TopIsRevision0'
  BY <1>2 DEF Commit, StartHook, SettleUnless, Settle, Overlapping, Worse, Happens
<1>3. CASE CommitFails
  BY <1>3 DEF CommitFails, StartHook, SettleUnless, Settle, Overlapping, Worse, Happens
<1>4. ASSUME NEW c \in Configs, CommitUnderConfirm(c) PROVE TopIsRevision0'
  BY <1>4 DEF CommitUnderConfirm, StartHook, Overlapping, Worse, Happens
<1>5. CASE CommitUnderConfirmFails
  BY <1>5 DEF CommitUnderConfirmFails, StartHook, Overlapping, Worse, Happens
<1>6. CASE WriteEntry \/ WriteEntryFails
  BY <1>6 DEF WriteEntry, WriteEntryFails, EndEntry, Worse, Happens
<1>7. CASE StartTimer \/ StartTimerFails
  BY <1>7 DEF StartTimer, StartTimerFails, Happens
<1>8. CASE ConfirmCheck
  BY <1>8 DEF ConfirmCheck
<1>9. CASE ConfirmStop
  BY <1>9 DEF ConfirmStop
<1>10. CASE ConfirmStopFails \/ ConfirmKillFails
  BY <1>10 DEF ConfirmStopFails, ConfirmKillFails, End, Forget, Happens
<1>11. CASE ConfirmEntry
  BY <1>11 DEF ConfirmEntry, Worse
<1>12. CASE RevertSoft
  BY <1>12 DEF RevertSoft
<1>13. CASE RevertCommit
  BY <1>13 DEF RevertCommit, StartHook, SettleUnless, Settle, Overlapping, Worse
<1>14. CASE RevertCommitFails
  BY <1>14 DEF RevertCommitFails, StartHook, SettleUnless, Settle, Overlapping, Worse, Happens
<1>15. CASE RevertSoftEnds \/ Save
  BY <1>15 DEF RevertSoftEnds, Save, Happens
<1>16. ASSUME NEW c \in Configs, Boot(c) PROVE TopIsRevision0'
  BY <1>16 DEF Boot, Settle, Worse
<1>17. CASE Revert \/ Reboot
  BY <1>16, <1>17 DEF Revert, Reboot
<1>18. ASSUME NEW rev \in Index, Rollback(rev) PROVE TopIsRevision0'
  BY <1>16, <1>18 DEF Rollback
<1>19. CASE UNCHANGED vars
  BY <1>19 DEF vars
<1> QED BY <1>1, <1>2, <1>3, <1>4, <1>5, <1>6, <1>7, <1>8, <1>9, <1>10, <1>11, <1>12, <1>13, <1>14, <1>15, <1>17, <1>18, <1>19 DEF Next

\* One commit-confirm at a time, or the mark that there was another.
LEMMA OverlapKept ==
    ASSUME ArchiveInv, [Next]_vars
    PROVE  OverlapIsMixed'
<1> USE RevisionsAssumption, NoneAssumption DEF ArchiveInv, TypeOK, Procs, Phases, OverlapIsMixed, TopIsRevision0, ArchivesSettled, HookArchivesRunning, archive, process, config, session, Goto, Moved, Archiving, Unconfirmed, Provisional, Confirming, Quiet
<1>1. ASSUME NEW p \in Procs, Archive(p) PROVE OverlapIsMixed'
  <2>1. CASE ArchiveSave(p)
    BY <1>1, <2>1 DEF ArchiveSave, Settle
  <2>2. CASE ArchiveFails(p)
    BY <1>1, <2>2 DEF ArchiveFails, End, Forget, Worse, Happens
  <2>3. CASE ArchiveCompare(p)
    BY <1>1, <2>3 DEF ArchiveCompare, End, Forget
  <2>4. CASE ArchiveMove(p)
    BY <1>1, <2>4 DEF ArchiveMove
  <2>5. CASE ReadLog(p)
    BY <1>1, <2>5 DEF ReadLog, Forget
  <2>6. CASE WriteLog(p)
    BY <1>1, <2>6 DEF WriteLog
  <2>7. CASE WriteLogFails(p)
    BY <1>1, <2>7 DEF WriteLogFails, Worse, Happens
  <2>8. CASE Rotate(p)
    BY <1>1, <2>8 DEF Rotate, Rotated, End, Forget, Worse
  <2>9. CASE RotateFails(p)
    BY <1>1, <2>9 DEF RotateFails, End, Forget, Worse, Happens
  <2> QED BY <1>1, <2>1, <2>2, <2>3, <2>4, <2>5, <2>6, <2>7, <2>8, <2>9 DEF Archive
<1>2. ASSUME NEW c \in Configs, NEW n \in Revisions, Commit(c, n) PROVE OverlapIsMixed'
  BY <1>2 DEF Commit, StartHook, SettleUnless, Settle, Overlapping, Worse, Happens
<1>3. CASE CommitFails
  BY <1>3 DEF CommitFails, StartHook, SettleUnless, Settle, Overlapping, Worse, Happens
<1>4. ASSUME NEW c \in Configs, CommitUnderConfirm(c) PROVE OverlapIsMixed'
  BY <1>4 DEF CommitUnderConfirm, StartHook, Overlapping, Worse, Happens
<1>5. CASE CommitUnderConfirmFails
  BY <1>5 DEF CommitUnderConfirmFails, StartHook, Overlapping, Worse, Happens
<1>6. CASE WriteEntry \/ WriteEntryFails
  BY <1>6 DEF WriteEntry, WriteEntryFails, EndEntry, Worse, Happens
<1>7. CASE StartTimer \/ StartTimerFails
  BY <1>7 DEF StartTimer, StartTimerFails, Happens
<1>8. CASE ConfirmCheck
  BY <1>8 DEF ConfirmCheck
<1>9. CASE ConfirmStop
  BY <1>9 DEF ConfirmStop
<1>10. CASE ConfirmStopFails \/ ConfirmKillFails
  BY <1>10 DEF ConfirmStopFails, ConfirmKillFails, End, Forget, Happens
<1>11. CASE ConfirmEntry
  BY <1>11 DEF ConfirmEntry, Worse
<1>12. CASE RevertSoft
  BY <1>12 DEF RevertSoft
<1>13. CASE RevertCommit
  BY <1>13 DEF RevertCommit, StartHook, SettleUnless, Settle, Overlapping, Worse
<1>14. CASE RevertCommitFails
  BY <1>14 DEF RevertCommitFails, StartHook, SettleUnless, Settle, Overlapping, Worse, Happens
<1>15. CASE RevertSoftEnds \/ Save
  BY <1>15 DEF RevertSoftEnds, Save, Happens
<1>16. ASSUME NEW c \in Configs, Boot(c) PROVE OverlapIsMixed'
  BY <1>16 DEF Boot, Settle, Worse
<1>17. CASE Revert \/ Reboot
  BY <1>16, <1>17 DEF Revert, Reboot
<1>18. ASSUME NEW rev \in Index, Rollback(rev) PROVE OverlapIsMixed'
  BY <1>16, <1>18 DEF Rollback
<1>19. CASE UNCHANGED vars
  BY <1>19 DEF vars
<1> QED BY <1>1, <1>2, <1>3, <1>4, <1>5, <1>6, <1>7, <1>8, <1>9, <1>10, <1>11, <1>12, <1>13, <1>14, <1>15, <1>17, <1>18, <1>19 DEF Next

\* What a hook or confirm archives is final, or the mark is set.
LEMMA SettledKept ==
    ASSUME ArchiveInv, [Next]_vars
    PROVE  ArchivesSettled'
<1> USE RevisionsAssumption, NoneAssumption DEF ArchiveInv, TypeOK, Procs, Phases, ArchivesSettled, TopIsRevision0, OverlapIsMixed, HookArchivesRunning, archive, process, config, session, Goto, Moved, Archiving, Unconfirmed, Provisional, Confirming, Quiet
<1>1. ASSUME NEW p \in Procs, Archive(p) PROVE ArchivesSettled'
  <2>1. CASE ArchiveSave(p)
    <3>1. CASE mixed' = "yes"
      BY <3>1
    <3>2. CASE p = "hook" /\ UNCHANGED <<settled, mixed>>
      BY <2>1, <3>2 DEF ArchiveSave
    <3>3. CASE p = "confirm" /\ Settle(running)
      BY <2>1, <3>3 DEF ArchiveSave, Settle
    <3>4. CASE p = "confirm" /\ UNCHANGED <<settled, mixed>>
      BY <2>1, <3>4 DEF ArchiveSave, Settle
    <3> QED BY <2>1, <3>1, <3>2, <3>3, <3>4 DEF ArchiveSave, Settle
  <2>2. CASE ArchiveFails(p)
    BY <1>1, <2>2 DEF ArchiveFails, End, Forget, Worse, Happens
  <2>3. CASE ArchiveCompare(p)
    BY <1>1, <2>3 DEF ArchiveCompare, End, Forget
  <2>4. CASE ArchiveMove(p)
    BY <1>1, <2>4 DEF ArchiveMove
  <2>5. CASE ReadLog(p)
    BY <1>1, <2>5 DEF ReadLog, Forget
  <2>6. CASE WriteLog(p)
    BY <1>1, <2>6 DEF WriteLog
  <2>7. CASE WriteLogFails(p)
    BY <1>1, <2>7 DEF WriteLogFails, Worse, Happens
  <2>8. CASE Rotate(p)
    BY <1>1, <2>8 DEF Rotate, Rotated, End, Forget, Worse
  <2>9. CASE RotateFails(p)
    BY <1>1, <2>9 DEF RotateFails, End, Forget, Worse, Happens
  <2> QED BY <1>1, <2>1, <2>2, <2>3, <2>4, <2>5, <2>6, <2>7, <2>8, <2>9 DEF Archive
<1>2. ASSUME NEW c \in Configs, NEW n \in Revisions, Commit(c, n) PROVE ArchivesSettled'
  BY <1>2 DEF Commit, StartHook, SettleUnless, Settle, Overlapping, Worse, Happens
<1>3. CASE CommitFails
  BY <1>3 DEF CommitFails, StartHook, SettleUnless, Settle, Overlapping, Worse, Happens
<1>4. ASSUME NEW c \in Configs, CommitUnderConfirm(c) PROVE ArchivesSettled'
  BY <1>4 DEF CommitUnderConfirm, StartHook, Overlapping, Worse, Happens
<1>5. CASE CommitUnderConfirmFails
  BY <1>5 DEF CommitUnderConfirmFails, StartHook, Overlapping, Worse, Happens
<1>6. CASE WriteEntry \/ WriteEntryFails
  BY <1>6 DEF WriteEntry, WriteEntryFails, EndEntry, Worse, Happens
<1>7. CASE StartTimer \/ StartTimerFails
  BY <1>7 DEF StartTimer, StartTimerFails, Happens
<1>8. CASE ConfirmCheck
  BY <1>8 DEF ConfirmCheck
<1>9. CASE ConfirmStop
  BY <1>9 DEF ConfirmStop
<1>10. CASE ConfirmStopFails \/ ConfirmKillFails
  BY <1>10 DEF ConfirmStopFails, ConfirmKillFails, End, Forget, Happens
<1>11. CASE ConfirmEntry
  BY <1>11 DEF ConfirmEntry, Worse
<1>12. CASE RevertSoft
  BY <1>12 DEF RevertSoft
<1>13. CASE RevertCommit
  BY <1>13 DEF RevertCommit, StartHook, SettleUnless, Settle, Overlapping, Worse
<1>14. CASE RevertCommitFails
  BY <1>14 DEF RevertCommitFails, StartHook, SettleUnless, Settle, Overlapping, Worse, Happens
<1>15. CASE RevertSoftEnds \/ Save
  BY <1>15 DEF RevertSoftEnds, Save, Happens
<1>16. ASSUME NEW c \in Configs, Boot(c) PROVE ArchivesSettled'
  BY <1>16 DEF Boot, Settle, Worse
<1>17. CASE Revert \/ Reboot
  BY <1>16, <1>17 DEF Revert, Reboot
<1>18. ASSUME NEW rev \in Index, Rollback(rev) PROVE ArchivesSettled'
  BY <1>16, <1>18 DEF Rollback
<1>19. CASE UNCHANGED vars
  BY <1>19 DEF vars
<1> QED BY <1>1, <1>2, <1>3, <1>4, <1>5, <1>6, <1>7, <1>8, <1>9, <1>10, <1>11, <1>12, <1>13, <1>14, <1>15, <1>17, <1>18, <1>19 DEF Next

\* Nothing is committed between the save and the move of a hook.
LEMMA HookKept ==
    ASSUME ArchiveInv, [Next]_vars
    PROVE  HookArchivesRunning' /\ CopyHeld'
<1> USE RevisionsAssumption, NoneAssumption DEF ArchiveInv, TypeOK, Procs, Phases, HookArchivesRunning, CopyHeld, TopIsRevision0, OverlapIsMixed, ArchivesSettled, archive, process, config, session, Goto, Moved, Archiving, Unconfirmed, Provisional, Confirming, Quiet
<1>1. ASSUME NEW p \in Procs, Archive(p) PROVE HookArchivesRunning' /\ CopyHeld'
  <2>1. CASE ArchiveSave(p)
    BY <1>1, <2>1 DEF ArchiveSave, Settle
  <2>2. CASE ArchiveFails(p)
    BY <1>1, <2>2 DEF ArchiveFails, End, Forget, Worse, Happens
  <2>3. CASE ArchiveCompare(p)
    BY <1>1, <2>3 DEF ArchiveCompare, End, Forget
  <2>4. CASE ArchiveMove(p)
    BY <1>1, <2>4 DEF ArchiveMove
  <2>5. CASE ReadLog(p)
    BY <1>1, <2>5 DEF ReadLog, Forget
  <2>6. CASE WriteLog(p)
    BY <1>1, <2>6 DEF WriteLog
  <2>7. CASE WriteLogFails(p)
    BY <1>1, <2>7 DEF WriteLogFails, Worse, Happens
  <2>8. CASE Rotate(p)
    BY <1>1, <2>8 DEF Rotate, Rotated, End, Forget, Worse
  <2>9. CASE RotateFails(p)
    BY <1>1, <2>9 DEF RotateFails, End, Forget, Worse, Happens
  <2> QED BY <1>1, <2>1, <2>2, <2>3, <2>4, <2>5, <2>6, <2>7, <2>8, <2>9 DEF Archive
<1>2. ASSUME NEW c \in Configs, NEW n \in Revisions, Commit(c, n) PROVE HookArchivesRunning' /\ CopyHeld'
  BY <1>2 DEF Commit, StartHook, SettleUnless, Settle, Overlapping, Worse, Happens
<1>3. CASE CommitFails
  BY <1>3 DEF CommitFails, StartHook, SettleUnless, Settle, Overlapping, Worse, Happens
<1>4. ASSUME NEW c \in Configs, CommitUnderConfirm(c) PROVE HookArchivesRunning' /\ CopyHeld'
  BY <1>4 DEF CommitUnderConfirm, StartHook, Overlapping, Worse, Happens
<1>5. CASE CommitUnderConfirmFails
  BY <1>5 DEF CommitUnderConfirmFails, StartHook, Overlapping, Worse, Happens
<1>6. CASE WriteEntry \/ WriteEntryFails
  BY <1>6 DEF WriteEntry, WriteEntryFails, EndEntry, Worse, Happens
<1>7. CASE StartTimer \/ StartTimerFails
  BY <1>7 DEF StartTimer, StartTimerFails, Happens
<1>8. CASE ConfirmCheck
  BY <1>8 DEF ConfirmCheck
<1>9. CASE ConfirmStop
  BY <1>9 DEF ConfirmStop
<1>10. CASE ConfirmStopFails \/ ConfirmKillFails
  BY <1>10 DEF ConfirmStopFails, ConfirmKillFails, End, Forget, Happens
<1>11. CASE ConfirmEntry
  BY <1>11 DEF ConfirmEntry, Worse
<1>12. CASE RevertSoft
  BY <1>12 DEF RevertSoft
<1>13. CASE RevertCommit
  BY <1>13 DEF RevertCommit, StartHook, SettleUnless, Settle, Overlapping, Worse
<1>14. CASE RevertCommitFails
  BY <1>14 DEF RevertCommitFails, StartHook, SettleUnless, Settle, Overlapping, Worse, Happens
<1>15. CASE RevertSoftEnds \/ Save
  BY <1>15 DEF RevertSoftEnds, Save, Happens
<1>16. ASSUME NEW c \in Configs, Boot(c) PROVE HookArchivesRunning' /\ CopyHeld'
  BY <1>16 DEF Boot, Settle, Worse
<1>17. CASE Revert \/ Reboot
  BY <1>16, <1>17 DEF Revert, Reboot
<1>18. ASSUME NEW rev \in Index, Rollback(rev) PROVE HookArchivesRunning' /\ CopyHeld'
  BY <1>16, <1>18 DEF Rollback
<1>19. CASE UNCHANGED vars
  BY <1>19 DEF vars
<1> QED BY <1>1, <1>2, <1>3, <1>4, <1>5, <1>6, <1>7, <1>8, <1>9, <1>10, <1>11, <1>12, <1>13, <1>14, <1>15, <1>17, <1>18, <1>19 DEF Next

\* commit-revisions as the log and as the files know it.
LEMMA LimitsAreNumbers ==
    ASSUME TypeOK
    PROVE  revisions \in Nat /\ limit \in Nat
<1>1. revisions \in Revisions /\ limit \in Revisions \cup {0}
  BY DEF TypeOK
<1>2. Revisions \subseteq Nat
  BY RevisionsAssumption
<1> QED BY <1>1, <1>2

\* A log that numbers the files is one step ahead of them with its new entry.
LEMMA AddLogEntryShifts ==
    ASSUME log \in Seq(Configs), top \in Configs, LogNumbersFiles, NEW n \in Nat
    PROVE  Shifted(AddLogEntry(top, n))
<1> DEFINE l == AddLogEntry(top, n)
<1>1. /\ Len(l) = IF Len(log) + 1 > n THEN Len(log) ELSE Len(log) + 1
      /\ \A i \in 1..Len(l) : l[i] = IF i = 1 THEN top ELSE log[i - 1]
  BY AddLogEntryEffect
<1> HIDE DEF l
<1>2. Len(log) \in Nat
  OBVIOUS
<1>3. ASSUME NEW i \in 1..Len(l), i # 1
      PROVE  log[i - 1] = files[i - 2]
  <2>1. i - 1 \in 1..Len(log) /\ (i - 1) - 1 = i - 2
    BY <1>1, <1>2, <1>3
  <2> QED BY <2>1 DEF LogNumbersFiles
<1>4. \A i \in 1..Len(l) : l[i] = IF i = 1 THEN top ELSE files[i - 2]
  BY <1>1, <1>3
<1> QED BY <1>4 DEF Shifted, l

\* The entry of a commit-confirm is about what confirm() archives, unless a step
\* failed or a hook ran during the confirm.
LEMMA EntryKept ==
    ASSUME ArchiveInv, [Next]_vars, logFate' = "kept"
    PROVE  EntryIsRunning'
<1> USE NoneAssumption DEF ArchiveInv, TypeOK, Procs, Phases, EntryIsRunning, LogInFlight, HookArchivesRunning, Moved, Confirming,
           archive, process, config, session, Goto
<1>1. ASSUME NEW p \in Procs, Archive(p) PROVE EntryIsRunning'
  <2>1. CASE ArchiveSave(p)
    BY <1>1, <2>1 DEF ArchiveSave
  <2>2. CASE ArchiveFails(p)
    BY <1>1, <2>2 DEF ArchiveFails, End, Forget, Worse
  <2>3. CASE ArchiveCompare(p)
    BY <1>1, <2>3 DEF ArchiveCompare, End, Forget
  <2>4. CASE ArchiveMove(p)
    BY <1>1, <2>4 DEF ArchiveMove
  <2>5. CASE ReadLog(p)
    BY <1>1, <2>5 DEF ReadLog, Forget
  <2>6. CASE WriteLog(p)
    BY <1>1, <2>6 DEF WriteLog
  <2>7. CASE WriteLogFails(p)
    BY <1>1, <2>7 DEF WriteLogFails, Worse
  <2>8. CASE Rotate(p)
    BY <1>1, <2>8 DEF Rotate, End, Forget, Worse
  <2>9. CASE RotateFails(p)
    BY <1>1, <2>9 DEF RotateFails, Worse
  <2> QED BY <1>1, <2>1, <2>2, <2>3, <2>4, <2>5, <2>6, <2>7, <2>8, <2>9 DEF Archive
<1>2. ASSUME NEW c \in Configs, NEW n \in Revisions, Commit(c, n) PROVE EntryIsRunning'
  BY <1>2 DEF Commit, StartHook, Overlapping, Worse
<1>3. CASE CommitFails
  BY <1>3 DEF CommitFails, StartHook, Overlapping, Worse
<1>4. ASSUME NEW c \in Configs, CommitUnderConfirm(c) PROVE EntryIsRunning'
  BY <1>4 DEF CommitUnderConfirm, StartHook, Overlapping, Worse
<1>5. CASE CommitUnderConfirmFails
  BY <1>5 DEF CommitUnderConfirmFails, StartHook, Overlapping, Worse
<1>6. CASE WriteEntry \/ WriteEntryFails
  BY <1>6 DEF WriteEntry, WriteEntryFails, EndEntry, Worse
<1>7. CASE StartTimer \/ StartTimerFails
  BY <1>7 DEF StartTimer, StartTimerFails
<1>8. CASE ConfirmCheck \/ ConfirmStop
  BY <1>8 DEF ConfirmCheck, ConfirmStop
<1>9. CASE ConfirmStopFails
  BY <1>9 DEF ConfirmStopFails, End, Forget
<1>10. CASE ConfirmKillFails
  BY <1>10 DEF ConfirmKillFails, End, Forget
<1>11. CASE ConfirmEntry
  BY <1>11 DEF ConfirmEntry, Worse
<1>12. CASE RevertSoft \/ RevertSoftEnds \/ Save
  BY <1>12 DEF RevertSoft, RevertSoftEnds, Save
<1>13. CASE RevertCommit
  BY <1>13 DEF RevertCommit, StartHook, Overlapping, Worse
<1>14. CASE RevertCommitFails
  BY <1>14 DEF RevertCommitFails, StartHook, Overlapping, Worse
<1>15. ASSUME NEW c \in Configs, Boot(c) PROVE EntryIsRunning'
  BY <1>15 DEF Boot, Worse
<1>16. CASE Revert \/ Reboot
  BY <1>15, <1>16 DEF Revert, Reboot
<1>17. ASSUME NEW rev \in Index, Rollback(rev) PROVE EntryIsRunning'
  BY <1>15, <1>17 DEF Rollback
<1>18. CASE UNCHANGED vars
  BY <1>18 DEF vars
<1> QED BY <1>1, <1>2, <1>3, <1>4, <1>5, <1>6, <1>7, <1>8, <1>9, <1>10, <1>11, <1>12, <1>13, <1>14, <1>16, <1>17, <1>18 DEF Next

\* The log and the files stay in step through every phase of an update.
LEMMA LogKept ==
    ASSUME ArchiveInv, [Next]_vars, logFate' = "kept"
    PROVE  LogInFlight'
<1> USE NoneAssumption DEF ArchiveInv, TypeOK, Procs, LogInFlight, LogNumbersFiles, Shifted, Confirming,
           archive, process, config, session, Goto
<1>1. ASSUME NEW p \in Procs, Archive(p) PROVE LogInFlight'
  <2>1. CASE ArchiveSave(p)
    BY <1>1, <2>1 DEF ArchiveSave
  <2>2. CASE ArchiveFails(p)
    BY <1>1, <2>2 DEF ArchiveFails, End, Forget, Worse
  <2>3. CASE ArchiveCompare(p)
    BY <1>1, <2>3 DEF ArchiveCompare, End, Forget
  <2>4. CASE ArchiveMove(p)
    BY <1>1, <2>4 DEF ArchiveMove
  <2>5. CASE ReadLog(p)
    <3> DEFINE n == IF p = "confirm" THEN limit ELSE revisions
    <3>1. n \in Nat
      BY LimitsAreNumbers
    <3>2. lines' = [lines EXCEPT ![p] = AddLogEntry(top, n)]
      BY <2>5 DEF ReadLog, EntryIsRunning
    <3> HIDE DEF n
    <3>4. LogInFlight /\ at[p] = "read" /\ \A q \in Procs : at[q] # "rotate"
      BY <2>5 DEF ReadLog
    <3>5. Shifted(AddLogEntry(top, n))
      <4>1. log \in Seq(Configs) /\ top \in Configs /\ LogNumbersFiles
        BY <3>4
      <4> HIDE DEF Shifted
      <4> QED BY <3>1, <4>1, AddLogEntryShifts
    <3>6. /\ at' = [at EXCEPT ![p] = "write"]
          /\ UNCHANGED <<top, files, log>>
          /\ \A q \in Procs : q # p => tmp'[q] = tmp[q]
      BY <2>5 DEF ReadLog, Forget
    <3> QED BY <3>2, <3>4, <3>5, <3>6
  <2>6. CASE WriteLog(p)
    BY <1>1, <2>6 DEF WriteLog
  <2>7. CASE WriteLogFails(p)
    BY <1>1, <2>7 DEF WriteLogFails, Worse
  <2>8. CASE Rotate(p)
    <3>1. /\ Shifted(log) /\ Len(log) <= revisions /\ at[p] = "rotate"
          /\ Len(log) \in Nat /\ revisions \in 1..LastIndex /\ LastIndex \in Nat
      BY <2>8, RevisionsAssumption DEF Rotate, Worse
    <3>2. \A i \in 1..Len(log) : Rotated(revisions)[i - 1] = log[i]
      <4> TAKE i \in 1..Len(log)
      <4>1. CASE i = 1
        BY <3>1, <4>1, RotatedTypes
      <4>2. CASE i # 1
        <5>1. i - 1 \in 1..(revisions - 1) /\ (i - 1) - 1 = i - 2
          BY <3>1, <4>2
        <5>2. Rotated(revisions)[i - 1] = files[(i - 1) - 1]
          BY <5>1, RotatedTypes
        <5> QED BY <3>1, <4>2, <5>1, <5>2
      <4> QED BY <4>1, <4>2
    <3>3. /\ files' = Rotated(revisions) /\ log' = log /\ top' = top
          /\ at' = [at EXCEPT ![p] = "idle"]
          /\ \A q \in Procs : q # p => tmp'[q] = tmp[q] /\ lines'[q] = lines[q]
      BY <2>8 DEF Rotate, End, Forget
    <3>4. \A q \in Procs : at'[q] \notin {"read", "write", "rotate"}
      <4>1. CASE p = "hook"
        BY <2>8, <3>3, <4>1 DEF Rotate, Worse, Phases
      <4>2. CASE p = "confirm"
        BY <2>8, <3>3, <4>2 DEF Rotate, Worse
      <4> QED BY <4>1, <4>2
    <3> QED BY <3>1, <3>2, <3>3, <3>4
  <2>9. CASE RotateFails(p)
    BY <1>1, <2>9 DEF RotateFails, Worse
  <2> QED BY <1>1, <2>1, <2>2, <2>3, <2>4, <2>5, <2>6, <2>7, <2>8, <2>9 DEF Archive
<1>2. ASSUME NEW c \in Configs, NEW n \in Revisions, Commit(c, n) PROVE LogInFlight'
  BY <1>2 DEF Commit, StartHook, Overlapping, Worse
<1>3. CASE CommitFails
  BY <1>3 DEF CommitFails, StartHook, Overlapping, Worse
<1>4. ASSUME NEW c \in Configs, CommitUnderConfirm(c) PROVE LogInFlight'
  BY <1>4 DEF CommitUnderConfirm, StartHook, Overlapping, Worse
<1>5. CASE CommitUnderConfirmFails
  BY <1>5 DEF CommitUnderConfirmFails, StartHook, Overlapping, Worse
<1>6. CASE WriteEntry \/ WriteEntryFails
  BY <1>6 DEF WriteEntry, WriteEntryFails, EndEntry, Worse
<1>7. CASE StartTimer \/ StartTimerFails
  BY <1>7 DEF StartTimer, StartTimerFails
<1>8. CASE ConfirmCheck \/ ConfirmStop
  BY <1>8 DEF ConfirmCheck, ConfirmStop
<1>9. CASE ConfirmStopFails
  BY <1>9 DEF ConfirmStopFails, End, Forget
<1>10. CASE ConfirmKillFails
  BY <1>10 DEF ConfirmKillFails, End, Forget
<1>11. CASE ConfirmEntry
  BY <1>11 DEF ConfirmEntry, Worse
<1>12. CASE RevertSoft \/ RevertSoftEnds \/ Save
  BY <1>12 DEF RevertSoft, RevertSoftEnds, Save
<1>13. CASE RevertCommit
  BY <1>13 DEF RevertCommit, StartHook, Overlapping, Worse
<1>14. CASE RevertCommitFails
  BY <1>14 DEF RevertCommitFails, StartHook, Overlapping, Worse
<1>15. ASSUME NEW c \in Configs, Boot(c) PROVE LogInFlight'
  BY <1>15 DEF Boot, Worse
<1>16. CASE Revert \/ Reboot
  BY <1>15, <1>16 DEF Revert, Reboot
<1>17. ASSUME NEW rev \in Index, Rollback(rev) PROVE LogInFlight'
  BY <1>15, <1>17 DEF Rollback
<1>18. CASE UNCHANGED vars
  BY <1>18 DEF vars
<1> QED BY <1>1, <1>2, <1>3, <1>4, <1>5, <1>6, <1>7, <1>8, <1>9, <1>10, <1>11, <1>12, <1>13, <1>14, <1>16, <1>17, <1>18 DEF Next

-----------------------------------------------------------------------------
LEMMA ArchiveInitially ==
    ASSUME Init
    PROVE  ArchiveInv
<1>1. LastIndex \in Nat /\ LastIndex >= 1 /\ 0 \in Index /\ MaxEvents \in Nat
  <2>1. PICK n \in Revisions : n \in 1..LastIndex
    BY RevisionsAssumption
  <2> QED BY <2>1, RevisionsAssumption DEF Index
<1>2. log \in Seq(Configs) /\ Len(log) = 1 /\ log[1] = running
  BY DEF Init
<1>3. files \in [Index -> Configs \cup {None}] /\ files[0] = running
  BY <1>1 DEF Init
<1>4. \A p \in Procs : at[p] = "idle" /\ tmp[p] = None /\ lines[p] = <<>>
  BY DEF Init
<1>5. <<>> \in Seq(Configs)
  OBVIOUS
<1>6. TypeOK
  BY <1>1, <1>2, <1>3, <1>5 DEF Init, TypeOK, Procs, Phases
<1> QED BY <1>1, <1>2, <1>3, <1>4, <1>6 DEF Init, ArchiveInv, TopIsRevision0,
           OverlapIsMixed, ArchivesSettled, HookArchivesRunning, CopyHeld, LogInFlight,
           EntryIsRunning, LogNumbersFiles, Archiving, Moved, Confirming, Procs

LEMMA ArchiveInductive ==
    ASSUME ArchiveInv, [Next]_vars
    PROVE  ArchiveInv'
BY TypesKept, TopKept, OverlapKept, SettledKept, HookKept, LogKept, EntryKept
   DEF ArchiveInv

\* The archive, the processes and the entry keep their types.
THEOREM ConfigMgmtTypes == Spec => []TypeOK
<1>1. ArchiveInv => TypeOK
  BY DEF ArchiveInv
<1> QED BY <1>1, ArchiveInitially, ArchiveInductive, PTL DEF Spec

\* Between updates line N of the commit log is about revision file N, as long as
\* no step has failed or been cut off, no hook has run during a confirm and
\* commit-revisions has not been lowered below the number of revisions.
THEOREM LogIsTheRevisionList == Spec => []LogMatchesArchive
<1>1. ArchiveInv => LogMatchesArchive
  BY DEF ArchiveInv, LogInFlight, LogMatchesArchive, Quiet
<1> QED BY <1>1, ArchiveInitially, ArchiveInductive, PTL DEF Spec

\* Between updates revision 0, to which revert_soft goes, is the latest
\* configuration that is not provisional, also when hooks and confirm overlap, as
\* long as the latest archiving succeeded and no other session committed during
\* the commit-confirm.
THEOREM RevertsToSettled == Spec => []RevertTarget
<1>1. ArchiveInv => RevertTarget
  BY DEF ArchiveInv, TopIsRevision0, ArchivesSettled, RevertTarget, Quiet, Moved
<1> QED BY <1>1, ArchiveInitially, ArchiveInductive, PTL DEF Spec
=============================================================================
