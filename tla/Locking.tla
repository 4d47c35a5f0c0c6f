------------------------------ MODULE Locking ------------------------------
(***************************************************************************)
(* The lock files of vyos.utils.locking (class Lock), used by processes    *)
(* that share one lock name.                                               *)
(*                                                                         *)
(* acquire() opens the file, creating it if it is missing, and locks what  *)
(* it opened; release() unlocks it, then opens the path again and removes  *)
(* it if it can lock what it opened.  Opening, locking and removing are    *)
(* separate steps: the file a process has opened need not be the one the   *)
(* path names when it is locked or removed.                                *)
(*                                                                         *)
(* flock() and the file system are external: a lock belongs to an open     *)
(* file and ends with it; a new file is none that a process has open.      *)
(***************************************************************************)
EXTENDS FiniteSets, Naturals

CONSTANTS
    Procs,      \* processes that use the lock
    Files,      \* files (inodes) that the path may name
    None        \* no file, no process

ASSUME NoneAssumption == None \notin Files /\ None \notin Procs
ASSUME FilesAssumption ==
    IsFiniteSet(Procs) /\ IsFiniteSet(Files) /\ Cardinality(Files) > Cardinality(Procs)

VARIABLES
    path,       \* the file that the path of the lock names
    pc,         \* where each process is
    file,       \* the file each process has open
    holder,     \* who has locked each file
    crashed     \* history: "yes" once a process died inside the lock's code

vars == <<path, pc, file, holder, crashed>>

Init ==
    /\ path = None
    /\ pc = [p \in Procs |-> "idle"]
    /\ file = [p \in Procs |-> None]
    /\ holder = [f \in Files |-> None]
    /\ crashed = "no"

-----------------------------------------------------------------------------
\* open(path, 'w').
Open(p) ==
    IF path # None
    THEN path' = path /\ file' = [file EXCEPT ![p] = path]
    ELSE \E f \in Files :
            /\ \A q \in Procs : file[q] # f
            /\ path' = f /\ file' = [file EXCEPT ![p] = f]

Goto(p, l) == pc' = [pc EXCEPT ![p] = l]

\* flock(LOCK_EX | LOCK_NB), flock(LOCK_UN), and the lock of a closed file.
CanLock(p) == holder[file[p]] = None
Lock(p) == holder' = [holder EXCEPT ![file[p]] = p]
Unlock(p) == holder' = [f \in Files |-> IF holder[f] = p THEN None ELSE holder[f]]

\* acquire() is called.
Acquire(p) ==
    /\ pc[p] = "idle"
    /\ Goto(p, "open")
    /\ UNCHANGED <<path, file, holder, crashed>>

\* The loop of acquire(): the file of an earlier pass stays open until the
\* next one is.
AcquireOpen(p) ==
    /\ pc[p] = "open"
    /\ Open(p)
    /\ Goto(p, "opened")
    /\ UNCHANGED <<holder, crashed>>

AcquireLock(p) ==
    /\ pc[p] = "opened" /\ CanLock(p)
    /\ Lock(p)
    /\ Goto(p, "held")
    /\ UNCHANGED <<path, file, crashed>>

\* Mutant: the next pass locks a file that was closed.
AcquireRetryClosed(p) ==
    /\ pc[p] = "opened" /\ ~CanLock(p)
    /\ file' = [file EXCEPT ![p] = None]
    /\ UNCHANGED <<path, pc, holder, crashed>>

AcquireRetry(p) ==
    /\ pc[p] = "opened" /\ ~CanLock(p)
    /\ Goto(p, "open")
    /\ UNCHANGED <<path, file, holder, crashed>>

\* The timeout: LockTimeoutError.
AcquireTimeout(p) ==
    /\ pc[p] = "opened" /\ ~CanLock(p)
    /\ Goto(p, "idle")
    /\ file' = [file EXCEPT ![p] = None]
    /\ UNCHANGED <<path, holder, crashed>>

\* Mutant: the lock file is to be removed before it is unlocked, which the
\* process's own lock prevents.
ReleaseUnlinkFirst(p) ==
    /\ pc[p] = "held"
    /\ Unlock(p)
    /\ file' = [file EXCEPT ![p] = None]
    /\ Goto(p, "idle")
    /\ UNCHANGED <<path, crashed>>

\* release(): unlock and close, ...
Release(p) ==
    /\ pc[p] = "held"
    /\ Unlock(p)
    /\ file' = [file EXCEPT ![p] = None]
    /\ Goto(p, "reopen")
    /\ UNCHANGED <<path, crashed>>

\* ... then __unlink_lockfile().
UnlinkOpen(p) ==
    /\ pc[p] = "reopen"
    /\ Open(p)
    /\ Goto(p, "reopened")
    /\ UNCHANGED <<holder, crashed>>

\* Mutant: the file is locked without a look at its holder (LOCK_SH).
UnlinkLockShared(p) ==
    /\ pc[p] = "reopened"
    /\ holder' = [holder EXCEPT ![file[p]] = IF @ = None THEN p ELSE @]
    /\ Goto(p, "locked")
    /\ UNCHANGED <<path, file, crashed>>

UnlinkLock(p) ==
    /\ pc[p] = "reopened" /\ CanLock(p)
    /\ Lock(p)
    /\ Goto(p, "locked")
    /\ UNCHANGED <<path, file, crashed>>

\* Another process has locked the file: nothing is removed.
UnlinkSkip(p) ==
    /\ pc[p] = "reopened" /\ ~CanLock(p)
    /\ file' = [file EXCEPT ![p] = None]
    /\ Goto(p, "idle")
    /\ UNCHANGED <<path, holder, crashed>>

Unlink(p) ==
    /\ pc[p] = "locked"
    /\ path' = None
    /\ Goto(p, "unlinked")
    /\ UNCHANGED <<file, holder, crashed>>

UnlinkClose(p) ==
    /\ pc[p] = "unlinked"
    /\ Unlock(p)
    /\ file' = [file EXCEPT ![p] = None]
    /\ Goto(p, "idle")
    /\ UNCHANGED <<path, crashed>>

\* A process dies; the kernel closes its file.
Crash(p) ==
    /\ pc[p] # "idle"
    /\ crashed' = "yes"
    /\ Unlock(p)
    /\ file' = [file EXCEPT ![p] = None]
    /\ Goto(p, "idle")
    /\ UNCHANGED path

Step(p) ==
    \/ Acquire(p) \/ AcquireOpen(p) \/ AcquireLock(p) \/ AcquireRetry(p) \/ AcquireTimeout(p)
    \/ Release(p)
    \/ UnlinkOpen(p) \/ UnlinkLock(p) \/ UnlinkSkip(p) \/ Unlink(p) \/ UnlinkClose(p)
    \/ Crash(p)

Next == \E p \in Procs : Step(p)

Spec == Init /\ [][Next]_vars

-----------------------------------------------------------------------------
\* The types of the lock's state; what is locked and unlocked is an open file.
TypeOK ==
    /\ path \in Files \cup {None}
    /\ pc \in [Procs -> {"idle", "open", "opened", "held", "reopen", "reopened", "locked",
                         "unlinked"}]
    /\ file \in [Procs -> Files \cup {None}]
    /\ holder \in [Files -> Procs \cup {None}]
    /\ crashed \in {"no", "yes"}
    /\ \A p \in Procs :
          /\ pc[p] \in {"opened", "held", "reopened", "locked", "unlinked"} => file[p] # None
          /\ pc[p] \in {"idle", "reopen"} => file[p] = None

\* A process that believes it has the lock has locked the file it opened, and
\* no other process has locked that file; no lock outlives its process.
LocksAreOwned ==
    \A f \in Files, p \in Procs :
        holder[f] = p <=> pc[p] \in {"held", "locked", "unlinked"} /\ file[p] = f

\* "Ensure the lock file is removed when the object is deleted": once every
\* process is done with the lock, and none died, the file is gone, although
\* each leaves the removal to another when it finds the file locked.
LockFileRemoved ==
    crashed = "no" /\ (\A p \in Procs : pc[p] = "idle") => path = None

\* Why it is: a file that the path names has a process that still will lock
\* it or find it locked by such a process.
Responsible(p) ==
    \/ pc[p] = "reopen"
    \/ pc[p] \in {"opened", "held", "reopened", "locked"} /\ file[p] = path

Attended ==
    crashed = "no" /\ path # None => \E p \in Procs : Responsible(p)

\* A file that was removed is not the one the path names now.
RemovedIsGone ==
    \A p \in Procs : pc[p] = "unlinked" => file[p] # path

Inv == TypeOK /\ LocksAreOwned /\ RemovedIsGone /\ Attended

\* "Remove the lock file if it is not currently locked": a process never
\* removes a file that another one has locked.
UnlinksUnlocked ==
    [][\A p \in Procs : Unlink(p) /\ path # None => holder[path] \in {None, p}]_vars
=============================================================================
