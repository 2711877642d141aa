---------------------------- MODULE SessionLock -----------------------------
(***************************************************************************)
(* The lock that makes the ingestion of one Claude Code session orderly    *)
(* (cvc-core/src/claude_code/session_lock.rs).                             *)
(*                                                                         *)
(* A run opens the lock file, creating it if it is not there, and tries to *)
(* take the system's advisory lock on what it opened.  The holder removes  *)
(* the file before it unlocks it, so a run that waited may get the lock on *)
(* a file nobody else will find: it compares the path with its file, and   *)
(* starts over where they differ.  A file system that offers no locks lets *)
(* every run in.                                                           *)
(*                                                                         *)
(* A file is an inode: the path names at most one, an inode that a run has *)
(* open is not used again, and the lock of a run goes with the run.        *)
(***************************************************************************)
CONSTANTS
    Runs,      \* processes that ingest the session
    Inodes,    \* inode numbers
    None       \* no inode, no run

ASSUME NoneIsNone == None \notin Inodes \cup Runs

VARIABLES
    locking,   \* whether the file system can lock, the same for all
    path,      \* the inode the path of the lock names
    owner,     \* owner[i]: the run with the lock on inode i
    taker,     \* taker[r]: how far run r is
    fd         \* fd[r]: the inode run r has open

lockVars == <<locking, path, owner, taker, fd>>
-----------------------------------------------------------------------------
Stage == {"out", "open", "lock", "check", "in", "unlock"}
At(r, stage) == taker[r] = stage
Goto(r, stage) == taker' = [taker EXCEPT ![r] = stage]
InUse == {fd[r] : r \in Runs} \cup {path}

LockInit ==
    /\ locking \in BOOLEAN
    /\ path = None
    /\ owner = [i \in Inodes |-> None]
    /\ taker = [r \in Runs |-> "out"]
    /\ fd = [r \in Runs |-> None]

\* SessionLock::acquire is called.
Acquire(r) ==
    /\ At(r, "out")
    /\ Goto(r, "open")
    /\ UNCHANGED <<locking, path, owner, fd>>

Open(r) ==
    /\ At(r, "open")
    /\ IF path = None THEN path' \in Inodes \ InUse ELSE UNCHANGED path
    /\ fd' = [fd EXCEPT ![r] = path']
    /\ Goto(r, "lock")
    /\ UNCHANGED <<locking, owner>>

\* try_lock_exclusive.  While another run has the lock, it is tried again.
Lock(r) ==
    /\ At(r, "lock")
    /\ locking
    /\ owner[fd[r]] = None
    /\ owner' = [owner EXCEPT ![fd[r]] = r]
    /\ Goto(r, "check")
    /\ UNCHANGED <<locking, path, fd>>

\* Nothing to hold, and nothing to leave behind.
GoWithout(r) ==
    /\ At(r, "lock")
    /\ ~locking
    /\ path' = None
    /\ fd' = [fd EXCEPT ![r] = None]
    /\ Goto(r, "in")
    /\ UNCHANGED <<locking, owner>>

\* Closing a file gives its lock up.
Released(r) == [i \in Inodes |-> IF owner[i] = r THEN None ELSE owner[i]]
Close(r) ==
    /\ owner' = Released(r)
    /\ fd' = [fd EXCEPT ![r] = None]

\* (Mutant) The path is not compared with what was locked.
SameFileUnchecked(r) == TRUE
NamesTheSameFile(r) == path = fd[r]

Check(r) ==
    /\ At(r, "check")
    /\ \/ NamesTheSameFile(r) /\ Goto(r, "in") /\ UNCHANGED <<owner, fd>>
       \/ ~NamesTheSameFile(r) /\ Close(r) /\ taker' \in
            {[taker EXCEPT ![r] = next] : next \in {"open", "out"}}
    /\ UNCHANGED <<locking, path>>

\* The wait is over and another run still has the lock: SessionBusy.
GiveUp(r) ==
    /\ At(r, "lock")
    /\ locking
    /\ owner[fd[r]] # None
    /\ Close(r)
    /\ Goto(r, "out")
    /\ UNCHANGED <<locking, path>>

\* Drop removes the file while the lock is still held, then unlocks it.
Remove(r) ==
    /\ At(r, "in")
    /\ path' = IF fd[r] # None THEN None ELSE path
    /\ Goto(r, "unlock")
    /\ UNCHANGED <<locking, owner, fd>>

Unlock(r) ==
    /\ At(r, "unlock")
    /\ Close(r)
    /\ Goto(r, "out")
    /\ UNCHANGED <<locking, path>>

\* The process is killed: the file stays, its lock does not.
Die(r) ==
    /\ ~At(r, "out")
    /\ Close(r)
    /\ Goto(r, "out")
    /\ UNCHANGED <<locking, path>>
-----------------------------------------------------------------------------
\* The steps of acquire, once called.
Acquiring(r) == Open(r) \/ Lock(r) \/ GoWithout(r) \/ Check(r) \/ GiveUp(r)

LockNext ==
    \E r \in Runs : Acquire(r) \/ Acquiring(r) \/ Remove(r) \/ Unlock(r) \/ Die(r)

LockSpec == LockInit /\ [][LockNext]_lockVars
-----------------------------------------------------------------------------
(* What must hold                                                          *)

\* Every variable stays within its type.
LockTypeOK ==
    /\ locking \in BOOLEAN
    /\ path \in Inodes \cup {None}
    /\ owner \in [Inodes -> Runs \cup {None}]
    /\ taker \in [Runs -> Stage]
    /\ fd \in [Runs -> Inodes \cup {None}]

\* Where files can be locked, one run at a time is in: neither the removal of
\* the file by the one before nor the death of a run lets two in.
Exclusive ==
    locking => \A r, s \in Runs : At(r, "in") /\ At(s, "in") => r = s
=============================================================================
