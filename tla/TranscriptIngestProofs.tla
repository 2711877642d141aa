----------------------- MODULE TranscriptIngestProofs -----------------------
(***************************************************************************)
(* What is proved of SessionLock and TranscriptIngest, for any number of   *)
(* runs and inodes and any transcript that is a session (SessionOK).       *)
(*                                                                         *)
(* Exclusion rests on two facts of a run that got through: it owns the     *)
(* lock on the file it has open, and the path still names that file.  Only *)
(* the removal of the file could break the second for another run, and it  *)
(* takes a run that is in itself to remove it.                             *)
(*                                                                         *)
(* What is recorded rests on where a read starts: at the transcript's      *)
(* beginning or at a response, and all up to that one is recorded or was   *)
(* deleted.  A window that starts so has what it plans as the whole        *)
(* transcript tells it, whenever it was read; hence nothing is skipped,    *)
(* cut in two or left out of the chain.  The links of commits need the     *)
(* exclusion too: all that began before a commit up to the cursor is       *)
(* linked, or the one run that is in is about to.                          *)
(***************************************************************************)
EXTENDS TranscriptIngest, WellFoundedInduction, TLAPS

\* A run that has locked a file owns the lock on it.
OwnsWhatItLocked ==
    locking => \A r \in Runs : taker[r] \in {"check", "in", "unlock"} =>
                   fd[r] \in Inodes /\ owner[fd[r]] = r

\* A run that tries to lock has a file open.
OpensBeforeLocking == \A r \in Runs : At(r, "lock") => fd[r] \in Inodes

\* The path names the file of the run that is in.
InAtThePath == locking => \A r \in Runs : At(r, "in") => path = fd[r]

LockIInv == LockTypeOK /\ OwnsWhatItLocked /\ OpensBeforeLocking /\ InAtThePath

\* With that, two runs that are in have one file open and own its lock.
LEMMA LockIInvExclusive == ASSUME LockIInv PROVE Exclusive
<1> SUFFICES ASSUME locking, NEW r \in Runs, NEW s \in Runs, At(r, "in"), At(s, "in")
             PROVE  r = s
    BY DEF Exclusive
<1>1. fd[r] = path /\ fd[s] = path
    BY DEF LockIInv, InAtThePath
<1>2. owner[fd[r]] = r /\ owner[fd[s]] = s
    BY DEF LockIInv, OwnsWhatItLocked, At
<1> QED BY <1>1, <1>2

\* It holds at first, when no run has called acquire.
LEMMA LockInitIInv == LockInit => LockIInv
BY DEF LockInit, LockIInv, LockTypeOK, OwnsWhatItLocked, OpensBeforeLocking, InAtThePath, At,
       Stage

\* Closing a file gives up the locks of the run that closes it and no others.
LEMMA CloseKeepsOthers ==
    ASSUME NEW r \in Runs, NEW s \in Runs, r # s, LockTypeOK, fd[s] \in Inodes,
           owner[fd[s]] = s, Close(r)
    PROVE  fd'[s] = fd[s] /\ owner'[fd[s]] = s
BY DEF LockTypeOK, Close, Released

LEMMA CloseTypeOK ==
    ASSUME NEW r \in Runs, LockTypeOK, Close(r)
    PROVE  owner' \in [Inodes -> Runs \cup {None}] /\ fd' \in [Runs -> Inodes \cup {None}]
BY DEF LockTypeOK, Close, Released

\* What a run does with the lock keeps the invariant of the lock: one step per
\* action.
LEMMA LockStepIInv == LockIInv /\ [LockNext]_lockVars => LockIInv'
<1> SUFFICES ASSUME LockIInv, [LockNext]_lockVars PROVE LockIInv' OBVIOUS
<1> USE NoneIsNone DEF At, Stage
<1>0. /\ LockTypeOK /\ OwnsWhatItLocked /\ OpensBeforeLocking /\ InAtThePath
      /\ Exclusive
  BY LockIInvExclusive DEF LockIInv
<1>1. ASSUME NEW r \in Runs, Acquire(r) PROVE LockIInv'
  BY <1>0, <1>1 DEF Acquire, Goto, LockIInv, LockTypeOK, OwnsWhatItLocked, OpensBeforeLocking,
       InAtThePath
<1>2. ASSUME NEW r \in Runs, Open(r) PROVE LockIInv'
  <2>1. path' \in Inodes /\ (path # None => path' = path)
    BY <1>0, <1>2 DEF Open, LockTypeOK
  <2>2. taker' = [taker EXCEPT ![r] = "lock"] /\ fd' = [fd EXCEPT ![r] = path']
        /\ UNCHANGED <<locking, owner>> /\ taker[r] = "open"
    BY <1>2 DEF Open, Goto
  <2>3. LockTypeOK' BY <1>0, <2>1, <2>2 DEF LockTypeOK
  <2>4. OwnsWhatItLocked' /\ OpensBeforeLocking'
    BY <1>0, <2>1, <2>2 DEF LockTypeOK, OwnsWhatItLocked, OpensBeforeLocking
  <2>5. InAtThePath'
    BY <1>0, <2>1, <2>2 DEF LockTypeOK, OwnsWhatItLocked, InAtThePath
  <2> QED BY <2>3, <2>4, <2>5 DEF LockIInv
<1>3. ASSUME NEW r \in Runs, Lock(r) PROVE LockIInv'
  <2>1. LockTypeOK' BY <1>0, <1>3 DEF Lock, Goto, LockTypeOK
  <2>2. OwnsWhatItLocked'
    <3>1. fd[r] \in Inodes /\ owner'[fd[r]] = r
      BY <1>0, <1>3 DEF Lock, LockTypeOK, OpensBeforeLocking
    <3>2. ASSUME NEW s \in Runs, s # r, locking, taker[s] \in {"check", "in", "unlock"}
          PROVE  fd[s] \in Inodes /\ owner'[fd[s]] = s
      BY <1>0, <1>3, <3>2 DEF Lock, LockTypeOK, OwnsWhatItLocked
    <3> QED BY <1>0, <1>3, <3>1, <3>2 DEF Lock, Goto, LockTypeOK, OwnsWhatItLocked
  <2>3. OpensBeforeLocking' /\ InAtThePath'
    BY <1>0, <1>3 DEF Lock, Goto, LockTypeOK, OpensBeforeLocking, InAtThePath
  <2> QED BY <2>1, <2>2, <2>3 DEF LockIInv
<1>4. ASSUME NEW r \in Runs, GoWithout(r) PROVE LockIInv'
  BY <1>0, <1>4 DEF GoWithout, Goto, LockIInv, LockTypeOK, OwnsWhatItLocked,
       OpensBeforeLocking, InAtThePath
<1>5. ASSUME NEW r \in Runs, Close(r), UNCHANGED locking,
             path' = path,
             \E next \in {"open", "out"} : taker' = [taker EXCEPT ![r] = next]
      PROVE  LockIInv'
  <2>1. LockTypeOK' BY <1>0, <1>5, CloseTypeOK DEF LockTypeOK
  <2>2. ASSUME NEW s \in Runs, s # r, locking, taker[s] \in {"check", "in", "unlock"}
        PROVE  fd'[s] = fd[s] /\ fd[s] \in Inodes /\ owner'[fd[s]] = s
    BY <1>0, <1>5, <2>2, CloseKeepsOthers DEF OwnsWhatItLocked
  <2>3. OwnsWhatItLocked' /\ InAtThePath'
    BY <1>0, <1>5, <2>2 DEF LockTypeOK, OwnsWhatItLocked, InAtThePath
  <2>4. OpensBeforeLocking'
    BY <1>0, <1>5 DEF Close, LockTypeOK, OpensBeforeLocking
  <2> QED BY <2>1, <2>3, <2>4 DEF LockIInv
<1>6. ASSUME NEW r \in Runs, Check(r) PROVE LockIInv'
  <2>1. CASE NamesTheSameFile(r) /\ Goto(r, "in") /\ UNCHANGED <<owner, fd>>
    BY <1>0, <1>6, <2>1 DEF Check, NamesTheSameFile, Goto, LockIInv, LockTypeOK,
         OwnsWhatItLocked, OpensBeforeLocking, InAtThePath
  <2>2. CASE Close(r) /\ taker' \in {[taker EXCEPT ![r] = next] : next \in {"open", "out"}}
    BY <1>5, <1>6, <2>2 DEF Check
  <2> QED BY <1>6, <2>1, <2>2 DEF Check
<1>7. ASSUME NEW r \in Runs, GiveUp(r) \/ Unlock(r) \/ Die(r) PROVE LockIInv'
  BY <1>5, <1>7 DEF GiveUp, Unlock, Die, Goto
<1>8. ASSUME NEW r \in Runs, Remove(r) PROVE LockIInv'
  <2>1. ASSUME locking PROVE \A s \in Runs : At(s, "in") => s = r
    BY <1>0, <1>8, <2>1 DEF Remove, Exclusive
  <2> QED
    BY <1>0, <1>8, <2>1 DEF Remove, Goto, LockIInv, LockTypeOK, OwnsWhatItLocked,
         OpensBeforeLocking, InAtThePath
<1>9. CASE UNCHANGED lockVars
  BY <1>0, <1>9 DEF lockVars, LockIInv, LockTypeOK, OwnsWhatItLocked, OpensBeforeLocking,
       InAtThePath
<1> QED
  BY <1>1, <1>2, <1>3, <1>4, <1>6, <1>7, <1>8, <1>9 DEF LockNext, Acquiring

\* Where files can be locked, one run at a time is in.
THEOREM LockExclusive == LockSpec => []Exclusive
<1>1. LockSpec => []LockIInv
  BY LockInitIInv, LockStepIInv, PTL DEF LockSpec
<1> QED BY <1>1, LockIInvExclusive, PTL
-----------------------------------------------------------------------------
(* The ingestion takes the lock as SessionLock says *)

\* A step of the ingestion is a step of the lock or leaves it alone.
LEMMA NextIsLockStep == Next => [LockNext]_lockVars
<1> SUFFICES ASSUME Next PROVE [LockNext]_lockVars OBVIOUS
<1>1. CASE Write \/ HookSteps
  BY <1>1 DEF Write, HookSteps, HookLinks, HookReads
<1>2. CASE \E n \in 0 .. Len(Script) : CutShort(n)
  BY <1>2 DEF CutShort
<1>3. CASE \E r \in Responses : DeleteLocal(r) \/ Withdraw(r)
  BY <1>3 DEF DeleteLocal, Withdraw, TakeAway
<1>4. ASSUME NEW p \in Runs, Steps(p) \/ Busy(p) \/ Kill(p) PROVE [LockNext]_lockVars
  <2>1. CASE TakeLock(p) \/ Leave(p) \/ End(p) \/ Kill(p)
    BY <2>1 DEF TakeLock, Leave, End, Kill, LockNext
  <2>2. CASE ReadCursor(p) \/ ReadTranscript(p) \/ ReadFloating(p) \/ Busy(p)
    BY <2>2 DEF ReadCursor, ReadTranscript, ReadFloating, Busy
  <2>3. CASE Batch(p) \/ LinkCommit(p)
    BY Zenon, <2>3 DEF Batch, LinkCommit
  <2> QED BY <1>4, <2>1, <2>2, <2>3 DEF Steps
<1>5. ASSUME NEW p \in Runs, NEW final \in BOOLEAN, Start(p, final)
      PROVE  [LockNext]_lockVars
  BY <1>5 DEF Start, LockNext
<1> QED BY <1>1, <1>2, <1>3, <1>4, <1>5 DEF Next

\* Whatever the session, the user and the destinations do, runs of `cvc ingest`
\* follow the protocol of the lock.
THEOREM IngestImplementsLock == Spec => LockSpec
<1>1. Init => LockInit BY DEF Init
<1>2. [Next]_vars => [LockNext]_lockVars
  BY NextIsLockStep DEF vars, lockVars
<1> QED BY <1>1, <1>2, PTL DEF Spec, LockSpec

\* Hence no two runs read and write the session at a time.
THEOREM IngestExclusive == Spec => []Exclusive
BY IngestImplementsLock, LockExclusive, PTL
-----------------------------------------------------------------------------
(* What was deleted here stays away *)

\* A batch adds nothing that has a tombstone by then.
LEMMA BatchKeepsAway ==
    ASSUME NEW p \in Runs, DeletedStaysAway, Batch(p)
    PROVE  DeletedStaysAway'
BY Zenon DEF Batch, Added, DeletedStaysAway

\* What cvc delete-local deleted is not captured again, though the transcript is
\* read again from before it and may have been read before the deletion.
THEOREM NoRecapture == Spec => []DeletedStaysAway
<1>1. Init => DeletedStaysAway BY DEF Init, DeletedStaysAway
<1>2. DeletedStaysAway /\ [Next]_vars => DeletedStaysAway'
  <2> SUFFICES ASSUME DeletedStaysAway, [Next]_vars PROVE DeletedStaysAway' OBVIOUS
  <2>1. CASE UNCHANGED <<recorded, deleted>>
    BY <2>1 DEF DeletedStaysAway
  <2>2. ASSUME NEW r \in Responses, DeleteLocal(r) \/ Withdraw(r) PROVE DeletedStaysAway'
    BY <2>2 DEF DeleteLocal, Withdraw, TakeAway, Without, DeletedStaysAway
  <2>3. ASSUME NEW p \in Runs, Batch(p) PROVE DeletedStaysAway'
    BY <2>3, BatchKeepsAway
  <2>4. ASSUME Write \/ HookSteps \/ \E n \in 0 .. Len(Script) : CutShort(n)
        PROVE  UNCHANGED <<recorded, deleted>>
    BY <2>4 DEF Write, HookSteps, HookLinks, HookReads, CutShort, storeVars
  <2>5. ASSUME NEW p \in Runs,
               \/ TakeLock(p) \/ ReadCursor(p) \/ ReadTranscript(p) \/ ReadFloating(p)
               \/ LinkCommit(p) \/ Leave(p) \/ End(p) \/ Busy(p) \/ Kill(p)
               \/ \E final \in BOOLEAN : Start(p, final)
        PROVE  UNCHANGED <<recorded, deleted>>
    BY Zenon, <2>5 DEF TakeLock, ReadCursor, ReadTranscript, ReadFloating, LinkCommit, Leave, End,
         Busy, Kill, Start, storeVars
  <2> QED
    BY <2>1, <2>2, <2>3, <2>4, <2>5 DEF Next, Steps, vars, storeVars
<1> QED BY <1>1, <1>2, PTL DEF Spec
-----------------------------------------------------------------------------
(* Windows of the transcript                                               *)

\* Of some natural numbers one is the least, and with a bound the greatest.
LEMMA Least ==
    ASSUME NEW S \in SUBSET Nat, S # {}
    PROVE  Min(S) \in S /\ \A n \in S : Min(S) <= n
<1> DEFINE R == OpToRel(<, Nat)
<1>1. IsWellFoundedOn(R, Nat) BY Zenon, NatLessThanWellFounded
<1>2. \A i, j \in Nat : i < j => <<i, j>> \in R BY DEF OpToRel
<1> HIDE DEF R
<1>3. PICK m \in S : \A n \in S : ~(<<n, m>> \in R)
  BY <1>1, WFMin
<1>4. ASSUME NEW n \in S PROVE m <= n
  <2>1. m \in Nat /\ n \in Nat /\ ~(n < m) BY <1>2, <1>3
  <2> QED BY <2>1
<1> QED BY <1>4 DEF Min

LEMMA Greatest ==
    ASSUME NEW b \in Nat, NEW S \in SUBSET (0 .. b), S # {}
    PROVE  Max(S) \in S /\ \A n \in S : n <= Max(S)
<1> DEFINE T == {b - n : n \in S}
<1>0. \A n \in S : n \in Nat /\ b - n \in Nat OBVIOUS
<1>1. T \in SUBSET Nat /\ T # {} BY <1>0
<1>2. Min(T) \in T /\ \A n \in T : Min(T) <= n BY <1>1, Least
<1>3. PICK m \in S : Min(T) = b - m BY <1>2
<1>4. ASSUME NEW n \in S PROVE n <= m
  <2>1. Min(T) <= b - n BY <1>2
  <2> QED BY <1>3, <2>1
<1> QED BY <1>4 DEF Max

LEMMA ScriptType ==
    /\ Len(Script) \in Nat /\ DOMAIN Script = 1 .. Len(Script)
    /\ \A i \in DOMAIN Script :
         /\ Script[i].of \in Responses \cup {NoResponse}
         /\ Script[i].calls \subseteq Calls /\ Script[i].answers \subseteq Calls
<1> DEFINE Entry == [kind : {"prompt", "result", "response", "boundary", "other"},
                     of : Responses \cup {NoResponse},
                     calls : SUBSET Calls, answers : SUBSET Calls]
<1>1. Script \in Seq(Entry) BY ScriptOK
<1> HIDE DEF Entry
<1>2. Len(Script) \in Nat /\ DOMAIN Script = 1 .. Len(Script) BY <1>1
<1>3. \A i \in DOMAIN Script : Script[i] \in Entry BY <1>1
<1> QED BY <1>2, <1>3 DEF Entry

\* A response begins with its first entry.
LEMMA BeginsFirst ==
    ASSUME NEW r \in Responses
    PROVE  /\ Begins[r] \in DOMAIN Script /\ Script[Begins[r]].of = r
           /\ Script[Begins[r]].kind = "response"
           /\ \A i \in DOMAIN Script : Script[i].of = r => Begins[r] <= i
<1> DEFINE S == Positions(r, 1, Len(Script))
<1>1. S \in SUBSET Nat /\ S # {} BY ScriptType, SessionOK DEF Positions
<1>2. Min(S) \in S /\ \A n \in S : Min(S) <= n BY <1>1, Least
<1>3. Begins[r] = Min(S) BY DEF Begins, First
<1>4. Script[Begins[r]].of = r /\ Begins[r] \in DOMAIN Script
  BY <1>2, <1>3, ScriptType DEF Positions
<1>5. Script[Begins[r]].kind = "response" BY <1>4, SessionOK
<1> QED BY <1>2, <1>3, <1>4, <1>5, ScriptType DEF Positions

\* What an entry of a response stands between is of that response.
LEMMA NextToEachOther ==
    ASSUME NEW i \in DOMAIN Script, NEW k \in DOMAIN Script, NEW j \in i .. k,
           Script[i].of \in Responses, Script[k].of = Script[i].of
    PROVE  Script[j].of = Script[i].of
BY SessionOK

\* A window that starts with the transcript or with a response.
Starts(from) == from = 1 \/ \E q \in Responses : from = Begins[q]

\* It has no response that it does not have from its beginning.
LEMMA FirstBegins ==
    ASSUME NEW from \in Nat, Starts(from), NEW upto \in 0 .. Len(Script),
           NEW r \in Responses, Positions(r, from, upto) # {}
    PROVE  First(r, from, upto) = Begins[r] /\ Begins[r] \in from .. upto
<1> USE ScriptType
<1>1. from >= 1 BY BeginsFirst DEF Starts
<1> DEFINE S == Positions(r, from, upto)
<1>2. S \in SUBSET Nat /\ S \subseteq DOMAIN Script BY <1>1 DEF Positions
<1>3. Min(S) \in S /\ \A n \in S : Min(S) <= n BY <1>2, Least
<1>4. PICK i \in from .. upto : Script[i].of = r BY DEF Positions
<1>5. Begins[r] <= i /\ Begins[r] \in DOMAIN Script /\ Script[Begins[r]].of = r
  BY <1>1, <1>4, BeginsFirst
<1>6. from <= Begins[r]
  <2>1. SUFFICES ASSUME NEW q \in Responses, from = Begins[q], Begins[r] < from PROVE FALSE
    BY <1>5 DEF Starts
  <2>2. from \in Begins[r] .. i /\ i \in DOMAIN Script BY <1>1, <1>4, <1>5, <2>1
  <2>3. Script[from].of = r BY <1>4, <1>5, <2>2, NextToEachOther
  <2>4. q = r BY <2>1, <2>3, BeginsFirst
  <2> QED BY <1>5, <2>1, <2>4
<1>7. Begins[r] \in S BY <1>4, <1>5, <1>6 DEF Positions
<1>8. Min(S) = Begins[r]
  <2>1. Min(S) <= Begins[r] BY <1>3, <1>7
  <2>2. Begins[r] <= Min(S) BY <1>2, <1>3, BeginsFirst DEF Positions
  <2> QED BY <1>2, <1>3, <1>5, <2>1, <2>2
<1> QED BY <1>7, <1>8 DEF First, Positions

LEMMA LastIs ==
    ASSUME NEW from \in Nat, NEW upto \in 0 .. Len(Script),
           NEW r \in Responses, Positions(r, from, upto) # {}
    PROVE  /\ Last(r, from, upto) \in from .. upto /\ Script[Last(r, from, upto)].of = r
           /\ \A i \in from .. upto : Script[i].of = r => i <= Last(r, from, upto)
<1> DEFINE S == Positions(r, from, upto)
<1>1. upto \in Nat /\ S \in SUBSET (0 .. upto) BY ScriptType DEF Positions
<1>2. Max(S) \in S /\ \A n \in S : n <= Max(S) BY <1>1, Greatest
<1> QED BY <1>2 DEF Last, Positions

\* What begins in a window before a response that is planned is planned too.
LEMMA PlannedBefore ==
    ASSUME NEW from \in Nat, Starts(from), NEW upto \in 0 .. Len(Script), NEW final \in BOOLEAN,
           NEW q \in Planned(from, upto, final), NEW r \in Responses,
           from <= Begins[r], Begins[r] <= Begins[q]
    PROVE  r \in Planned(from, upto, final)
<1> USE ScriptType
<1>1. CASE r = q BY <1>1
<1>2. CASE r # q
  <2>1. q \in Responses /\ Begins[q] \in from .. upto BY FirstBegins DEF Planned
  <2>2. /\ Begins[r] \in DOMAIN Script /\ Script[Begins[r]].of = r
        /\ Begins[q] \in DOMAIN Script /\ Script[Begins[q]].of = q
        /\ Script[Begins[q]].kind = "response"
    BY <2>1, BeginsFirst
  <2>3. Begins[r] \in Positions(r, from, upto) BY <2>1, <2>2 DEF Positions
  <2> DEFINE last == Last(r, from, upto)
  <2>4. last \in from .. upto /\ Script[last].of = r BY <2>3, LastIs
  <2>5. last < Begins[q]
    <3>1. from >= 1 BY BeginsFirst DEF Starts
    <3>2. SUFFICES ASSUME Begins[q] <= last PROVE FALSE BY <2>2, <2>4
    <3>3. Begins[q] \in Begins[r] .. last /\ last \in DOMAIN Script BY <2>1, <2>2, <2>4, <3>1, <3>2
    <3> HIDE DEF last
    <3>4. Script[Begins[q]].of = r BY <2>2, <2>4, <3>3, NextToEachOther
    <3> QED BY <1>2, <2>2, <3>4
  <2>6. last < upto /\ MovedOn(last, upto) BY <2>1, <2>2, <2>4, <2>5 DEF MovedOn, MovesOn
  <2> QED BY <2>3, <2>6 DEF Planned, Closed
<1> QED BY <1>1, <1>2

\* The next window starts where this one does or with the last response planned.
LEMMA NextStarts ==
    ASSUME NEW from \in 1 .. Len(Script) + 1, Starts(from), NEW upto \in 0 .. Len(Script),
           NEW final \in BOOLEAN
    PROVE  /\ NextCursor(from, upto, final) \in 0 .. Len(Script)
           /\ \A r \in Planned(from, upto, final) : Begins[r] <= NextCursor(from, upto, final) + 1
           /\ \/ NextCursor(from, upto, final) + 1 = from
              \/ \E q \in Planned(from, upto, final) :
                    NextCursor(from, upto, final) + 1 = Begins[q]
<1> USE ScriptType
<1>1. CASE Planned(from, upto, final) = {} BY <1>1 DEF NextCursor
<1>2. CASE Planned(from, upto, final) # {}
  <2> DEFINE S == {First(r, from, upto) : r \in Planned(from, upto, final)}
  <2>1. \A r \in Planned(from, upto, final) :
           First(r, from, upto) = Begins[r] /\ Begins[r] \in from .. upto
    BY FirstBegins DEF Planned
  <2>2. upto \in Nat /\ S \in SUBSET (0 .. upto) /\ S # {} BY <1>2, <2>1
  <2>3. Max(S) \in S /\ \A n \in S : n <= Max(S) BY <2>2, Greatest
  <2>4. PICK q \in Planned(from, upto, final) : Max(S) = Begins[q] BY <2>1, <2>3
  <2>5. NextCursor(from, upto, final) = Begins[q] - 1 BY <1>2, <2>4 DEF NextCursor
  <2>6. Begins[q] \in from .. upto BY <2>1
  <2>7. \A r \in Planned(from, upto, final) : Begins[r] <= Begins[q] BY <2>1, <2>3, <2>4
  <2> QED BY <2>5, <2>6, <2>7
<1> QED BY <1>1, <1>2

\* A response is planned with all its calls and answers, whatever the window.
LEMMA PlannedWhole ==
    ASSUME NEW from \in 1 .. Len(Script) + 1, Starts(from), NEW upto \in 0 .. Len(Script),
           NEW final \in BOOLEAN, final => upto \in Stops, NEW r \in Planned(from, upto, final)
    PROVE  CallsOf(r, from, upto) \cap AnsweredIn(from, upto) = WholeAnswered[r]
<1> USE ScriptType
<1>0. r \in Responses /\ Positions(r, from, upto) # {} BY DEF Planned
<1>1. Begins[r] \in from .. upto /\ Script[Begins[r]].of = r BY <1>0, FirstBegins, BeginsFirst
<1>2. WholeAnswered[r] = CallsOf(r, 1, Len(Script)) \cap AnsweredIn(1, Len(Script))
  BY <1>0 DEF WholeAnswered, Whole
<1>3. ASSUME NEW call, NEW i \in 1 .. Len(Script), NEW k \in 1 .. Len(Script),
             Script[i].of = r, call \in Script[i].calls, call \in Script[k].answers
      PROVE  call \in CallsOf(r, from, upto) \cap AnsweredIn(from, upto)
  <2>0. Script[i].calls \cap Script[k].answers # {} BY <1>3
  <2>1. Begins[r] <= i BY <1>0, <1>3, BeginsFirst
  <2>2. k >= from
    <3>1. CASE k < i
      <4>1. Script[k].of = r BY <1>0, <1>3, <2>0, <3>1, SessionOK
      <4>2. Begins[r] <= k BY <1>0, <4>1, BeginsFirst
      <4> QED BY <1>1, <4>2
    <3>2. CASE k >= i BY <1>1, <2>1, <3>2
    <3> QED BY <3>1, <3>2
  <2>3. CASE final
    <3>1. i <= upto
      <4>1. SUFFICES ASSUME i > upto PROVE FALSE OBVIOUS
      <4>2. upto \in Stops /\ Begins[r] \in 1 .. upto /\ i \in upto + 1 .. Len(Script)
        BY <1>1, <2>3, <4>1
      <4> QED BY <1>0, <1>1, <1>3, <4>2, SessionOK
    <3>2. k <= upto
      <4>1. SUFFICES ASSUME k > upto PROVE FALSE OBVIOUS
      <4>2. upto \in Stops /\ i \in 1 .. upto /\ k \in upto + 1 .. Len(Script)
        BY <2>3, <3>1, <4>1
      <4> QED BY <1>0, <1>3, <2>0, <4>2, SessionOK
    <3>3. i \in from .. upto /\ k \in from .. upto BY <1>1, <2>1, <2>2, <3>1, <3>2
    <3> QED BY <1>3, <3>3 DEF CallsOf, AnsweredIn, Positions
  <2>4. CASE ~final
    <3> DEFINE last == Last(r, from, upto)
    <3>1. /\ last \in from .. upto /\ Script[last].of = r
          /\ \A j \in from .. upto : Script[j].of = r => j <= last
      BY <1>0, LastIs
    <3>2. /\ last < upto
          /\ CallsOf(r, from, upto) \subseteq AnsweredIn(from, upto) \/ MovedOn(last, upto)
      BY <2>4 DEF Planned, Closed
    <3> HIDE DEF last
    <3>3. i <= last
      <4>1. SUFFICES ASSUME i > last PROVE FALSE BY <3>1
      <4>2. last + 1 \in last .. i /\ last + 1 \in from .. upto /\ last \in DOMAIN Script
        BY <3>1, <3>2, <4>1
      <4>3. Script[last + 1].of = r BY <1>0, <1>3, <3>1, <4>2, NextToEachOther
      <4> QED BY <3>1, <4>2, <4>3
    <3>4. i \in from .. upto BY <1>1, <2>1, <3>1, <3>3
    <3>5. call \in CallsOf(r, from, upto) BY <1>3, <3>4 DEF CallsOf, Positions
    <3>6. ASSUME NEW j \in last + 1 .. upto, MovesOn(j) PROVE call \in AnsweredIn(from, upto)
      <4>1. k <= upto
        <5>1. SUFFICES ASSUME k > upto PROVE FALSE OBVIOUS
        <5>2. j \in i .. k - 1 /\ j \in from .. upto /\ j > last BY <3>1, <3>3, <5>1
        <5>3. Script[j].of = r BY <1>0, <1>3, <2>0, <3>6, <5>2, SessionOK
        <5> QED BY <3>1, <5>2, <5>3
      <4>2. k \in from .. upto BY <2>2, <4>1
      <4> QED BY <1>3, <4>2 DEF AnsweredIn
    <3> QED BY <3>2, <3>5, <3>6 DEF MovedOn
  <2> QED BY <2>3, <2>4
<1>4. WholeAnswered[r] \subseteq CallsOf(r, from, upto) \cap AnsweredIn(from, upto)
  <2>1. SUFFICES ASSUME NEW call \in WholeAnswered[r]
                 PROVE  call \in CallsOf(r, from, upto) \cap AnsweredIn(from, upto)
    OBVIOUS
  <2>2. PICK i \in 1 .. Len(Script) : Script[i].of = r /\ call \in Script[i].calls
    BY <1>2, <2>1 DEF CallsOf, Positions
  <2>3. PICK k \in 1 .. Len(Script) : call \in Script[k].answers
    BY <1>2, <2>1 DEF AnsweredIn
  <2> QED BY <1>3, <2>2, <2>3
<1>5. from .. upto \subseteq 1 .. Len(Script) OBVIOUS
<1>6. CallsOf(r, from, upto) \subseteq CallsOf(r, 1, Len(Script))
  BY <1>5 DEF CallsOf, Positions
<1>7. AnsweredIn(from, upto) \subseteq AnsweredIn(1, Len(Script)) BY <1>5 DEF AnsweredIn
<1> QED BY <1>2, <1>4, <1>6, <1>7

\* What it reacted to is in the window, unless the window starts with it.
LEMMA StimulusWhole ==
    ASSUME NEW from \in 1 .. Len(Script) + 1, Starts(from), NEW upto \in 0 .. Len(Script),
           NEW r \in Responses, Begins[r] \in from .. upto, from = 1 \/ from # Begins[r]
    PROVE  Stimulus(r, from, upto) = WholeStimulus[r]
<1> USE ScriptType
<1>1. Begins[r] \in 1 .. Len(Script) /\ Script[Begins[r]].of = r BY BeginsFirst
<1>2. First(r, from, upto) = Begins[r] BY <1>1, FirstBegins DEF Positions
<1>3. First(r, 1, Len(Script)) = Begins[r] BY DEF Begins
<1>4. WholeStimulus[r] = Stimulus(r, 1, Len(Script)) BY DEF WholeStimulus, Whole
<1>5. ASSUME NEW i \in 1 .. Begins[r] - 1, i < from
      PROVE  \E j \in i .. Begins[r] - 1 : Script[j].kind = "response"
  <2>1. PICK q \in Responses : from = Begins[q] BY <1>1, <1>5 DEF Starts
  <2>2. from \in i .. Begins[r] - 1 BY <1>1, <1>5
  <2>3. Script[from].kind = "response" BY <2>1, BeginsFirst
  <2> QED BY <2>2, <2>3
<1> QED BY <1>1, <1>2, <1>3, <1>4, <1>5 DEF Stimulus
-----------------------------------------------------------------------------
(* Types, and where the windows start                                      *)

Windows ==
    /\ Starts(cursor + 1)
    /\ \A p \in Runs :
         /\ Starts(job[p].from)
         /\ job[p].captures \subseteq Planned(job[p].from, job[p].upto, job[p].final)
         /\ job[p].at \in {"idle", "read", "plan"} => job[p].captures = {}
         /\ job[p].at \in {"floating", "link"} => job[p].commits # {}
Jobs == [at : {"idle", "read", "plan", "batch", "floating", "link", "done"},
         final : BOOLEAN, from : 1 .. Len(Script) + 1, upto : 0 .. Len(Script),
         captures : SUBSET Responses, ids : SUBSET Responses, commits : SUBSET Commits]
Thoughts == [stimulus : SUBSET DOMAIN Script, answered : SUBSET Calls,
             parent : Responses \cup {NoResponse}]
Stored(thoughts) == \E stored \in SUBSET Responses : thoughts \in [stored -> Thoughts]

LEMMA IdleIsJob ==
    /\ IdleJob \in Jobs /\ Starts(IdleJob.from) /\ IdleJob.captures = {}
    /\ IdleJob.final = FALSE /\ IdleJob.at = "idle"
BY ScriptType DEF IdleJob, Jobs, Starts

\* Each of the parts of the state that several actions write.
LEMMA LinkType == ASSUME TypeOK, NEW ids, NEW c \in Commits, Link(ids, c)
                  PROVE  links' \in [Responses -> SUBSET Commits]
BY DEF TypeOK, Link

LEMMA UpsetType == ASSUME TypeOK, Upset, UNCHANGED locking
                   PROVE  upsets' \in 0 .. MaxUpsets[locking]'
BY ScriptOK DEF TypeOK, Upset, LockTypeOK

LEMMA StoredWithout == ASSUME Stored(recorded), NEW r PROVE Stored(Without(r))
<1>1. PICK stored \in SUBSET Responses : recorded \in [stored -> Thoughts] BY DEF Stored
<1>2. Without(r) \in [stored \ {r} -> Thoughts]
  <2>1. DOMAIN recorded = stored BY <1>1
  <2>2. ASSUME NEW x \in stored \ {r} PROVE Without(r)[x] \in Thoughts
    <3>1. recorded[x] \in Thoughts BY <1>1, <2>2
    <3>2. Without(r)[x] \in {recorded[x], [recorded[x] EXCEPT !.parent = NoResponse]}
      BY <2>1, <2>2 DEF Without
    <3> QED BY <3>1, <3>2 DEF Thoughts
  <2>3. Without(r) = [x \in stored \ {r} |-> Without(r)[x]] BY <2>1 DEF Without
  <2> QED BY <2>2, <2>3
<1> QED BY <1>2 DEF Stored

LEMMA BatchStores ==
    ASSUME TypeOK, Windows, NEW p \in Runs, Batch(p)
    PROVE  Stored(recorded') /\ cursor' \in 0 .. Len(Script) /\ Starts(cursor' + 1)
<1> DEFINE from == job[p].from
           upto == job[p].upto
           captures == job[p].captures
<1>1. /\ job[p] \in Jobs /\ Starts(from) /\ Stored(recorded)
  BY DEF TypeOK, Windows, Jobs, Stored, Thoughts
<1>2. /\ from \in 1 .. Len(Script) + 1 /\ upto \in 0 .. Len(Script) /\ job[p].final \in BOOLEAN
      /\ captures \subseteq Planned(from, upto, job[p].final)
  BY <1>1 DEF Jobs, Windows
<1>3. /\ cursor' = NextCursor(from, upto, job[p].final)
      /\ recorded' = [r \in DOMAIN recorded \cup Added(captures) |->
              IF Exists(r) THEN recorded[r]
              ELSE [stimulus |-> Stimulus(r, from, upto),
                    answered |-> CallsOf(r, from, upto) \cap AnsweredIn(from, upto),
                    parent |-> ParentOf(r, captures, from, upto)]]
  BY Zenon DEF Batch
<1> HIDE DEF from, upto, captures
<1>4. cursor' \in 0 .. Len(Script) /\ Starts(cursor' + 1)
  <2>1. Planned(from, upto, job[p].final) \subseteq Responses BY DEF Planned
  <2> QED BY <1>1, <1>2, <1>3, <2>1, NextStarts DEF Starts
<1>5. PICK stored \in SUBSET Responses : recorded \in [stored -> Thoughts] BY <1>1 DEF Stored
<1>6. DOMAIN recorded = stored /\ Added(captures) \subseteq Responses
  BY <1>2, <1>5 DEF Added, Planned
<1>7. ASSUME NEW r \in Added(captures)
      PROVE  [stimulus |-> Stimulus(r, from, upto),
              answered |-> CallsOf(r, from, upto) \cap AnsweredIn(from, upto),
              parent |-> ParentOf(r, captures, from, upto)] \in Thoughts
  <2>1. CallsOf(r, from, upto) \subseteq Calls
    BY <1>2, ScriptType DEF CallsOf, Positions
  <2>2. ParentOf(r, captures, from, upto) \in Responses \cup {NoResponse}
    BY <1>6 DEF ParentOf
  <2>3. Begins[r] \in from .. upto /\ First(r, from, upto) = Begins[r]
    BY <1>1, <1>2, FirstBegins DEF Added, Planned
  <2>4. Stimulus(r, from, upto) \in SUBSET DOMAIN Script
    <3>1. SUFFICES ASSUME NEW i \in Stimulus(r, from, upto) PROVE i \in DOMAIN Script OBVIOUS
    <3>2. i \in from .. First(r, from, upto) - 1 BY DEF Stimulus
    <3> QED BY <1>2, <2>3, <3>2, ScriptType
  <2> QED BY <2>1, <2>2, <2>4 DEF Thoughts
<1>8. recorded' \in [stored \cup Added(captures) -> Thoughts]
  <2>1. ASSUME NEW r \in stored \cup Added(captures) PROVE recorded'[r] \in Thoughts
    <3>1. CASE Exists(r) BY <1>3, <1>5, <1>6, <3>1 DEF Exists
    <3>2. CASE ~Exists(r) BY <1>3, <1>6, <1>7, <2>1, <3>2 DEF Exists
    <3> QED BY <3>1, <3>2
  <2>2. recorded' = [r \in stored \cup Added(captures) |-> recorded'[r]] BY <1>3, <1>6
  <2> QED BY <2>1, <2>2
<1> QED BY <1>4, <1>6, <1>8 DEF Stored

LEMMA EarliestIs ==
    ASSUME NEW cs \in SUBSET Commits, cs # {}
    PROVE  Earliest(cs) \in cs /\ \A c \in cs : CommitAt[Earliest(cs)] <= CommitAt[c]
<1> DEFINE S == {CommitAt[c] : c \in cs}
<1>1. \A c \in cs : CommitAt[c] \in Nat BY ScriptOK, ScriptType
<1>2. S \in SUBSET Nat /\ S # {} BY <1>1
<1>3. Min(S) \in S /\ \A n \in S : Min(S) <= n BY <1>2, Least
<1>4. PICK c \in cs : \A d \in cs : CommitAt[c] <= CommitAt[d] BY <1>3
<1> QED BY <1>4 DEF Earliest

\* A run's step writes its own locals and nobody else's.
LEMMA JobStep ==
    ASSUME TypeOK, Windows, NEW p \in Runs,
           \/ Steps(p) \/ Busy(p) \/ Kill(p) \/ \E final \in BOOLEAN : Start(p, final)
    PROVE  /\ \A q \in Runs \ {p} : job'[q] = job[q]
           /\ job' \in [Runs -> Jobs]
           /\ Starts(job'[p].from)
           /\ job'[p].captures \subseteq Planned(job'[p].from, job'[p].upto, job'[p].final)
           /\ job'[p].at \in {"idle", "read", "plan"} => job'[p].captures = {}
           /\ job'[p].at \in {"floating", "link"} => job'[p].commits # {}
<1>0. /\ job \in [Runs -> Jobs] /\ job[p] \in Jobs
      /\ cursor \in 0 .. Len(Script) /\ written \in 0 .. Len(Script)
      /\ Starts(job[p].from) /\ Starts(cursor + 1)
      /\ job[p].captures \subseteq Planned(job[p].from, job[p].upto, job[p].final)
      /\ job[p].at \in {"idle", "read", "plan"} => job[p].captures = {}
      /\ job[p].at \in {"floating", "link"} => job[p].commits # {}
  BY DEF TypeOK, Jobs, Windows
<1>a. Starts(1) BY DEF Starts
<1>1. ASSUME NEW final \in BOOLEAN, Start(p, final)
      PROVE  job' = [job EXCEPT ![p] = [IdleJob EXCEPT !.at = "read", !.final = final]]
  BY Zenon, <1>1 DEF Start
<1>2. CASE \E final \in BOOLEAN : Start(p, final)
  <2>1. PICK final \in BOOLEAN :
           job' = [job EXCEPT ![p] = [IdleJob EXCEPT !.at = "read", !.final = final]]
    BY Zenon, <1>1, <1>2
  <2>2. [IdleJob EXCEPT !.at = "read", !.final = final] \in Jobs
    BY IdleIsJob DEF Jobs, IdleJob
  <2> QED BY <1>0, <1>a, <2>1, <2>2 DEF IdleJob
<1>3. CASE job' \in {job, [job EXCEPT ![p] = IdleJob]}
  BY <1>0, <1>3, IdleIsJob
<1>4. CASE ReadCursor(p)
  <2>1. PICK from \in {1, cursor + 1} : job' = [job EXCEPT ![p].at = "plan", ![p].from = from]
    BY <1>4 DEF ReadCursor
  <2>2. from \in 1 .. Len(Script) + 1 /\ Starts(from) BY <1>0, <1>a, <2>1, ScriptType
  <2>3. job[p].captures = {} BY <1>0, <1>4 DEF ReadCursor, Step
  <2> QED BY <1>0, <2>1, <2>2, <2>3 DEF Jobs
<1>5. CASE ReadTranscript(p)
  <2> DEFINE rs == Planned(job[p].from, written, job[p].final)
             captures == {r \in rs : ~Exists(r)}
  <2>1. job' = [job EXCEPT ![p].at = "batch", ![p].upto = written, ![p].captures = captures]
    BY <1>5 DEF ReadTranscript
  <2>2. captures \subseteq rs /\ rs \subseteq Responses BY DEF Planned
  <2>3. job'[p].from = job[p].from /\ job'[p].upto = written /\ job'[p].final = job[p].final
        /\ job'[p].captures = captures /\ job'[p].at = "batch"
    BY <1>0, <2>1 DEF Jobs
  <2> HIDE DEF captures
  <2>4. job' \in [Runs -> Jobs] BY <1>0, <2>1, <2>2 DEF Jobs
  <2>5. \A q \in Runs \ {p} : job'[q] = job[q] BY <1>0, <2>1
  <2> QED BY <1>0, <2>2, <2>3, <2>4, <2>5
<1>6. CASE Batch(p)
  <2> DEFINE commits == Verified(job[p].from, job[p].upto, job[p].final)
  <2>1. commits \subseteq Commits BY DEF Verified
  <2>2. job' = [job EXCEPT ![p].at = IF commits = {} THEN "done" ELSE "floating",
                           ![p].captures = {}, ![p].commits = commits]
    BY Zenon, <1>6 DEF Batch
  <2> HIDE DEF commits
  <2> QED BY Zenon, <1>0, <2>1, <2>2 DEF Jobs
<1>7. CASE ReadFloating(p)
  <2>1. Floating \subseteq Responses BY DEF Floating, TypeOK
  <2>2. job' = [job EXCEPT ![p].at = "link", ![p].ids = Floating] BY <1>7 DEF ReadFloating
  <2>3. job[p].commits # {} BY <1>0, <1>7 DEF ReadFloating, Step
  <2> QED BY <1>0, <2>1, <2>2, <2>3 DEF Jobs
<1>8. CASE LinkCommit(p)
  <2>1. PICK ids \in SUBSET Responses, rest \in SUBSET job[p].commits, stage \in {"done", "link"} :
            /\ job' = [job EXCEPT ![p].at = stage, ![p].commits = rest, ![p].ids = @ \ ids]
            /\ stage = "link" => rest # {}
    <3> DEFINE c == Earliest(job[p].commits)
               ids == Claimed(job[p].ids, c)
               rest == job[p].commits \ {c}
               failed == ~(ids \subseteq DOMAIN recorded)
    <3>1. job' = [job EXCEPT ![p].at = IF failed \/ rest = {} THEN "done" ELSE "link",
                             ![p].commits = rest, ![p].ids = @ \ ids]
      BY Zenon, <1>8 DEF LinkCommit
    <3>2. ids \in SUBSET Responses /\ rest \in SUBSET job[p].commits BY <1>0 DEF Claimed, Jobs
    <3> HIDE DEF c, ids, rest, failed
    <3> QED BY Zenon, <3>1, <3>2
  <2>2. rest \in SUBSET Commits /\ (job[p].ids \ ids) \in SUBSET Responses BY <1>0, <2>1 DEF Jobs
  <2>3. job[p].at \notin {"idle", "read", "plan"} BY Zenon, <1>8 DEF LinkCommit, Step
  <2> QED BY <1>0, <2>1, <2>2, <2>3 DEF Jobs
<1>9. CASE Busy(p)
  <2>1. job' = [job EXCEPT ![p].at = "done"] BY <1>9 DEF Busy, Goes
  <2> QED BY <1>0, <2>1 DEF Jobs
<1> QED
  BY <1>2, <1>3, <1>4, <1>5, <1>6, <1>7, <1>8, <1>9 DEF Steps, TakeLock, Leave, End, Kill

IngestTypes == TypeOK /\ LockIInv /\ Windows

LEMMA InitTypes == Init => IngestTypes
<1> SUFFICES ASSUME Init PROVE IngestTypes OBVIOUS
<1>1. LockIInv BY LockInitIInv DEF Init
<1>2. Windows BY IdleIsJob, ScriptType DEF Init, Windows, Starts
<1>3. TypeOK
  <2>1. recorded \in [{} -> Thoughts] BY DEF Init
  <2>2. 0 \in 0 .. MaxUpsets[locking] BY <1>1, ScriptOK DEF LockIInv, LockTypeOK
  <2>3. job \in [Runs -> Jobs] BY IdleIsJob DEF Init
  <2>4. hook \in [of : Commits \cup {"none"}, ids : SUBSET Responses] BY DEF Init, NoHook
  <2>5. /\ written \in 0 .. Len(Script) /\ cursor \in 0 .. Len(Script)
        /\ deleted = {} /\ links \in [Responses -> SUBSET Commits] /\ linked = {}
        /\ upsets = 0 /\ ever = {} /\ withdrawn = {} /\ happened = {}
    BY ScriptType DEF Init
  <2>6. \E stored \in SUBSET Responses : recorded \in [stored -> Thoughts] BY <2>1
  <2> QED BY <1>1, <2>2, <2>3, <2>4, <2>5, <2>6 DEF TypeOK, LockIInv, Jobs, Thoughts
<1> QED BY <1>1, <1>2, <1>3 DEF IngestTypes

LEMMA NextTypes == IngestTypes /\ [Next]_vars => IngestTypes'
<1> SUFFICES ASSUME IngestTypes, [Next]_vars PROVE IngestTypes' OBVIOUS
<1>0. LockIInv' BY NextIsLockStep, LockStepIInv DEF IngestTypes, vars, lockVars
<1>a. /\ TypeOK /\ Windows /\ LockTypeOK'
      /\ Stored(recorded) /\ job \in [Runs -> Jobs]
  BY <1>0 DEF IngestTypes, LockIInv, TypeOK, Stored, Jobs, Thoughts
<1>b. ASSUME /\ written' \in 0 .. Len(Script) /\ Stored(recorded') /\ deleted' \subseteq Responses
             /\ cursor' \in 0 .. Len(Script) /\ links' \in [Responses -> SUBSET Commits]
             /\ hook' \in [of : Commits \cup {"none"}, ids : SUBSET Responses]
             /\ linked' \subseteq Commits /\ job' \in [Runs -> Jobs]
             /\ upsets' \in 0 .. MaxUpsets'[locking'] /\ ever' \cup withdrawn' \subseteq Responses
             /\ happened' \subseteq {"busy", "cut"}
      PROVE  TypeOK'
  BY <1>a, <1>b DEF TypeOK, Stored, Jobs, Thoughts
<1>c. /\ locking' = locking
      /\ written \in 0 .. Len(Script) /\ deleted \subseteq Responses
      /\ cursor \in 0 .. Len(Script) /\ links \in [Responses -> SUBSET Commits]
      /\ hook \in [of : Commits \cup {"none"}, ids : SUBSET Responses]
      /\ linked \subseteq Commits
      /\ upsets \in 0 .. MaxUpsets[locking] /\ ever \cup withdrawn \subseteq Responses
      /\ happened \subseteq {"busy", "cut"} /\ DOMAIN recorded \subseteq Responses
  <2>1. [LockNext]_lockVars BY NextIsLockStep DEF vars, lockVars
  <2>2. locking' = locking
    BY <2>1 DEF LockNext, lockVars, Acquire, Acquiring, Open, Lock, GoWithout, Check, GiveUp,
         Remove, Unlock, Die
  <2> QED BY <1>a, <2>2 DEF TypeOK, Stored
<1>1. CASE UNCHANGED vars
  BY <1>0, <1>a, <1>1
     DEF IngestTypes, TypeOK, Windows, Exists, vars, storeVars, gitVars, history, lockVars
<1>2. ASSUME cursor' = cursor, job' = job PROVE Windows'
  BY <1>a, <1>2 DEF Windows
<1>3. CASE Write
  <2>1. written' \in 0 .. Len(Script) BY <1>c, <1>3, ScriptType DEF Write
  <2> QED BY <1>0, <1>a, <1>b, <1>c, <1>2, <1>3, <2>1
         DEF Write, IngestTypes, storeVars, gitVars, history
<1>4. ASSUME NEW n \in 0 .. Len(Script), CutShort(n) PROVE IngestTypes'
  <2>1. upsets' \in 0 .. MaxUpsets[locking]' BY <1>a, <1>c, <1>4, UpsetType DEF CutShort
  <2> QED BY <1>0, <1>a, <1>b, <1>c, <1>2, <1>4, <2>1
         DEF CutShort, IngestTypes, storeVars, gitVars, history
<1>5. ASSUME NEW r \in Responses, DeleteLocal(r) \/ Withdraw(r) PROVE IngestTypes'
  <2>1. upsets' \in 0 .. MaxUpsets[locking]'
    BY <1>a, <1>c, <1>5, UpsetType DEF DeleteLocal, Withdraw, TakeAway
  <2>2. Stored(recorded') BY <1>a, <1>5, StoredWithout DEF DeleteLocal, Withdraw, TakeAway
  <2> QED BY <1>0, <1>a, <1>b, <1>c, <1>2, <1>5, <2>1, <2>2
         DEF DeleteLocal, Withdraw, TakeAway, IngestTypes, storeVars, gitVars, history
<1>6. CASE HookSteps
  <2>1. ASSUME NEW c \in Commits, HookLinks(c) PROVE IngestTypes'
    <3>1. links' \in [Responses -> SUBSET Commits] BY <1>a, <2>1, LinkType DEF HookLinks
    <3> QED BY <1>0, <1>a, <1>b, <1>c, <1>2, <2>1, <3>1
           DEF HookLinks, IngestTypes, NoHook, storeVars, gitVars, history
  <2>2. ASSUME NEW c \in Commits, NEW ids \in SUBSET Responses, HookReads(c, ids) PROVE IngestTypes'
    BY <1>0, <1>a, <1>b, <1>c, <1>2, <2>2
       DEF HookReads, IngestTypes, storeVars, gitVars, history
  <2> QED BY <1>6, <2>1, <2>2 DEF HookSteps
<1>7. ASSUME NEW p \in Runs,
             Steps(p) \/ Busy(p) \/ Kill(p) \/ \E final \in BOOLEAN : Start(p, final)
      PROVE  IngestTypes'
  <2>1. job' \in [Runs -> Jobs] BY <1>a, <1>7, JobStep
  <2>2. ASSUME Starts(cursor' + 1) PROVE Windows'
    <3>1. ASSUME NEW q \in Runs
          PROVE  /\ Starts(job'[q].from)
                 /\ job'[q].captures \subseteq Planned(job'[q].from, job'[q].upto, job'[q].final)
                 /\ job'[q].at \in {"idle", "read", "plan"} => job'[q].captures = {}
                 /\ job'[q].at \in {"floating", "link"} => job'[q].commits # {}
      <4>1. CASE q = p BY <1>a, <1>7, <4>1, JobStep
      <4>2. CASE q # p
        <5>1. job'[q] = job[q] BY <1>a, <1>7, <4>2, JobStep
        <5> QED BY <1>a, <5>1 DEF Windows
      <4> QED BY <4>1, <4>2
    <3> QED BY <2>2, <3>1 DEF Windows
  <2>3. CASE Batch(p)
    <3>1. Stored(recorded') /\ cursor' \in 0 .. Len(Script) /\ Starts(cursor' + 1)
      BY <1>a, <2>3, BatchStores
    <3>2. job[p].captures \subseteq Responses BY <1>a DEF Jobs
    <3>3. ever' \cup withdrawn' \subseteq Responses BY Zenon, <1>c, <2>3, <3>2 DEF Batch, Added
    <3> QED BY Zenon, <1>0, <1>b, <1>c, <2>1, <2>2, <2>3, <3>1, <3>3 DEF Batch, IngestTypes, gitVars
  <2>4. CASE LinkCommit(p)
    <3>0. job[p] \in Jobs /\ job[p].commits \subseteq Commits BY <1>a DEF Jobs
    <3>1. links' \in [Responses -> SUBSET Commits]
      <4>1. job[p].commits # {} BY Zenon, <1>a, <2>4 DEF LinkCommit, Step, Windows
      <4>2. Earliest(job[p].commits) \in Commits BY <3>0, <4>1, EarliestIs
      <4> QED BY Zenon, <1>a, <2>4, <4>2, LinkType DEF LinkCommit
    <3>2. happened' \subseteq {"busy", "cut"} BY Zenon, <1>c, <2>4 DEF LinkCommit, CutOff
    <3> QED BY Zenon, <1>0, <1>a, <1>b, <1>c, <2>1, <2>2, <2>4, <3>1, <3>2
           DEF LinkCommit, IngestTypes, gitVars, Windows
  <2>5. CASE Busy(p) \/ Kill(p)
    <3>1. upsets' \in 0 .. MaxUpsets[locking]' BY <1>a, <1>c, <2>5, UpsetType DEF Busy, Kill
    <3>2. happened' \subseteq {"busy", "cut"} BY <1>c, <2>5 DEF Busy, Kill, CutOff
    <3> QED BY <1>0, <1>a, <1>b, <1>c, <2>1, <2>2, <2>5, <3>1, <3>2
           DEF Busy, Kill, IngestTypes, storeVars, gitVars, Windows
  <2>6. CASE \/ TakeLock(p) \/ ReadCursor(p) \/ ReadTranscript(p) \/ ReadFloating(p)
             \/ Leave(p) \/ End(p) \/ \E final \in BOOLEAN : Start(p, final)
    <3>1. UNCHANGED <<written, storeVars, gitVars, upsets, history>>
      BY Zenon, <2>6 DEF TakeLock, ReadCursor, ReadTranscript, ReadFloating, Leave, End, Start
    <3> QED BY <1>0, <1>a, <1>b, <1>c, <2>1, <2>2, <3>1
           DEF IngestTypes, storeVars, gitVars, history, Windows
  <2> QED BY <1>7, <2>3, <2>4, <2>5, <2>6 DEF Steps
<1> QED BY <1>1, <1>3, <1>4, <1>5, <1>6, <1>7 DEF Next

\* Every variable stays within its type, for any script that is one.
THEOREM IngestTyped == Spec => []TypeOK
<1>1. IngestTypes => TypeOK BY DEF IngestTypes
<1> QED BY <1>1, InitTypes, NextTypes, PTL DEF Spec
-----------------------------------------------------------------------------
(* What the cursor has passed                                              *)

\* A run for a stop has the transcript as it was at the stop.
AtStops ==
    \A p \in Runs :
        /\ job[p].final => ~At(p, "out") /\ written \in Stops
        /\ job[p].final /\ job[p].at = "batch" => job[p].upto \in Stops

\* All up to the first response of a window is recorded or deleted, that one
\* included, unless the window starts with the transcript.
DoneTo(from) ==
    from > 1 => \A r \in Responses \ Lost : Begins[r] <= from => r \in ever \cup deleted
DoneIn(upto) == \A r \in Responses \ Lost : Begins[r] <= upto => r \in ever \cup deleted

\* What a run read as recorded has been, and what it was through with as well.
DoneByRuns ==
    \A p \in Runs :
        /\ DoneTo(job[p].from)
        /\ job[p].at = "batch" =>
             Planned(job[p].from, job[p].upto, job[p].final) \subseteq job[p].captures \cup ever
        /\ job[p].at \in {"floating", "link", "done"} /\ job[p].final /\ "busy" \notin happened
             => DoneIn(job[p].upto)

\* What was ever recorded still is, or was taken away.
Recorded ==
    /\ DOMAIN recorded \subseteq ever
    /\ ever \subseteq DOMAIN recorded \cup deleted \cup withdrawn
    /\ ever \cap Lost = {}

IngestIInv == IngestTypes /\ AtStops /\ DoneTo(cursor + 1) /\ DoneByRuns /\ Recorded

LEMMA InitIngest == Init => IngestIInv
<1> SUFFICES ASSUME Init PROVE IngestIInv OBVIOUS
<1>1. \A p \in Runs : job[p] = IdleJob BY DEF Init
<1>2. AtStops BY <1>1 DEF AtStops, IdleJob
<1>3. DoneTo(cursor + 1) BY DEF Init, DoneTo
<1>4. DoneByRuns BY <1>1 DEF DoneByRuns, DoneTo, IdleJob
<1>5. Recorded BY DEF Init, Recorded
<1> QED BY <1>2, <1>3, <1>4, <1>5, InitTypes DEF IngestIInv

\* The histories only grow.
LEMMA HistoriesGrow ==
    ASSUME [Next]_vars
    PROVE  /\ ever \subseteq ever' /\ deleted \subseteq deleted'
           /\ withdrawn \subseteq withdrawn' /\ happened \subseteq happened'
<1>1. CASE UNCHANGED vars BY <1>1 DEF vars, storeVars, history
<1>2. CASE Write \/ \E n \in 0 .. Len(Script) : CutShort(n)
  BY <1>2 DEF Write, CutShort, storeVars, history
<1>3. CASE HookSteps BY <1>3 DEF HookSteps, HookReads, HookLinks, storeVars, history
<1>4. CASE \E r \in Responses : DeleteLocal(r) \/ Withdraw(r)
  BY <1>4 DEF DeleteLocal, Withdraw, TakeAway
<1>5. ASSUME NEW p \in Runs, Batch(p) \/ LinkCommit(p) \/ Busy(p) \/ Kill(p)
      PROVE  /\ ever \subseteq ever' /\ deleted \subseteq deleted'
             /\ withdrawn \subseteq withdrawn' /\ happened \subseteq happened'
  BY Zenon, <1>5 DEF Batch, LinkCommit, Busy, Kill, storeVars
<1>6. ASSUME NEW p \in Runs,
             \/ TakeLock(p) \/ ReadCursor(p) \/ ReadTranscript(p) \/ ReadFloating(p)
             \/ Leave(p) \/ End(p) \/ \E final \in BOOLEAN : Start(p, final)
      PROVE  UNCHANGED <<storeVars, history>>
  BY Zenon, <1>6 DEF TakeLock, ReadCursor, ReadTranscript, ReadFloating, Leave, End, Start
<1> QED BY <1>1, <1>2, <1>3, <1>4, <1>5, <1>6 DEF Next, Steps, storeVars, history

LEMMA DoneStays ==
    ASSUME [Next]_vars, NEW n
    PROVE  (DoneTo(n) => DoneTo(n)') /\ (DoneIn(n) => DoneIn(n)')
BY HistoriesGrow DEF DoneTo, DoneIn

LEMMA BatchJob ==
    ASSUME TypeOK, NEW p \in Runs, Batch(p)
    PROVE  /\ job'[p] = [job[p] EXCEPT
                  !.at = IF Verified(job[p].from, job[p].upto, job[p].final) = {} THEN "done"
                         ELSE "floating",
                  !.captures = {},
                  !.commits = Verified(job[p].from, job[p].upto, job[p].final)]
           /\ job'[p].final = job[p].final /\ job'[p].from = job[p].from
           /\ job'[p].upto = job[p].upto /\ job'[p].at \in {"done", "floating"}
<1> DEFINE commits == Verified(job[p].from, job[p].upto, job[p].final)
           stage == IF commits = {} THEN "done" ELSE "floating"
<1>1. job \in [Runs -> Jobs] /\ stage \in {"done", "floating"} BY DEF TypeOK, Jobs
<1>2. job' = [job EXCEPT ![p].at = stage, ![p].captures = {}, ![p].commits = commits]
  BY Zenon DEF Batch
<1> HIDE DEF commits, stage
<1>3. job'[p] = [job[p] EXCEPT !.at = stage, !.captures = {}, !.commits = commits]
  BY <1>1, <1>2
<1> QED BY <1>1, <1>3 DEF commits, stage, Jobs

\* A batch is through with all that was planned, and so with what comes before.
LEMMA BatchDoes ==
    ASSUME IngestIInv, NEW p \in Runs, Batch(p)
    PROVE  DoneTo(cursor + 1)' /\ (job[p].final => DoneIn(job[p].upto))'
<1> DEFINE from == job[p].from
           upto == job[p].upto
           final == job[p].final
<1>1. /\ from \in 1 .. Len(Script) + 1 /\ upto \in 0 .. Len(Script) /\ final \in BOOLEAN
      /\ Starts(from) /\ job[p].captures \subseteq Planned(from, upto, final)
  BY DEF IngestIInv, IngestTypes, Windows, TypeOK
<1>2. /\ cursor' = NextCursor(from, upto, final)
      /\ ever' = ever \cup Added(job[p].captures) /\ deleted' = deleted /\ job[p].at = "batch"
  BY Zenon DEF Batch, Step
<1>3. /\ DoneTo(from) /\ Planned(from, upto, final) \subseteq job[p].captures \cup ever
      /\ DOMAIN recorded \subseteq ever
  BY <1>2 DEF IngestIInv, DoneByRuns, Recorded
<1> HIDE DEF from, upto, final
<1>4. \A r \in Planned(from, upto, final) \ Lost : r \in ever' \cup deleted'
  BY <1>2, <1>3 DEF Added, Exists
<1>5. \A r \in Responses \ Lost : from > 1 /\ Begins[r] <= from => r \in ever' \cup deleted'
  BY <1>2, <1>3 DEF DoneTo
<1>6. DoneTo(cursor + 1)'
  <2>1. CASE cursor' + 1 = from BY <1>5, <2>1 DEF DoneTo
  <2>2. ASSUME NEW q \in Planned(from, upto, final), cursor' + 1 = Begins[q]
        PROVE  DoneTo(cursor + 1)'
    <3>1. q \in Responses /\ Begins[q] \in from .. upto BY <1>1, FirstBegins, ScriptType DEF Planned
    <3>2. ASSUME NEW r \in Responses \ Lost, Begins[r] <= Begins[q] PROVE r \in ever' \cup deleted'
      <4>1. Begins[r] \in Nat /\ Begins[r] >= 1 BY BeginsFirst, ScriptType
      <4>2. CASE from <= Begins[r]
        <5>1. r \in Planned(from, upto, final) BY <1>1, <3>2, <4>2, PlannedBefore, ScriptType
        <5> QED BY <1>4, <5>1
      <4>3. CASE Begins[r] < from
        <5>1. from > 1 BY <1>1, <4>1, <4>3
        <5> QED BY <1>1, <1>5, <4>1, <4>3, <5>1
      <4> QED BY <1>1, <4>1, <4>2, <4>3
    <3> QED BY <2>2, <3>2 DEF DoneTo
  <2> QED BY <1>1, <1>2, <2>1, <2>2, NextStarts
<1>7. ASSUME final, NEW r \in Responses \ Lost, Begins[r] <= upto PROVE r \in ever' \cup deleted'
  <2>2. Begins[r] \in DOMAIN Script /\ Script[Begins[r]].of = r BY BeginsFirst
  <2>3. CASE from <= Begins[r]
    <3>1. Begins[r] \in Positions(r, from, upto) BY <1>1, <1>7, <2>2, <2>3, ScriptType DEF Positions
    <3>2. r \in Planned(from, upto, final) BY <1>7, <3>1 DEF Planned, Closed
    <3> QED BY <1>4, <3>2
  <2>4. CASE Begins[r] < from
    <3>1. from > 1 BY <1>1, <2>2, <2>4, ScriptType
    <3> QED BY <1>1, <1>5, <2>2, <2>4, <3>1, ScriptType
  <2> QED BY <1>1, <2>2, <2>3, <2>4, ScriptType
<1>8. job'[p].upto = job[p].upto /\ job'[p].final = job[p].final
  BY Zenon, BatchJob DEF IngestIInv, IngestTypes
<1> QED BY <1>6, <1>7, <1>8 DEF upto, final, DoneIn

\* What a run's step makes of its locals.
Outcome(p) ==
    /\ written' = written /\ \A q \in Runs \ {p} : taker'[q] = taker[q]
    /\ \/ \E final \in BOOLEAN :
             /\ Start(p, final) /\ taker'[p] = "open"
             /\ job'[p] = [IdleJob EXCEPT !.at = "read", !.final = final]
       \/ job'[p] = IdleJob
       \/ job'[p] = job[p] /\ taker'[p] # "out" /\ (~At(p, "in") \/ job[p].at = "done")
       \/ /\ taker'[p] = taker[p] /\ At(p, "in")
          /\ job'[p].final = job[p].final /\ job'[p].upto = job[p].upto
          /\ \/ ReadCursor(p) /\ job'[p].at = "plan"
                /\ job'[p].from = (IF cursor > written THEN 1 ELSE cursor + 1)
             \/ Batch(p) /\ job'[p].from = job[p].from /\ job'[p].at \in {"done", "floating"}
             \/ /\ job[p].at \in {"floating", "link"} /\ job'[p].from = job[p].from
                /\ job'[p].at \in {"done", "link"}
             \/ Busy(p) /\ job'[p].from = job[p].from /\ job'[p].at = "done"
       \/ /\ taker'[p] = taker[p] /\ At(p, "in") /\ ReadTranscript(p)
          /\ job'[p].final = job[p].final /\ job'[p].from = job[p].from
          /\ job'[p].upto = written /\ job'[p].at = "batch"
          /\ job'[p].captures =
               {r \in Planned(job[p].from, written, job[p].final) : ~Exists(r)}

LEMMA RunStep ==
    ASSUME TypeOK, NEW p \in Runs,
           \/ Steps(p) \/ Busy(p) \/ Kill(p) \/ \E final \in BOOLEAN : Start(p, final)
    PROVE  Outcome(p)
<1>0. /\ job \in [Runs -> Jobs] /\ job[p] \in Jobs /\ taker \in [Runs -> Stage]
  BY DEF TypeOK, Jobs, LockTypeOK
<1>1. ASSUME NEW final \in BOOLEAN, Start(p, final) PROVE Outcome(p)
  BY Zenon, <1>0, <1>1 DEF Start, Acquire, Goto, Outcome
<1>2. CASE TakeLock(p)
  <2>1. written' = written /\ \A q \in Runs \ {p} : taker'[q] = taker[q]
    BY <1>0, <1>2 DEF TakeLock, Acquiring, Open, Lock, GoWithout, Check, GiveUp, Goto
  <2>2. job' = IF taker'[p] = "out" THEN [job EXCEPT ![p] = IdleJob] ELSE job BY <1>2 DEF TakeLock
  <2>3. job'[p] = IdleJob \/ (job'[p] = job[p] /\ taker'[p] # "out") BY <1>0, <2>2
  <2>4. ~At(p, "in")
    BY <1>2 DEF TakeLock, Acquiring, Open, Lock, GoWithout, Check, GiveUp, At
  <2> QED BY Zenon, <2>1, <2>3, <2>4 DEF Outcome
<1>3. CASE Leave(p)
  <2>1. taker' = [taker EXCEPT ![p] = "unlock"] /\ job' = job /\ written' = written
    BY <1>3 DEF Leave, Remove, Goto
  <2>2. taker'[p] # "out" /\ job'[p] = job[p] BY <1>0, <2>1
  <2>3. job[p].at = "done" BY <1>3 DEF Leave, Step
  <2> QED BY <1>0, <2>1, <2>2, <2>3 DEF Outcome
<1>4. CASE End(p) \/ Kill(p)
  <2>1. /\ taker' = [taker EXCEPT ![p] = "out"] /\ job' = [job EXCEPT ![p] = IdleJob]
        /\ written' = written
    BY <1>4 DEF End, Kill, Unlock, Die, Goto
  <2>2. job'[p] = IdleJob BY <1>0, <2>1
  <2> QED BY <1>0, <2>1, <2>2 DEF Outcome
<1>5. ASSUME UNCHANGED <<lockVars, written>>, At(p, "in"),
             job'[p].final = job[p].final, job'[p].upto = job[p].upto,
             \/ ReadCursor(p) /\ job'[p].at = "plan"
                /\ job'[p].from = (IF cursor > written THEN 1 ELSE cursor + 1)
             \/ Batch(p) /\ job'[p].from = job[p].from /\ job'[p].at \in {"done", "floating"}
             \/ /\ job[p].at \in {"floating", "link"} /\ job'[p].from = job[p].from
                /\ job'[p].at \in {"done", "link"}
             \/ Busy(p) /\ job'[p].from = job[p].from /\ job'[p].at = "done"
      PROVE  Outcome(p)
  BY Zenon, <1>5 DEF lockVars, Outcome
<1>6. CASE ReadCursor(p)
  <2> DEFINE from == IF cursor > written THEN 1 ELSE cursor + 1
  <2>1. job' = [job EXCEPT ![p].at = "plan", ![p].from = from]
        /\ UNCHANGED <<lockVars, written>> /\ At(p, "in")
    BY <1>6 DEF ReadCursor, Step
  <2> HIDE DEF from
  <2>2. job'[p].final = job[p].final /\ job'[p].upto = job[p].upto /\ job'[p].at = "plan"
        /\ job'[p].from = from
    BY <1>0, <2>1 DEF Jobs
  <2> QED BY <1>5, <1>6, <2>1, <2>2 DEF from
<1>7. CASE ReadTranscript(p)
  <2> DEFINE captures == {r \in Planned(job[p].from, written, job[p].final) : ~Exists(r)}
  <2>1. job' = [job EXCEPT ![p].at = "batch", ![p].upto = written, ![p].captures = captures]
        /\ UNCHANGED <<lockVars, written>> /\ At(p, "in")
    BY <1>7 DEF ReadTranscript, Step
  <2> HIDE DEF captures
  <2>2. job'[p].final = job[p].final /\ job'[p].from = job[p].from /\ job'[p].upto = written
        /\ job'[p].at = "batch" /\ job'[p].captures = captures
    BY <1>0, <2>1 DEF Jobs
  <2> QED BY Zenon, <1>7, <2>1, <2>2 DEF lockVars, captures, Outcome
<1>8. CASE Batch(p)
  <2>1. UNCHANGED <<lockVars, written>> /\ At(p, "in") BY Zenon, <1>8 DEF Batch, Step
  <2> QED BY Zenon, <1>5, <1>8, <2>1, BatchJob
<1>9. CASE ReadFloating(p)
  <2>1. job' = [job EXCEPT ![p].at = "link", ![p].ids = Floating]
        /\ UNCHANGED <<lockVars, written>> /\ At(p, "in") /\ job[p].at = "floating"
    BY <1>9 DEF ReadFloating, Step
  <2>2. job'[p].final = job[p].final /\ job'[p].from = job[p].from /\ job'[p].upto = job[p].upto
        /\ job'[p].at = "link"
    BY <1>0, <2>1 DEF Jobs
  <2> QED BY <1>5, <2>1, <2>2
<1>10. CASE LinkCommit(p)
  <2>1. PICK stage \in {"done", "link"} : \E rest, ids :
            job' = [job EXCEPT ![p].at = stage, ![p].commits = rest, ![p].ids = ids]
    <3> DEFINE c == Earliest(job[p].commits)
               ids == Claimed(job[p].ids, c)
               rest == job[p].commits \ {c}
               stage == IF ~(ids \subseteq DOMAIN recorded) \/ rest = {} THEN "done" ELSE "link"
    <3>1. job' = [job EXCEPT ![p].at = stage, ![p].commits = rest, ![p].ids = @ \ ids]
      BY Zenon, <1>10 DEF LinkCommit
    <3>2. stage \in {"done", "link"} OBVIOUS
    <3> HIDE DEF c, ids, rest, stage
    <3>3. job' = [job EXCEPT ![p].at = stage, ![p].commits = rest, ![p].ids = job[p].ids \ ids]
      BY <1>0, <3>1 DEF Jobs
    <3> QED BY Zenon, <3>2, <3>3
  <2>2. UNCHANGED <<lockVars, written>> /\ At(p, "in") /\ job[p].at = "link"
    BY Zenon, <1>10 DEF LinkCommit, Step
  <2>3. job'[p].final = job[p].final /\ job'[p].from = job[p].from /\ job'[p].upto = job[p].upto
        /\ job'[p].at \in {"done", "link"}
    BY <1>0, <2>1 DEF Jobs
  <2> QED BY <1>5, <2>2, <2>3
<1>11. CASE Busy(p)
  <2>1. job' = [job EXCEPT ![p].at = "done"] /\ UNCHANGED <<lockVars, written>> /\ At(p, "in")
    BY <1>11 DEF Busy, Goes, Step
  <2>2. job'[p].final = job[p].final /\ job'[p].from = job[p].from /\ job'[p].upto = job[p].upto
        /\ job'[p].at = "done"
    BY <1>0, <2>1 DEF Jobs
  <2> QED BY <1>5, <1>11, <2>1, <2>2
<1> QED
  BY <1>1, <1>2, <1>3, <1>4, <1>6, <1>7, <1>8, <1>9, <1>10, <1>11 DEF Steps

\* The others leave the runs alone.
LEMMA OthersLeaveRuns ==
    ASSUME Write \/ HookSteps \/ (\E n \in 0 .. Len(Script) : CutShort(n))
           \/ \E r \in Responses : DeleteLocal(r) \/ Withdraw(r)
    PROVE  job' = job /\ taker' = taker /\ cursor' = cursor
BY DEF Write, HookSteps, HookReads, HookLinks, CutShort, DeleteLocal, Withdraw, TakeAway, lockVars,
       storeVars

LEMMA StopsStep == IngestIInv /\ [Next]_vars => AtStops'
<1> SUFFICES ASSUME IngestIInv, [Next]_vars PROVE AtStops' OBVIOUS
<1> USE DEF AtStops, At
<1>0. AtStops /\ TypeOK BY DEF IngestIInv, IngestTypes
<1>1. CASE UNCHANGED <<written, job, taker>> BY <1>0, <1>1
<1>2. CASE Write
  <2>1. \A p \in Runs : ~job[p].final BY <1>2 DEF Write, FinalRuns
  <2> QED BY <1>2, <2>1, OthersLeaveRuns
<1>3. CASE \E n \in 0 .. Len(Script) : CutShort(n)
  <2>1. \A p \in Runs : ~job[p].final BY <1>0, <1>3 DEF CutShort
  <2> QED BY <1>3, <2>1, OthersLeaveRuns
<1>4. CASE HookSteps \/ \E r \in Responses : DeleteLocal(r) \/ Withdraw(r)
  <2>1. written' = written
    BY <1>4 DEF HookSteps, HookReads, HookLinks, DeleteLocal, Withdraw, TakeAway
  <2> QED BY <1>1, <1>4, <2>1, OthersLeaveRuns
<1>5. ASSUME NEW p \in Runs,
             Steps(p) \/ Busy(p) \/ Kill(p) \/ \E final \in BOOLEAN : Start(p, final)
      PROVE  AtStops'
  <2>1. Outcome(p) BY <1>0, <1>5, RunStep
  <2>2. written' = written /\ \A q \in Runs \ {p} : taker'[q] = taker[q] /\ job'[q] = job[q]
    BY Zenon, <1>0, <1>5, <2>1, JobStep DEF Outcome, IngestIInv, IngestTypes
  <2>3. /\ job'[p].final => taker'[p] # "out" /\ written' \in Stops
        /\ job'[p].final /\ job'[p].at = "batch" => job'[p].upto \in Stops
    <3>1. ASSUME NEW final \in BOOLEAN, Start(p, final), taker'[p] = "open",
                 job'[p] = [IdleJob EXCEPT !.at = "read", !.final = final]
          PROVE  /\ job'[p].final => taker'[p] # "out" /\ written' \in Stops
                 /\ job'[p].at # "batch"
      <4>1. job'[p].final = final /\ job'[p].at = "read" BY <3>1 DEF IdleJob
      <4>2. final => written \in Stops BY <3>1 DEF Start
      <4> QED BY <2>2, <3>1, <4>1, <4>2
    <3>2. CASE job'[p] = IdleJob BY <3>2, IdleIsJob
    <3>3. CASE job'[p] = job[p] /\ taker'[p] # "out" BY <1>0, <2>2, <3>3
    <3>4. CASE /\ taker'[p] = taker[p] /\ At(p, "in") /\ job'[p].final = job[p].final
               /\ job'[p].at # "batch"
      BY <1>0, <2>2, <3>4
    <3>5. CASE /\ taker'[p] = taker[p] /\ At(p, "in") /\ job'[p].final = job[p].final
               /\ job'[p].upto = written
      BY <1>0, <2>2, <3>5
    <3> QED BY Zenon, <2>1, <3>1, <3>2, <3>3, <3>4, <3>5 DEF Outcome
  <2> QED BY <1>0, <2>2, <2>3
<1> QED BY <1>1, <1>2, <1>3, <1>4, <1>5 DEF Next, vars, lockVars

LEMMA DoneByRunsStep == IngestIInv /\ [Next]_vars => DoneByRuns'
<1> SUFFICES ASSUME IngestIInv, [Next]_vars PROVE DoneByRuns' OBVIOUS
<1>0. DoneByRuns /\ TypeOK /\ DoneTo(cursor + 1) /\ Recorded
  BY DEF IngestIInv, IngestTypes
<1> DEFINE Doing(p) ==
        /\ DoneTo(job[p].from)
        /\ job[p].at = "batch" =>
             Planned(job[p].from, job[p].upto, job[p].final) \subseteq job[p].captures \cup ever
        /\ job[p].at \in {"floating", "link", "done"} /\ job[p].final /\ "busy" \notin happened
             => DoneIn(job[p].upto)
<1>1. /\ ever \subseteq ever' /\ happened \subseteq happened'
      /\ \A n : (DoneTo(n) => DoneTo(n)') /\ (DoneIn(n) => DoneIn(n)')
  BY HistoriesGrow, DoneStays
<1>2. ASSUME NEW q \in Runs, job'[q] = job[q] PROVE Doing(q)'
  <2>1. Doing(q) BY <1>0 DEF DoneByRuns
  <2>2. DoneTo(job[q].from)' BY <1>1, <1>2, <2>1 DEF DoneTo
  <2>3. DoneIn(job[q].upto) => DoneIn(job[q].upto)' BY <1>1, <1>2 DEF DoneIn
  <2> QED BY <1>1, <1>2, <2>1, <2>2, <2>3
<1>3. CASE job' = job BY <1>2, <1>3 DEF DoneByRuns
<1>4. ASSUME NEW p \in Runs,
             Steps(p) \/ Busy(p) \/ Kill(p) \/ \E final \in BOOLEAN : Start(p, final)
      PROVE  DoneByRuns'
  <2>1. Outcome(p) /\ Doing(p) BY <1>0, <1>4, RunStep DEF DoneByRuns
  <2>2. \A q \in Runs \ {p} : job'[q] = job[q]
    BY <1>0, <1>4, JobStep DEF IngestIInv, IngestTypes
  <2>3. DoneTo(1)' BY DEF DoneTo
  <2>4. DoneTo(job[p].from) => \A r \in Responses \ Lost :
            job[p].from > 1 /\ Begins[r] <= job[p].from => r \in ever' \cup deleted'
    BY HistoriesGrow DEF DoneTo
  <2>5. job'[p].from = job[p].from => DoneTo(job[p].from)' BY <2>1, <2>4 DEF DoneTo
  <2>6. Doing(p)'
    <3>1. ASSUME NEW final \in BOOLEAN, job'[p] = [IdleJob EXCEPT !.at = "read", !.final = final]
          PROVE  Doing(p)'
      <4>1. job'[p].from = 1 /\ job'[p].at = "read" BY <3>1 DEF IdleJob
      <4> QED BY <2>3, <4>1
    <3>2. CASE job'[p] = IdleJob BY <2>3, <3>2 DEF IdleJob
    <3>3. CASE job'[p] = job[p] BY <1>2, <3>3
    <3>4. CASE /\ job'[p].at = "plan" /\ job'[p].from = (IF cursor > written THEN 1 ELSE cursor + 1)
      <4>1. DoneTo(job[p].from)'
        <5>1. CASE job'[p].from = 1 BY <2>3, <5>1
        <5>2. CASE job'[p].from = cursor + 1
          BY <1>0, <5>2, HistoriesGrow DEF DoneTo
        <5> QED BY <3>4, <5>1, <5>2
      <4> QED BY <3>4, <4>1
    <3>5. CASE Batch(p) /\ job'[p].from = job[p].from /\ job'[p].at \in {"done", "floating"}
      <4>1. (job[p].final => DoneIn(job[p].upto))' BY <3>5, BatchDoes
      <4> QED BY <2>5, <3>5, <4>1
    <3>6. CASE /\ job[p].at \in {"floating", "link"} /\ job'[p].from = job[p].from
               /\ job'[p].at \in {"done", "link"}
               /\ job'[p].final = job[p].final /\ job'[p].upto = job[p].upto
      <4>1. DoneIn(job[p].upto) => DoneIn(job[p].upto)' BY <3>6, HistoriesGrow DEF DoneIn
      <4> QED BY <1>1, <2>1, <2>5, <3>6, <4>1
    <3>7. CASE Busy(p) /\ job'[p].from = job[p].from /\ job'[p].at = "done"
      <4>1. "busy" \in happened' BY <3>7 DEF Busy
      <4> QED BY <2>5, <3>7, <4>1
    <3>8. CASE /\ job'[p].final = job[p].final /\ job'[p].from = job[p].from
               /\ job'[p].upto = written /\ job'[p].at = "batch"
               /\ job'[p].captures =
                    {r \in Planned(job[p].from, written, job[p].final) : ~Exists(r)}
      <4>1. Planned(job[p].from, written, job[p].final) \subseteq job'[p].captures \cup ever'
        BY <1>0, <1>1, <3>8 DEF Recorded, Exists
      <4>2. job'[p].at = "batch" =>
              Planned(job'[p].from, job'[p].upto, job'[p].final)
              \subseteq job'[p].captures \cup ever'
        BY <3>8, <4>1
      <4> QED BY <2>5, <3>8, <4>2
    <3> QED BY Zenon, <2>1, <3>1, <3>2, <3>3, <3>4, <3>5, <3>6, <3>7, <3>8 DEF Outcome
  <2> QED BY <1>2, <2>2, <2>6 DEF DoneByRuns
<1> QED BY <1>3, <1>4, OthersLeaveRuns DEF Next, vars

LEMMA RecordedStep == IngestIInv /\ [Next]_vars => Recorded'
<1> SUFFICES ASSUME IngestIInv, [Next]_vars PROVE Recorded' OBVIOUS
<1>0. Recorded /\ TypeOK BY DEF IngestIInv, IngestTypes
<1>1. CASE UNCHANGED <<recorded, deleted, withdrawn, ever>> BY <1>0, <1>1 DEF Recorded
<1>2. ASSUME NEW r \in Responses, DeleteLocal(r) \/ Withdraw(r) PROVE Recorded'
  <2>1. DOMAIN recorded' = DOMAIN recorded \ {r} BY <1>2 DEF DeleteLocal, Withdraw, TakeAway, Without
  <2>2. ever' = ever /\ deleted \cup {r} \cup withdrawn \subseteq deleted' \cup withdrawn'
    BY <1>2 DEF DeleteLocal, Withdraw, TakeAway
  <2> QED BY <1>0, <2>1, <2>2 DEF Recorded
<1>3. ASSUME NEW p \in Runs, Batch(p) PROVE Recorded'
  <2>1. /\ DOMAIN recorded' = DOMAIN recorded \cup Added(job[p].captures)
        /\ ever' = ever \cup Added(job[p].captures)
        /\ deleted' = deleted /\ withdrawn' = withdrawn
    BY Zenon, <1>3 DEF Batch
  <2> QED BY <1>0, <2>1 DEF Recorded, Added
<1>4. ASSUME Write \/ HookSteps \/ \E n \in 0 .. Len(Script) : CutShort(n)
      PROVE  UNCHANGED <<recorded, deleted, withdrawn, ever>>
  BY <1>4 DEF Write, HookSteps, HookLinks, HookReads, CutShort, storeVars, history
<1>5. ASSUME NEW p \in Runs,
             \/ TakeLock(p) \/ ReadCursor(p) \/ ReadTranscript(p) \/ ReadFloating(p)
             \/ LinkCommit(p) \/ Leave(p) \/ End(p) \/ Busy(p) \/ Kill(p)
             \/ \E final \in BOOLEAN : Start(p, final)
      PROVE  UNCHANGED <<recorded, deleted, withdrawn, ever>>
  BY Zenon, <1>5 DEF TakeLock, ReadCursor, ReadTranscript, ReadFloating, LinkCommit, Leave, End,
       Busy, Kill, Start, storeVars, history
<1> QED BY <1>1, <1>2, <1>3, <1>4, <1>5 DEF Next, Steps, vars, storeVars, history

LEMMA NextIngest == IngestIInv /\ [Next]_vars => IngestIInv'
<1> SUFFICES ASSUME IngestIInv, [Next]_vars PROVE IngestIInv' OBVIOUS
<1>1. DoneTo(cursor + 1)'
  <2>1. CASE cursor' = cursor BY <2>1, HistoriesGrow DEF IngestIInv, DoneTo
  <2>2. ASSUME NEW p \in Runs, Batch(p) PROVE DoneTo(cursor + 1)' BY <2>2, BatchDoes
  <2>3. ASSUME NEW p \in Runs,
               \/ TakeLock(p) \/ ReadCursor(p) \/ ReadTranscript(p) \/ ReadFloating(p)
               \/ LinkCommit(p) \/ Leave(p) \/ End(p) \/ Busy(p) \/ Kill(p)
               \/ \E final \in BOOLEAN : Start(p, final)
        PROVE  cursor' = cursor
    BY Zenon, <2>3 DEF TakeLock, ReadCursor, ReadTranscript, ReadFloating, LinkCommit, Leave, End,
         Busy, Kill, Start, storeVars
  <2> QED BY <2>1, <2>2, <2>3, OthersLeaveRuns DEF Next, Steps, vars, storeVars
<1>2. IngestTypes' BY NextTypes DEF IngestIInv
<1> QED BY <1>1, <1>2, StopsStep, DoneByRunsStep, RecordedStep DEF IngestIInv

LEMMA IngestInvariant == Spec => []IngestIInv
BY InitIngest, NextIngest, PTL DEF Spec

\* The cursor is never past a response that was neither recorded nor deleted,
\* and a run at a stop leaves none of what it read.
THEOREM CursorPassesRecorded == Spec => []NothingSkipped
<1>1. IngestIInv => NothingSkipped
  <2> SUFFICES ASSUME IngestIInv PROVE NothingSkipped OBVIOUS
  <2>1. cursor \in Nat /\ \A r \in Responses : Begins[r] \in Nat /\ Begins[r] >= 1
    BY BeginsFirst, ScriptType DEF IngestIInv, IngestTypes, TypeOK
  <2>2. ASSUME NEW r \in Responses \ Lost, Begins[r] <= cursor PROVE r \in ever \cup deleted
    BY <2>1, <2>2 DEF IngestIInv, DoneTo
  <2>3. ASSUME NEW r \in Responses \ Lost, NEW p \in Runs,
               Step(p, "done"), job[p].final, "busy" \notin happened, Begins[r] <= job[p].upto
        PROVE  r \in ever \cup deleted
    BY <2>3 DEF IngestIInv, DoneByRuns, DoneIn, Step
  <2> QED BY <2>2, <2>3 DEF NothingSkipped
<1> QED BY <1>1, IngestInvariant, PTL
-----------------------------------------------------------------------------
(* What is recorded of a response                                          *)

\* What a batch adds and no tombstone of a destination took away before begins
\* in its window, after the response the window starts with.
LEMMA AddedInWindow ==
    ASSUME IngestIInv, NEW p \in Runs, Batch(p),
           NEW r \in Added(job[p].captures), r \notin withdrawn
    PROVE  /\ r \in Planned(job[p].from, job[p].upto, job[p].final)
           /\ Begins[r] \in job[p].from .. job[p].upto
           /\ job[p].from = 1 \/ job[p].from # Begins[r]
<1>1. /\ job[p].from \in 1 .. Len(Script) + 1 /\ job[p].upto \in 0 .. Len(Script)
      /\ Starts(job[p].from) /\ DoneTo(job[p].from) /\ Recorded
      /\ job[p].captures \subseteq Planned(job[p].from, job[p].upto, job[p].final)
  BY DEF IngestIInv, IngestTypes, Windows, TypeOK, DoneByRuns
<1>2. r \in Planned(job[p].from, job[p].upto, job[p].final) BY <1>1 DEF Added
<1>3. Begins[r] \in job[p].from .. job[p].upto /\ r \in Responses
  BY <1>1, <1>2, FirstBegins, ScriptType DEF Planned
<1>4. r \notin ever \cup deleted /\ r \notin Lost BY <1>1 DEF Added, Exists, Recorded
<1>5. job[p].from = Begins[r] => ~(job[p].from > 1) BY <1>1, <1>3, <1>4 DEF DoneTo
<1> QED BY <1>1, <1>2, <1>3, <1>5, ScriptType

LEMMA BatchRecordsWhole ==
    ASSUME IngestIInv, RecordedWhole, NEW p \in Runs, Batch(p)
    PROVE  RecordedWhole'
<1> DEFINE from == job[p].from
           upto == job[p].upto
           captures == job[p].captures
<1>1. /\ from \in 1 .. Len(Script) + 1 /\ upto \in 0 .. Len(Script) /\ job[p].final \in BOOLEAN
      /\ Starts(from) /\ (job[p].final => upto \in Stops)
  BY Zenon DEF IngestIInv, IngestTypes, Windows, TypeOK, AtStops, Batch, Step
<1>2. /\ recorded' = [r \in DOMAIN recorded \cup Added(captures) |->
              IF Exists(r) THEN recorded[r]
              ELSE [stimulus |-> Stimulus(r, from, upto),
                    answered |-> CallsOf(r, from, upto) \cap AnsweredIn(from, upto),
                    parent |-> ParentOf(r, captures, from, upto)]]
      /\ withdrawn' = withdrawn
  BY Zenon DEF Batch
<1>3. ASSUME NEW r \in DOMAIN recorded' \ withdrawn
      PROVE  recorded'[r].stimulus = WholeStimulus[r] /\ recorded'[r].answered = WholeAnswered[r]
  <2>1. CASE Exists(r) BY <1>2, <1>3, <2>1 DEF Exists, RecordedWhole
  <2>2. CASE ~Exists(r)
    <3>1. r \in Added(captures) BY <1>2, <1>3, <2>2 DEF Exists
    <3>2. /\ r \in Planned(from, upto, job[p].final) /\ Begins[r] \in from .. upto
          /\ from = 1 \/ from # Begins[r]
      BY <1>3, <3>1, AddedInWindow
    <3>3. r \in Responses BY <3>2 DEF Planned
    <3>4. recorded'[r].stimulus = Stimulus(r, from, upto)
          /\ recorded'[r].answered = CallsOf(r, from, upto) \cap AnsweredIn(from, upto)
      BY <1>2, <1>3, <2>2
    <3> HIDE DEF from, upto, captures
    <3>5. Stimulus(r, from, upto) = WholeStimulus[r] BY <1>1, <3>2, <3>3, StimulusWhole
    <3>6. CallsOf(r, from, upto) \cap AnsweredIn(from, upto) = WholeAnswered[r]
      BY <1>1, <3>2, PlannedWhole
    <3> QED BY <3>4, <3>5, <3>6
  <2> QED BY <2>1, <2>2
<1> QED BY <1>2, <1>3 DEF RecordedWhole, WholeStimulus, WholeAnswered, Whole

\* A thought is recorded once and as the whole transcript tells it, however the
\* reads cut the transcript.
THEOREM RecordingIsWhole == Spec => []RecordedWhole
<1>1. Init => RecordedWhole BY DEF Init, RecordedWhole
<1>2. IngestIInv /\ RecordedWhole /\ [Next]_vars => RecordedWhole'
  <2> SUFFICES ASSUME IngestIInv, RecordedWhole, [Next]_vars PROVE RecordedWhole' OBVIOUS
  <2>1. CASE UNCHANGED <<recorded, withdrawn>> BY <2>1 DEF RecordedWhole
  <2>2. ASSUME NEW r \in Responses, DeleteLocal(r) \/ Withdraw(r) PROVE RecordedWhole'
    <3>1. recorded' = Without(r) /\ withdrawn \subseteq withdrawn'
      BY <2>2 DEF DeleteLocal, Withdraw, TakeAway
    <3>2. PICK stored \in SUBSET Responses : recorded \in [stored -> Thoughts]
      BY DEF IngestIInv, IngestTypes, TypeOK, Thoughts
    <3>3. ASSUME NEW x \in DOMAIN recorded'
          PROVE  /\ x \in DOMAIN recorded
                 /\ recorded'[x].stimulus = recorded[x].stimulus
                 /\ recorded'[x].answered = recorded[x].answered
      <4>1. x \in DOMAIN recorded \ {r} BY <3>1, <3>3 DEF Without
      <4>2. recorded'[x] \in {recorded[x], [recorded[x] EXCEPT !.parent = NoResponse]}
        BY <3>1, <4>1 DEF Without
      <4>3. recorded[x] \in Thoughts BY <3>2, <4>1
      <4> QED BY <4>1, <4>2, <4>3 DEF Thoughts
    <3> QED BY <3>1, <3>3 DEF RecordedWhole
  <2>3. ASSUME NEW p \in Runs, Batch(p) PROVE RecordedWhole' BY <2>3, BatchRecordsWhole
  <2>4. ASSUME Write \/ HookSteps \/ \E n \in 0 .. Len(Script) : CutShort(n)
        PROVE  UNCHANGED <<recorded, withdrawn>>
    BY <2>4 DEF Write, HookSteps, HookLinks, HookReads, CutShort, storeVars, history
  <2>5. ASSUME NEW p \in Runs,
               \/ TakeLock(p) \/ ReadCursor(p) \/ ReadTranscript(p) \/ ReadFloating(p)
               \/ LinkCommit(p) \/ Leave(p) \/ End(p) \/ Busy(p) \/ Kill(p)
               \/ \E final \in BOOLEAN : Start(p, final)
        PROVE  UNCHANGED <<recorded, withdrawn>>
    BY Zenon, <2>5 DEF TakeLock, ReadCursor, ReadTranscript, ReadFloating, LinkCommit, Leave, End,
         Busy, Kill, Start, storeVars, history
  <2> QED BY <2>1, <2>2, <2>3, <2>4, <2>5 DEF Next, Steps, vars, storeVars, history
<1> QED BY <1>1, <1>2, IngestInvariant, PTL DEF Spec
-----------------------------------------------------------------------------
(* The chain of the thoughts                                               *)

\* The last response before an entry, of a set of entries.
LEMMA NearestIs ==
    ASSUME NEW S \in SUBSET DOMAIN Script, NEW b,
           \A i \in S : Script[i].kind = "response", {i \in S : i < b} # {}
    PROVE  LET near == Max({i \in S : i < b})
           IN  /\ near \in S /\ near < b /\ \A i \in S : i < b => i <= near
               /\ Script[near].of \in Responses
<1> DEFINE T == {i \in S : i < b}
<1>1. T \in SUBSET (0 .. Len(Script)) /\ Len(Script) \in Nat BY ScriptType
<1>2. Max(T) \in T /\ \A i \in T : i <= Max(T) BY <1>1, Greatest
<1> QED BY <1>2, SessionOK

\* Where nothing was taken away, a batch finds the one before in its window, or
\* all that the window has before it could not be stored.
LEMMA BatchChains ==
    ASSUME IngestIInv, NEW p \in Runs, Batch(p), deleted \cup withdrawn = {},
           NEW r \in Added(job[p].captures)
    PROVE  LET parent == ParentOf(r, job[p].captures, job[p].from, job[p].upto)
           IN  \/ parent = NearestBefore[r]
               \/ parent = NoResponse /\ Before(r, 1, Whole) \in Lost
<1> DEFINE from == job[p].from
           upto == job[p].upto
           captures == job[p].captures
           planned == Planned(from, upto, job[p].final)
<1>1. /\ from \in 1 .. Len(Script) + 1 /\ upto \in 0 .. Len(Script) /\ job[p].final \in BOOLEAN
      /\ Starts(from) /\ captures \subseteq planned /\ planned \subseteq captures \cup ever
      /\ Recorded
  BY Zenon DEF IngestIInv, IngestTypes, Windows, TypeOK, DoneByRuns, Batch, Step
<1>2. /\ r \in planned /\ Begins[r] \in from .. upto /\ (from = 1 \/ from # Begins[r])
      /\ r \in Responses
  BY AddedInWindow DEF Planned
<1> DEFINE stored == DOMAIN recorded \cup Added(captures)
           all == {i \in DOMAIN Script : Script[i].kind = "response"}
           inWindow == {i \in Storable : from <= i}
           earlier == {i \in from .. First(r, from, upto) - 1 :
                          Script[i].kind = "response"
                          /\ (Script[i].of \in stored \/ Script[i].of \notin captures)}
<1>3. stored \cap Lost = {} /\ stored \subseteq Responses
  BY <1>1 DEF Recorded, Added, IngestIInv, IngestTypes, TypeOK, Planned
<1>4. First(r, from, upto) = Begins[r] BY <1>1, <1>2, FirstBegins, ScriptType DEF Planned
<1>5. ASSUME NEW i \in from .. Begins[r] - 1, Script[i].kind = "response"
      PROVE  /\ i \in DOMAIN Script /\ Script[i].of \in Responses
             /\ Script[i].of \in stored \/ Script[i].of \notin captures <=> Script[i].of \notin Lost
             /\ Script[i].of \in stored <=> Script[i].of \notin Lost
  <2>1. i \in DOMAIN Script /\ i \in from .. upto BY <1>1, <1>2, <1>5, ScriptType
  <2>2. PICK q \in Responses : Script[i].of = q BY <1>5, <2>1, SessionOK
  <2>3. i \in Positions(q, from, upto) BY <2>1, <2>2 DEF Positions
  <2>4. Begins[q] \in from .. upto /\ Begins[q] <= i
    BY <1>1, <2>1, <2>2, <2>3, FirstBegins, BeginsFirst, ScriptType
  <2>5. q \in planned
    BY <1>1, <1>2, <1>5, <2>1, <2>4, PlannedBefore, ScriptType
  <2>6. q \in captures \/ q \in DOMAIN recorded BY <1>1, <2>5 DEF Recorded
  <2>7. q \in Lost \/ q \in stored BY <2>6 DEF Added, Exists
  <2>8. q \in Lost => q \in captures BY <1>3, <2>6
  <2> QED BY <1>3, <2>1, <2>2, <2>7, <2>8
<1>6. Begins[r] \in Nat /\ from \in Nat BY <1>1, BeginsFirst, ScriptType, <1>2
<1>7. earlier = {i \in inWindow : i < Begins[r]}
  BY <1>4, <1>5, <1>6, ScriptType DEF Storable
<1>8. Storable \in SUBSET DOMAIN Script /\ \A i \in Storable : Script[i].kind = "response"
  BY DEF Storable
<1>9. ParentOf(r, captures, from, upto) =
        IF earlier # {} /\ Script[Max(earlier)].of \in stored THEN Script[Max(earlier)].of
        ELSE NoResponse
  BY DEF ParentOf
<1>10. NearestBefore[r] =
        IF {i \in Storable : i < Begins[r]} = {} THEN NoResponse
        ELSE Script[Max({i \in Storable : i < Begins[r]})].of
  BY <1>2 DEF NearestBefore
<1> HIDE DEF from, upto, captures, planned, stored, earlier
<1>11. CASE earlier # {}
  <2> DEFINE near == Max({i \in inWindow : i < Begins[r]})
             nearest == Max({i \in Storable : i < Begins[r]})
  <2>1. /\ near \in inWindow /\ near < Begins[r]
        /\ \A i \in inWindow : i < Begins[r] => i <= near
    BY <1>7, <1>8, <1>11, NearestIs
  <2>2. /\ nearest \in Storable /\ nearest < Begins[r]
        /\ \A i \in Storable : i < Begins[r] => i <= nearest
    BY <1>7, <1>8, <1>11, NearestIs
  <2> HIDE DEF near, nearest
  <2>3. near = nearest BY <1>6, <1>8, <2>1, <2>2, ScriptType
  <2>4. /\ near \in from .. Begins[r] - 1 /\ Script[near].kind = "response"
        /\ Script[near].of \notin Lost
    BY <1>6, <1>8, <2>1, ScriptType DEF Storable
  <2>5. Script[near].of \in stored BY <1>5, <2>4
  <2>6. {i \in Storable : i < Begins[r]} # {} BY <2>2
  <2>7. NearestBefore[r] = Script[near].of BY <1>10, <2>3, <2>6 DEF nearest
  <2>8. ParentOf(r, captures, from, upto) = Script[near].of
    BY <1>7, <1>9, <1>11, <2>5 DEF near
  <2> QED BY <2>7, <2>8 DEF from, upto, captures
<1>12. CASE earlier = {} /\ {i \in Storable : i < Begins[r]} # {}
  <2>1. PICK i \in Storable : i < Begins[r] /\ i < from
    BY <1>6, <1>7, <1>8, <1>12, ScriptType
  <2>2. from > 1 /\ from < Begins[r] BY <1>2, <1>6, <1>8, <2>1, ScriptType
  <2>3. PICK q \in Responses : from = Begins[q] BY <1>1, <2>2 DEF Starts
  <2>4. from \in all /\ from < Begins[r] BY <2>2, <2>3, BeginsFirst
  <2> DEFINE near == Max({j \in all : j < Begins[r]})
  <2>5. /\ near \in all /\ near < Begins[r]
        /\ \A j \in all : j < Begins[r] => j <= near
    BY <2>4, NearestIs
  <2> HIDE DEF near
  <2>6. from <= near /\ near \in DOMAIN Script /\ Script[near].kind = "response" BY <2>4, <2>5
  <2>7. Script[near].of \in Lost
    BY <1>6, <1>7, <1>12, <2>5, <2>6, ScriptType DEF Storable
  <2>8. Before(r, 1, Whole) = Script[near].of
    <3>1. First(r, 1, Whole) = Begins[r] BY <1>2 DEF Begins, Whole
    <3>2. {j \in 1 .. First(r, 1, Whole) - 1 : Script[j].kind = "response"}
          = {j \in all : j < Begins[r]}
      BY <1>2, <3>1, BeginsFirst, ScriptType
    <3> QED BY <2>4, <3>2 DEF Before, near
  <2> QED BY <1>9, <1>12, <2>7, <2>8 DEF from, upto, captures
<1>13. CASE earlier = {} /\ {i \in Storable : i < Begins[r]} = {}
  <2>1. ParentOf(r, captures, from, upto) = NearestBefore[r] BY <1>9, <1>10, <1>13
  <2> QED BY <2>1 DEF from, upto, captures
<1> QED BY <1>11, <1>12, <1>13

\* The thoughts of a session are one chain, which breaks at most right after a
\* response that could not be stored; a parent is always stored.
THEOREM ThoughtsChain == Spec => []OneChain
<1>1. Init => OneChain BY DEF Init, OneChain
<1>2. IngestIInv /\ OneChain /\ [Next]_vars => OneChain'
  <2> SUFFICES ASSUME IngestIInv, OneChain, [Next]_vars PROVE OneChain' OBVIOUS
  <2>1. CASE UNCHANGED <<recorded, deleted, withdrawn>> BY <2>1 DEF OneChain
  <2>2. ASSUME NEW r \in Responses, DeleteLocal(r) \/ Withdraw(r) PROVE OneChain'
    <3>1. recorded' = Without(r) /\ r \in deleted' \cup withdrawn'
      BY <2>2 DEF DeleteLocal, Withdraw, TakeAway
    <3>2. PICK stored \in SUBSET Responses : recorded \in [stored -> Thoughts]
      BY DEF IngestIInv, IngestTypes, TypeOK, Thoughts
    <3>3. ASSUME NEW x \in DOMAIN recorded'
          PROVE  recorded'[x].parent \in DOMAIN recorded' \cup {NoResponse}
      <4>1. x \in DOMAIN recorded \ {r} /\ DOMAIN recorded' = DOMAIN recorded \ {r}
        BY <3>1, <3>3 DEF Without
      <4>2. recorded'[x] = IF recorded[x].parent = r
                           THEN [recorded[x] EXCEPT !.parent = NoResponse] ELSE recorded[x]
        BY <3>1, <4>1 DEF Without
      <4>3. recorded[x] \in Thoughts BY <3>2, <4>1
      <4>4. recorded[x].parent \in DOMAIN recorded \cup {NoResponse} BY <4>1 DEF OneChain
      <4>5. recorded'[x].parent =
              IF recorded[x].parent = r THEN NoResponse ELSE recorded[x].parent
        BY <4>2, <4>3 DEF Thoughts
      <4> QED BY <4>1, <4>4, <4>5
    <3> QED BY <3>1, <3>3 DEF OneChain
  <2>3. ASSUME NEW p \in Runs, Batch(p) PROVE OneChain'
    <3> DEFINE captures == job[p].captures
               parent(r) == ParentOf(r, captures, job[p].from, job[p].upto)
               new(r) == [stimulus |-> Stimulus(r, job[p].from, job[p].upto),
                          answered |-> CallsOf(r, job[p].from, job[p].upto)
                                       \cap AnsweredIn(job[p].from, job[p].upto),
                          parent |-> parent(r)]
    <3>1. /\ recorded' = [r \in DOMAIN recorded \cup Added(captures) |->
                  IF Exists(r) THEN recorded[r] ELSE new(r)]
          /\ deleted' = deleted /\ withdrawn' = withdrawn
      BY Zenon, <2>3 DEF Batch
    <3>2. DOMAIN recorded' = DOMAIN recorded \cup Added(captures) BY <3>1
    <3>3. ASSUME NEW r \in DOMAIN recorded', ~Exists(r)
          PROVE  /\ r \in Added(captures) /\ recorded'[r].parent = parent(r)
                 /\ parent(r) \in DOMAIN recorded' \cup {NoResponse}
      <4>1. r \in Added(captures) BY <3>2, <3>3 DEF Exists
      <4>2. parent(r) \in DOMAIN recorded \cup Added(captures) \cup {NoResponse}
        BY DEF ParentOf
      <4>3. recorded'[r] = new(r) BY <3>1, <3>2, <3>3
      <4> QED BY <3>2, <4>1, <4>2, <4>3
    <3>4. ASSUME NEW r \in DOMAIN recorded', Exists(r)
          PROVE  r \in DOMAIN recorded /\ recorded'[r] = recorded[r]
      BY <3>1, <3>2, <3>4 DEF Exists
    <3>5. ASSUME NEW r \in Added(captures), deleted \cup withdrawn = {}
          PROVE  \/ parent(r) = NearestBefore[r]
                 \/ parent(r) = NoResponse /\ Before(r, 1, Whole) \in Lost
      BY <2>3, <3>5, BatchChains
    <3> HIDE DEF captures, parent, new
    <3>6. ASSUME NEW r \in DOMAIN recorded'
          PROVE  /\ recorded'[r].parent \in DOMAIN recorded' \cup {NoResponse}
                 /\ deleted' \cup withdrawn' = {} =>
                      \/ recorded'[r].parent = NearestBefore[r]
                      \/ recorded'[r].parent = NoResponse /\ Before(r, 1, Whole) \in Lost
      <4>1. CASE Exists(r)
        <5>1. r \in DOMAIN recorded /\ recorded'[r] = recorded[r] BY <3>4, <4>1
        <5> QED BY <3>1, <3>2, <5>1 DEF OneChain
      <4>2. CASE ~Exists(r) BY <3>1, <3>3, <3>5, <4>2
      <4> QED BY <4>1, <4>2
    <3> QED BY <3>6 DEF OneChain, NearestBefore, Before, Whole, Storable
  <2>4. ASSUME Write \/ HookSteps \/ \E n \in 0 .. Len(Script) : CutShort(n)
        PROVE  UNCHANGED <<recorded, deleted, withdrawn>>
    BY <2>4 DEF Write, HookSteps, HookLinks, HookReads, CutShort, storeVars, history
  <2>5. ASSUME NEW p \in Runs,
               \/ TakeLock(p) \/ ReadCursor(p) \/ ReadTranscript(p) \/ ReadFloating(p)
               \/ LinkCommit(p) \/ Leave(p) \/ End(p) \/ Busy(p) \/ Kill(p)
               \/ \E final \in BOOLEAN : Start(p, final)
        PROVE  UNCHANGED <<recorded, deleted, withdrawn>>
    BY Zenon, <2>5 DEF TakeLock, ReadCursor, ReadTranscript, ReadFloating, LinkCommit, Leave, End,
         Busy, Kill, Start, storeVars, history
  <2> QED BY <2>1, <2>2, <2>3, <2>4, <2>5 DEF Next, Steps, vars, storeVars, history
<1> QED BY <1>1, <1>2, IngestInvariant, PTL DEF Spec
-----------------------------------------------------------------------------
(* The commits of a session                                                *)

\* A call of q is answered where c is named.
Makes(q, c) == CallsOf(q, 1, Whole) \cap Script[CommitAt[c]].answers # {}

\* A commit is made by the last response that begins before it is named.
LEMMA MakesFollows ==
    ASSUME NEW q \in Responses, NEW c \in Commits, Makes(q, c)
    PROVE  /\ CommitAt[c] \in DOMAIN Script /\ Begins[q] < CommitAt[c]
           /\ \A r \in Responses : Begins[r] < CommitAt[c] => Begins[r] <= Begins[q]
<1> USE ScriptType
<1>1. PICK i \in DOMAIN Script :
         Script[i].of = q /\ Script[i].calls \cap Script[CommitAt[c]].answers # {}
  BY DEF Makes, CallsOf, Positions, Whole
<1>2. CommitAt[c] \in DOMAIN Script BY ScriptOK
<1>3. Script[CommitAt[c]].of # q BY <1>2, SessionOK
<1>4. i < CommitAt[c]
  <2>1. CommitAt[c] < i => Script[CommitAt[c]].of = q BY <1>1, <1>2, SessionOK
  <2> QED BY <1>1, <1>2, <1>3, <2>1
<1>5. Begins[q] \in DOMAIN Script /\ Script[Begins[q]].of = q /\ Begins[q] <= i
  BY <1>1, BeginsFirst
<1>6. ASSUME NEW r \in Responses, Begins[r] < CommitAt[c], Begins[q] < Begins[r] PROVE FALSE
  <2>1. /\ Begins[r] \in DOMAIN Script /\ Script[Begins[r]].of = r
        /\ Script[Begins[r]].kind = "response"
    BY BeginsFirst
  <2>2. Script[Begins[r]].of = q
    <3>1. CASE Begins[r] <= i
      <4>1. Begins[r] \in Begins[q] .. i BY <1>5, <1>6, <2>1, <3>1
      <4> QED BY <1>1, <1>5, <4>1, NextToEachOther
    <3>2. CASE i < Begins[r]
      <4>1. Begins[r] \in i .. CommitAt[c] - 1 /\ MovesOn(Begins[r])
        BY <1>2, <1>6, <2>1, <3>2 DEF MovesOn
      <4>2. \A j \in i .. CommitAt[c] - 1 : MovesOn(j) => Script[j].of = Script[i].of
        BY <1>1, <1>2, SessionOK
      <4> QED BY <1>1, <4>1, <4>2
    <3> QED BY <1>1, <2>1, <3>1, <3>2
  <2> QED BY <1>6, <2>1, <2>2
<1>7. \A r \in Responses : Begins[r] \in DOMAIN Script BY BeginsFirst
<1> QED BY <1>2, <1>4, <1>5, <1>6, <1>7

\* A window verifies the commits that the responses planned from it make.
LEMMA VerifiedMade ==
    ASSUME NEW from \in 1 .. Len(Script) + 1, Starts(from), NEW upto \in 0 .. Len(Script),
           NEW final \in BOOLEAN, final => upto \in Stops, NEW c \in Commits
    PROVE  c \in Verified(from, upto, final)
           <=> \E q \in Planned(from, upto, final) : Makes(q, c)
<1> USE ScriptType
<1> DEFINE answers == Script[CommitAt[c]].answers
<1>1. CommitAt[c] \in DOMAIN Script BY ScriptOK
<1>2. ASSUME NEW q \in Planned(from, upto, final), CallsOf(q, from, upto) \cap answers # {}
      PROVE  Makes(q, c)
  <2>1. from .. upto \subseteq 1 .. Len(Script) OBVIOUS
  <2>2. CallsOf(q, from, upto) \subseteq CallsOf(q, 1, Whole)
    BY <2>1 DEF CallsOf, Positions, Whole
  <2> QED BY <1>2, <2>2 DEF Makes
<1>3. ASSUME NEW q \in Planned(from, upto, final), Makes(q, c)
      PROVE  CommitAt[c] \in from .. upto /\ CallsOf(q, from, upto) \cap answers # {}
  <2>1. PICK call \in CallsOf(q, 1, Whole) : call \in answers BY <1>3 DEF Makes
  <2>2. call \in AnsweredIn(1, Whole) BY <1>1, <2>1 DEF AnsweredIn, Whole
  <2>3. call \in WholeAnswered[q] BY <2>1, <2>2 DEF WholeAnswered, Planned
  <2>4. call \in CallsOf(q, from, upto) \cap AnsweredIn(from, upto) BY <2>3, PlannedWhole
  <2>5. PICK l \in from .. upto : call \in Script[l].answers BY <2>4 DEF AnsweredIn
  <2>6. l \in DOMAIN Script /\ Script[l].answers \cap answers # {} BY <2>1, <2>5
  <2>7. l = CommitAt[c] BY <1>1, <2>6, SessionOK
  <2> QED BY <2>1, <2>4, <2>5, <2>7
<1> QED BY <1>2, <1>3 DEF Verified

\* What a commit was linked for, in terms of who makes it.
LEMMA AnsweredMakes ==
    ASSUME NEW r \in Responses, NEW c \in Commits
    PROVE  WholeAnswered[r] \cap Script[CommitAt[c]].answers # {} <=> Makes(r, c)
<1>1. CommitAt[c] \in 1 .. Whole BY ScriptOK, ScriptType DEF Whole
<1>2. Script[CommitAt[c]].answers \subseteq AnsweredIn(1, Whole) BY <1>1 DEF AnsweredIn
<1>3. WholeAnswered[r] = CallsOf(r, 1, Whole) \cap AnsweredIn(1, Whole) BY DEF WholeAnswered
<1> QED BY <1>2, <1>3 DEF Makes

\* A run that had to do with the commits is inside, so that there is one.
Inside == \A p \in Runs : job[p].at \in {"plan", "batch", "floating", "link"} => At(p, "in")

\* c is the first commit after r began.
Claims(r, c) == \A d \in Commits : Begins[r] < CommitAt[d] => CommitAt[c] <= CommitAt[d]
HookClaims == \A c \in Commits : hook.of = c => \A r \in hook.ids : Claims(r, c)
LinksClaim == \A r \in Responses : \A c \in links[r] : Claims(r, c)

\* What began before a commit that a response up to n made is linked, and so is
\* a response that made one.
LinkedTo(n) ==
    \A r \in DOMAIN recorded, d \in Commits, q \in Responses :
        Makes(q, d) /\ Begins[q] <= n /\ Begins[r] < CommitAt[d] => links[r] # {}
MakersLinked == \A r \in DOMAIN recorded, c \in Commits : Makes(r, c) => links[r] # {}

\* Or a run is about to link it.
Links(p, r, d) ==
    links[r] # {} \/ (d \in job[p].commits /\ (job[p].at = "link" => r \in job[p].ids))
Completes(p) ==
    \A r \in DOMAIN recorded, d \in Commits :
        /\ Makes(r, d) => Links(p, r, d)
        /\ \A q \in Responses :
             Makes(q, d) /\ Begins[q] <= cursor + 1 /\ Begins[r] < CommitAt[d] => Links(p, r, d)

\* It has all the commits up to the last of its own, for what it is about to link.
InOrder(p) ==
    /\ \A c \in job[p].commits : \E q \in Responses : Makes(q, c) /\ Begins[q] <= cursor + 1
    /\ job[p].at = "link" =>
         \A r \in job[p].ids, c \in job[p].commits, d \in Commits :
             Begins[r] < CommitAt[d] /\ CommitAt[d] < CommitAt[c] => d \in job[p].commits

Orderly == locking /\ "cut" \notin happened
LinksInv ==
    Orderly =>
        /\ LinksClaim
        /\ \A p \in Runs : job[p].at \in {"plan", "batch"} => LinkedTo(job[p].from)
        /\ (\A p \in Runs : ~Linking(p)) => LinkedTo(cursor + 1) /\ MakersLinked
        /\ \A p \in Runs : Linking(p) => Completes(p) /\ InOrder(p)
CommitsIInv == IngestIInv /\ Inside /\ HookClaims /\ LinksInv

\* A step neither makes files lockable nor takes it back.
LEMMA LockingStays == ASSUME [Next]_vars PROVE locking' = locking
<1>1. CASE UNCHANGED vars BY <1>1 DEF vars, lockVars
<1>2. ASSUME LockNext PROVE locking' = locking
  BY <1>2
     DEF LockNext, Acquire, Acquiring, Open, Lock, GoWithout, Check, GiveUp, Remove, Unlock, Die
<1>3. CASE Next BY <1>2, <1>3, NextIsLockStep DEF lockVars
<1> QED BY <1>1, <1>3

LEMMA OrderlyWas == ASSUME [Next]_vars, Orderly' PROVE Orderly
BY LockingStays, HistoriesGrow DEF Orderly

LEMMA InsideStep == IngestIInv /\ Inside /\ [Next]_vars => Inside'
<1> SUFFICES ASSUME IngestIInv, Inside, [Next]_vars PROVE Inside' OBVIOUS
<1>0. TypeOK BY DEF IngestIInv, IngestTypes
<1>1. CASE UNCHANGED <<job, taker>> BY <1>1 DEF Inside, At
<1>2. ASSUME NEW p \in Runs,
             Steps(p) \/ Busy(p) \/ Kill(p) \/ \E final \in BOOLEAN : Start(p, final)
      PROVE  Inside'
  <2>1. Outcome(p) /\ \A q \in Runs \ {p} : job'[q] = job[q]
    BY <1>0, <1>2, RunStep, JobStep DEF IngestIInv, IngestTypes
  <2>2. \A q \in Runs \ {p} : taker'[q] = taker[q] BY Zenon, <2>1 DEF Outcome
  <2>3. job'[p].at \in {"plan", "batch", "floating", "link"} => taker'[p] = "in"
    <3>1. ASSUME NEW final \in BOOLEAN, job'[p] = [IdleJob EXCEPT !.at = "read", !.final = final]
          PROVE  job'[p].at = "read"
      BY <3>1 DEF IdleJob
    <3>2. CASE job'[p] = IdleJob BY <3>2 DEF IdleJob
    <3>3. CASE job'[p] = job[p] /\ (~At(p, "in") \/ job[p].at = "done") BY <3>3 DEF Inside
    <3>4. CASE taker'[p] = taker[p] /\ At(p, "in") BY <3>4 DEF At
    <3> QED BY Zenon, <2>1, <3>1, <3>2, <3>3, <3>4 DEF Outcome
  <2> QED BY <2>1, <2>2, <2>3 DEF Inside, At
<1>3. CASE UNCHANGED vars BY <1>1, <1>3 DEF vars, lockVars
<1> QED BY <1>1, <1>2, <1>3, OthersLeaveRuns DEF Next

LEMMA HookClaimsStep == TypeOK /\ HookClaims /\ [Next]_vars => HookClaims'
<1> SUFFICES ASSUME TypeOK, HookClaims, [Next]_vars PROVE HookClaims' OBVIOUS
<1>1. CASE hook' = hook BY <1>1 DEF HookClaims
<1>2. ASSUME NEW c \in Commits, NEW ids \in SUBSET Responses, HookReads(c, ids)
      PROVE  HookClaims'
  <2>1. hook' = [of |-> c, ids |-> ids] /\ ids \subseteq LinkerTakes(c) BY <1>2 DEF HookReads
  <2>2. hook'.of = c /\ hook'.ids = ids BY <2>1
  <2>3. ASSUME NEW r \in ids PROVE Claims(r, c)
    <3>1. \A d \in Commits : CommitAt[d] < CommitAt[c] => Begins[r] >= CommitAt[d]
      BY <2>1, <2>3 DEF LinkerTakes, Earlier
    <3>2. CommitAt[c] \in Nat /\ \A d \in Commits : CommitAt[d] \in Nat
      BY ScriptOK, ScriptType
    <3>3. Begins[r] \in Nat BY <1>2, <2>3, BeginsFirst, ScriptType
    <3> QED BY <3>1, <3>2, <3>3 DEF Claims
  <2> QED BY <2>2, <2>3 DEF HookClaims
<1>3. ASSUME NEW c \in Commits, HookLinks(c) PROVE HookClaims'
  <2>1. hook'.ids = {} BY <1>3 DEF HookLinks, NoHook
  <2> QED BY <2>1 DEF HookClaims
<1>4. CASE Write \/ (\E n \in 0 .. Len(Script) : CutShort(n))
           \/ \E r \in Responses : DeleteLocal(r) \/ Withdraw(r)
  BY <1>1, <1>4 DEF Write, CutShort, DeleteLocal, Withdraw, TakeAway, gitVars
<1>5. ASSUME NEW p \in Runs,
             Steps(p) \/ Busy(p) \/ Kill(p) \/ \E final \in BOOLEAN : Start(p, final)
      PROVE  hook' = hook
  BY Zenon, <1>5 DEF Steps, TakeLock, ReadCursor, ReadTranscript, Batch, ReadFloating, LinkCommit,
       Leave, End, Busy, Kill, Start, gitVars
<1> QED BY <1>1, <1>2, <1>3, <1>4, <1>5 DEF Next, HookSteps, vars, gitVars

\* When a step takes away thoughts and adds links, what held of the links holds.
LEMMA LinksGrow ==
    ASSUME LinksInv, Orderly' => Orderly, UNCHANGED <<job, cursor>>, LinksClaim',
           DOMAIN recorded' \subseteq DOMAIN recorded,
           \A r \in DOMAIN recorded' : links[r] # {} => links'[r] # {}
    PROVE  LinksInv'
<1> SUFFICES ASSUME Orderly' PROVE LinksInv' BY DEF LinksInv
<1>1. \A n : LinkedTo(n) => LinkedTo(n)' BY DEF LinkedTo
<1>2. MakersLinked => MakersLinked' BY DEF MakersLinked
<1>3. ASSUME NEW p \in Runs, Completes(p) PROVE Completes(p)'
  <2>1. ASSUME NEW r \in DOMAIN recorded', NEW d \in Commits, Links(p, r, d) PROVE Links(p, r, d)'
    BY <2>1 DEF Links
  <2>2. \A r \in DOMAIN recorded' : r \in DOMAIN recorded OBVIOUS
  <2> QED BY <1>3, <2>1, <2>2 DEF Completes
<1>4. \A p \in Runs : InOrder(p) => InOrder(p)' BY DEF InOrder
<1>5. \A p \in Runs : Linking(p)' <=> Linking(p) BY DEF Linking
<1>6. \A p \in Runs : LinkedTo(job[p].from) => LinkedTo(job[p].from)' BY <1>1 DEF LinkedTo
<1>7. LinkedTo(cursor + 1) => LinkedTo(cursor + 1)' BY <1>1 DEF LinkedTo
<1>8. /\ \A p \in Runs : job[p].at \in {"plan", "batch"} => LinkedTo(job[p].from)
      /\ (\A p \in Runs : ~Linking(p)) => LinkedTo(cursor + 1) /\ MakersLinked
      /\ \A p \in Runs : Linking(p) => Completes(p) /\ InOrder(p)
  BY DEF LinksInv
<1> QED BY <1>2, <1>3, <1>4, <1>5, <1>6, <1>7, <1>8 DEF LinksInv

\* The same when a run that has nothing to do with the links takes a step.
LEMMA LinksElsewhere ==
    ASSUME LinksInv, Orderly' => Orderly, UNCHANGED <<links, recorded, cursor>>,
           NEW p \in Runs, \A q \in Runs \ {p} : job'[q] = job[q],
           ~Linking(p), ~Linking(p)',
           Orderly /\ job'[p].at \in {"plan", "batch"} => LinkedTo(job[p].from)'
    PROVE  LinksInv'
<1> SUFFICES ASSUME Orderly' PROVE LinksInv' BY DEF LinksInv
<1>1. \A q \in Runs \ {p} : (Linking(q)' <=> Linking(q)) BY DEF Linking
<1>2. /\ LinksClaim' /\ (LinkedTo(cursor + 1) => LinkedTo(cursor + 1)')
      /\ MakersLinked => MakersLinked'
  BY DEF LinksInv, LinksClaim, LinkedTo, MakersLinked
<1>3. ASSUME NEW q \in Runs, q # p
      PROVE  /\ LinkedTo(job[q].from) => LinkedTo(job[q].from)'
             /\ Completes(q) => Completes(q)'
             /\ InOrder(q) => InOrder(q)'
  BY <1>3 DEF LinkedTo, Completes, InOrder, Links
<1>4. /\ \A q \in Runs : job[q].at \in {"plan", "batch"} => LinkedTo(job[q].from)
      /\ (\A q \in Runs : ~Linking(q)) => LinkedTo(cursor + 1) /\ MakersLinked
      /\ \A q \in Runs : Linking(q) => Completes(q) /\ InOrder(q)
  BY DEF LinksInv
<1>5. \A q \in Runs : job'[q].at \in {"plan", "batch"} => LinkedTo(job[q].from)'
  BY <1>3, <1>4
<1>6. (\A q \in Runs : ~Linking(q)') => LinkedTo(cursor + 1)' /\ MakersLinked' BY <1>1, <1>2, <1>4
<1>7. \A q \in Runs : Linking(q)' => Completes(q)' /\ InOrder(q)' BY <1>1, <1>3, <1>4
<1> QED BY <1>2, <1>5, <1>6, <1>7 DEF LinksInv

\* Where files are locked, the others are not at it while a run is.
LEMMA OthersWait ==
    ASSUME IngestIInv, Inside, locking, NEW p \in Runs, At(p, "in"), NEW q \in Runs, q # p
    PROVE  job[q].at \notin {"plan", "batch", "floating", "link"} /\ ~Linking(q)
<1>1. Exclusive BY LockIInvExclusive DEF IngestIInv, IngestTypes
<1>2. ~At(q, "in") BY <1>1 DEF Exclusive
<1> QED BY <1>2 DEF Inside, Linking

\* A batch leaves to its links, or has linked already, what the commits that
\* the responses up to the cursor made are to claim.
LEMMA BatchCompletes ==
    ASSUME IngestIInv, NEW p \in Runs, LinkedTo(job[p].from), MakersLinked, Batch(p),
           NEW r \in DOMAIN recorded', links[r] = {}, NEW d \in Commits,
           \/ Makes(r, d)
           \/ \E q \in Responses :
                 Makes(q, d) /\ Begins[q] <= cursor' + 1 /\ Begins[r] < CommitAt[d]
    PROVE  d \in Verified(job[p].from, job[p].upto, job[p].final)
<1> DEFINE from == job[p].from
           upto == job[p].upto
           final == job[p].final
<1>1. /\ from \in 1 .. Len(Script) + 1 /\ upto \in 0 .. Len(Script) /\ final \in BOOLEAN
      /\ Starts(from) /\ job[p].captures \subseteq Planned(from, upto, final)
      /\ job[p].at = "batch" => (final => upto \in Stops)
  BY DEF IngestIInv, IngestTypes, Windows, TypeOK, AtStops
<1>2. /\ cursor' = NextCursor(from, upto, final) /\ job[p].at = "batch"
      /\ DOMAIN recorded' = DOMAIN recorded \cup Added(job[p].captures)
  BY Zenon DEF Batch, Step
<1>3. final => upto \in Stops BY <1>1, <1>2
<1> HIDE DEF from, upto, final
<1>4. ASSUME NEW q \in Planned(from, upto, final), Makes(q, d)
      PROVE  d \in Verified(from, upto, final)
  BY <1>1, <1>3, <1>4, VerifiedMade
<1>5. ASSUME NEW q \in Planned(from, upto, final)
      PROVE  q \in Responses /\ Begins[q] \in from .. upto
  BY <1>1, <1>5, FirstBegins, ScriptType DEF Planned
<1>6. ASSUME NEW q \in Responses, from <= Begins[q], Begins[q] <= cursor' + 1, Begins[q] # from
      PROVE  q \in Planned(from, upto, final)
  <2>1. PICK last \in Planned(from, upto, final) : cursor' + 1 = Begins[last]
    <3>1. \/ cursor' + 1 = from
          \/ \E last \in Planned(from, upto, final) : cursor' + 1 = Begins[last]
      BY <1>1, <1>2, NextStarts
    <3>2. Begins[q] \in Nat BY BeginsFirst, ScriptType
    <3> QED BY <1>1, <1>6, <3>1, <3>2
  <2> QED BY <1>1, <1>5, <1>6, <2>1, PlannedBefore, ScriptType
<1>7. CASE r \in DOMAIN recorded
  <2>1. ~Makes(r, d) BY <1>7 DEF MakersLinked
  <2>2. PICK q \in Responses : Makes(q, d) /\ Begins[q] <= cursor' + 1 /\ Begins[r] < CommitAt[d]
    BY <2>1
  <2>3. ~(Begins[q] <= from) BY <1>7, <2>2 DEF LinkedTo, from
  <2>4. Begins[q] \in Nat BY BeginsFirst, ScriptType
  <2>5. q \in Planned(from, upto, final) BY <1>1, <1>6, <2>2, <2>3, <2>4
  <2> QED BY <1>4, <2>2, <2>5 DEF from, upto, final
<1>8. CASE r \in Added(job[p].captures)
  <2>1. r \in Planned(from, upto, final) BY <1>1, <1>8 DEF Added
  <2>2. CASE Makes(r, d) BY <1>4, <2>1, <2>2 DEF from, upto, final
  <2>3. ASSUME NEW q \in Responses, Makes(q, d), Begins[q] <= cursor' + 1, Begins[r] < CommitAt[d]
        PROVE  d \in Verified(from, upto, final)
    <3>1. Begins[r] <= Begins[q] /\ r \in Responses BY <1>5, <2>1, <2>3, MakesFollows
    <3>2. from <= Begins[q] BY <1>1, <1>5, <2>1, <3>1, BeginsFirst, ScriptType
    <3>3. CASE Begins[q] # from BY <1>4, <1>6, <2>3, <3>2, <3>3
    <3>4. CASE Begins[q] = from
      <4>1. Begins[r] = Begins[q] BY <1>1, <1>5, <2>1, <3>1, <3>4, BeginsFirst, ScriptType
      <4>2. r = q BY <3>1, <4>1, BeginsFirst
      <4> QED BY <1>4, <2>1, <2>3, <4>2
    <3> QED BY <3>3, <3>4
  <2> QED BY <2>2, <2>3 DEF from, upto, final
<1> QED BY <1>2, <1>7, <1>8

LEMMA BatchLinks ==
    ASSUME IngestIInv, Inside, LinksInv, NEW p \in Runs, Batch(p), Orderly
    PROVE  LinksInv'
<1> DEFINE from == job[p].from
           upto == job[p].upto
           final == job[p].final
           commits == Verified(from, upto, final)
<1>1. /\ job'[p].at = (IF commits = {} THEN "done" ELSE "floating") /\ job'[p].commits = commits
      /\ job'[p].from = from
  <2>1. job[p] \in Jobs BY DEF IngestIInv, IngestTypes, TypeOK, Jobs
  <2>2. job'[p] = [job[p] EXCEPT !.at = IF commits = {} THEN "done" ELSE "floating",
                                 !.captures = {}, !.commits = commits]
    BY Zenon, BatchJob DEF IngestIInv, IngestTypes
  <2> HIDE DEF commits
  <2> QED BY <2>1, <2>2 DEF Jobs
<1>2. \A q \in Runs \ {p} : job'[q] = job[q] BY JobStep DEF Steps, IngestIInv, IngestTypes
<1>3. /\ links' = links /\ At(p, "in") /\ job[p].at = "batch"
      /\ cursor' = NextCursor(from, upto, final)
  BY Zenon DEF Batch, Step
<1>4. \A q \in Runs \ {p} : job[q].at \notin {"plan", "batch", "floating", "link"}
  BY <1>3, OthersWait DEF Orderly
<1>5. LinkedTo(from) /\ MakersLinked /\ LinksClaim
  <2>1. \A q \in Runs : ~Linking(q) BY <1>3, <1>4 DEF Linking
  <2> QED BY <1>3, <2>1 DEF LinksInv
<1>6. ASSUME NEW r \in DOMAIN recorded', NEW d \in Commits, links[r] = {},
             \/ Makes(r, d)
             \/ \E q \in Responses :
                   Makes(q, d) /\ Begins[q] <= cursor' + 1 /\ Begins[r] < CommitAt[d]
      PROVE  d \in commits
  BY <1>5, <1>6, BatchCompletes
<1>7. ASSUME NEW c \in commits PROVE \E q \in Responses : Makes(q, c) /\ Begins[q] <= cursor' + 1
  <2>1. /\ from \in 1 .. Len(Script) + 1 /\ upto \in 0 .. Len(Script) /\ final \in BOOLEAN
        /\ Starts(from) /\ (final => upto \in Stops) /\ c \in Commits
    BY <1>3 DEF IngestIInv, IngestTypes, Windows, TypeOK, AtStops, Verified
  <2> HIDE DEF from, upto, final
  <2>2. PICK q \in Planned(from, upto, final) : Makes(q, c) BY <1>7, <2>1, VerifiedMade
  <2>3. q \in Responses BY DEF Planned
  <2>4. Begins[q] <= cursor' + 1 BY <1>3, <2>1, NextStarts
  <2> QED BY <2>2, <2>3, <2>4
<1> HIDE DEF commits, from, upto, final
<1>8. LinksClaim' BY <1>3, <1>5 DEF LinksClaim
<1>9. \A q \in Runs : job'[q].at \notin {"plan", "batch"} /\ (Linking(q)' => q = p /\ commits # {})
  BY <1>1, <1>2, <1>4 DEF Linking
<1>10. CASE commits = {}
  <2>1. LinkedTo(cursor + 1)' BY <1>3, <1>6, <1>10 DEF LinkedTo
  <2>2. MakersLinked' BY <1>3, <1>6, <1>10 DEF MakersLinked
  <2> QED BY <1>8, <1>9, <1>10, <2>1, <2>2 DEF LinksInv
<1>11. CASE commits # {}
  <2>1. Completes(p)'
    <3>1. \A r \in DOMAIN recorded', d \in Commits :
             links[r] # {} \/ d \in commits => Links(p, r, d)'
      BY <1>1, <1>3, <1>11 DEF Links
    <3> QED BY <1>6, <3>1 DEF Completes
  <2>2. InOrder(p)' BY <1>1, <1>7, <1>11 DEF InOrder
  <2>3. Linking(p)' BY <1>1, <1>11 DEF Linking
  <2> QED BY <1>8, <1>9, <2>1, <2>2, <2>3 DEF LinksInv
<1> QED BY <1>10, <1>11

LEMMA FloatingLinks ==
    ASSUME IngestIInv, Inside, LinksInv, NEW p \in Runs, ReadFloating(p), Orderly
    PROVE  LinksInv'
<1>1. job[p] \in Jobs /\ job \in [Runs -> Jobs] BY DEF IngestIInv, IngestTypes, TypeOK, Jobs
<1>2. /\ job' = [job EXCEPT ![p].at = "link", ![p].ids = Floating]
      /\ UNCHANGED <<links, recorded, cursor>> /\ At(p, "in") /\ job[p].at = "floating"
  BY DEF ReadFloating, Step, storeVars
<1>3. /\ job'[p].at = "link" /\ job'[p].ids = Floating /\ job'[p].commits = job[p].commits
      /\ \A q \in Runs \ {p} : job'[q] = job[q]
  BY <1>1, <1>2 DEF Jobs
<1>4. \A q \in Runs \ {p} : job[q].at \notin {"plan", "batch", "floating", "link"}
  BY <1>2, OthersWait DEF Orderly
<1>5. LinksClaim /\ Completes(p) /\ InOrder(p) BY <1>2 DEF LinksInv, Linking
<1>6. LinksClaim' BY <1>2, <1>5 DEF LinksClaim
<1>7. Completes(p)'
  <2>1. ASSUME NEW r \in DOMAIN recorded, NEW d \in Commits, Links(p, r, d) PROVE Links(p, r, d)'
    BY <1>2, <1>3, <2>1 DEF Links, Floating
  <2> QED BY <1>2, <1>5, <2>1 DEF Completes
<1>8. InOrder(p)'
  <2>1. ASSUME NEW r \in Floating, NEW c \in job[p].commits, NEW d \in Commits,
               Begins[r] < CommitAt[d], CommitAt[d] < CommitAt[c]
        PROVE  d \in job[p].commits
    <3>1. PICK last \in Responses : Makes(last, c) /\ Begins[last] <= cursor + 1
      BY <1>5 DEF InOrder
    <3>2. PICK q \in Responses : Makes(q, d)
      <4>1. PICK i \in DOMAIN Script : Script[i].of \in Responses
                /\ Script[i].calls \cap Script[CommitAt[d]].answers # {}
        BY SessionOK
      <4>2. i \in Positions(Script[i].of, 1, Whole) BY ScriptType DEF Positions, Whole
      <4> QED BY <4>1, <4>2 DEF Makes, CallsOf
    <3>3. c \in Commits BY <1>1 DEF Jobs
    <3>4. CommitAt[d] \in Nat /\ CommitAt[c] \in Nat /\ Begins[q] \in Nat /\ Begins[last] \in Nat
      BY <3>3, BeginsFirst, ScriptOK, ScriptType
    <3>5. Begins[q] < CommitAt[c] BY <2>1, <3>2, <3>4, MakesFollows
    <3>6. Begins[q] <= Begins[last] BY <3>1, <3>3, <3>5, MakesFollows
    <3>7. Begins[q] <= cursor + 1
      <4>1. cursor \in Nat BY ScriptType DEF IngestIInv, IngestTypes, TypeOK
      <4> QED BY <3>1, <3>4, <3>6, <4>1
    <3>8. r \in DOMAIN recorded /\ links[r] = {} BY DEF Floating
    <3>9. Links(p, r, d) BY <1>5, <2>1, <3>2, <3>7, <3>8 DEF Completes
    <3> QED BY <3>8, <3>9 DEF Links
  <2> QED BY <1>2, <1>3, <1>5, <2>1 DEF InOrder
<1>9. \A q \in Runs : job'[q].at \notin {"plan", "batch"} /\ (Linking(q)' <=> q = p)
  BY <1>3, <1>4 DEF Linking
<1> QED BY <1>6, <1>7, <1>8, <1>9 DEF LinksInv

\* What is linked to the earliest commit of a run began before that one.
LEMMA ClaimedClaims ==
    ASSUME TypeOK, NEW p \in Runs, InOrder(p), job[p].at = "link", job[p].commits # {},
           NEW r \in Claimed(job[p].ids, Earliest(job[p].commits))
    PROVE  Claims(r, Earliest(job[p].commits))
<1> DEFINE c == Earliest(job[p].commits)
<1>1. job[p] \in Jobs BY DEF TypeOK, Jobs
<1>2. c \in job[p].commits /\ \A d \in job[p].commits : CommitAt[c] <= CommitAt[d]
  BY <1>1, EarliestIs DEF Jobs
<1>3. r \in job[p].ids /\ c \in Commits BY <1>1, <1>2 DEF Claimed, Jobs
<1>4. \A d \in Commits : CommitAt[d] \in Nat BY ScriptOK, ScriptType
<1> HIDE DEF c
<1>5. ASSUME NEW d \in Commits, Begins[r] < CommitAt[d] PROVE CommitAt[c] <= CommitAt[d]
  <2>1. CommitAt[d] < CommitAt[c] => d \in job[p].commits BY <1>2, <1>3, <1>5 DEF InOrder
  <2> QED BY <1>2, <1>3, <1>4, <2>1
<1> QED BY <1>5 DEF c, Claims

LEMMA CommitLinks ==
    ASSUME IngestIInv, Inside, LinksInv, NEW p \in Runs, LinkCommit(p), Orderly, Orderly'
    PROVE  LinksInv'
<1> DEFINE c == Earliest(job[p].commits)
           ids == Claimed(job[p].ids, c)
           rest == job[p].commits \ {c}
           failed == ~(ids \subseteq DOMAIN recorded)
           stage == IF failed \/ rest = {} THEN "done" ELSE "link"
<1>1. job[p] \in Jobs /\ job \in [Runs -> Jobs] /\ links \in [Responses -> SUBSET Commits]
  BY DEF IngestIInv, IngestTypes, TypeOK, Jobs
<1>2. /\ job' = [job EXCEPT ![p].at = stage, ![p].commits = rest, ![p].ids = @ \ ids]
      /\ Link(ids, c) /\ happened' = happened \cup CutOff(failed)
      /\ UNCHANGED <<recorded, cursor>> /\ At(p, "in") /\ job[p].at = "link"
  BY Zenon DEF LinkCommit, Step
<1>3. ~failed BY Zenon, <1>2 DEF CutOff, Orderly
<1>4. links' = [r \in Responses |-> IF r \in ids THEN links[r] \cup {c} ELSE links[r]]
  BY Zenon, <1>2, <1>3 DEF Link
<1>5. ids \subseteq job[p].ids BY DEF Claimed
<1>6. \A r \in job[p].ids : Begins[r] < CommitAt[c] => r \in ids BY DEF Claimed
<1>7. LinksClaim /\ Completes(p) /\ InOrder(p) BY Zenon, <1>2 DEF LinksInv, Linking
<1>8. c \in job[p].commits /\ c \in Commits
  BY Zenon, <1>1, <1>2, EarliestIs DEF IngestIInv, IngestTypes, Windows, Jobs
<1>9. \A r \in ids : Claims(r, c)
  BY Zenon, <1>2, <1>7, <1>8, ClaimedClaims DEF IngestIInv, IngestTypes
<1>10. \A q \in Runs \ {p} : job[q].at \notin {"plan", "batch", "floating", "link"}
  BY Zenon, <1>2, OthersWait DEF Orderly
<1> HIDE DEF c, ids
<1>11. /\ job'[p].at = (IF rest = {} THEN "done" ELSE "link") /\ job'[p].commits = rest
       /\ job'[p].ids = job[p].ids \ ids /\ \A q \in Runs \ {p} : job'[q] = job[q]
  <2> HIDE DEF rest, stage
  <2>1. /\ job'[p].at = stage /\ job'[p].commits = rest /\ job'[p].ids = job[p].ids \ ids
        /\ \A q \in Runs \ {p} : job'[q] = job[q]
    BY <1>1, <1>2 DEF Jobs
  <2> QED BY <1>3, <2>1 DEF stage
<1>12. job[p].ids \subseteq Responses BY <1>1 DEF Jobs
<1>13. LinksClaim'
  <2>1. ASSUME NEW r \in Responses, NEW d \in links'[r] PROVE Claims(r, d)
    BY <1>4, <1>7, <1>9, <2>1 DEF LinksClaim
  <2> QED BY <2>1 DEF LinksClaim, Claims
<1>14. ASSUME NEW r \in DOMAIN recorded, NEW d \in Commits, Links(p, r, d), Begins[r] < CommitAt[d]
       PROVE  links'[r] # {} \/ (d \in rest /\ r \in job[p].ids \ ids)
  <2>1. r \in Responses BY DEF IngestIInv, IngestTypes, TypeOK
  <2>2. CASE links[r] # {} BY <1>4, <2>1, <2>2
  <2>3. CASE r \in ids BY <1>4, <2>1, <2>3
  <2>4. CASE d \in job[p].commits /\ r \in job[p].ids /\ r \notin ids
    <3>1. d # c BY <1>6, <1>14, <2>4
    <3> QED BY <2>4, <3>1
  <2> QED BY Zenon, <1>2, <1>14, <2>2, <2>3, <2>4 DEF Links
<1>15. ASSUME NEW r \in DOMAIN recorded, NEW d \in Commits,
              \/ Makes(r, d)
              \/ \E q \in Responses :
                    Makes(q, d) /\ Begins[q] <= cursor + 1 /\ Begins[r] < CommitAt[d]
       PROVE  links'[r] # {} \/ (d \in rest /\ r \in job[p].ids \ ids)
  <2>1. r \in Responses BY DEF IngestIInv, IngestTypes, TypeOK
  <2>2. Links(p, r, d) BY <1>7, <1>15 DEF Completes
  <2>3. Begins[r] < CommitAt[d] BY <1>15, <2>1, MakesFollows
  <2> QED BY <1>14, <2>2, <2>3
<1> HIDE DEF rest
<1>16. \A q \in Runs : job'[q].at \notin {"plan", "batch"} /\ (Linking(q)' => q = p /\ rest # {})
  BY <1>10, <1>11 DEF Linking
<1>17. CASE rest = {}
  <2>1. LinkedTo(cursor + 1)' /\ MakersLinked' BY <1>2, <1>15, <1>17 DEF LinkedTo, MakersLinked
  <2> QED BY <1>13, <1>16, <1>17, <2>1 DEF LinksInv
<1>18. CASE rest # {}
  <2>1. Completes(p)'
    <3>1. \A r \in DOMAIN recorded, d \in Commits :
             links'[r] # {} \/ (d \in rest /\ r \in job[p].ids \ ids) => Links(p, r, d)'
      BY <1>11 DEF Links
    <3> QED BY Zenon, <1>2, <1>15, <3>1 DEF Completes
  <2>2. InOrder(p)'
    <3>1. rest \subseteq job[p].commits BY DEF rest
    <3>2. ASSUME NEW r \in job[p].ids \ ids, NEW e \in rest, NEW d \in Commits,
                 Begins[r] < CommitAt[d], CommitAt[d] < CommitAt[e]
          PROVE  d \in rest
      BY Zenon, <1>2, <1>6, <1>7, <3>1, <3>2 DEF InOrder, rest
    <3> QED BY Zenon, <1>2, <1>7, <1>11, <3>1, <3>2 DEF InOrder
  <2>3. Linking(p)' BY <1>11, <1>18 DEF Linking
  <2> QED BY <1>13, <1>16, <2>1, <2>2, <2>3 DEF LinksInv
<1> QED BY <1>17, <1>18

\* A run reads the cursor when no run is at its links, so that all is linked
\* up to where it starts.
LEMMA CursorLinked ==
    ASSUME IngestIInv, Inside, LinksInv, NEW p \in Runs, Orderly, ReadCursor(p)
    PROVE  LinkedTo(1) /\ LinkedTo(cursor + 1)
<1>1. At(p, "in") /\ job[p].at = "read" BY DEF ReadCursor, Step
<1>2. \A q \in Runs : ~Linking(q) BY <1>1, OthersWait DEF Orderly, Linking
<1>3. LinkedTo(cursor + 1) BY <1>2 DEF LinksInv
<1>4. cursor \in Nat /\ \A q \in Responses : Begins[q] \in Nat
  BY BeginsFirst, ScriptType DEF IngestIInv, IngestTypes, TypeOK
<1>5. \A q \in Responses : Begins[q] <= 1 => Begins[q] <= cursor + 1 BY <1>4
<1> QED BY <1>3, <1>5 DEF LinkedTo

LEMMA LinksStep == CommitsIInv /\ [Next]_vars => LinksInv'
<1> SUFFICES ASSUME CommitsIInv, [Next]_vars PROVE LinksInv' OBVIOUS
<1>0. /\ IngestIInv /\ Inside /\ HookClaims /\ LinksInv /\ TypeOK
      /\ job \in [Runs -> Jobs] /\ links \in [Responses -> SUBSET Commits]
      /\ DOMAIN recorded \subseteq Responses
  BY DEF CommitsIInv, IngestIInv, IngestTypes, TypeOK, Jobs
<1>1. Orderly' => Orderly BY OrderlyWas
<1>2. SUFFICES ASSUME Orderly, Orderly' PROVE LinksInv' BY <1>1 DEF LinksInv
<1>3. LinksClaim BY <1>0, <1>2 DEF LinksInv
<1>4. CASE UNCHANGED <<job, cursor, links, recorded>>
  <2>1. LinksClaim' BY <1>3, <1>4 DEF LinksClaim
  <2> QED BY <1>0, <1>1, <1>4, <2>1, LinksGrow
<1>5. ASSUME NEW r \in Responses, DeleteLocal(r) \/ Withdraw(r) PROVE LinksInv'
  <2>1. /\ links' = [links EXCEPT ![r] = {}] /\ recorded' = Without(r)
        /\ UNCHANGED <<job, cursor>>
    BY <1>5 DEF DeleteLocal, Withdraw, TakeAway
  <2>2. DOMAIN recorded' = DOMAIN recorded \ {r} BY <2>1 DEF Without
  <2>3. \A x \in DOMAIN recorded' : links'[x] = links[x] BY <1>0, <2>1, <2>2
  <2>4. LinksClaim' BY <1>0, <1>3, <2>1 DEF LinksClaim
  <2> QED BY <1>0, <1>1, <2>1, <2>2, <2>3, <2>4, LinksGrow
<1>6. ASSUME NEW c \in Commits, HookLinks(c) PROVE LinksInv'
  <2>1. hook.of = c /\ Link(hook.ids, c) /\ UNCHANGED <<job, cursor, recorded>>
    BY <1>6 DEF HookLinks
  <2>2. \A r \in Responses : \/ links'[r] = links[r]
                             \/ r \in hook.ids /\ links'[r] = links[r] \cup {c}
    BY <1>0, <2>1 DEF Link
  <2>3. \A r \in hook.ids : Claims(r, c) BY <1>0, <2>1 DEF HookClaims
  <2>4. ASSUME NEW r \in Responses, NEW d \in links'[r] PROVE Claims(r, d)
    BY <1>3, <2>2, <2>3, <2>4 DEF LinksClaim
  <2>5. LinksClaim' BY <2>4 DEF LinksClaim, Claims
  <2>6. \A r \in DOMAIN recorded' : links[r] # {} => links'[r] # {} BY <1>0, <2>1, <2>2
  <2> QED BY <1>0, <1>1, <2>1, <2>5, <2>6, LinksGrow
<1>7. ASSUME NEW p \in Runs,
             \/ TakeLock(p) \/ ReadCursor(p) \/ ReadTranscript(p) \/ Leave(p) \/ End(p)
             \/ Busy(p) \/ Kill(p) \/ \E final \in BOOLEAN : Start(p, final)
      PROVE  LinksInv'
  <2>1. UNCHANGED <<links, recorded, cursor>>
    BY Zenon, <1>7
       DEF TakeLock, ReadCursor, ReadTranscript, Leave, End, Busy, Kill, Start, storeVars
  <2>2. Outcome(p) /\ \A q \in Runs \ {p} : job'[q] = job[q]
    BY <1>0, <1>7, RunStep, JobStep DEF Steps, IngestIInv, IngestTypes
  <2>3. ~Linking(p)
    <3>1. CASE TakeLock(p) \/ End(p) \/ \E final \in BOOLEAN : Start(p, final)
      <4>1. ~At(p, "in")
        BY Zenon, <3>1
           DEF TakeLock, Acquiring, Open, Lock, GoWithout, Check, GiveUp, End, Unlock, Start,
               Acquire, At
      <4> QED BY <1>0, <4>1 DEF Inside, Linking
    <3>2. CASE ReadCursor(p) \/ ReadTranscript(p) \/ Leave(p)
      BY <3>2 DEF ReadCursor, ReadTranscript, Leave, Step, Linking
    <3>3. CASE Busy(p) \/ Kill(p)
      <4>1. \/ happened' = happened \cup CutOff(Linking(p))
            \/ happened' = happened \cup {"busy"} \cup CutOff(Linking(p))
        BY <3>3 DEF Busy, Kill
      <4> QED BY <1>2, <4>1 DEF CutOff, Orderly
    <3> QED BY <1>7, <3>1, <3>2, <3>3
  <2>4. /\ job'[p].at \notin {"floating", "link"}
        /\ job'[p].at \in {"plan", "batch"} => LinkedTo(job'[p].from)
    <3>1. CASE ReadCursor(p)
      <4> DEFINE from == IF cursor > written THEN 1 ELSE cursor + 1
      <4>1. job' = [job EXCEPT ![p].at = "plan", ![p].from = from] BY <3>1 DEF ReadCursor
      <4>2. job'[p].at = "plan" /\ job'[p].from = from BY <1>0, <4>1 DEF Jobs
      <4>3. LinkedTo(1) /\ LinkedTo(cursor + 1) BY <1>0, <1>2, <3>1, CursorLinked
      <4> QED BY <4>2, <4>3
    <3>2. CASE ReadTranscript(p)
      <4> DEFINE captures == {r \in Planned(job[p].from, written, job[p].final) : ~Exists(r)}
      <4>1. job' = [job EXCEPT ![p].at = "batch", ![p].upto = written, ![p].captures = captures]
            /\ job[p].at = "plan"
        BY <3>2 DEF ReadTranscript, Step
      <4> HIDE DEF captures
      <4>2. job'[p].at = "batch" /\ job'[p].from = job[p].from BY <1>0, <4>1 DEF Jobs
      <4>3. LinkedTo(job[p].from) BY <1>0, <1>2, <4>1 DEF LinksInv
      <4> QED BY <4>2, <4>3
    <3>3. CASE job' = job \/ job'[p] = IdleJob
      <4>1. job[p].at \in {"plan", "batch"} => LinkedTo(job[p].from) BY <1>0, <1>2 DEF LinksInv
      <4> QED BY <2>3, <3>3, <4>1 DEF IdleJob, Linking
    <3>4. CASE TakeLock(p) \/ End(p) \/ Kill(p) \/ Leave(p)
      <4>1. job' = job \/ job' = [job EXCEPT ![p] = IdleJob]
        BY <3>4 DEF TakeLock, End, Kill, Leave
      <4> QED BY <1>0, <3>3, <4>1
    <3>5. CASE Busy(p)
      <4>1. job' = [job EXCEPT ![p].at = "done"] BY <3>5 DEF Busy, Goes
      <4>2. job'[p].at = "done" BY <1>0, <4>1 DEF Jobs
      <4> QED BY <4>2
    <3>6. ASSUME NEW final \in BOOLEAN, Start(p, final) PROVE job'[p].at = "read"
      <4>1. job' = [job EXCEPT ![p] = [IdleJob EXCEPT !.at = "read", !.final = final]]
        BY <3>6 DEF Start
      <4> QED BY <1>0, <4>1 DEF IdleJob
    <3> QED BY <1>7, <3>1, <3>2, <3>4, <3>5, <3>6
  <2>5. \A n : LinkedTo(n) => LinkedTo(n)' BY <2>1 DEF LinkedTo
  <2>6. job'[p].at \in {"plan", "batch"} => LinkedTo(job[p].from)' BY <2>1, <2>4 DEF LinkedTo
  <2>7. ~Linking(p)' BY <2>4 DEF Linking
  <2> QED BY <1>0, <1>1, <2>1, <2>2, <2>3, <2>6, <2>7, LinksElsewhere
<1>8. ASSUME NEW p \in Runs, Batch(p) \/ ReadFloating(p) \/ LinkCommit(p) PROVE LinksInv'
  BY <1>0, <1>2, <1>8, BatchLinks, FloatingLinks, CommitLinks
<1>9. ASSUME \/ Write \/ UNCHANGED vars \/ \E n \in 0 .. Len(Script) : CutShort(n)
             \/ \E c \in Commits, ids \in SUBSET Responses : HookReads(c, ids)
      PROVE  UNCHANGED <<job, cursor, links, recorded>>
  BY <1>9 DEF Write, CutShort, HookReads, vars, storeVars
<1> QED BY <1>4, <1>5, <1>6, <1>7, <1>8, <1>9 DEF Next, Steps, HookSteps

LEMMA InitCommits == Init => CommitsIInv
<1> SUFFICES ASSUME Init PROVE CommitsIInv OBVIOUS
<1>1. \A p \in Runs : job[p].at = "idle" BY DEF Init, IdleJob
<1>2. hook.ids = {} /\ DOMAIN recorded = {} /\ \A r \in Responses : links[r] = {}
  BY DEF Init, NoHook
<1>3. Inside /\ HookClaims BY <1>1, <1>2 DEF Inside, HookClaims
<1>4. LinksInv
  BY <1>1, <1>2 DEF LinksInv, LinksClaim, Linking, LinkedTo, MakersLinked
<1> QED BY <1>3, <1>4, InitIngest DEF CommitsIInv

LEMMA CommitsInvariant == Spec => []CommitsIInv
<1>1. CommitsIInv /\ [Next]_vars => CommitsIInv'
  BY NextIngest, InsideStep, HookClaimsStep, LinksStep DEF CommitsIInv, IngestIInv, IngestTypes
<1> QED BY <1>1, InitCommits, PTL DEF Spec

\* Each commit claims only the reasoning since the one before, and what made a
\* commit is linked as soon as no run is at its links, unless a run was cut off
\* between its batch and its links.
THEOREM CommitsAreLinked == Spec => []CommitsLinked
<1>1. CommitsIInv => CommitsLinked
  <2> SUFFICES ASSUME CommitsIInv, Orderly PROVE CommitsLinked
    BY DEF CommitsLinked, Orderly
  <2>1. /\ LinksClaim /\ ((\A p \in Runs : ~Linking(p)) => MakersLinked)
        /\ DOMAIN recorded \subseteq Responses
    BY DEF CommitsIInv, LinksInv, IngestIInv, IngestTypes, TypeOK
  <2>2. (\A p \in Runs : ~Linking(p)) =>
           \A r \in DOMAIN recorded, c \in Commits :
               WholeAnswered[r] \cap Script[CommitAt[c]].answers # {} => links[r] # {}
    BY <2>1, AnsweredMakes DEF MakersLinked
  <2> QED BY <2>1, <2>2 DEF LinksClaim, Claims, CommitsLinked
<1> QED BY <1>1, CommitsInvariant, PTL
=============================================================================
