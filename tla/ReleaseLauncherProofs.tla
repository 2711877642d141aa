----------------------- MODULE ReleaseLauncherProofs ------------------------
(***************************************************************************)
(* What is proved of ReleaseLauncher, for any number of launches and       *)
(* installations, any releases and any first state.                        *)
(*                                                                         *)
(* Exclusion rests on the lock directory itself: a process that holds the  *)
(* lock made the directory that is there.  It takes a process about to     *)
(* remove the directory to break that, and each of those either made it or *)
(* has just removed the only record in it, which was of a dead launch: the *)
(* directory stays that dead launch's until the one that emptied it        *)
(* removes it.  The rest follows from who may move files, and in what      *)
(* order.                                                                  *)
(***************************************************************************)
EXTENDS ReleaseLauncher, TLAPS

Crossed == "crossed" \in past

\* The launch has put its record into the lock.
Labelled(p) == p \in Launchers /\ (Publishing(p) \/ At(p, "release"))
\* The process made the lock and nothing is in it.
HoldsEmpty(p) ==
    \/ p \in Launchers /\ (At(p, "label") \/ At(p, "free"))
    \/ p \in Installers /\ (At(p, "stage") \/ At(p, "move"))

\* Only launches use the cache, the lock's records and the second half of a job;
\* what was killed does nothing more.
KilledAreDone == \A p \in killed \cap Launchers : At(p, "done")
InstallersOnly ==
    \A i \in Installers : at[i] \in {"take", "stage", "move", "release", "done"}
\* Files are moved in once, one after the other.
MovedOnce ==
    \A p \in Processes :
        /\ at[p] \notin {"move", "verify", "release", "free", "run", "done"} => moved[p] = 0
        /\ At(p, "move") => moved[p] < 3
        /\ At(p, "verify") => moved[p] = 3
\* What a launch is about to break is of a dead one.
JudgedIsDead ==
    \A p \in Launchers :
        at[p] \in {"claim", "unlink"} => Whose(judged[p]) \in killed \cap Launchers

Whereabouts == TypeOK /\ KilledAreDone /\ InstallersOnly /\ MovedOnce /\ JudgedIsDead

\* The records in the lock are one, of the process that made it.
OneRecord ==
    /\ maker = None => entries = {}
    /\ \A record \in entries : Whose(record) = maker /\ maker \in Launchers
    /\ \A record, other \in entries : record = other
LabelledIsThere == \A p \in Launchers : Labelled(p) => maker = p /\ entries = {OwnRecord(p)}
EmptyIsThere == \A p \in Processes : HoldsEmpty(p) => maker = p /\ entries = {}
\* A launch that has emptied the lock of a dead one is the only one to.
BrokenByOne ==
    \A p \in Launchers : At(p, "rmdir") =>
        /\ maker \in killed \cap Launchers
        /\ entries = {}
        /\ \A q \in Launchers : At(q, "rmdir") => q = p

LockInv == OneRecord /\ LabelledIsThere /\ EmptyIsThere /\ BrokenByOne
LockIInv == Whereabouts /\ (~Crossed => LockInv)

\* What a launch under the lock has seen is there, and what it is about to replace
\* is no newer than its own.
SeenUnderLock ==
    \A p \in Launchers : At(p, "probe") /\ turn[p] = "locked" =>
        seen[p] = {f \in Files : stable[f] # 0}
NoneNewer ==
    \A p \in Launchers : at[p] \in {"stage", "move"} => stable["cvc"] <= Release[p]
DecideIInv == ~Crossed => SeenUnderLock /\ NoneNewer

\* Of a release that is put in, the first files are there.
PutInOrder ==
    \A p \in Processes : at[p] \in {"move", "verify"} =>
        \A k \in 1..moved[p] : stable[PublishOrder[k]] = Release[p]
\* cvc is never newer than the others, and no file goes.
CvcLast == \A f \in Files : stable[f] # 0 => stable[f] >= stable["cvc"]
SeenStays == \A p \in Launchers : \A f \in seen[p] : stable[f] # 0
PathIsNew ==
    \A p \in Launchers : path[p] = "stable" =>
        stable["cvc"] >= Release[p] /\ stable[Want[p]] # 0
Versions == PutInOrder /\ CvcLast /\ SeenStays /\ PathIsNew /\ RunsAtLeastPackage
VersionIInv == past = {} => Versions

-----------------------------------------------------------------------------
(* Types                                                                   *)

LEMMA InitTypeOK == Init => TypeOK
<1> SUFFICES ASSUME Init PROVE TypeOK OBVIOUS
<1> USE ReleaseAssumption, FirstAssumption, BoundsAssumption DEF Init
<1>1. OwnRecord(None) \in Records /\ \A p \in Launchers : OwnRecord(p) \in Records
    BY DEF OwnRecord, Records, Names, Processes
<1>2. at \in [Processes -> Places] BY DEF FirstStep, Places
<1>3. entries \subseteq Records BY <1>1
<1>4. maker \in Processes \cup {None} /\ killed \subseteq Processes BY DEF Processes
<1>5. stable \in [Files -> Nat] OBVIOUS
<1>6. judged \in [Launchers -> Records] BY <1>1
<1>7. turn \in [Launchers -> Turns] BY DEF Turns
<1>8. cached \in [{Release[p] : p \in Launchers} -> CacheState] OBVIOUS
<1> QED BY <1>2, <1>3, <1>4, <1>5, <1>6, <1>7, <1>8 DEF TypeOK

\* The records that launches write are records.
LEMMA RecordsAre ==
    ASSUME TypeOK, NEW p \in Launchers
    PROVE  OwnRecord(p) \in Records /\ Renamed(p) \in Records
BY DEF TypeOK, OwnRecord, Renamed, Name, Whose, Records, Names, Processes, Turns

\* Every step of one launch but those that put files in keeps the types.
LEMMA LaunchTypeOK ==
    ASSUME TypeOK, NEW p \in Launchers,
           Launch(p), ~PutIn(p)
    PROVE  TypeOK'
<1> USE ReleaseAssumption, BoundsAssumption
    DEF TypeOK, Places, Turns, Goto, files, lock, plan, world
<1>0. p \in Processes BY DEF Processes
<1>1. CASE Inspect(p) BY <1>0, <1>1 DEF Inspect, SetSeen
<1>2. CASE KeepStable(p) BY <1>0, <1>2 DEF KeepStable, SetPath, Leave
<1>3. CASE KeepWithout(p) BY <1>0, <1>3 DEF KeepWithout, Leave
<1>4. CASE NeedCache(p) BY <1>0, <1>4 DEF NeedCache
<1>5. CASE Publish(p) BY <1>0, <1>5 DEF Publish, SetTries
<1>6. CASE Blocked(p) BY <1>0, <1>6 DEF Blocked, Upset, Leave
<1>7. CASE UseCache(p) BY <1>0, <1>7 DEF UseCache, SecondLook, SetTurn
<1>8. CASE ClearCache(p) BY <1>0, <1>8 DEF ClearCache, CacheState
<1>9. CASE Download(p) BY <1>0, <1>9 DEF Download, SecondLook, SetTurn, CacheState
<1>10. CASE DownloadFails(p) BY <1>0, <1>10 DEF DownloadFails, Upset
<1>11. CASE Take(p) BY <1>0, <1>11 DEF Take
<1>12. CASE Label(p) BY <1>0, <1>12, RecordsAre DEF Label, SetTurn, RunCache
<1>13. CASE LabelFails(p) BY <1>0, <1>13 DEF LabelFails, Upset, RemoveIfEmpty, RunCache
<1>14. CASE FindGone(p) BY <1>0, <1>14 DEF FindGone, RunCache, Again, SetTries
<1>15. CASE FindDead(p) BY <1>0, <1>15 DEF FindDead, SetJudged, Held
<1>16. CASE FindHeld(p) BY <1>0, <1>16 DEF FindHeld
<1>17. CASE Claim(p) BY <1>0, <1>17, RecordsAre DEF Claim, Again, SetTries
<1>18. CASE Unlink(p) BY <1>0, <1>18 DEF Unlink, Again, SetTries, Claimed
<1>19. CASE RemoveBroken(p) BY <1>0, <1>19 DEF RemoveBroken, RemoveIfEmpty, RunCache, Again, SetTries
<1>20. CASE StopWaiting(p) BY <1>0, <1>20 DEF StopWaiting, SetTurn
<1>21. CASE TimeUp(p) BY <1>0, <1>21 DEF TimeUp, RunCache
<1>22. CASE ReleaseRecord(p) BY <1>0, <1>22 DEF ReleaseRecord
<1>23. CASE Free(p) BY <1>0, <1>23 DEF Free, RemoveIfEmpty
<1>24. CASE Run(p) BY <1>0, <1>24 DEF Run
<1> QED BY <1>1, <1>2, <1>3, <1>4, <1>5, <1>6, <1>7, <1>8, <1>9, <1>10, <1>11, <1>12, <1>13, <1>14, <1>15, <1>16, <1>17, <1>18, <1>19, <1>20, <1>21, <1>22, <1>23, <1>24
       DEF Launch, Decide, Fetch, Acquire, Break, Wait

\* So do the steps that put files in, which installations take too, and the rest of
\* an installation.
LEMMA PutInTypeOK ==
    ASSUME TypeOK, MovedOnce, NEW p \in Processes, PutIn(p), p \in Installers => ~Verify(p)
    PROVE  TypeOK'
<1> USE ReleaseAssumption, BoundsAssumption
    DEF TypeOK, Places, Goto, files, lock, plan, world
<1>1. CASE Stage(p) BY <1>1 DEF Stage
<1>2. CASE Move(p)
  <2>1. moved[p] \in 0..2 BY <1>2 DEF Move, At, MovedOnce
  <2>2. moved' \in [Processes -> 0..3] BY <1>2, <2>1 DEF Move, SetMoved
  <2>3. Release[p] \in Nat OBVIOUS
  <2>4. at' \in [Processes -> Places] BY <1>2 DEF Move, AllMoved
  <2>5. stable' \in [Files -> Nat] BY <1>2, <2>3 DEF Move
  <2> QED BY <1>2, <2>2, <2>4, <2>5 DEF Move, SetMoved
<1>3. CASE StageOrMoveFails(p) BY <1>3 DEF StageOrMoveFails, Upset
<1>4. CASE Verify(p)
  <2>1. p \in Launchers BY <1>4 DEF Processes
  <2> QED BY <1>4, <2>1 DEF Verify, SetPath
<1> QED BY <1>1, <1>2, <1>3, <1>4 DEF PutIn

LEMMA OthersTypeOK ==
    ASSUME TypeOK, NEW p \in Processes,
           \/ Kill(p)
           \/ p \in Installers /\ (TakeOrRefuse(p) \/ InstallerReleases(p) \/ Signal(p))
    PROVE  TypeOK'
<1> USE BoundsAssumption
    DEF TypeOK, Places, Goto, files, lock, plan, world, CleanUp, RemoveIfEmpty, UpsetOf
<1>1. CASE Kill(p) BY <1>1 DEF Kill
<1>2. CASE TakeOrRefuse(p) BY <1>2 DEF TakeOrRefuse
<1>3. CASE InstallerReleases(p) BY <1>3 DEF InstallerReleases
<1>4. CASE Signal(p) BY <1>4 DEF Signal
<1> QED BY <1>1, <1>2, <1>3, <1>4

\* No installation asks the version of cvc.
LEMMA NoVerify ==
    ASSUME InstallersOnly, NEW i \in Installers
    PROVE  ~Verify(i)
BY DEF InstallersOnly, Verify, At

LEMMA NextTypeOK ==
    ASSUME TypeOK, MovedOnce, InstallersOnly, [Next]_vars
    PROVE  TypeOK'
<1>1. CASE UNCHANGED vars BY <1>1 DEF vars, files, lock, plan, world, TypeOK
<1>2. ASSUME NEW p \in Launchers, Launch(p) PROVE TypeOK'
  <2>1. p \in Processes /\ p \notin Installers BY ReleaseAssumption DEF Processes
  <2> QED BY <1>2, <2>1, PutInTypeOK, LaunchTypeOK
<1>3. ASSUME NEW i \in Installers, Install(i) \/ Signal(i) PROVE TypeOK'
  <2>1. i \in Processes BY DEF Processes
  <2> QED BY <1>3, <2>1, PutInTypeOK, OthersTypeOK, NoVerify DEF Install
<1>4. ASSUME NEW p \in Processes, Kill(p) PROVE TypeOK'
    BY <1>4, OthersTypeOK
<1> QED BY <1>1, <1>2, <1>3, <1>4 DEF Next
-----------------------------------------------------------------------------
(* Where processes are                                                     *)

LEMMA InitWhereabouts == Init => Whereabouts
<1> SUFFICES ASSUME Init PROVE Whereabouts OBVIOUS
<1>1. TypeOK BY InitTypeOK
<1>2. \A p \in Processes : at[p] = FirstStep(p) /\ moved[p] = 0 BY DEF Init
<1>3. KilledAreDone BY <1>2 DEF Init, KilledAreDone, At, FirstStep, Processes
<1>4. InstallersOnly
    BY <1>2, ReleaseAssumption, FirstAssumption DEF InstallersOnly, FirstStep, Processes
<1>5. MovedOnce BY <1>2 DEF MovedOnce, At, FirstStep
<1>6. JudgedIsDead BY <1>2 DEF JudgedIsDead, FirstStep, Processes
<1> QED BY <1>1, <1>3, <1>4, <1>5, <1>6 DEF Whereabouts

\* A step of a launch leaves alone who was killed and the other processes.
LEMMA LaunchFrame ==
    ASSUME TypeOK, NEW p \in Launchers, Launch(p)
    PROVE  /\ killed' = killed /\ at[p] # "done"
           /\ \A q \in Processes : q # p => at'[q] = at[q] /\ moved'[q] = moved[q]
           /\ \A q \in Launchers : q # p => /\ turn'[q] = turn[q] /\ seen'[q] = seen[q]
                                           /\ judged'[q] = judged[q] /\ path'[q] = path[q]
<1> USE DEF TypeOK, At, Goto, files, lock, plan, world
<1>0. p \in Processes BY DEF Processes
<1>1. CASE Inspect(p) BY <1>0, <1>1 DEF Inspect, SetSeen
<1>2. CASE KeepStable(p) BY <1>0, <1>2 DEF KeepStable, SetPath, Leave
<1>3. CASE KeepWithout(p) BY <1>0, <1>3 DEF KeepWithout, Leave
<1>4. CASE NeedCache(p) BY <1>0, <1>4 DEF NeedCache
<1>5. CASE Publish(p) BY <1>0, <1>5 DEF Publish, SetTries
<1>6. CASE Blocked(p) BY <1>0, <1>6 DEF Blocked, Upset, Leave
<1>7. CASE UseCache(p) BY <1>0, <1>7 DEF UseCache, SecondLook, SetTurn
<1>8. CASE ClearCache(p) BY <1>0, <1>8 DEF ClearCache, CacheState
<1>9. CASE Download(p) BY <1>0, <1>9 DEF Download, SecondLook, SetTurn, CacheState
<1>10. CASE DownloadFails(p) BY <1>0, <1>10 DEF DownloadFails, Upset
<1>11. CASE Take(p) BY <1>0, <1>11 DEF Take
<1>12. CASE Label(p) BY <1>0, <1>12 DEF Label, SetTurn, RunCache
<1>13. CASE LabelFails(p) BY <1>0, <1>13 DEF LabelFails, Upset, RemoveIfEmpty, RunCache
<1>14. CASE FindGone(p) BY <1>0, <1>14 DEF FindGone, RunCache, Again, SetTries
<1>15. CASE FindDead(p) BY <1>0, <1>15 DEF FindDead, SetJudged, Held
<1>16. CASE FindHeld(p) BY <1>0, <1>16 DEF FindHeld
<1>17. CASE Claim(p) BY <1>0, <1>17 DEF Claim, Again, SetTries
<1>18. CASE Unlink(p) BY <1>0, <1>18 DEF Unlink, Again, SetTries, Claimed
<1>19. CASE RemoveBroken(p) BY <1>0, <1>19 DEF RemoveBroken, RemoveIfEmpty, RunCache, Again, SetTries
<1>20. CASE StopWaiting(p) BY <1>0, <1>20 DEF StopWaiting, SetTurn
<1>21. CASE TimeUp(p) BY <1>0, <1>21 DEF TimeUp, RunCache, TimeIsUp
<1>22. CASE ReleaseRecord(p) BY <1>0, <1>22 DEF ReleaseRecord
<1>23. CASE Free(p) BY <1>0, <1>23 DEF Free, RemoveIfEmpty
<1>24. CASE Run(p) BY <1>0, <1>24 DEF Run
<1>25. CASE Stage(p) BY <1>0, <1>25 DEF Stage
<1>26. CASE Move(p) BY <1>0, <1>26 DEF Move, SetMoved, AllMoved
<1>27. CASE StageOrMoveFails(p) BY <1>0, <1>27 DEF StageOrMoveFails, Upset
<1>28. CASE Verify(p) BY <1>0, <1>28 DEF Verify, SetPath
<1> QED BY <1>1, <1>2, <1>3, <1>4, <1>5, <1>6, <1>7, <1>8, <1>9, <1>10, <1>11, <1>12, <1>13, <1>14, <1>15, <1>16, <1>17, <1>18, <1>19, <1>20, <1>21, <1>22, <1>23, <1>24, <1>25, <1>26, <1>27, <1>28
       DEF Launch, Decide, Fetch, Acquire, Break, Wait, PutIn

\* What a launch judged, and what it has moved in, as it goes on.
LEMMA LaunchMovedOnce ==
    ASSUME TypeOK, MovedOnce, NEW p \in Launchers, Launch(p)
    PROVE  /\ at'[p] \notin {"move", "verify", "release", "free", "run", "done"} => moved'[p] = 0
           /\ at'[p] = "move" => moved'[p] < 3
           /\ at'[p] = "verify" => moved'[p] = 3
<1> USE DEF TypeOK, MovedOnce, At, Goto, files, lock, plan, world
<1>0. p \in Processes /\ p \notin Installers BY ReleaseAssumption DEF Processes
<1>1. CASE Inspect(p) BY <1>0, <1>1 DEF Inspect, SetSeen
<1>2. CASE KeepStable(p) BY <1>0, <1>2 DEF KeepStable, SetPath, Leave
<1>3. CASE KeepWithout(p) BY <1>0, <1>3 DEF KeepWithout, Leave
<1>4. CASE NeedCache(p) BY <1>0, <1>4 DEF NeedCache
<1>5. CASE Publish(p) BY <1>0, <1>5 DEF Publish, SetTries
<1>6. CASE Blocked(p) BY <1>0, <1>6 DEF Blocked, Upset, Leave
<1>7. CASE UseCache(p) BY <1>0, <1>7 DEF UseCache, SecondLook, SetTurn
<1>8. CASE ClearCache(p) BY <1>0, <1>8 DEF ClearCache, CacheState
<1>9. CASE Download(p) BY <1>0, <1>9 DEF Download, SecondLook, SetTurn, CacheState
<1>10. CASE DownloadFails(p) BY <1>0, <1>10 DEF DownloadFails, Upset
<1>11. CASE Take(p) BY <1>0, <1>11 DEF Take
<1>12. CASE Label(p) BY <1>0, <1>12 DEF Label, SetTurn, RunCache
<1>13. CASE LabelFails(p) BY <1>0, <1>13 DEF LabelFails, Upset, RemoveIfEmpty, RunCache
<1>14. CASE FindGone(p) BY <1>0, <1>14 DEF FindGone, RunCache, Again, SetTries
<1>15. CASE FindDead(p) BY <1>0, <1>15 DEF FindDead, SetJudged, Held
<1>16. CASE FindHeld(p) BY <1>0, <1>16 DEF FindHeld
<1>17. CASE Claim(p) BY <1>0, <1>17 DEF Claim, Again, SetTries
<1>18. CASE Unlink(p) BY <1>0, <1>18 DEF Unlink, Again, SetTries, Claimed
<1>19. CASE RemoveBroken(p) BY <1>0, <1>19 DEF RemoveBroken, RemoveIfEmpty, RunCache, Again, SetTries
<1>20. CASE StopWaiting(p) BY <1>0, <1>20 DEF StopWaiting, SetTurn
<1>21. CASE TimeUp(p) BY <1>0, <1>21 DEF TimeUp, RunCache, TimeIsUp
<1>22. CASE ReleaseRecord(p) BY <1>0, <1>22 DEF ReleaseRecord
<1>23. CASE Free(p) BY <1>0, <1>23 DEF Free, RemoveIfEmpty
<1>24. CASE Run(p) BY <1>0, <1>24 DEF Run
<1>25. CASE Stage(p) BY <1>0, <1>25 DEF Stage
<1>26. CASE Move(p) BY <1>0, <1>26 DEF Move, SetMoved, AllMoved
<1>27. CASE StageOrMoveFails(p) BY <1>0, <1>27 DEF StageOrMoveFails, Upset
<1>28. CASE Verify(p) BY <1>0, <1>28 DEF Verify, SetPath
<1> QED BY <1>1, <1>2, <1>3, <1>4, <1>5, <1>6, <1>7, <1>8, <1>9, <1>10, <1>11, <1>12, <1>13, <1>14, <1>15, <1>16, <1>17, <1>18, <1>19, <1>20, <1>21, <1>22, <1>23, <1>24, <1>25, <1>26, <1>27, <1>28
       DEF Launch, Decide, Fetch, Acquire, Break, Wait, PutIn

LEMMA LaunchJudged ==
    ASSUME Whereabouts, NEW p \in Launchers, Launch(p)
    PROVE  at'[p] \in {"claim", "unlink"} => Whose(judged'[p]) \in killed \cap Launchers
<1> USE DEF Whereabouts, TypeOK, JudgedIsDead, At, Goto, files, lock, plan, world
<1>0. p \in Processes /\ p \notin Installers BY ReleaseAssumption DEF Processes
<1>1. CASE Inspect(p) BY <1>0, <1>1 DEF Inspect, SetSeen
<1>2. CASE KeepStable(p) BY <1>0, <1>2 DEF KeepStable, SetPath, Leave
<1>3. CASE KeepWithout(p) BY <1>0, <1>3 DEF KeepWithout, Leave
<1>4. CASE NeedCache(p) BY <1>0, <1>4 DEF NeedCache
<1>5. CASE Publish(p) BY <1>0, <1>5 DEF Publish, SetTries
<1>6. CASE Blocked(p) BY <1>0, <1>6 DEF Blocked, Upset, Leave
<1>7. CASE UseCache(p) BY <1>0, <1>7 DEF UseCache, SecondLook, SetTurn
<1>8. CASE ClearCache(p) BY <1>0, <1>8 DEF ClearCache, CacheState
<1>9. CASE Download(p) BY <1>0, <1>9 DEF Download, SecondLook, SetTurn, CacheState
<1>10. CASE DownloadFails(p) BY <1>0, <1>10 DEF DownloadFails, Upset
<1>11. CASE Take(p) BY <1>0, <1>11 DEF Take
<1>12. CASE Label(p) BY <1>0, <1>12 DEF Label, SetTurn, RunCache
<1>13. CASE LabelFails(p) BY <1>0, <1>13 DEF LabelFails, Upset, RemoveIfEmpty, RunCache
<1>14. CASE FindGone(p) BY <1>0, <1>14 DEF FindGone, RunCache, Again, SetTries
<1>15. CASE FindDead(p)
  <2>1. PICK record \in entries : "dead" \in Judge(p, record) /\ SetJudged(p, record)
      BY <1>15 DEF FindDead, Held
  <2>2. Whose(record) \in killed BY <2>1 DEF Judge
  <2>3. Whose(record) \in Launchers \cup {None} BY DEF Records, Whose
  <2>4. Whose(record) \in Launchers BY <2>2, <2>3, ReleaseAssumption
  <2>5. judged'[p] = record BY <2>1 DEF SetJudged
  <2> QED BY <2>2, <2>4, <2>5
<1>16. CASE FindHeld(p) BY <1>0, <1>16 DEF FindHeld
<1>17. CASE Claim(p) BY <1>0, <1>17 DEF Claim, Again, SetTries
<1>18. CASE Unlink(p) BY <1>0, <1>18 DEF Unlink, Again, SetTries, Claimed
<1>19. CASE RemoveBroken(p) BY <1>0, <1>19 DEF RemoveBroken, RemoveIfEmpty, RunCache, Again, SetTries
<1>20. CASE StopWaiting(p) BY <1>0, <1>20 DEF StopWaiting, SetTurn
<1>21. CASE TimeUp(p) BY <1>0, <1>21 DEF TimeUp, RunCache, TimeIsUp
<1>22. CASE ReleaseRecord(p) BY <1>0, <1>22 DEF ReleaseRecord
<1>23. CASE Free(p) BY <1>0, <1>23 DEF Free, RemoveIfEmpty
<1>24. CASE Run(p) BY <1>0, <1>24 DEF Run
<1>25. CASE Stage(p) BY <1>0, <1>25 DEF Stage
<1>26. CASE Move(p) BY <1>0, <1>26 DEF Move, SetMoved, AllMoved
<1>27. CASE StageOrMoveFails(p) BY <1>0, <1>27 DEF StageOrMoveFails, Upset
<1>28. CASE Verify(p) BY <1>0, <1>28 DEF Verify, SetPath
<1> QED BY <1>1, <1>2, <1>3, <1>4, <1>5, <1>6, <1>7, <1>8, <1>9, <1>10, <1>11, <1>12, <1>13, <1>14, <1>15, <1>16, <1>17, <1>18, <1>19, <1>20, <1>21, <1>22, <1>23, <1>24, <1>25, <1>26, <1>27, <1>28
       DEF Launch, Decide, Fetch, Acquire, Break, Wait, PutIn

LEMMA InstallFrame ==
    ASSUME TypeOK, InstallersOnly, NEW i \in Installers, Install(i) \/ Signal(i)
    PROVE  /\ killed' \in {killed, killed \cup {i}}
           /\ \A q \in Processes : q # i => at'[q] = at[q] /\ moved'[q] = moved[q]
           /\ UNCHANGED <<turn, seen, judged, path, entries>>
           /\ at'[i] \in {"take", "stage", "move", "release", "done"}
<1> USE DEF TypeOK, Goto, At, files, lock, plan, world
<1>0. i \in Processes BY DEF Processes
<1>1. CASE Stage(i) BY <1>0, <1>1 DEF Stage
<1>2. CASE Move(i) BY <1>0, <1>2 DEF Move, SetMoved, AllMoved
<1>3. CASE StageOrMoveFails(i) BY <1>0, <1>3 DEF StageOrMoveFails, Upset
<1>4. CASE TakeOrRefuse(i) BY <1>0, <1>4 DEF TakeOrRefuse
<1>5. CASE InstallerReleases(i) BY <1>0, <1>5 DEF InstallerReleases, CleanUp
<1>6. CASE Signal(i) BY <1>0, <1>6 DEF Signal, CleanUp, UpsetOf
<1> QED BY <1>1, <1>2, <1>3, <1>4, <1>5, <1>6, NoVerify DEF Install, PutIn

LEMMA InstallMovedOnce ==
    ASSUME TypeOK, MovedOnce, InstallersOnly, NEW i \in Installers, Install(i) \/ Signal(i)
    PROVE  /\ at'[i] \notin {"move", "release", "done"} => moved'[i] = 0
           /\ at'[i] = "move" => moved'[i] < 3
<1> USE DEF TypeOK, MovedOnce, Goto, At, files, lock, plan, world
<1>0. i \in Processes BY DEF Processes
<1>1. CASE Stage(i) BY <1>0, <1>1 DEF Stage
<1>2. CASE Move(i) BY <1>0, <1>2 DEF Move, SetMoved, AllMoved
<1>3. CASE StageOrMoveFails(i) BY <1>0, <1>3 DEF StageOrMoveFails, Upset
<1>4. CASE TakeOrRefuse(i) BY <1>0, <1>4 DEF TakeOrRefuse
<1>5. CASE InstallerReleases(i) BY <1>0, <1>5 DEF InstallerReleases, CleanUp
<1>6. CASE Signal(i) BY <1>0, <1>6 DEF Signal, CleanUp, UpsetOf
<1> QED BY <1>1, <1>2, <1>3, <1>4, <1>5, <1>6, NoVerify DEF Install, PutIn

LEMMA KillFrame ==
    ASSUME TypeOK, NEW p \in Processes, Kill(p)
    PROVE  /\ killed' = killed \cup {p} /\ at'[p] = "done"
           /\ \A q \in Processes : q # p => at'[q] = at[q]
           /\ UNCHANGED <<turn, seen, judged, path, moved, stable, past, maker, entries>>
BY DEF TypeOK, Kill, UpsetOf, Goto, files, lock, plan

LEMMA NextWhereabouts ==
    ASSUME Whereabouts, [Next]_vars
    PROVE  Whereabouts'
<1> USE DEF Whereabouts
<1>0. TypeOK' BY NextTypeOK
<1>1. CASE UNCHANGED vars
    BY <1>0, <1>1 DEF vars, files, lock, plan, world, KilledAreDone, InstallersOnly, MovedOnce,
                      JudgedIsDead, At
<1>2. ASSUME NEW p \in Launchers, Launch(p) PROVE Whereabouts'
  <2>1. p \in Processes /\ p \notin Installers BY ReleaseAssumption DEF Processes
  <2>2. KilledAreDone' BY <1>2, <2>1, LaunchFrame DEF KilledAreDone, At, Processes
  <2>3. InstallersOnly' BY <1>2, <2>1, LaunchFrame DEF InstallersOnly, Processes
  <2>4. MovedOnce' BY <1>2, <2>1, LaunchFrame, LaunchMovedOnce DEF MovedOnce, At
  <2>5. JudgedIsDead' BY <1>2, <2>1, LaunchFrame, LaunchJudged DEF JudgedIsDead, Processes
  <2> QED BY <1>0, <2>2, <2>3, <2>4, <2>5
<1>3. ASSUME NEW i \in Installers, Install(i) \/ Signal(i) PROVE Whereabouts'
  <2>1. i \in Processes /\ i \notin Launchers BY ReleaseAssumption DEF Processes
  <2>2. KilledAreDone' BY <1>3, <2>1, InstallFrame DEF KilledAreDone, At, Processes
  <2>3. InstallersOnly' BY <1>3, <2>1, InstallFrame DEF InstallersOnly, Processes
  <2>4. MovedOnce' BY <1>3, <2>1, <2>3, InstallFrame, InstallMovedOnce DEF MovedOnce, At
  <2>5. JudgedIsDead' BY <1>3, <2>1, InstallFrame DEF JudgedIsDead, Processes
  <2> QED BY <1>0, <2>2, <2>3, <2>4, <2>5
<1>4. ASSUME NEW p \in Processes, Kill(p) PROVE Whereabouts'
  <2>1. KilledAreDone' BY <1>4, KillFrame DEF KilledAreDone, At, Processes
  <2>2. InstallersOnly' BY <1>4, KillFrame DEF InstallersOnly, Processes
  <2>3. MovedOnce' BY <1>4, KillFrame DEF MovedOnce, At
  <2>4. JudgedIsDead' BY <1>4, KillFrame DEF JudgedIsDead, Processes
  <2> QED BY <1>0, <2>1, <2>2, <2>3, <2>4
<1> QED BY <1>1, <1>2, <1>3, <1>4 DEF Next
-----------------------------------------------------------------------------
(* The lock                                                                *)

\* What a process holds does not change with the steps of another.
LEMMA HoldsByOwnSteps ==
    ASSUME NEW q \in Processes, at'[q] = at[q], q \in Launchers => turn'[q] = turn[q]
    PROVE  /\ Labelled(q)' = Labelled(q) /\ HoldsEmpty(q)' = HoldsEmpty(q)
           /\ \A where : At(q, where)' = At(q, where)
BY DEF Labelled, HoldsEmpty, Publishing, At

\* A step by which a process does not come to hold or to break the lock.
GainsNothing(q) ==
    /\ Labelled(q)' => Labelled(q)
    /\ HoldsEmpty(q)' => HoldsEmpty(q)
    /\ At(q, "rmdir")' => At(q, "rmdir")

\* Where no process does, and the lock is left alone, nothing changes.
LEMMA LockQuiet ==
    ASSUME LockInv, UNCHANGED lock, killed \subseteq killed',
           \A q \in Processes : GainsNothing(q)
    PROVE  LockInv'
<1> USE DEF LockInv, lock, GainsNothing
<1>1. OneRecord' BY DEF OneRecord
<1>2. LabelledIsThere' BY DEF LabelledIsThere, OwnRecord, Processes
<1>3. EmptyIsThere' BY DEF EmptyIsThere
<1>4. BrokenByOne' BY DEF BrokenByOne, Processes
<1> QED BY <1>1, <1>2, <1>3, <1>4

\* What a launch keeps to itself.
LEMMA LaunchQuiet ==
    ASSUME Whereabouts, NEW p \in Launchers,
           Inspect(p) \/ KeepStable(p) \/ KeepWithout(p) \/ NeedCache(p) \/ Publish(p) \/ Blocked(p) \/ UseCache(p) \/ ClearCache(p)
           \/ Download(p) \/ DownloadFails(p) \/ FindGone(p) \/ FindDead(p) \/ FindHeld(p) \/ StopWaiting(p)
           \/ TimeUp(p) \/ Run(p) \/ Stage(p) \/ Move(p) \/ StageOrMoveFails(p) \/ Verify(p)
    PROVE  UNCHANGED lock /\ GainsNothing(p)
<1> USE DEF GainsNothing, Whereabouts, TypeOK, Labelled, HoldsEmpty, Publishing, At, Goto, files, lock, plan, world
<1>0. p \in Processes /\ p \notin Installers BY ReleaseAssumption DEF Processes
<1>1. CASE Inspect(p) BY <1>0, <1>1 DEF Inspect, SetSeen
<1>2. CASE KeepStable(p) BY <1>0, <1>2 DEF KeepStable, SetPath, Leave
<1>3. CASE KeepWithout(p) BY <1>0, <1>3 DEF KeepWithout, Leave
<1>4. CASE NeedCache(p) BY <1>0, <1>4 DEF NeedCache
<1>5. CASE Publish(p) BY <1>0, <1>5 DEF Publish, SetTries
<1>6. CASE Blocked(p) BY <1>0, <1>6 DEF Blocked, Upset, Leave
<1>7. CASE UseCache(p) BY <1>0, <1>7 DEF UseCache, SecondLook, SetTurn
<1>8. CASE ClearCache(p) BY <1>0, <1>8 DEF ClearCache, CacheState
<1>9. CASE Download(p) BY <1>0, <1>9 DEF Download, SecondLook, SetTurn, CacheState
<1>10. CASE DownloadFails(p) BY <1>0, <1>10 DEF DownloadFails, Upset
<1>11. CASE FindGone(p) BY <1>0, <1>11 DEF FindGone, RunCache, Again, SetTries
<1>12. CASE FindDead(p) BY <1>0, <1>12 DEF FindDead, SetJudged, Held
<1>13. CASE FindHeld(p) BY <1>0, <1>13 DEF FindHeld
<1>14. CASE StopWaiting(p) BY <1>0, <1>14 DEF StopWaiting, SetTurn
<1>15. CASE TimeUp(p) BY <1>0, <1>15 DEF TimeUp, RunCache, TimeIsUp
<1>16. CASE Run(p) BY <1>0, <1>16 DEF Run
<1>17. CASE Stage(p) BY <1>0, <1>17 DEF Stage
<1>18. CASE Move(p) BY <1>0, <1>18 DEF Move, SetMoved, AllMoved
<1>19. CASE StageOrMoveFails(p) BY <1>0, <1>19 DEF StageOrMoveFails, Upset
<1>20. CASE Verify(p) BY <1>0, <1>20 DEF Verify, SetPath
<1> QED BY <1>1, <1>2, <1>3, <1>4, <1>5, <1>6, <1>7, <1>8, <1>9, <1>10, <1>11, <1>12, <1>13, <1>14, <1>15, <1>16, <1>17, <1>18, <1>19, <1>20

\* The other processes hold what they held.
LEMMA LaunchOthers ==
    ASSUME Whereabouts, NEW p \in Launchers, Launch(p), NEW q \in Processes, q # p
    PROVE  /\ Labelled(q)' = Labelled(q) /\ HoldsEmpty(q)' = HoldsEmpty(q)
           /\ \A where : At(q, where)' = At(q, where)
<1>1. at'[q] = at[q] /\ (q \in Launchers => turn'[q] = turn[q])
    BY LaunchFrame DEF Whereabouts, Processes
<1> QED BY <1>1, HoldsByOwnSteps

\* What removes a lock, or empties it, has made it or found its launch dead.
LEMMA LaunchLock ==
    ASSUME Whereabouts, LockInv, NEW p \in Launchers, Launch(p)
    PROVE  LockInv'
<1>0. /\ p \in Processes /\ p \notin Installers /\ p # None
      /\ killed' = killed /\ p \notin killed
      /\ TypeOK
    BY ReleaseAssumption, LaunchFrame DEF Processes, Whereabouts, KilledAreDone, At
<1>00. \A q \in Processes : q # p => /\ Labelled(q)' = Labelled(q)
                                   /\ HoldsEmpty(q)' = HoldsEmpty(q)
                                   /\ At(q, "rmdir")' = At(q, "rmdir")
    BY LaunchOthers
<1> USE DEF LockInv, OneRecord, LabelledIsThere, EmptyIsThere, BrokenByOne
<1>1. CASE Take(p) \/ Label(p) \/ LabelFails(p)
  <2>0. at'[p] # "rmdir" /\ at[p] \in {"mkdir", "label"}
      BY <1>0, <1>1 DEF TypeOK, Take, Label, LabelFails, At, Goto, RunCache
  <2>1. CASE Take(p) /\ maker = None
    <3>1. maker' = p /\ entries' = {} /\ at'[p] = "label" BY <1>0, <2>1 DEF Take, Goto, TypeOK
    <3>2. ~Labelled(p)' BY <3>1 DEF Labelled, Publishing, At
    <3>3. \A q \in Processes : ~Labelled(q) /\ ~HoldsEmpty(q) /\ (q \in Launchers => ~At(q, "rmdir"))
        BY <2>1, ReleaseAssumption DEF Processes, Labelled
    <3> QED BY <1>0, <1>00, <2>0, <3>1, <3>2, <3>3 DEF At, Processes, Labelled
  <2>2. CASE Take(p) /\ maker # None
    <3>1. UNCHANGED lock /\ at'[p] = "look" BY <1>0, <2>2 DEF Take, Goto, TypeOK, lock
    <3>2. GainsNothing(p) BY <1>0, <3>1 DEF GainsNothing, Labelled, HoldsEmpty, Publishing, At
    <3> QED BY <1>0, <1>00, <3>1, <3>2, LockQuiet DEF GainsNothing
  <2>3. CASE Label(p)
    <3>1. maker = p /\ entries = {} BY <1>0, <2>3 DEF Label, HoldsEmpty, At
    <3>2. maker' = p /\ entries' = {OwnRecord(p)} /\ at'[p] = "inspect"
        BY <1>0, <2>3, <3>1 DEF Label, Goto, TypeOK
    <3>3. ~HoldsEmpty(p)' BY <1>0, <3>2 DEF HoldsEmpty, At
    <3>4. \A q \in Processes : q # p => /\ ~Labelled(q) /\ ~HoldsEmpty(q)
                                     /\ (q \in Launchers => ~At(q, "rmdir"))
        BY <1>0, <3>1 DEF Labelled
    <3>5. Whose(OwnRecord(p)) = p BY DEF Whose, OwnRecord
    <3> QED BY <1>0, <1>00, <2>0, <3>2, <3>3, <3>4, <3>5 DEF At, Processes, Labelled
  <2>4. CASE LabelFails(p)
    <3>1. maker = p /\ entries = {} BY <1>0, <2>4 DEF LabelFails, HoldsEmpty, At
    <3>2. maker' = None /\ entries' = {} /\ at'[p] = "run"
        BY <1>0, <2>4, <3>1 DEF LabelFails, RemoveIfEmpty, RunCache, Goto, TypeOK
    <3>3. ~Labelled(p)' /\ ~HoldsEmpty(p)' BY <1>0, <3>2 DEF Labelled, HoldsEmpty, Publishing, At
    <3>4. \A q \in Processes : q # p => /\ ~Labelled(q) /\ ~HoldsEmpty(q)
                                     /\ (q \in Launchers => ~At(q, "rmdir"))
        BY <1>0, <3>1 DEF Labelled
    <3> QED BY <1>0, <1>00, <2>0, <3>2, <3>3, <3>4 DEF At, Processes, Labelled
  <2> QED BY <1>1, <2>1, <2>2, <2>3, <2>4
<1>2. CASE Claim(p) \/ Unlink(p) \/ RemoveBroken(p)
  <2>1. CASE Claim(p) /\ judged[p] \in entries
    <3>1. entries = {judged[p]} /\ Whose(judged[p]) = maker BY <2>1
    <3>2. maker \in killed /\ maker \in Launchers
        BY <2>1, <3>1 DEF Claim, Whereabouts, JudgedIsDead, At
    <3>3. entries' = {Renamed(p)} /\ maker' = maker /\ at'[p] = "unlink"
        BY <1>0, <2>1, <3>1 DEF Claim, Goto, TypeOK
    <3>4. Whose(Renamed(p)) = maker BY <3>1 DEF Renamed, Whose
    <3>5. ~Labelled(p)' /\ ~HoldsEmpty(p)' /\ ~At(p, "rmdir")'
        BY <1>0, <3>3 DEF Labelled, HoldsEmpty, Publishing, At
    <3>6. \A q \in Processes : ~Labelled(q) /\ ~HoldsEmpty(q) /\ (q \in Launchers => ~At(q, "rmdir"))
      <4> TAKE q \in Processes
      <4>1. entries # {} BY <3>1
      <4>2. ~HoldsEmpty(q) /\ (q \in Launchers => ~At(q, "rmdir")) BY <4>1
      <4>3. ~Labelled(q)
        <5> SUFFICES ASSUME Labelled(q) PROVE FALSE OBVIOUS
        <5>1. q \in Launchers /\ maker = q BY DEF Labelled
        <5>2. at[q] = "done" BY <3>2, <5>1 DEF Whereabouts, KilledAreDone, At
        <5> QED BY <5>1, <5>2 DEF Labelled, Publishing, At
      <4> QED BY <4>2, <4>3
    <3>7. maker # None BY <3>2, ReleaseAssumption DEF Processes
    <3> QED BY <1>0, <1>00, <3>2, <3>3, <3>4, <3>5, <3>6, <3>7 DEF At, Processes, Labelled
  <2>2. CASE Claim(p) /\ judged[p] \notin entries
    <3>1. UNCHANGED lock /\ at'[p] = "mkdir" BY <1>0, <2>2 DEF Claim, Again, Goto, TypeOK, lock
    <3>2. GainsNothing(p) BY <1>0, <3>1 DEF GainsNothing, Labelled, HoldsEmpty, Publishing, At
    <3> QED BY <1>0, <1>00, <3>1, <3>2, LockQuiet DEF GainsNothing
  <2>3. CASE Unlink(p) /\ Claimed(p) \in entries
    <3>1. entries = {Renamed(p)} /\ Whose(Renamed(p)) = maker BY <2>3 DEF Claimed
    <3>2. Whose(judged[p]) = maker BY <3>1 DEF Renamed, Whose
    <3>3. maker \in killed /\ maker \in Launchers
        BY <2>3, <3>2 DEF Unlink, Whereabouts, JudgedIsDead, At
    <3>4. entries' = {} /\ maker' = maker /\ at'[p] = "rmdir"
        BY <1>0, <2>3, <3>1 DEF Unlink, Claimed, Goto, TypeOK
    <3>5. ~Labelled(p)' /\ ~HoldsEmpty(p)'
        BY <1>0, <3>4 DEF Labelled, HoldsEmpty, Publishing, At
    <3>6. \A q \in Processes : ~Labelled(q) /\ ~HoldsEmpty(q) /\ (q \in Launchers => ~At(q, "rmdir"))
      <4> TAKE q \in Processes
      <4>1. entries # {} BY <3>1
      <4>2. ~HoldsEmpty(q) /\ (q \in Launchers => ~At(q, "rmdir")) BY <4>1
      <4>3. ~Labelled(q)
        <5> SUFFICES ASSUME Labelled(q) PROVE FALSE OBVIOUS
        <5>1. q \in Launchers /\ maker = q BY DEF Labelled
        <5>2. at[q] = "done" BY <3>3, <5>1 DEF Whereabouts, KilledAreDone, At
        <5> QED BY <5>1, <5>2 DEF Labelled, Publishing, At
      <4> QED BY <4>2, <4>3
    <3> QED BY <1>0, <1>00, <3>3, <3>4, <3>5, <3>6 DEF At, Processes, Labelled
  <2>4. CASE Unlink(p) /\ Claimed(p) \notin entries
    <3>1. UNCHANGED lock /\ at'[p] = "mkdir" BY <1>0, <2>4 DEF Unlink, Again, Goto, TypeOK, lock
    <3>2. GainsNothing(p) BY <1>0, <3>1 DEF GainsNothing, Labelled, HoldsEmpty, Publishing, At
    <3> QED BY <1>0, <1>00, <3>1, <3>2, LockQuiet DEF GainsNothing
  <2>5. CASE RemoveBroken(p)
    <3>1. maker \in killed \cap Launchers /\ entries = {}
        BY <2>5 DEF RemoveBroken, At
    <3>2. maker' = None /\ entries' = {} /\ at'[p] = "mkdir"
        BY <1>0, <2>5, <3>1 DEF RemoveBroken, RemoveIfEmpty, Again, Goto, TypeOK
    <3>3. ~Labelled(p)' /\ ~HoldsEmpty(p)' /\ ~At(p, "rmdir")'
        BY <1>0, <3>2 DEF Labelled, HoldsEmpty, Publishing, At
    <3>4. \A q \in Processes : q # p => /\ ~Labelled(q) /\ ~HoldsEmpty(q)
                                     /\ (q \in Launchers => ~At(q, "rmdir"))
      <4> TAKE q \in Processes
      <4> HAVE q # p
      <4>1. q \in Launchers => ~At(q, "rmdir") BY <2>5 DEF RemoveBroken
      <4>2. ~Labelled(q) BY <3>1 DEF Labelled
      <4>3. ~HoldsEmpty(q)
        <5> SUFFICES ASSUME HoldsEmpty(q) PROVE FALSE OBVIOUS
        <5>1. maker = q OBVIOUS
        <5>2. q \in Launchers /\ at[q] = "done"
            BY <3>1, <5>1 DEF Whereabouts, KilledAreDone, At
        <5> QED BY <5>2, ReleaseAssumption DEF HoldsEmpty, At
      <4> QED BY <4>1, <4>2, <4>3
    <3> QED BY <1>0, <1>00, <3>2, <3>3, <3>4 DEF At, Processes, Labelled
  <2> QED BY <1>2, <2>1, <2>2, <2>3, <2>4, <2>5
<1>3. CASE ReleaseRecord(p) \/ Free(p)
  <2>1. CASE ReleaseRecord(p)
    <3>1. maker = p /\ entries = {OwnRecord(p)} BY <2>1 DEF ReleaseRecord, Labelled
    <3>2. maker' = p /\ entries' = {} /\ at'[p] = "free"
        BY <1>0, <2>1, <3>1 DEF ReleaseRecord, Goto, TypeOK
    <3>3. ~Labelled(p)' /\ ~At(p, "rmdir")' BY <1>0, <3>2 DEF Labelled, Publishing, At
    <3>4. \A q \in Processes : q # p => /\ ~Labelled(q) /\ ~HoldsEmpty(q)
                                     /\ (q \in Launchers => ~At(q, "rmdir"))
        BY <1>0, <3>1 DEF Labelled
    <3> QED BY <1>0, <1>00, <3>2, <3>3, <3>4 DEF At, Processes, Labelled
  <2>2. CASE Free(p)
    <3>1. maker = p /\ entries = {} BY <1>0, <2>2 DEF Free, HoldsEmpty, At
    <3>2. maker' = None /\ entries' = {} /\ at'[p] = "run"
        BY <1>0, <2>2, <3>1 DEF Free, RemoveIfEmpty, Goto, TypeOK
    <3>3. ~Labelled(p)' /\ ~HoldsEmpty(p)' /\ ~At(p, "rmdir")'
        BY <1>0, <3>2 DEF Labelled, HoldsEmpty, Publishing, At
    <3>4. \A q \in Processes : q # p => /\ ~Labelled(q) /\ ~HoldsEmpty(q)
                                     /\ (q \in Launchers => ~At(q, "rmdir"))
        BY <1>0, <3>1 DEF Labelled
    <3> QED BY <1>0, <1>00, <3>2, <3>3, <3>4 DEF At, Processes, Labelled
  <2> QED BY <1>3, <2>1, <2>2
<1>4. CASE Inspect(p) \/ KeepStable(p) \/ KeepWithout(p) \/ NeedCache(p) \/ Publish(p) \/ Blocked(p) \/ UseCache(p)
           \/ ClearCache(p) \/ Download(p) \/ DownloadFails(p) \/ FindGone(p) \/ FindDead(p) \/ FindHeld(p) \/ StopWaiting(p)
           \/ TimeUp(p) \/ Run(p) \/ Stage(p) \/ Move(p) \/ StageOrMoveFails(p) \/ Verify(p)
  <2>1. UNCHANGED lock /\ GainsNothing(p) BY <1>4, LaunchQuiet
  <2>2. \A q \in Processes : GainsNothing(q) BY <1>00, <2>1 DEF GainsNothing
  <2> QED BY <1>0, <2>1, <2>2, LockQuiet
<1> QED BY <1>1, <1>2, <1>3, <1>4 DEF Launch, Decide, Fetch, Acquire, Break, Wait, PutIn

\* An installation removes its own lock, or has removed another's.
LEMMA InstallOthers ==
    ASSUME Whereabouts, NEW i \in Installers, Install(i) \/ Signal(i), NEW q \in Processes, q # i
    PROVE  /\ Labelled(q)' = Labelled(q) /\ HoldsEmpty(q)' = HoldsEmpty(q)
           /\ \A where : At(q, where)' = At(q, where)
<1>1. at'[q] = at[q] /\ turn' = turn BY InstallFrame DEF Whereabouts
<1> QED BY <1>1, HoldsByOwnSteps

LEMMA InstallLock ==
    ASSUME Whereabouts, LockInv, ~Crossed', NEW i \in Installers, Install(i) \/ Signal(i)
    PROVE  LockInv'
<1>0. /\ i \in Processes /\ i \notin Launchers /\ i # None
      /\ killed \subseteq killed' /\ entries' = entries
      /\ TypeOK
    BY ReleaseAssumption, InstallFrame DEF Processes, Whereabouts
<1>00. \A q \in Processes : q # i => /\ Labelled(q)' = Labelled(q)
                                   /\ HoldsEmpty(q)' = HoldsEmpty(q)
                                   /\ At(q, "rmdir")' = At(q, "rmdir")
    BY InstallOthers
<1>000. ~Labelled(i) /\ ~Labelled(i)' /\ ~At(i, "rmdir")'
    BY <1>0, InstallFrame DEF Labelled, Whereabouts, At
<1>1. CASE CleanUp(i) /\ at'[i] \in {"release", "done"}
  <2>1. ~HoldsEmpty(i)' BY <1>0, <1>1 DEF HoldsEmpty, At
  <2>2. CASE entries = {} /\ maker = i
    <3>1. maker' = None BY <1>1, <2>2 DEF CleanUp, RemoveIfEmpty
    <3>2. \A q \in Processes : q # i => /\ ~Labelled(q) /\ ~HoldsEmpty(q)
                                     /\ (q \in Launchers => ~At(q, "rmdir"))
        BY <1>0, <2>2 DEF LockInv, LabelledIsThere, EmptyIsThere, BrokenByOne, Labelled
    <3> QED BY <1>0, <1>00, <1>000, <2>1, <2>2, <3>1, <3>2
            DEF LockInv, OneRecord, LabelledIsThere, EmptyIsThere, BrokenByOne, Processes
  <2>3. CASE entries # {} \/ maker # i
    <3>1. maker' = maker
        BY <1>1, <2>3 DEF CleanUp, RemoveIfEmpty, Crossed
    <3>2. UNCHANGED lock BY <1>0, <3>1 DEF lock
    <3>3. \A q \in Processes : GainsNothing(q) BY <1>00, <1>000, <2>1 DEF GainsNothing
    <3> QED BY <1>0, <3>2, <3>3, LockQuiet
  <2> QED BY <2>2, <2>3
<1>2. CASE InstallerReleases(i) \/ Signal(i)
    BY <1>0, <1>1, <1>2 DEF InstallerReleases, Signal, Goto, TypeOK
<1>3. CASE TakeOrRefuse(i) /\ maker = None
  <2>1. maker' = i /\ at'[i] = "stage" BY <1>0, <1>3 DEF TakeOrRefuse, Goto, TypeOK
  <2>2. entries = {} BY <1>3 DEF LockInv, OneRecord
  <2>3. \A q \in Processes : ~Labelled(q) /\ ~HoldsEmpty(q) /\ (q \in Launchers => ~At(q, "rmdir"))
      BY <1>3, ReleaseAssumption
      DEF LockInv, LabelledIsThere, EmptyIsThere, BrokenByOne, Processes, Labelled
  <2> QED BY <1>0, <1>00, <1>000, <2>1, <2>2, <2>3
          DEF LockInv, OneRecord, LabelledIsThere, EmptyIsThere, BrokenByOne, Processes
<1>4. CASE (TakeOrRefuse(i) /\ maker # None) \/ Stage(i) \/ Move(i) \/ StageOrMoveFails(i)
  <2>1. UNCHANGED lock
      BY <1>4 DEF TakeOrRefuse, Stage, Move, StageOrMoveFails, lock
  <2>2. HoldsEmpty(i)' => HoldsEmpty(i)
      BY <1>0, <1>4 DEF TakeOrRefuse, Stage, Move, StageOrMoveFails, HoldsEmpty, At, Goto, TypeOK
  <2>3. \A q \in Processes : GainsNothing(q) BY <1>00, <1>000, <2>2 DEF GainsNothing
  <2> QED BY <1>0, <2>1, <2>3, LockQuiet
<1> QED BY <1>2, <1>3, <1>4, NoVerify DEF Install, PutIn, Whereabouts

LEMMA KillLock ==
    ASSUME Whereabouts, LockInv, NEW p \in Processes, Kill(p)
    PROVE  LockInv'
<1>1. /\ killed \subseteq killed' /\ UNCHANGED lock /\ at'[p] = "done"
      /\ \A q \in Processes : q # p => at'[q] = at[q]
      /\ UNCHANGED turn
    BY KillFrame DEF Whereabouts, lock
<1>2. GainsNothing(p) BY <1>1 DEF GainsNothing, Labelled, HoldsEmpty, Publishing, At
<1>3. \A q \in Processes : q # p => GainsNothing(q)
    BY <1>1, HoldsByOwnSteps DEF GainsNothing
<1> QED BY <1>1, <1>2, <1>3, LockQuiet

LEMMA InitLock == Init => LockInv
<1> SUFFICES ASSUME Init PROVE LockInv OBVIOUS
<1>1. \A p \in Processes : at[p] = FirstStep(p) BY DEF Init
<1>2. \A p \in Processes : ~Labelled(p) /\ ~HoldsEmpty(p) /\ ~At(p, "rmdir")
    BY <1>1, ReleaseAssumption
    DEF Init, Labelled, HoldsEmpty, Publishing, At, FirstStep, Processes
<1>3. OneRecord
  <2>1. \A p \in Gone : Whose(OwnRecord(p)) = p /\ p \in Launchers /\ p # None
      BY ReleaseAssumption DEF Whose, OwnRecord, Processes
  <2> QED BY <2>1 DEF Init, OneRecord
<1> QED BY <1>2, <1>3 DEF LockInv, LabelledIsThere, EmptyIsThere, BrokenByOne, Processes

\* What an installation has crossed stays crossed.
LEMMA CrossedStays == ASSUME [Next]_vars PROVE past \subseteq past'
<1>1. ASSUME NEW p \in Processes, PutIn(p) PROVE past \subseteq past'
    BY <1>1 DEF PutIn, Stage, Move, StageOrMoveFails, Verify, files
<1>2. ASSUME NEW p \in Launchers, Launch(p) PROVE past \subseteq past'
    BY <1>1, <1>2
    DEF Launch, Decide, Fetch, Acquire, Break, Wait, Inspect, KeepStable, KeepWithout, NeedCache,
        Publish, Blocked, UseCache, ClearCache, Download, DownloadFails, Take, Label, LabelFails,
        FindGone, FindDead, FindHeld, Claim, Unlink, RemoveBroken, StopWaiting, TimeUp,
        ReleaseRecord, Free, Run, files, Processes
<1>3. ASSUME NEW i \in Installers, Install(i) \/ Signal(i) PROVE past \subseteq past'
    BY <1>1, <1>3
    DEF Install, TakeOrRefuse, InstallerReleases, Signal, CleanUp, files, Processes
<1>4. ASSUME NEW p \in Processes, Kill(p) PROVE past \subseteq past' BY <1>4 DEF Kill, files
<1> QED BY <1>2, <1>3, <1>4 DEF Next, vars, files

LEMMA NextLockIInv == LockIInv /\ [Next]_vars => LockIInv'
<1> SUFFICES ASSUME LockIInv, [Next]_vars PROVE LockIInv' OBVIOUS
<1>1. Whereabouts /\ Whereabouts' BY NextWhereabouts DEF LockIInv
<1>2. ASSUME ~Crossed' PROVE LockInv'
  <2>1. LockInv BY <1>2, CrossedStays DEF LockIInv, Crossed
  <2>2. CASE UNCHANGED vars
      BY <2>1, <2>2 DEF vars, lock, plan, world, LockInv, OneRecord, LabelledIsThere, EmptyIsThere,
                        BrokenByOne, Labelled, HoldsEmpty, Publishing, At
  <2>3. ASSUME NEW p \in Launchers, Launch(p) PROVE LockInv' BY <1>1, <2>1, <2>3, LaunchLock
  <2>4. ASSUME NEW i \in Installers, Install(i) \/ Signal(i) PROVE LockInv'
      BY <1>1, <1>2, <2>1, <2>4, InstallLock
  <2>5. ASSUME NEW p \in Processes, Kill(p) PROVE LockInv' BY <1>1, <2>1, <2>5, KillLock
  <2> QED BY <2>2, <2>3, <2>4, <2>5 DEF Next
<1> QED BY <1>1, <1>2 DEF LockIInv

\* Who publishes made the lock that is there.
LEMMA PublisherMadeIt ==
    ASSUME LockIInv, ~Crossed, NEW p \in Processes, Publishing(p)
    PROVE  maker = p
<1>1. CASE p \in Launchers
    BY <1>1 DEF LockIInv, LockInv, LabelledIsThere, Labelled
<1>2. CASE p \in Installers
  <2>1. HoldsEmpty(p)
      BY <1>2, ReleaseAssumption DEF LockIInv, Whereabouts, InstallersOnly, Publishing, HoldsEmpty, At
  <2> QED BY <2>1 DEF LockIInv, LockInv, EmptyIsThere
<1> QED BY <1>1, <1>2 DEF Processes

\* One process at a time decides and puts files in: the breaking of the lock of a
\* dead launch displaces no live one, on whatever host it runs.
THEOREM PublishersExclude == Spec => []OnePublisher
<1>1. Init => LockIInv BY InitWhereabouts, InitLock DEF LockIInv
<1>2. LockIInv => OnePublisher BY PublisherMadeIt DEF OnePublisher, Crossed
<1> QED BY <1>1, <1>2, NextLockIInv, PTL DEF Spec
-----------------------------------------------------------------------------
(* What is put in                                                          *)

\* Only the move of a file changes what is there.
LEMMA OnlyMoves ==
    ASSUME Whereabouts, NEW p \in Launchers, Launch(p), ~Move(p)
    PROVE  stable' = stable /\ moved' = moved /\ past' = past
<1> USE DEF files, plan
<1>1. CASE Inspect(p) BY <1>1 DEF Inspect, SetSeen
<1>2. CASE KeepStable(p) BY <1>2 DEF KeepStable, SetPath, Leave
<1>3. CASE KeepWithout(p) BY <1>3 DEF KeepWithout, Leave
<1>4. CASE NeedCache(p) BY <1>4 DEF NeedCache
<1>5. CASE Publish(p) BY <1>5 DEF Publish, SetTries
<1>6. CASE Blocked(p) BY <1>6 DEF Blocked, Upset, Leave
<1>7. CASE UseCache(p) BY <1>7 DEF UseCache, SecondLook, SetTurn
<1>8. CASE ClearCache(p) BY <1>8 DEF ClearCache, CacheState
<1>9. CASE Download(p) BY <1>9 DEF Download, SecondLook, SetTurn, CacheState
<1>10. CASE DownloadFails(p) BY <1>10 DEF DownloadFails, Upset
<1>11. CASE Take(p) BY <1>11 DEF Take
<1>12. CASE Label(p) BY <1>12 DEF Label, SetTurn, RunCache
<1>13. CASE LabelFails(p) BY <1>13 DEF LabelFails, Upset, RemoveIfEmpty, RunCache
<1>14. CASE FindGone(p) BY <1>14 DEF FindGone, RunCache, Again, SetTries
<1>15. CASE FindDead(p) BY <1>15 DEF FindDead, SetJudged, Held
<1>16. CASE FindHeld(p) BY <1>16 DEF FindHeld
<1>17. CASE Claim(p) BY <1>17 DEF Claim, Again, SetTries
<1>18. CASE Unlink(p) BY <1>18 DEF Unlink, Again, SetTries, Claimed
<1>19. CASE RemoveBroken(p) BY <1>19 DEF RemoveBroken, RemoveIfEmpty, RunCache, Again, SetTries
<1>20. CASE StopWaiting(p) BY <1>20 DEF StopWaiting, SetTurn
<1>21. CASE TimeUp(p) BY <1>21 DEF TimeUp, RunCache, TimeIsUp
<1>22. CASE ReleaseRecord(p) BY <1>22 DEF ReleaseRecord
<1>23. CASE Free(p) BY <1>23 DEF Free, RemoveIfEmpty
<1>24. CASE Run(p) BY <1>24 DEF Run
<1>25. CASE Stage(p) BY <1>25 DEF Stage
<1>26. CASE StageOrMoveFails(p) BY <1>26 DEF StageOrMoveFails, Upset
<1>27. CASE Verify(p) BY <1>27 DEF Verify, SetPath
<1> QED BY <1>1, <1>2, <1>3, <1>4, <1>5, <1>6, <1>7, <1>8, <1>9, <1>10, <1>11, <1>12, <1>13, <1>14, <1>15, <1>16, <1>17, <1>18, <1>19, <1>20, <1>21, <1>22, <1>23, <1>24, <1>25, <1>26, <1>27
       DEF Launch, Decide, Fetch, Acquire, Break, Wait, PutIn

LEMMA OnlyMovesInstall ==
    ASSUME Whereabouts, NEW i \in Installers, Install(i) \/ Signal(i), ~Move(i)
    PROVE  stable' = stable /\ moved' = moved
BY NoVerify
DEF Whereabouts, Install, PutIn, Stage, StageOrMoveFails, TakeOrRefuse, InstallerReleases, Signal,
    CleanUp, files, plan

\* A launch under the lock acts on what is there.
LEMMA LaunchDecides ==
    ASSUME Whereabouts, SeenUnderLock, NoneNewer, NEW p \in Launchers, Launch(p), ~Move(p)
    PROVE  /\ at'[p] = "probe" /\ turn'[p] = "locked" => seen'[p] = {f \in Files : stable'[f] # 0}
           /\ at'[p] \in {"stage", "move"} => stable'["cvc"] <= Release[p]
<1> USE DEF Whereabouts, TypeOK, NoneNewer, At, Goto, files, lock, plan, world
<1>0. p \in Processes /\ p \notin Installers BY ReleaseAssumption DEF Processes
<1>00. stable' = stable BY OnlyMoves
<1>1. CASE Inspect(p) BY <1>0, <1>00, <1>1 DEF Inspect, SetSeen
<1>2. CASE Publish(p)
  <2>1. at'[p] \in {"stage", "mkdir"} /\ (at'[p] = "stage" => turn[p] = "locked")
      BY <1>0, <1>2 DEF Publish
  <2>2. Version(p) \in Nat /\ Release[p] \in Nat /\ ~(Version(p) > Release[p])
      BY <1>0, <1>2, ReleaseAssumption DEF Publish, Publishes, Newer, Version, Files
  <2>3. turn[p] = "locked" => Version(p) = stable["cvc"]
      BY <1>2 DEF Publish, SeenUnderLock, Version, Files
  <2> QED BY <1>00, <2>1, <2>2, <2>3
<1>3. CASE KeepStable(p) BY <1>0, <1>00, <1>3 DEF KeepStable, SetPath, Leave
<1>4. CASE KeepWithout(p) BY <1>0, <1>00, <1>4 DEF KeepWithout, Leave
<1>5. CASE NeedCache(p) BY <1>0, <1>00, <1>5 DEF NeedCache
<1>6. CASE Blocked(p) BY <1>0, <1>00, <1>6 DEF Blocked, Upset, Leave
<1>7. CASE UseCache(p) BY <1>0, <1>00, <1>7 DEF UseCache, SecondLook, SetTurn
<1>8. CASE ClearCache(p) BY <1>0, <1>00, <1>8 DEF ClearCache, CacheState
<1>9. CASE Download(p) BY <1>0, <1>00, <1>9 DEF Download, SecondLook, SetTurn, CacheState
<1>10. CASE DownloadFails(p) BY <1>0, <1>00, <1>10 DEF DownloadFails, Upset
<1>11. CASE Take(p) BY <1>0, <1>00, <1>11 DEF Take
<1>12. CASE Label(p) BY <1>0, <1>00, <1>12 DEF Label, SetTurn, RunCache
<1>13. CASE LabelFails(p) BY <1>0, <1>00, <1>13 DEF LabelFails, Upset, RemoveIfEmpty, RunCache
<1>14. CASE FindGone(p) BY <1>0, <1>00, <1>14 DEF FindGone, RunCache, Again, SetTries
<1>15. CASE FindDead(p) BY <1>0, <1>00, <1>15 DEF FindDead, SetJudged, Held
<1>16. CASE FindHeld(p) BY <1>0, <1>00, <1>16 DEF FindHeld
<1>17. CASE Claim(p) BY <1>0, <1>00, <1>17 DEF Claim, Again, SetTries
<1>18. CASE Unlink(p) BY <1>0, <1>00, <1>18 DEF Unlink, Again, SetTries, Claimed
<1>19. CASE RemoveBroken(p) BY <1>0, <1>00, <1>19 DEF RemoveBroken, RemoveIfEmpty, RunCache, Again, SetTries
<1>20. CASE StopWaiting(p) BY <1>0, <1>00, <1>20 DEF StopWaiting, SetTurn
<1>21. CASE TimeUp(p) BY <1>0, <1>00, <1>21 DEF TimeUp, RunCache, TimeIsUp
<1>22. CASE ReleaseRecord(p) BY <1>0, <1>00, <1>22 DEF ReleaseRecord
<1>23. CASE Free(p) BY <1>0, <1>00, <1>23 DEF Free, RemoveIfEmpty
<1>24. CASE Run(p) BY <1>0, <1>00, <1>24 DEF Run
<1>25. CASE Stage(p) BY <1>0, <1>00, <1>25 DEF Stage
<1>26. CASE StageOrMoveFails(p) BY <1>0, <1>00, <1>26 DEF StageOrMoveFails, Upset
<1>27. CASE Verify(p) BY <1>0, <1>00, <1>27 DEF Verify, SetPath
<1> QED BY <1>1, <1>2, <1>3, <1>4, <1>5, <1>6, <1>7, <1>8, <1>9, <1>10, <1>11, <1>12, <1>13, <1>14, <1>15, <1>16, <1>17, <1>18, <1>19, <1>20, <1>21, <1>22, <1>23, <1>24, <1>25, <1>26, <1>27
       DEF Launch, Decide, Fetch, Acquire, Break, Wait, PutIn

\* No process but the one that moves a file publishes.
LEMMA MoverIsAlone ==
    ASSUME LockIInv, ~Crossed, NEW p \in Processes, Move(p), NEW q \in Processes, Publishing(q)
    PROVE  q = p
<1>1. Publishing(p) BY DEF Move, Publishing, At
<1> QED BY <1>1, PublisherMadeIt

\* The file that is moved, and the others.
LEMMA Moves ==
    ASSUME TypeOK, MovedOnce, NEW p \in Processes, Move(p)
    PROVE  /\ moved[p] \in 0..2 /\ moved'[p] = moved[p] + 1
           /\ NextFile(p) = PublishOrder[moved[p] + 1] /\ NextFile(p) \in Files
           /\ stable'[NextFile(p)] = Release[p]
           /\ \A f \in Files : f # NextFile(p) => stable'[f] = stable[f]
           /\ Release[p] \in Nat \ {0}
           /\ at[p] = "move" /\ at'[p] \in {"move", "verify", "release"}
           /\ UNCHANGED <<turn, seen, path, ran>>
<1>1. moved[p] \in 0..2 BY DEF TypeOK, MovedOnce, Move, At
<1>2. NextFile(p) \in Files BY <1>1 DEF NextFile, PublishOrder, Files
<1>3. Release[p] \in Nat \ {0} BY ReleaseAssumption
<1>4. moved'[p] = moved[p] + 1 BY DEF Move, SetMoved, TypeOK
<1>5. at[p] = "move" /\ at'[p] \in {"move", "verify", "release"}
    BY DEF Move, At, Goto, AllMoved, TypeOK
<1>6. /\ stable'[NextFile(p)] = Release[p]
      /\ \A f \in Files : f # NextFile(p) => stable'[f] = stable[f]
    BY <1>2 DEF Move, TypeOK
<1> QED BY <1>1, <1>2, <1>3, <1>4, <1>5, <1>6 DEF Move, SetMoved, NextFile

\* The mover of a file is bound by what it decided on.
LEMMA MoveDecides ==
    ASSUME LockIInv, ~Crossed, SeenUnderLock, NoneNewer, NEW p \in Processes, Move(p)
    PROVE  SeenUnderLock' /\ NoneNewer'
<1>1. TypeOK /\ MovedOnce BY DEF LockIInv, Whereabouts
<1>2. at' = [at EXCEPT ![p] = at'[p]] BY <1>1 DEF Move, Goto, TypeOK
<1>3. \A q \in Launchers : q # p /\ Publishing(q) => FALSE BY MoverIsAlone DEF Processes
<1>4. SeenUnderLock'
  <2> SUFFICES ASSUME NEW q \in Launchers, at'[q] = "probe", turn'[q] = "locked" PROVE FALSE
      BY DEF SeenUnderLock, At
  <2>1. q # p BY <1>1, Moves
  <2>2. at[q] = "probe" /\ turn[q] = "locked" BY <1>1, <1>2, <2>1, Moves DEF TypeOK, Processes
  <2> QED BY <1>3, <2>1, <2>2 DEF Publishing
<1>5. NoneNewer'
  <2> SUFFICES ASSUME NEW q \in Launchers, at'[q] \in {"stage", "move"}
               PROVE  stable'["cvc"] <= Release[q]
      BY DEF NoneNewer
  <2>1. CASE q # p
    <3>1. at[q] \in {"stage", "move"} BY <1>1, <1>2, <2>1 DEF TypeOK, Processes
    <3> QED BY <1>3, <2>1, <3>1 DEF Publishing
  <2>2. CASE q = p
    <3>1. stable["cvc"] <= Release[p] BY <1>1, <2>2, Moves DEF NoneNewer
    <3> QED BY <1>1, <2>2, <3>1, Moves DEF Files
  <2> QED BY <2>1, <2>2
<1> QED BY <1>4, <1>5

LEMMA NextDecides == LockIInv /\ DecideIInv /\ [Next]_vars => DecideIInv'
<1> SUFFICES ASSUME LockIInv, DecideIInv, [Next]_vars, ~Crossed' PROVE SeenUnderLock' /\ NoneNewer'
    BY DEF DecideIInv
<1>1. ~Crossed /\ Whereabouts /\ SeenUnderLock /\ NoneNewer
    BY CrossedStays DEF Crossed, LockIInv, DecideIInv
<1>2. CASE UNCHANGED vars
    BY <1>1, <1>2 DEF vars, files, plan, SeenUnderLock, NoneNewer, At
<1>3. ASSUME NEW p \in Launchers, Launch(p) PROVE SeenUnderLock' /\ NoneNewer'
  <2>1. CASE Move(p) BY <1>1, <2>1, MoveDecides DEF Processes
  <2>2. CASE ~Move(p)
    <3>1. stable' = stable BY <1>1, <1>3, <2>2, OnlyMoves
    <3>2. \A q \in Launchers : q # p => at'[q] = at[q] /\ turn'[q] = turn[q] /\ seen'[q] = seen[q]
        BY <1>1, <1>3, LaunchFrame DEF Whereabouts, Processes
    <3>3. /\ at'[p] = "probe" /\ turn'[p] = "locked" => seen'[p] = {f \in Files : stable'[f] # 0}
          /\ at'[p] \in {"stage", "move"} => stable'["cvc"] <= Release[p]
        BY <1>1, <1>3, <2>2, LaunchDecides
    <3> QED BY <1>1, <3>1, <3>2, <3>3 DEF SeenUnderLock, NoneNewer, At
  <2> QED BY <2>1, <2>2
<1>4. ASSUME NEW i \in Installers, Install(i) \/ Signal(i) PROVE SeenUnderLock' /\ NoneNewer'
  <2>1. CASE Move(i) BY <1>1, <2>1, MoveDecides DEF Processes
  <2>2. CASE ~Move(i)
    <3>1. stable' = stable BY <1>1, <1>4, <2>2, OnlyMovesInstall
    <3>2. \A q \in Launchers : at'[q] = at[q] /\ turn'[q] = turn[q] /\ seen'[q] = seen[q]
        BY <1>1, <1>4, InstallFrame, ReleaseAssumption DEF Whereabouts, Processes
    <3> QED BY <1>1, <3>1, <3>2 DEF SeenUnderLock, NoneNewer, At
  <2> QED BY <2>1, <2>2
<1>5. ASSUME NEW p \in Processes, Kill(p) PROVE SeenUnderLock' /\ NoneNewer'
  <2>1. /\ at'[p] = "done" /\ UNCHANGED <<turn, seen, stable>>
        /\ \A q \in Processes : q # p => at'[q] = at[q]
      BY <1>1, <1>5, KillFrame DEF Whereabouts
  <2> QED BY <1>1, <2>1 DEF SeenUnderLock, NoneNewer, At, Processes
<1> QED BY <1>2, <1>3, <1>4, <1>5 DEF Next

LEMMA InitDecides == Init => DecideIInv
<1> SUFFICES ASSUME Init PROVE SeenUnderLock /\ NoneNewer BY DEF DecideIInv
<1>1. \A p \in Launchers : at[p] \in {"inspect", "done"}
    BY DEF Init, FirstStep, Processes
<1> QED BY <1>1 DEF SeenUnderLock, NoneNewer, At

DecidedIInv == LockIInv /\ DecideIInv

\* A launch never puts its cvc in the place of a newer one, though others have put
\* theirs in since it first looked.
THEOREM LaunchesNeverDowngrade == Spec => NeverDowngrades
<1>1. Init => DecidedIInv BY InitWhereabouts, InitLock, InitDecides DEF LockIInv, DecidedIInv
<1>2. DecidedIInv /\ [Next]_vars => DecidedIInv' BY NextLockIInv, NextDecides DEF DecidedIInv
<1>3. DecidedIInv /\ [Next]_vars =>
        [\A p \in Launchers :
            moved'[p] # moved[p] /\ "crossed" \notin past => stable'["cvc"] >= stable["cvc"]]_vars
  <2> SUFFICES ASSUME DecidedIInv, Next, NEW p \in Launchers, moved'[p] # moved[p],
                      "crossed" \notin past
               PROVE  stable'["cvc"] >= stable["cvc"]
      OBVIOUS
  <2>1. Whereabouts /\ NoneNewer /\ p \in Processes /\ p \notin Installers
      BY ReleaseAssumption DEF DecidedIInv, LockIInv, DecideIInv, Crossed, Processes
  <2>2. Move(p)
    <3>1. ASSUME NEW q \in Launchers, Launch(q) PROVE Move(p)
        BY <2>1, <3>1, LaunchFrame, OnlyMoves DEF Whereabouts
    <3>2. ASSUME NEW i \in Installers, Install(i) \/ Signal(i) PROVE FALSE
        BY <2>1, <3>2, InstallFrame DEF Whereabouts
    <3>3. ASSUME NEW q \in Processes, Kill(q) PROVE FALSE
        BY <2>1, <3>3, KillFrame DEF Whereabouts
    <3> QED BY <3>1, <3>2, <3>3 DEF Next
  <2>3. stable["cvc"] \in Nat /\ Release[p] \in Nat /\ stable["cvc"] <= Release[p]
      BY <2>1, <2>2, Moves, ReleaseAssumption DEF NoneNewer, Whereabouts, TypeOK, Files
  <2> QED BY <2>1, <2>2, <2>3, Moves DEF Whereabouts, Files
<1> QED BY <1>1, <1>2, <1>3, PTL DEF Spec, NeverDowngrades
-----------------------------------------------------------------------------
(* What is run                                                             *)

\* A file that is moved in is no older than the cvc that is there.
LEMMA MovesNewer ==
    ASSUME LockIInv, ~Crossed, NoneNewer, NEW p \in Processes, Move(p), past' = {}
    PROVE  Release[p] >= stable["cvc"]
<1>1. Whereabouts BY DEF LockIInv
<1>2. CASE p \in Launchers BY <1>1, <1>2, Moves, ReleaseAssumption DEF NoneNewer, Whereabouts, TypeOK, Files
<1>3. CASE p \in Installers
  <2>1. ~Lowers(p) BY DEF Move
  <2>2. stable["cvc"] \in Nat /\ Release[p] \in Nat /\ "cvc" \in Files
      BY <1>1, ReleaseAssumption DEF Whereabouts, TypeOK, Files
  <2> QED BY <1>3, <2>1, <2>2 DEF Lowers
<1> QED BY <1>2, <1>3 DEF Processes

LEMMA MoveVersions ==
    ASSUME LockIInv, DecideIInv, past = {}, Versions, NEW p \in Processes, Move(p), past' = {}
    PROVE  Versions'
<1>0. /\ TypeOK /\ MovedOnce /\ Whereabouts /\ ~Crossed /\ NoneNewer
    BY DEF LockIInv, Whereabouts, DecideIInv, Crossed
<1>1. /\ moved[p] \in 0..2 /\ moved'[p] = moved[p] + 1
      /\ NextFile(p) = PublishOrder[moved[p] + 1] /\ NextFile(p) \in Files
      /\ stable'[NextFile(p)] = Release[p]
      /\ \A f \in Files : f # NextFile(p) => stable'[f] = stable[f]
      /\ Release[p] \in Nat \ {0}
      /\ at[p] = "move" /\ at'[p] \in {"move", "verify", "release"}
      /\ UNCHANGED <<turn, seen, path, ran>>
    BY <1>0, Moves
<1>2. Release[p] >= stable["cvc"] BY <1>0, MovesNewer
<1>3. \A f \in Files : stable[f] \in Nat BY <1>0 DEF TypeOK
<1>4. stable'["cvc"] >= stable["cvc"] BY <1>1, <1>2, <1>3 DEF Files
<1>5. \A f \in Files : stable[f] # 0 => stable'[f] # 0 BY <1>1, <1>3
<1>6. \A k \in 1..moved[p] : stable[PublishOrder[k]] = Release[p]
    BY <1>1 DEF Versions, PutInOrder
<1>7. PublishOrder[1] = "cvc-lsp" /\ PublishOrder[2] = "cvc-mcp" /\ PublishOrder[3] = "cvc"
    BY DEF PublishOrder
<1>8. \A k \in 1..moved'[p] : stable'[PublishOrder[k]] = Release[p]
  <2>1. CASE moved[p] = 0 BY <1>1, <2>1
  <2>2. CASE moved[p] = 1 BY <1>1, <1>6, <1>7, <2>2 DEF Files
  <2>3. CASE moved[p] = 2 BY <1>1, <1>6, <1>7, <2>3 DEF Files
  <2> QED BY <1>1, <2>1, <2>2, <2>3
<1>9. PutInOrder'
  <2> SUFFICES ASSUME NEW q \in Processes, at'[q] \in {"move", "verify"}, q # p
               PROVE  FALSE
      BY <1>8 DEF PutInOrder
  <2>1. at[q] = at'[q] BY <1>0 DEF Move, Goto, TypeOK
  <2> QED BY <1>0, <2>1, MoverIsAlone DEF Publishing
<1>10. CvcLast'
  <2>1. CASE moved[p] \in 0..1
    <3>1. NextFile(p) # "cvc" BY <1>1, <1>7, <2>1
    <3>2. stable'["cvc"] = stable["cvc"] BY <1>1, <3>1 DEF Files
    <3> QED BY <1>1, <1>2, <1>3, <3>2 DEF Versions, CvcLast
  <2>2. CASE moved[p] = 2
      BY <1>1, <1>7, <1>8, <2>2 DEF CvcLast, Files
  <2> QED BY <1>1, <2>1, <2>2
<1>11. SeenStays' BY <1>0, <1>1, <1>5 DEF Versions, SeenStays, TypeOK
<1>12. PathIsNew'
  <2> SUFFICES ASSUME NEW q \in Launchers, path'[q] = "stable"
               PROVE  stable'["cvc"] >= Release[q] /\ stable'[Want[q]] # 0
      BY DEF PathIsNew
  <2>1. stable["cvc"] >= Release[q] /\ stable[Want[q]] # 0
      BY <1>1 DEF Versions, PathIsNew
  <2>2. Want[q] \in Files /\ Release[q] \in Nat /\ stable'["cvc"] \in Nat /\ stable["cvc"] \in Nat
      BY <1>1, <1>3, ReleaseAssumption DEF Processes, Files
  <2> QED BY <1>4, <1>5, <2>1, <2>2
<1>13. RunsAtLeastPackage' BY <1>1 DEF Versions, RunsAtLeastPackage
<1> QED BY <1>9, <1>10, <1>11, <1>12, <1>13 DEF Versions

\* What a launch comes to see, to run and to have run.
LEMMA LaunchVersions ==
    ASSUME Whereabouts, past = {}, Versions, NEW p \in Launchers, Launch(p), ~Move(p)
    PROVE  /\ at'[p] \in {"move", "verify"} =>
                \A k \in 1..moved'[p] : stable'[PublishOrder[k]] = Release[p]
           /\ \A f \in seen'[p] : stable'[f] # 0
           /\ path'[p] = "stable" => stable'["cvc"] >= Release[p] /\ stable'[Want[p]] # 0
           /\ ran'[p] # 0 => ran'[p] >= Release[p]
           /\ \A q \in Launchers : q # p => ran'[q] = ran[q]
<1> USE DEF Versions, PutInOrder, SeenStays, PathIsNew, RunsAtLeastPackage, At, Goto,
        files, lock, plan, world
<1>0. /\ p \in Processes /\ p \notin Installers /\ TypeOK /\ MovedOnce
      /\ Release[p] \in Nat \ {0} /\ Want[p] \in Files
    BY ReleaseAssumption DEF Processes, Whereabouts
<1>00. stable' = stable /\ moved' = moved BY OnlyMoves
<1>000. \A f \in Files : stable[f] \in Nat BY <1>0 DEF TypeOK
<1>1. CASE Inspect(p) BY <1>0, <1>00, <1>1 DEF Inspect, SetSeen, TypeOK
<1>2. CASE KeepStable(p)
  <2>1. "cvc" \in seen[p] /\ stable["cvc"] >= Release[p] /\ Want[p] \in seen[p]
    <3>1. (Newer(p) /\ Want[p] \in seen[p]) \/ Complete(p) BY <1>2 DEF KeepStable, RunsStable
    <3>2. CASE Newer(p) /\ Want[p] \in seen[p]
        BY <1>0, <1>000, <3>2 DEF Newer, Version, Files
    <3>3. CASE Complete(p) BY <1>0, <1>000, <3>3 DEF Complete, Version, Files
    <3> QED BY <3>1, <3>2, <3>3
  <2>2. path'[p] = "stable" /\ seen' = seen /\ ran' = ran /\ at'[p] \in {"release", "run"}
      BY <1>0, <1>2 DEF KeepStable, SetPath, Leave, TypeOK
  <2> QED BY <1>00, <2>1, <2>2
<1>3. CASE Verify(p)
  <2>1. moved[p] = 3 /\ \A k \in 1..3 : stable[PublishOrder[k]] = Release[p]
      BY <1>0, <1>3 DEF Verify, MovedOnce
  <2>2. \A f \in Files : stable[f] = Release[p] BY <2>1 DEF PublishOrder, Files
  <2>3. seen' = seen /\ ran' = ran /\ at'[p] = "release"
      BY <1>0, <1>3 DEF Verify, SetPath, TypeOK
  <2>4. stable["cvc"] >= Release[p] /\ stable[Want[p]] # 0 BY <1>0, <2>2 DEF Files
  <2> QED BY <1>00, <2>3, <2>4
<1>4. CASE Run(p)
  <2>1. path' = path /\ seen' = seen /\ at'[p] = "done" /\ \A q \in Launchers : q # p => ran'[q] = ran[q]
      BY <1>0, <1>4 DEF Run, TypeOK
  <2>2. ran'[p] # 0 => ran'[p] >= Release[p]
    <3>1. CASE path[p] = "stable"
      <4>1. ran'[p] = stable[Want[p]] BY <1>4, <3>1 DEF Run, TypeOK, Whereabouts
      <4>2. stable[Want[p]] >= stable["cvc"] /\ stable["cvc"] >= Release[p]
          BY <1>0, <3>1 DEF CvcLast
      <4> QED BY <1>0, <1>000, <4>1, <4>2 DEF Files
    <3>2. CASE path[p] # "stable"
        BY <1>0, <1>4, <3>2 DEF Run, TypeOK
    <3> QED BY <3>1, <3>2
  <2> QED BY <1>00, <2>1, <2>2
<1>5. CASE KeepWithout(p) BY <1>0, <1>00, <1>5 DEF KeepWithout, Leave, TypeOK, MovedOnce
<1>6. CASE NeedCache(p) BY <1>0, <1>00, <1>6 DEF NeedCache, TypeOK, MovedOnce
<1>7. CASE Publish(p) BY <1>0, <1>00, <1>7 DEF Publish, SetTries, TypeOK, MovedOnce
<1>8. CASE Blocked(p) BY <1>0, <1>00, <1>8 DEF Blocked, Upset, Leave, TypeOK, MovedOnce
<1>9. CASE UseCache(p) BY <1>0, <1>00, <1>9 DEF UseCache, SecondLook, SetTurn, TypeOK, MovedOnce
<1>10. CASE ClearCache(p) BY <1>0, <1>00, <1>10 DEF ClearCache, CacheState, TypeOK, MovedOnce
<1>11. CASE Download(p) BY <1>0, <1>00, <1>11 DEF Download, SecondLook, SetTurn, CacheState, TypeOK, MovedOnce
<1>12. CASE DownloadFails(p) BY <1>0, <1>00, <1>12 DEF DownloadFails, Upset, TypeOK, MovedOnce
<1>13. CASE Take(p) BY <1>0, <1>00, <1>13 DEF Take, TypeOK, MovedOnce
<1>14. CASE Label(p) BY <1>0, <1>00, <1>14 DEF Label, SetTurn, RunCache, TypeOK, MovedOnce
<1>15. CASE LabelFails(p) BY <1>0, <1>00, <1>15 DEF LabelFails, Upset, RemoveIfEmpty, RunCache, TypeOK, MovedOnce
<1>16. CASE FindGone(p) BY <1>0, <1>00, <1>16 DEF FindGone, RunCache, Again, SetTries, TypeOK, MovedOnce
<1>17. CASE FindDead(p) BY <1>0, <1>00, <1>17 DEF FindDead, SetJudged, Held, TypeOK, MovedOnce
<1>18. CASE FindHeld(p) BY <1>0, <1>00, <1>18 DEF FindHeld, TypeOK, MovedOnce
<1>19. CASE Claim(p) BY <1>0, <1>00, <1>19 DEF Claim, Again, SetTries, TypeOK, MovedOnce
<1>20. CASE Unlink(p) BY <1>0, <1>00, <1>20 DEF Unlink, Again, SetTries, Claimed, TypeOK, MovedOnce
<1>21. CASE RemoveBroken(p) BY <1>0, <1>00, <1>21 DEF RemoveBroken, RemoveIfEmpty, RunCache, Again, SetTries, TypeOK, MovedOnce
<1>22. CASE StopWaiting(p) BY <1>0, <1>00, <1>22 DEF StopWaiting, SetTurn, TypeOK, MovedOnce
<1>23. CASE TimeUp(p) BY <1>0, <1>00, <1>23 DEF TimeUp, RunCache, TimeIsUp, TypeOK, MovedOnce
<1>24. CASE ReleaseRecord(p) BY <1>0, <1>00, <1>24 DEF ReleaseRecord, TypeOK, MovedOnce
<1>25. CASE Free(p) BY <1>0, <1>00, <1>25 DEF Free, RemoveIfEmpty, TypeOK, MovedOnce
<1>26. CASE Stage(p) BY <1>0, <1>00, <1>26 DEF Stage, TypeOK, MovedOnce
<1>27. CASE StageOrMoveFails(p) BY <1>0, <1>00, <1>27 DEF StageOrMoveFails, Upset, TypeOK, MovedOnce
<1> QED BY <1>1, <1>2, <1>3, <1>4, <1>5, <1>6, <1>7, <1>8, <1>9, <1>10, <1>11, <1>12, <1>13, <1>14, <1>15, <1>16, <1>17, <1>18, <1>19, <1>20, <1>21, <1>22, <1>23, <1>24, <1>25, <1>26, <1>27
       DEF Launch, Decide, Fetch, Acquire, Break, Wait, PutIn
\* An installation, where it moves nothing, brings nothing about but its own turn.
LEMMA InstallVersions ==
    ASSUME Whereabouts, NEW i \in Installers, Install(i) \/ Signal(i), ~Move(i)
    PROVE  /\ ran' = ran
           /\ at'[i] \in {"move", "verify"} => moved'[i] = 0
<1> USE DEF Whereabouts, TypeOK, MovedOnce, Goto, At, files, lock, plan, world
<1>0. i \in Processes BY DEF Processes
<1>1. CASE Stage(i) BY <1>0, <1>1 DEF Stage
<1>2. CASE StageOrMoveFails(i) BY <1>0, <1>2 DEF StageOrMoveFails, Upset
<1>3. CASE TakeOrRefuse(i) BY <1>0, <1>3 DEF TakeOrRefuse
<1>4. CASE InstallerReleases(i) BY <1>0, <1>4 DEF InstallerReleases, CleanUp
<1>5. CASE Signal(i) BY <1>0, <1>5 DEF Signal, CleanUp, UpsetOf
<1> QED BY <1>1, <1>2, <1>3, <1>4, <1>5, NoVerify DEF Install, PutIn

LEMMA NextVersions == LockIInv /\ DecideIInv /\ VersionIInv /\ [Next]_vars => VersionIInv'
<1> SUFFICES ASSUME LockIInv, DecideIInv, VersionIInv, [Next]_vars, past' = {} PROVE Versions'
    BY DEF VersionIInv
<1>1. past = {} /\ Versions /\ Whereabouts
    BY CrossedStays DEF VersionIInv, LockIInv
<1>2. CASE UNCHANGED vars
    BY <1>1, <1>2 DEF vars, files, plan, Versions, PutInOrder, CvcLast, SeenStays, PathIsNew,
                      RunsAtLeastPackage
<1>3. ASSUME NEW p \in Launchers, Launch(p) PROVE Versions'
  <2>1. CASE Move(p) BY <1>1, <2>1, MoveVersions DEF Processes
  <2>2. CASE ~Move(p)
    <3>1. stable' = stable /\ moved' = moved BY <1>1, <1>3, <2>2, OnlyMoves
    <3>2. \A q \in Processes : q # p => at'[q] = at[q]
        BY <1>1, <1>3, LaunchFrame DEF Whereabouts, Processes
    <3>3. \A q \in Launchers : q # p => seen'[q] = seen[q] /\ path'[q] = path[q]
        BY <1>1, <1>3, LaunchFrame DEF Whereabouts, Processes
    <3>4. /\ at'[p] \in {"move", "verify"} =>
                \A k \in 1..moved'[p] : stable'[PublishOrder[k]] = Release[p]
          /\ \A f \in seen'[p] : stable'[f] # 0
          /\ path'[p] = "stable" => stable'["cvc"] >= Release[p] /\ stable'[Want[p]] # 0
          /\ ran'[p] # 0 => ran'[p] >= Release[p]
          /\ \A q \in Launchers : q # p => ran'[q] = ran[q]
        BY <1>1, <1>3, <2>2, LaunchVersions
    <3>5. PutInOrder' BY <1>1, <3>1, <3>2, <3>4 DEF Versions, PutInOrder
    <3>6. CvcLast' BY <1>1, <3>1 DEF Versions, CvcLast
    <3>7. SeenStays' BY <1>1, <3>1, <3>3, <3>4 DEF Versions, SeenStays
    <3>8. PathIsNew' BY <1>1, <3>1, <3>3, <3>4 DEF Versions, PathIsNew
    <3>9. RunsAtLeastPackage' BY <1>1, <3>4 DEF Versions, RunsAtLeastPackage
    <3> QED BY <3>5, <3>6, <3>7, <3>8, <3>9 DEF Versions
  <2> QED BY <2>1, <2>2
<1>4. ASSUME NEW i \in Installers, Install(i) \/ Signal(i) PROVE Versions'
  <2>1. CASE Move(i) BY <1>1, <2>1, MoveVersions DEF Processes
  <2>2. CASE ~Move(i)
    <3>1. stable' = stable /\ moved' = moved BY <1>1, <1>4, <2>2, OnlyMovesInstall
    <3>2. /\ \A q \in Processes : q # i => at'[q] = at[q]
          /\ UNCHANGED <<seen, path>>
        BY <1>1, <1>4, InstallFrame DEF Whereabouts
    <3>3. ran' = ran /\ (at'[i] \in {"move", "verify"} => moved'[i] = 0)
        BY <1>1, <1>4, <2>2, InstallVersions
    <3>4. PutInOrder' BY <1>1, <3>1, <3>2, <3>3 DEF Versions, PutInOrder
    <3> QED BY <1>1, <3>1, <3>2, <3>3, <3>4
            DEF Versions, CvcLast, SeenStays, PathIsNew, RunsAtLeastPackage
  <2> QED BY <2>1, <2>2
<1>5. ASSUME NEW p \in Processes, Kill(p) PROVE Versions'
  <2>1. /\ at'[p] = "done" /\ UNCHANGED <<seen, path, moved, stable, ran>>
        /\ \A q \in Processes : q # p => at'[q] = at[q]
      BY <1>1, <1>5, KillFrame DEF Whereabouts, Kill
  <2>2. PutInOrder' BY <1>1, <2>1 DEF Versions, PutInOrder
  <2> QED BY <1>1, <2>1, <2>2
          DEF Versions, CvcLast, SeenStays, PathIsNew, RunsAtLeastPackage
<1> QED BY <1>2, <1>3, <1>4, <1>5 DEF Next

LEMMA InitVersions == Init => VersionIInv
<1> SUFFICES ASSUME Init PROVE Versions BY DEF VersionIInv
<1>1. PutInOrder
  <2>1. \A p \in Processes : at[p] \in {"inspect", "done", "take"} BY DEF Init, FirstStep
  <2> QED BY <2>1 DEF PutInOrder
<1>2. CvcLast BY FirstAssumption DEF Init, CvcLast
<1> QED BY <1>1, <1>2 DEF Init, Versions, SeenStays, PathIsNew, RunsAtLeastPackage

VersionedIInv == LockIInv /\ DecideIInv /\ VersionIInv

\* What a launch starts is at least the release of its package, whatever others do
\* while it looks without a lock.
THEOREM LaunchesRunTheirRelease == Spec => []RunsAtLeastPackage
<1>1. Init => VersionedIInv
    BY InitWhereabouts, InitLock, InitDecides, InitVersions DEF LockIInv, VersionedIInv
<1>2. VersionedIInv /\ [Next]_vars => VersionedIInv'
    BY NextLockIInv, NextDecides, NextVersions DEF VersionedIInv
<1>3. VersionedIInv => RunsAtLeastPackage
    BY DEF VersionedIInv, VersionIInv, Versions, RunsAtLeastPackage
<1> QED BY <1>1, <1>2, <1>3, PTL DEF Spec
-----------------------------------------------------------------------------
(* The record of a dead launch                                             *)

\* The launch q is about to rename or to remove that record.
HasInHand(q, record) ==
    \/ At(q, "claim") /\ record = judged[q]
    \/ At(q, "unlink") /\ record = Renamed(q)
\* What a launch judged was of a dead one, also when it is through with it.
JudgedWasDead ==
    \A q \in Launchers : Whose(judged[q]) \in Launchers => Whose(judged[q]) \in killed
\* Once somebody judged it, a record of the only launch that was killed is in hand.
InHand ==
    \A p, q \in Launchers :
        /\ Whose(judged[q]) = p
        /\ killed \cap Launchers = {p}
        => \A record \in entries : Whose(record) = p => \E r \in Launchers : HasInHand(r, record)
BrokenIInv == Whereabouts /\ JudgedWasDead /\ InHand

\* The attempts of a launch are counted by itself.
LEMMA OthersTries ==
    ASSUME TypeOK, NEW p \in Launchers, Launch(p), NEW q \in Launchers \ {p}
    PROVE  tries'[q] = tries[q]
<1> USE DEF TypeOK, plan
<1>1. CASE Inspect(p) BY <1>1 DEF Inspect, SetSeen
<1>2. CASE KeepStable(p) BY <1>2 DEF KeepStable, SetPath, Leave
<1>3. CASE KeepWithout(p) BY <1>3 DEF KeepWithout, Leave
<1>4. CASE NeedCache(p) BY <1>4 DEF NeedCache
<1>5. CASE Publish(p) BY <1>5 DEF Publish, SetTries
<1>6. CASE Blocked(p) BY <1>6 DEF Blocked, Upset, Leave
<1>7. CASE UseCache(p) BY <1>7 DEF UseCache, SecondLook, SetTurn
<1>8. CASE ClearCache(p) BY <1>8 DEF ClearCache
<1>9. CASE Download(p) BY <1>9 DEF Download, SecondLook, SetTurn
<1>10. CASE DownloadFails(p) BY <1>10 DEF DownloadFails, Upset
<1>11. CASE Take(p) BY <1>11 DEF Take
<1>12. CASE Label(p) BY <1>12 DEF Label, SetTurn, RunCache
<1>13. CASE LabelFails(p) BY <1>13 DEF LabelFails, Upset, RemoveIfEmpty, RunCache
<1>14. CASE FindGone(p) BY <1>14 DEF FindGone, RunCache, Again, SetTries
<1>15. CASE FindDead(p) BY <1>15 DEF FindDead, SetJudged, Held
<1>16. CASE FindHeld(p) BY <1>16 DEF FindHeld
<1>17. CASE Claim(p) BY <1>17 DEF Claim, Again, SetTries
<1>18. CASE Unlink(p) BY <1>18 DEF Unlink, Again, SetTries, Claimed
<1>19. CASE RemoveBroken(p) BY <1>19 DEF RemoveBroken, RemoveIfEmpty, RunCache, Again, SetTries
<1>20. CASE StopWaiting(p) BY <1>20 DEF StopWaiting, SetTurn
<1>21. CASE TimeUp(p) BY <1>21 DEF TimeUp, RunCache, TimeIsUp
<1>22. CASE ReleaseRecord(p) BY <1>22 DEF ReleaseRecord
<1>23. CASE Free(p) BY <1>23 DEF Free, RemoveIfEmpty
<1>24. CASE Run(p) BY <1>24 DEF Run
<1>25. CASE Stage(p) BY <1>25 DEF Stage
<1>26. CASE Move(p) BY <1>26 DEF Move, SetMoved, AllMoved
<1>27. CASE StageOrMoveFails(p) BY <1>27 DEF StageOrMoveFails, Upset
<1>28. CASE Verify(p) BY <1>28 DEF Verify, SetPath
<1> QED BY <1>1, <1>2, <1>3, <1>4, <1>5, <1>6, <1>7, <1>8, <1>9, <1>10, <1>11, <1>12, <1>13, <1>14, <1>15, <1>16, <1>17, <1>18, <1>19, <1>20, <1>21, <1>22, <1>23, <1>24, <1>25, <1>26, <1>27, <1>28
       DEF Launch, Decide, Fetch, Acquire, Break, Wait, PutIn

LEMMA InstallTries == ASSUME NEW i \in Installers, InstallersOnly, Install(i) \/ Signal(i) PROVE tries' = tries
BY NoVerify DEF Install, Signal, PutIn, Stage, Move, StageOrMoveFails, TakeOrRefuse,
   InstallerReleases, SetMoved, plan

\* A step of a launch takes up a record that is the only one, writes its own,
\* renames or removes the one it has in hand, lets go of one that is not there,
\* or goes on without.
LEMMA LaunchHands ==
    ASSUME Whereabouts, NEW p \in Launchers, Launch(p)
    PROVE  \/ /\ FindDead(p)
              /\ \E record \in entries :
                    entries = {record} /\ "dead" \in Judge(p, record) /\ judged'[p] = record
              /\ at'[p] = "claim" /\ entries' = entries
           \/ /\ at[p] \notin {"claim", "unlink"} /\ judged' = judged
              /\ entries' \in {entries, {}, entries \cup {OwnRecord(p)}}
           \/ /\ At(p, "claim") /\ judged' = judged /\ judged[p] \in entries
              /\ entries' = (entries \ {judged[p]}) \cup {Renamed(p)}
              /\ at'[p] = "unlink" /\ Renamed(p)' = Renamed(p)
           \/ /\ At(p, "claim") /\ judged' = judged /\ judged[p] \notin entries
              /\ entries' = entries
           \/ /\ At(p, "unlink") /\ judged' = judged /\ entries' = entries \ {Renamed(p)}
<1> USE DEF Whereabouts, TypeOK, At, Goto, files, lock, plan, world
<1>0. p \in Processes /\ p \notin Installers BY ReleaseAssumption DEF Processes
<1>1. CASE Inspect(p) BY <1>0, <1>1 DEF Inspect, SetSeen
<1>2. CASE KeepStable(p) BY <1>0, <1>2 DEF KeepStable, SetPath, Leave
<1>3. CASE KeepWithout(p) BY <1>0, <1>3 DEF KeepWithout, Leave
<1>4. CASE NeedCache(p) BY <1>0, <1>4 DEF NeedCache
<1>5. CASE Publish(p) BY <1>0, <1>5 DEF Publish, SetTries
<1>6. CASE Blocked(p) BY <1>0, <1>6 DEF Blocked, Upset, Leave
<1>7. CASE UseCache(p) BY <1>0, <1>7 DEF UseCache, SecondLook, SetTurn
<1>8. CASE ClearCache(p) BY <1>0, <1>8 DEF ClearCache, CacheState
<1>9. CASE Download(p) BY <1>0, <1>9 DEF Download, SecondLook, SetTurn, CacheState
<1>10. CASE DownloadFails(p) BY <1>0, <1>10 DEF DownloadFails, Upset
<1>11. CASE Take(p) BY <1>0, <1>11 DEF Take
<1>12. CASE Label(p) BY <1>0, <1>12 DEF Label, SetTurn, RunCache
<1>13. CASE LabelFails(p) BY <1>0, <1>13 DEF LabelFails, Upset, RemoveIfEmpty, RunCache
<1>14. CASE FindGone(p) BY <1>0, <1>14 DEF FindGone, RunCache, Again, SetTries
<1>15. CASE FindDead(p)
  <2>1. PICK record \in entries : Held(p, record, "dead") /\ SetJudged(p, record)
    BY <1>15 DEF FindDead
  <2>2. entries = {record} /\ "dead" \in Judge(p, record) BY <2>1 DEF Held
  <2>3. judged'[p] = record BY <2>1 DEF SetJudged
  <2>4. at'[p] = "claim" /\ entries' = entries BY <1>0, <1>15 DEF FindDead
  <2> QED BY <1>15, <2>2, <2>3, <2>4
<1>16. CASE FindHeld(p) BY <1>0, <1>16 DEF FindHeld
<1>17. CASE Claim(p)
  <2>1. CASE judged[p] \in entries BY <1>0, <1>17, <2>1 DEF Claim, Renamed, Name
  <2>2. CASE judged[p] \notin entries BY <1>0, <1>17, <2>2 DEF Claim, Again, SetTries
  <2> QED BY <2>1, <2>2
<1>18. CASE Unlink(p)
  <2>1. judged' = judged BY <1>18 DEF Unlink, Again, SetTries
  <2>2. entries' = entries \ {Renamed(p)} BY <1>18 DEF Unlink, Claimed
  <2> QED BY <1>18, <2>1, <2>2 DEF Unlink
<1>19. CASE RemoveBroken(p) BY <1>0, <1>19 DEF RemoveBroken, RemoveIfEmpty, RunCache, Again, SetTries
<1>20. CASE StopWaiting(p) BY <1>0, <1>20 DEF StopWaiting, SetTurn
<1>21. CASE TimeUp(p) BY <1>0, <1>21 DEF TimeUp, RunCache, TimeIsUp
<1>22. CASE ReleaseRecord(p) BY <1>0, <1>22 DEF ReleaseRecord
<1>23. CASE Free(p) BY <1>0, <1>23 DEF Free, RemoveIfEmpty
<1>24. CASE Run(p) BY <1>0, <1>24 DEF Run
<1>25. CASE Stage(p) BY <1>0, <1>25 DEF Stage
<1>26. CASE Move(p) BY <1>0, <1>26 DEF Move, SetMoved, AllMoved
<1>27. CASE StageOrMoveFails(p) BY <1>0, <1>27 DEF StageOrMoveFails, Upset
<1>28. CASE Verify(p) BY <1>0, <1>28 DEF Verify, SetPath
<1> QED BY <1>1, <1>2, <1>3, <1>4, <1>5, <1>6, <1>7, <1>8, <1>9, <1>10, <1>11, <1>12, <1>13, <1>14, <1>15, <1>16, <1>17, <1>18, <1>19, <1>20, <1>21, <1>22, <1>23, <1>24, <1>25, <1>26, <1>27, <1>28
       DEF Launch, Decide, Fetch, Acquire, Break, Wait, PutIn

\* A step of a launch keeps each record of a dead one in hand.
LEMMA LaunchInHand ==
    ASSUME BrokenIInv, NEW p \in Launchers, Launch(p)
    PROVE  JudgedWasDead' /\ InHand'
<1> USE DEF BrokenIInv
<1>1. /\ killed' = killed /\ at[p] # "done" /\ p \in Processes
      /\ \A q \in Launchers \ {p} : at'[q] = at[q] /\ turn'[q] = turn[q] /\ judged'[q] = judged[q]
  BY LaunchFrame DEF Whereabouts, Processes
<1>2. \A q \in Launchers \ {p} : tries'[q] = tries[q] BY OthersTries DEF Whereabouts
<1>3. \A q \in Launchers \ {p} : \A record : HasInHand(q, record) <=> HasInHand(q, record)'
  BY <1>1, <1>2 DEF HasInHand, At, Renamed, Name
<1>4. p \notin killed BY <1>1 DEF Whereabouts, KilledAreDone, At
<1>5. JudgedWasDead'
  <2>1. CASE judged' = judged BY <1>1, <2>1 DEF JudgedWasDead
  <2>2. CASE \E record \in entries : "dead" \in Judge(p, record) /\ judged'[p] = record
    BY <1>1, <2>2 DEF JudgedWasDead, Judge
  <2> QED BY <2>1, <2>2, LaunchHands
<1>6. ASSUME NEW d \in Launchers, NEW q \in Launchers, Whose(judged'[q]) = d,
             killed \cap Launchers = {d}, NEW record \in entries', Whose(record) = d
      PROVE  \E r \in Launchers : HasInHand(r, record)'
  <2>1. CASE /\ FindDead(p)
             /\ \E only \in entries : entries = {only} /\ judged'[p] = only
             /\ at'[p] = "claim" /\ entries' = entries
    <3>1. record = judged'[p] BY <2>1
    <3> QED BY <2>1, <3>1 DEF HasInHand, At
  <2>2. ASSUME judged' = judged, record \in entries PROVE \E r \in Launchers : HasInHand(r, record)
    BY <1>6, <2>2 DEF InHand
  <2>3. CASE /\ at[p] \notin {"claim", "unlink"} /\ judged' = judged
             /\ entries' \in {entries, {}, entries \cup {OwnRecord(p)}}
    <3>1. record # OwnRecord(p) BY <1>4, <1>6 DEF OwnRecord, Whose
    <3>2. record \in entries BY <1>6, <2>3, <3>1
    <3>3. PICK r \in Launchers : HasInHand(r, record) BY <2>2, <2>3, <3>2
    <3>4. r # p BY <2>3, <3>3 DEF HasInHand, At
    <3> QED BY <1>3, <3>3, <3>4
  <2>4. CASE /\ At(p, "claim") /\ judged' = judged /\ judged[p] \in entries
             /\ entries' = (entries \ {judged[p]}) \cup {Renamed(p)}
             /\ at'[p] = "unlink" /\ Renamed(p)' = Renamed(p)
    <3>1. CASE record = Renamed(p) BY <2>4, <3>1 DEF HasInHand, At
    <3>2. CASE record \in entries \ {judged[p]}
      <4>1. PICK r \in Launchers : HasInHand(r, record) BY <2>2, <2>4, <3>2
      <4>2. r # p BY <2>4, <3>2, <4>1 DEF HasInHand, At
      <4> QED BY <1>3, <4>1, <4>2
    <3> QED BY <1>6, <2>4, <3>1, <3>2
  <2>5. CASE /\ At(p, "claim") /\ judged' = judged /\ judged[p] \notin entries
             /\ entries' = entries
    <3>1. PICK r \in Launchers : HasInHand(r, record) BY <1>6, <2>2, <2>5
    <3>2. r # p BY <1>6, <2>5, <3>1 DEF HasInHand, At
    <3> QED BY <1>3, <3>1, <3>2
  <2>6. CASE At(p, "unlink") /\ judged' = judged /\ entries' = entries \ {Renamed(p)}
    <3>1. PICK r \in Launchers : HasInHand(r, record) BY <1>6, <2>2, <2>6
    <3>2. r # p BY <1>6, <2>6, <3>1 DEF HasInHand, At
    <3> QED BY <1>3, <3>1, <3>2
  <2> QED BY <2>1, <2>3, <2>4, <2>5, <2>6, LaunchHands
<1>7. InHand' BY <1>1, <1>6 DEF InHand
<1> QED BY <1>5, <1>7

LEMMA NextBroken == BrokenIInv /\ [Next]_vars => BrokenIInv'
<1> SUFFICES ASSUME BrokenIInv, [Next]_vars PROVE BrokenIInv'
  OBVIOUS
<1> USE DEF BrokenIInv
<1>0. Whereabouts' BY NextWhereabouts
<1>1. CASE UNCHANGED vars
  <2>1. UNCHANGED <<killed, judged, entries, at, turn, tries>> BY <1>1 DEF vars, plan, world, lock
  <2>2. \A q, record : HasInHand(q, record) => HasInHand(q, record)'
    BY <2>1 DEF HasInHand, At, Renamed, Name
  <2> QED BY <1>0, <2>1, <2>2 DEF JudgedWasDead, InHand
<1>2. ASSUME NEW p \in Launchers, Launch(p) PROVE BrokenIInv'
  BY <1>0, <1>2, LaunchInHand
<1>3. ASSUME NEW i \in Installers, Install(i) \/ Signal(i) PROVE BrokenIInv'
  <2>1. /\ killed' \in {killed, killed \cup {i}} /\ UNCHANGED <<turn, judged, entries>>
        /\ \A q \in Launchers : at'[q] = at[q]
    BY <1>3, InstallFrame, ReleaseAssumption DEF Whereabouts, Processes
  <2>2. tries' = tries BY <1>3, InstallTries DEF Whereabouts
  <2>3. killed' \cap Launchers = killed \cap Launchers BY <2>1, ReleaseAssumption
  <2>4. \A q \in Launchers : \A record : HasInHand(q, record) => HasInHand(q, record)'
    BY <2>1, <2>2 DEF HasInHand, At, Renamed, Name
  <2>5. JudgedWasDead' BY <2>1 DEF JudgedWasDead
  <2>6. InHand' BY <2>1, <2>3, <2>4 DEF InHand
  <2> QED BY <1>0, <2>5, <2>6
<1>4. ASSUME NEW p \in Processes, Kill(p) PROVE BrokenIInv'
  <2>1. /\ killed' = killed \cup {p} /\ UNCHANGED <<turn, judged, entries>>
        /\ \A q \in Processes \ {p} : at'[q] = at[q]
    BY <1>4, KillFrame DEF Whereabouts
  <2>2. tries' = tries /\ at[p] # "done" BY <1>4 DEF Kill, plan, At
  <2>3. JudgedWasDead' BY <2>1 DEF JudgedWasDead
  <2>4. ASSUME NEW d \in Launchers, NEW q \in Launchers, Whose(judged[q]) = d,
               (killed \cup {p}) \cap Launchers = {d}, NEW record \in entries, Whose(record) = d
        PROVE  \E r \in Launchers : HasInHand(r, record)'
    <3>1. d \in killed BY <2>4 DEF JudgedWasDead
    <3>2. p \notin killed \cap Launchers BY <2>2 DEF Whereabouts, KilledAreDone, At
    <3>3. p \notin Launchers BY <2>4, <3>1, <3>2
    <3>4. killed \cap Launchers = {d} BY <2>4, <3>1
    <3>5. PICK r \in Launchers : HasInHand(r, record) BY <2>4, <3>4 DEF InHand
    <3>6. at'[r] = at[r] BY <2>1, <3>3 DEF Processes
    <3> QED BY <2>1, <2>2, <3>5, <3>6 DEF HasInHand, At, Renamed, Name
  <2>5. InHand' BY <2>1, <2>4 DEF InHand
  <2> QED BY <1>0, <2>3, <2>5
<1> QED BY <1>1, <1>2, <1>3, <1>4 DEF Next

LEMMA InitBroken == Init => BrokenIInv
<1> SUFFICES ASSUME Init PROVE BrokenIInv
  OBVIOUS
<1>1. \A q \in Launchers : Whose(judged[q]) = None BY DEF Init, OwnRecord, Whose
<1>2. None \notin Launchers BY ReleaseAssumption DEF Processes
<1> QED BY <1>1, <1>2, InitWhereabouts DEF BrokenIInv, JudgedWasDead, InHand

\* The record of a dead launch is gone when those that judged it have ended,
\* unless one of them was killed over it (release.js 690-712): whoever judged it
\* has it in hand until it is removed, or has lost it to another who has.
THEOREM DeadRecordsGo == Spec => []DeadRecordGoes
<1>1. BrokenIInv => DeadRecordGoes
  BY DEF BrokenIInv, InHand, HasInHand, DeadRecordGoes, At
<1> QED BY <1>1, InitBroken, NextBroken, PTL DEF Spec
=============================================================================
