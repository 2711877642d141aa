-------------------------- MODULE ReleaseLauncher ---------------------------
(***************************************************************************)
(* The npm launcher (npm/cvc-mcp/bin/release.js) and install.sh put the    *)
(* binaries of a release into one directory, ~/.cvc/bin, that hooks and    *)
(* editors run them from, while other launches look into it without a lock.*)
(*                                                                         *)
(* A launch looks at the version of the cvc in that directory.  Where it   *)
(* is older than its own package, it fetches its release into a cache,     *)
(* takes a lock, looks again, and moves the three files in, cvc last.      *)
(* The lock is a directory.  A launcher puts a record of itself there, by  *)
(* which a later launch breaks the lock of one that was killed; install.sh *)
(* does not, so its lock is broken by nobody.  Whatever goes wrong, the    *)
(* launch runs the binary of the cache.                                    *)
(*                                                                         *)
(* Versions are numbers; 0 stands for a file that is not there or cannot   *)
(* run.  A process is one launch or one installation, on a Unix system.    *)
(***************************************************************************)
EXTENDS Naturals, Sequences, FiniteSets

CONSTANTS
    Launchers,    \* launches
    Installers,   \* runs of install.sh
    Release,      \* Release[p]: the version p brings
    Want,         \* Want[p]: the binary the launch p is for
    Elsewhere,    \* sets of launches that may be on another host, or in another
                  \* PID namespace, than the rest
    Gone,         \* launches killed before, whose lock may be there
    FirstStable,  \* what the directory may hold at first: a version of each file
    FirstCache,   \* FirstCache[v]: the state of the cache of v at first
    MaxAttempts,  \* MAX_ACQUIRE_ATTEMPTS
    MaxUpsets,    \* bound: kills, signals to an installer and calls that fail
    None          \* no process

Files == {"cvc-lsp", "cvc-mcp", "cvc"}
Processes == Launchers \cup Installers
CacheState == {"absent", "damaged", "whole"}

ASSUME ReleaseAssumption ==
    /\ Release \in [Processes -> Nat \ {0}]
    /\ Want \in [Launchers -> Files]
    /\ Elsewhere \subseteq SUBSET Launchers
    /\ Gone \subseteq Launchers
    /\ Launchers \cap Installers = {}
    /\ None \notin Processes
\* What was put in at first was put in in the same order; a file may be gone.
ASSUME FirstAssumption ==
    /\ FirstStable \subseteq [Files -> Nat]
    /\ \A first \in FirstStable : \A f \in Files :
         first[f] # 0 => first[f] >= first["cvc"]
    /\ FirstCache \in [{Release[p] : p \in Launchers} -> CacheState]
ASSUME BoundsAssumption == MaxAttempts \in Nat /\ MaxUpsets \in Nat

VARIABLES
    stable,    \* stable[f]: the version of f in ~/.cvc/bin
    cached,    \* cached[v]: the directory of version v in the cache
    past,      \* (history) "crossed": an installer removed a lock of another;
               \* "lowered": one put in a file older than one that was there
    maker,     \* the process that made the lock directory there is, if any
    entries,   \* the records in it: whose they are, and their names
    at,        \* at[p]: how far process p is
    turn,      \* turn[p]: which look at the directory the launch p is at
    seen,      \* seen[p]: the files the last look found
    tries,     \* tries[p]: attempts at the lock
    judged,    \* judged[p]: the record of a dead launch
    path,      \* path[p]: what the launch p will run
    moved,     \* moved[p]: files that p has moved in
    away,      \* the launches that are elsewhere, of Elsewhere
    ran,       \* ran[p]: the version the launch p started, 0 for none
    killed,    \* processes that were killed or signalled
    upsets     \* kills, signals and failed calls so far

files == <<stable, cached, past>>
lock == <<maker, entries>>
plan == <<turn, seen, tries, judged, path, moved>>
world == <<away, killed, upsets>>
vars == <<files, lock, at, plan, world, ran>>
-----------------------------------------------------------------------------
(* Processes and records                                                   *)

\* (Mutant) The files are moved in the order the archive has them.
PublishCvcFirst == <<"cvc", "cvc-mcp", "cvc-lsp">>
PublishOrder == <<"cvc-lsp", "cvc-mcp", "cvc">>

At(p, where) == at[p] = where
Goto(p, where) == at' = [at EXCEPT ![p] = where]

\* The record of a launch: whose it is, and the name of its file.
OwnRecord(p) == <<p, <<p, "own", 0>>>>
Whose(record) == record[1]
\* Names are drawn at random: no two are equal.  Here, by who gives them, and when.
Name(p) == <<p, turn[p], tries[p]>>

\* One part of what a process has in mind changes.
SetTurn(p, look) ==
    turn' = [turn EXCEPT ![p] = look] /\ UNCHANGED <<seen, tries, judged, path, moved>>
SetSeen(p, found) ==
    seen' = [seen EXCEPT ![p] = found] /\ UNCHANGED <<turn, tries, judged, path, moved>>
SetTries(p, n) ==
    tries' = [tries EXCEPT ![p] = n] /\ UNCHANGED <<turn, seen, judged, path, moved>>
SetJudged(p, record) ==
    judged' = [judged EXCEPT ![p] = record] /\ UNCHANGED <<turn, seen, tries, path, moved>>
SetPath(p, place) ==
    path' = [path EXCEPT ![p] = place] /\ UNCHANGED <<turn, seen, tries, judged, moved>>
SetMoved(p, n) ==
    moved' = [moved EXCEPT ![p] = n] /\ UNCHANGED <<turn, seen, tries, judged, path>>

FirstStep(p) ==
    CASE p \in Gone -> "done" [] p \in Launchers \ Gone -> "inspect" [] OTHER -> "take"

Init ==
    /\ stable \in FirstStable
    /\ cached = FirstCache
    /\ past = {}
    /\ maker \in Gone \cup {None}
    /\ entries = {OwnRecord(p) : p \in Gone \cap {maker}}
    /\ at = [p \in Processes |-> FirstStep(p)]
    /\ turn = [p \in Launchers |-> "first"]
    /\ seen = [p \in Launchers |-> {}]
    /\ tries = [p \in Launchers |-> 0]
    /\ judged = [p \in Launchers |-> OwnRecord(None)]
    /\ path = [p \in Launchers |-> "cache"]
    /\ moved = [p \in Processes |-> 0]
    /\ away \in Elsewhere
    /\ killed = Gone
    /\ upsets = 0
    /\ ran = [p \in Launchers |-> 0]

Upset == upsets < MaxUpsets /\ upsets' = upsets + 1 /\ UNCHANGED <<away, killed>>
-----------------------------------------------------------------------------
(* decidePublication: the sibling files, then the version of cvc           *)

\* The files that are there and are not empty.
Inspect(p) ==
    /\ At(p, "inspect")
    /\ SetSeen(p, {f \in Files : stable[f] # 0})
    /\ Goto(p, "probe")
    /\ UNCHANGED <<files, lock, world, ran>>

Version(p) == IF "cvc" \in seen[p] THEN stable["cvc"] ELSE 0

Newer(p) == Version(p) > Release[p]
Complete(p) == Version(p) = Release[p] /\ seen[p] = Files
Publishes(p) == ~Newer(p) /\ ~Complete(p)

\* What is there is kept and is what the launch runs.
RunsStable(p) == \/ Newer(p) /\ Want[p] \in seen[p]
                 \/ Complete(p)

\* Where a launch goes that needs nothing more: under the lock it gives that up.
Leave(p) == IF turn[p] = "locked" THEN "release" ELSE "run"

KeepStable(p) ==
    /\ At(p, "probe")
    /\ RunsStable(p)
    /\ SetPath(p, "stable")
    /\ Goto(p, Leave(p))
    /\ UNCHANGED <<files, lock, world, ran>>

\* A newer release without the binary that is wanted.
KeepWithout(p) ==
    /\ At(p, "probe")
    /\ turn[p] # "first"
    /\ Newer(p) /\ ~RunsStable(p)
    /\ Goto(p, Leave(p))
    /\ UNCHANGED <<files, lock, plan, world, ran>>

\* launchTarget: the cache is needed.
NeedCache(p) ==
    /\ At(p, "probe")
    /\ turn[p] = "first"
    /\ ~RunsStable(p)
    /\ Goto(p, "find")
    /\ UNCHANGED <<files, lock, plan, world, ran>>

Publish(p) ==
    /\ At(p, "probe")
    /\ turn[p] # "first"
    /\ Publishes(p)
    /\ SetTries(p, 1)
    /\ Goto(p, IF turn[p] = "locked" THEN "stage" ELSE "mkdir")
    /\ UNCHANGED <<files, lock, world, ran>>

\* cvc does not tell its version: it is left where it is.
Blocked(p) ==
    /\ At(p, "probe")
    /\ "cvc" \in seen[p]
    /\ Upset
    /\ Goto(p, IF turn[p] = "first" THEN "find" ELSE Leave(p))
    /\ UNCHANGED <<files, lock, plan, ran>>
-----------------------------------------------------------------------------
(* installRelease: the cache                                               *)

SecondLook(p) == SetTurn(p, "second") /\ Goto(p, "inspect")

UseCache(p) ==
    /\ At(p, "find")
    /\ IF cached[Release[p]] = "whole" THEN SecondLook(p)
                                       ELSE Goto(p, "clear") /\ UNCHANGED plan
    /\ UNCHANGED <<files, lock, world, ran>>

\* Whatever is there by now is removed, another launch's whole cache too.
ClearCache(p) ==
    /\ At(p, "clear")
    /\ cached' = [cached EXCEPT ![Release[p]] = "absent"]
    /\ Goto(p, "download")
    /\ UNCHANGED <<stable, past, lock, plan, world, ran>>

\* The release is unpacked beside the cache and renamed into its place.
Download(p) ==
    /\ At(p, "download")
    /\ cached' = [cached EXCEPT ![Release[p]] = IF @ = "absent" THEN "whole" ELSE @]
    /\ IF cached'[Release[p]] = "whole" THEN SecondLook(p)
                                        ELSE Goto(p, "done") /\ UNCHANGED plan
    /\ UNCHANGED <<stable, past, lock, world, ran>>

DownloadFails(p) ==
    /\ At(p, "download")
    /\ Upset
    /\ Goto(p, "done")
    /\ UNCHANGED <<files, lock, plan, ran>>
-----------------------------------------------------------------------------
(* acquireInstallLock                                                      *)

RunCache(p) == Goto(p, "run") /\ UNCHANGED plan
Again(p) == SetTries(p, tries[p] + 1) /\ Goto(p, "mkdir")
LastTry(p) == tries[p] >= MaxAttempts

\* Making the directory takes the lock.
Take(p) ==
    /\ At(p, "mkdir")
    /\ IF maker = None THEN maker' = p /\ Goto(p, "label")
                       ELSE Goto(p, "look") /\ UNCHANGED maker
    /\ UNCHANGED <<files, entries, plan, world, ran>>

\* (Mutant) The decision of before the lock stands.
LabelAndPublish(p) ==
    /\ At(p, "label")
    /\ IF maker # None
         THEN entries' = entries \cup {OwnRecord(p)} /\ SetTurn(p, "locked") /\ Goto(p, "stage")
         ELSE RunCache(p) /\ UNCHANGED entries
    /\ UNCHANGED <<files, maker, world, ran>>

\* The record is written; where the directory is gone, that fails.
Label(p) ==
    /\ At(p, "label")
    /\ IF maker # None
         THEN entries' = entries \cup {OwnRecord(p)} /\ SetTurn(p, "locked") /\ Goto(p, "inspect")
         ELSE RunCache(p) /\ UNCHANGED entries
    /\ UNCHANGED <<files, maker, world, ran>>

\* rmdir, which leaves a directory that is not empty.
RemoveIfEmpty == maker' = IF entries = {} THEN None ELSE maker

LabelFails(p) ==
    /\ At(p, "label")
    /\ Upset
    /\ RemoveIfEmpty
    /\ RunCache(p)
    /\ UNCHANGED <<files, entries, ran>>

\* (Mutant) The process number alone tells whether a launch still runs.
JudgeByNumber(p, record) ==
    IF Whose(record) \in killed \/ (Whose(record) \in away) # (p \in away)
    THEN {"dead"} ELSE {"live", "foreign"}
\* lockOwnerState.  A record of elsewhere, or too old for a publication, is
\* nobody's to judge.
Judge(p, record) ==
    IF (Whose(record) \in away) # (p \in away) THEN {"foreign"}
    ELSE IF Whose(record) \in killed THEN {"dead"} ELSE {"live", "foreign"}

\* inspectHeldLock: the one record of the lock, if it has one.  A lock that
\* stays without is taken for an installer's.
Held(p, record, state) == entries = {record} /\ state \in Judge(p, record)
State(p, state) ==
    IF \E record \in entries : entries = {record}
    THEN \E record \in entries : Held(p, record, state)
    ELSE state = "foreign"

\* It was released between mkdir and the look at it.
FindGone(p) ==
    /\ At(p, "look")
    /\ maker = None
    /\ IF LastTry(p) THEN RunCache(p) ELSE Again(p)
    /\ UNCHANGED <<files, lock, world, ran>>

FindDead(p) ==
    /\ At(p, "look")
    /\ maker # None
    /\ ~LastTry(p)
    /\ \E record \in entries : Held(p, record, "dead") /\ SetJudged(p, record)
    /\ Goto(p, "claim")
    /\ UNCHANGED <<files, lock, world, ran>>

\* LockHeldError: a live publication is worth a wait, once.
FindHeld(p) ==
    /\ At(p, "look")
    /\ maker # None
    /\ \/ State(p, "live") /\ Goto(p, IF turn[p] = "second" THEN "wait" ELSE "run")
       \/ State(p, "foreign") /\ Goto(p, "run")
       \/ State(p, "dead") /\ LastTry(p) /\ Goto(p, "run")
    /\ UNCHANGED <<files, lock, plan, world, ran>>
-----------------------------------------------------------------------------
(* breakStaleLock                                                          *)

Renamed(p) == <<Whose(judged[p]), Name(p)>>

\* The record that was judged is renamed; it may be gone, or have a new name.
Claim(p) ==
    /\ At(p, "claim")
    /\ IF judged[p] \in entries
         THEN /\ entries' = (entries \ {judged[p]}) \cup {Renamed(p)}
              /\ Goto(p, "unlink") /\ UNCHANGED plan
         ELSE Again(p) /\ UNCHANGED entries
    /\ UNCHANGED <<files, maker, world, ran>>

\* (Mutant) The name that was read is removed, not the one that was given.
Judged(p) == judged[p]
Claimed(p) == Renamed(p)

\* A rival may have claimed it since.
Unlink(p) ==
    /\ At(p, "unlink")
    /\ IF Claimed(p) \in entries
         THEN entries' = entries \ {Claimed(p)} /\ Goto(p, "rmdir") /\ UNCHANGED plan
         ELSE Again(p) /\ UNCHANGED entries
    /\ UNCHANGED <<files, maker, world, ran>>

RemoveBroken(p) ==
    /\ At(p, "rmdir")
    /\ RemoveIfEmpty
    /\ IF entries = {} THEN Again(p) ELSE RunCache(p)
    /\ UNCHANGED <<files, entries, world, ran>>
-----------------------------------------------------------------------------
(* waitForLockRelease                                                      *)

\* The lock is gone, or no longer that of a live launch.
StopWaiting(p) ==
    /\ At(p, "wait")
    /\ \/ maker = None
       \/ \E record \in entries : Held(p, record, "dead") \/ Held(p, record, "foreign")
    /\ SetTurn(p, "waited")
    /\ Goto(p, "inspect")
    /\ UNCHANGED <<files, lock, world, ran>>

\* (Mutant) The wait has no end of its own.
WaitsForEver(p) == FALSE
TimeIsUp(p) == At(p, "wait") /\ maker # None

TimeUp(p) ==
    /\ TimeIsUp(p)
    /\ RunCache(p)
    /\ UNCHANGED <<files, lock, world, ran>>
-----------------------------------------------------------------------------
(* publishBinaries, and the same of install.sh                             *)

\* The copies are made, and the new cvc is asked for its version.
Stage(p) ==
    /\ At(p, "stage")
    /\ Goto(p, IF p \in Installers \/ cached[Release[p]] = "whole" THEN "move" ELSE "release")
    /\ UNCHANGED <<files, lock, plan, world, ran>>

NextFile(p) == PublishOrder[moved[p] + 1]
AllMoved(p) == IF p \in Installers THEN "release" ELSE "verify"
Lowers(p) == p \in Installers /\ \E f \in Files : Release[p] < stable[f]

\* One rename of a staged file onto the one in the directory.
Move(p) ==
    /\ At(p, "move")
    /\ stable' = [stable EXCEPT ![NextFile(p)] = Release[p]]
    /\ past' = IF Lowers(p) THEN past \cup {"lowered"} ELSE past
    /\ SetMoved(p, moved[p] + 1)
    /\ Goto(p, IF moved[p] < 2 THEN "move" ELSE AllMoved(p))
    /\ UNCHANGED <<cached, lock, world, ran>>

\* A copy, a probe of it or a rename fails.
StageOrMoveFails(p) ==
    /\ at[p] \in {"stage", "move"}
    /\ Upset
    /\ Goto(p, "release")
    /\ UNCHANGED <<files, lock, plan, ran>>

\* A launcher asks the cvc that is there now.
Verify(p) ==
    /\ At(p, "verify")
    /\ SetPath(p, IF stable["cvc"] = Release[p] THEN "stable" ELSE "cache")
    /\ Goto(p, "release")
    /\ UNCHANGED <<files, lock, world, ran>>
-----------------------------------------------------------------------------
(* The lock is given up                                                    *)

\* releaseInstallLock: only while the lock carries this launch's own record.
ReleaseRecord(p) ==
    /\ At(p, "release")
    /\ IF entries = {OwnRecord(p)} THEN entries' = {} /\ Goto(p, "free")
                                   ELSE Goto(p, "run") /\ UNCHANGED entries
    /\ UNCHANGED <<files, maker, plan, world, ran>>

Free(p) ==
    /\ At(p, "free")
    /\ RemoveIfEmpty
    /\ Goto(p, "run")
    /\ UNCHANGED <<files, entries, plan, world, ran>>

\* What is at the path by now is started.
Run(p) ==
    /\ At(p, "run")
    /\ ran' = [ran EXCEPT ![p] = IF path[p] = "stable" THEN stable[Want[p]]
                                 ELSE IF cached[Release[p]] = "whole" THEN Release[p]
                                 ELSE 0]
    /\ Goto(p, "done")
    /\ UNCHANGED <<files, lock, plan, world>>
-----------------------------------------------------------------------------
(* install.sh                                                              *)

TakeOrRefuse(i) ==
    /\ At(i, "take")
    /\ IF maker = None THEN maker' = i /\ Goto(i, "stage")
                       ELSE Goto(i, "done") /\ UNCHANGED maker
    /\ UNCHANGED <<files, entries, plan, world, ran>>

\* cleanup, or the end of the publication.  The lock may be another's by now.
CleanUp(i) ==
    /\ RemoveIfEmpty
    /\ past' = IF maker \notin {i, None} /\ entries = {} THEN past \cup {"crossed"} ELSE past
    /\ UNCHANGED <<stable, cached, entries>>

InstallerReleases(i) ==
    /\ At(i, "release")
    /\ CleanUp(i)
    /\ Goto(i, "done")
    /\ UNCHANGED <<plan, world, ran>>

UpsetOf(p) ==
    upsets < MaxUpsets /\ upsets' = upsets + 1 /\ killed' = killed \cup {p} /\ UNCHANGED away

\* The trap cleans up and the script goes on, to fail where its staged files are
\* gone, or to its end, and to clean up once more.
Signal(i) ==
    /\ at[i] \in {"stage", "move", "release"}
    /\ UpsetOf(i)
    /\ CleanUp(i)
    /\ Goto(i, "release")
    /\ UNCHANGED <<plan, ran>>

\* A process is killed: its lock stays.
Kill(p) ==
    /\ ~At(p, "done")
    /\ UpsetOf(p)
    /\ Goto(p, "done")
    /\ UNCHANGED <<files, lock, plan, ran>>
-----------------------------------------------------------------------------
Decide(p) == KeepStable(p) \/ KeepWithout(p) \/ NeedCache(p) \/ Publish(p) \/ Blocked(p)
Fetch(p) == UseCache(p) \/ ClearCache(p) \/ Download(p) \/ DownloadFails(p)
Acquire(p) == Take(p) \/ Label(p) \/ LabelFails(p) \/ FindGone(p) \/ FindDead(p) \/ FindHeld(p)
Break(p) == Claim(p) \/ Unlink(p) \/ RemoveBroken(p)
Wait(p) == StopWaiting(p) \/ TimeUp(p)
PutIn(p) == Stage(p) \/ Move(p) \/ StageOrMoveFails(p) \/ Verify(p)
Launch(p) == \/ Inspect(p) \/ Decide(p) \/ Fetch(p) \/ Acquire(p) \/ Break(p) \/ Wait(p)
             \/ PutIn(p) \/ ReleaseRecord(p) \/ Free(p) \/ Run(p)
Install(i) == TakeOrRefuse(i) \/ PutIn(i) \/ InstallerReleases(i)

Next ==
    \/ \E p \in Launchers : Launch(p)
    \/ \E i \in Installers : Install(i) \/ Signal(i)
    \/ \E p \in Processes : Kill(p)

Spec == Init /\ [][Next]_vars

\* A launch that is not killed goes on; an installation may stop at any time.
FairSpec == Spec /\ \A p \in Launchers : WF_vars(Launch(p))
-----------------------------------------------------------------------------
(* What must hold                                                          *)

\* Every variable stays within its type.
Places == {"inspect", "probe", "find", "clear", "download", "mkdir", "label", "look", "claim",
           "unlink", "rmdir", "wait", "stage", "move", "verify", "release", "free", "run",
           "done", "take"}
Turns == {"first", "second", "waited", "locked"}
Names == (Processes \cup {None}) \X (Turns \cup {"own"}) \X Nat
Records == (Launchers \cup {None}) \X Names
TypeOK ==
    /\ stable \in [Files -> Nat]
    /\ cached \in [{Release[p] : p \in Launchers} -> CacheState]
    /\ maker \in Processes \cup {None}
    /\ entries \subseteq Records
    /\ at \in [Processes -> Places]
    /\ turn \in [Launchers -> Turns]
    /\ seen \in [Launchers -> SUBSET Files]
    /\ tries \in [Launchers -> Nat]
    /\ judged \in [Launchers -> Records]
    /\ path \in [Launchers -> {"cache", "stable"}]
    /\ moved \in [Processes -> 0..3]
    /\ away \in Elsewhere
    /\ ran \in [Launchers -> Nat]
    /\ killed \subseteq Processes
    /\ upsets \in 0..MaxUpsets
    /\ past \subseteq {"crossed", "lowered"}

\* The process is between taking the lock and giving it up.
Publishing(p) ==
    \/ at[p] \in {"stage", "move", "verify"}
    \/ p \in Launchers /\ turn[p] = "locked" /\ at[p] \in {"inspect", "probe"}

\* One process at a time decides and moves files under the lock, launches of any
\* host and installations alike: breaking the lock of a dead launch displaces no
\* live one.  Only an installation that was signalled, and so removes its lock a
\* second time, can let two in (release.js 512-528).
OnePublisher ==
    "crossed" \notin past =>
        \A p, q \in Processes : Publishing(p) /\ Publishing(q) => p = q

\* A launch never puts its cvc in the place of a newer one, whoever put that in
\* since the launch first looked (release.js 347-348, "the launcher never
\* downgrades").
NeverDowngrades ==
    [][\A p \in Launchers :
         moved'[p] # moved[p] /\ "crossed" \notin past => stable'["cvc"] >= stable["cvc"]]_vars

\* What a launch starts is at least the release of its package, though it looks
\* without a lock while others put files in, and are killed half way through
\* (release.js 22-24).  Where an installation has put in an older release, it is
\* that of the installation.
RunsAtLeastPackage ==
    past = {} => \A p \in Launchers : ran[p] # 0 => ran[p] >= Release[p]

\* A launch that is not killed ends, whoever holds the lock and however others
\* contend for it (release.js 924-926, "never blocks the launch").
LaunchEnds ==
    \A p \in Launchers : At(p, "find") ~> At(p, "done")

\* The record of a dead launch is gone when those that judged it have ended,
\* unless one of them was killed over it: two that break a lock at once do not
\* both leave it to the other (release.js 690-712).
DeadRecordGoes ==
    (\A p \in Launchers : At(p, "done")) =>
        \A p, q \in Launchers :
            /\ Whose(judged[q]) = p
            /\ killed \cap Launchers = {p}
            => \A record \in entries : Whose(record) # p
=============================================================================
