--------------------------- MODULE ConsentRecords ---------------------------
(***************************************************************************)
(* The processes that keep the records about one destination: cvc privacy, *)
(* share, unshare, push and the pre-push hook (cvc-cli/src/commands/       *)
(* sync.rs), privacy.json and its lock (cvc-core/src/privacy.rs), and the  *)
(* adoption of records an earlier version left under a fingerprint of the  *)
(* whole push URL (cvc-core/src/sync.rs, db.rs).                           *)
(*                                                                         *)
(* privacy.json is read whole, changed in memory and replaced by a rename, *)
(* under the privacy lock; reading needs no lock.  A publication and an    *)
(* unshare hold the operation lock of the key they act under.  The locks   *)
(* go with the process that took them.                                     *)
(***************************************************************************)
EXTENDS ConsentLedger, Naturals

CONSTANTS
    Procs,        \* processes
    Requests,     \* bound: what they may be asked, [does, from, version] of each
    None,         \* nobody
    MaxStarts,    \* bound: commands started
    MaxDeaths     \* bound: processes killed

\* What a command does; the first are decisions kept in privacy.json.
Deciding == {"capture", "consent", "autoOn", "autoOff"}
Does == Deciding \cup {"look", "share", "unshare", "push", "hook"}
Versions == {"today", "earlier"}

ASSUME RecordsOK ==
    /\ Fp \notin Legacies
    /\ None \notin Procs
    /\ Requests \subseteq [does : Does, version : Versions, from : Keys]
    /\ MaxStarts \in Nat /\ MaxDeaths \in Nat

VARIABLES
    privacyLock,   \* who has privacy.lock, or None
    opLock,        \* opLock[k]: who has publish-<k>.lock
    run,           \* run[p]: what process p does and how far it is
    starts, deaths,
    behind         \* history: the processes under whose legacy key an earlier
                   \* version has written since they started

vars == <<book, rows, privacyLock, opLock, run, starts, deaths, behind>>
-----------------------------------------------------------------------------
\* Where a process is: adopting (in this order), then at its own work.
Peeking == {"peekRows", "peekConsent", "awaitOp", "awaitLegacy"}
Moving == {"moveRows", "awaitAdopt", "adopt", "replaceAdopted"}
Working == {"ready", "awaitPrivacy", "change", "replace", "awaitWork", "check", "phrase",
            "project", "approve", "settle"}
\* The stages with a lock held.
WithPrivacy == {"adopt", "replaceAdopted", "change", "replace"}
WithWork == {"check", "phrase", "project", "approve", "settle"}

Idle == [at |-> "idle", does |-> "look", version |-> "today", from |-> Fp, of |-> None,
         seen |-> None, carries |-> {}]

Stages == Peeking \cup Moving \cup Working \cup {"idle"}
Running == [at : Stages, does : Does, version : Versions, from : Keys,
            of : Conversations \cup {None}, seen : Books \cup {None},
            carries : SUBSET Conversations]

\* The key a process acts under: an earlier version uses the whole URL's.
Key(p) == IF run[p].version = "today" THEN Fp ELSE run[p].from

Init ==
    /\ LedgerInit
    /\ privacyLock = None
    /\ opLock = [k \in Keys |-> None]
    /\ run = [p \in Procs |-> Idle]
    /\ starts = 0 /\ deaths = 0
    /\ behind = {}

At(p, stage) == run[p].at = stage
Go(p, stage) == run' = [run EXCEPT ![p].at = stage]

\* A process ends, however it does: its locks are gone.
Leave(p) ==
    /\ run' = [run EXCEPT ![p] = Idle]
    /\ privacyLock' = IF privacyLock = p THEN None ELSE privacyLock
    /\ opLock' = [k \in Keys |-> IF opLock[k] = p THEN None ELSE opLock[k]]

Forget(p) == behind' = behind \ {p}
\* What an earlier version writes may be news to the processes of today.
Surprise(p) ==
    behind' = (behind \cup {x \in Procs : /\ run[p].version = "earlier"
                                          /\ run[x].at # "idle" /\ run[x].version = "today"
                                          /\ run[x].from = run[p].from}) \ {p}
-----------------------------------------------------------------------------
\* A command on a remote whose push URL has the user information of `from`;
\* from = Fp is a URL without any.  Acknowledging capture concerns no
\* destination, and an earlier version has nothing to adopt.
Start(p) ==
    /\ At(p, "idle")
    /\ starts < MaxStarts
    /\ starts' = starts + 1
    /\ \E r \in Requests, c \in Conversations :
           run' = [run EXCEPT ![p] =
               [Idle EXCEPT !.does = r.does, !.version = r.version, !.from = r.from, !.of = c,
                            !.at = IF r.version = "today" /\ r.from # Fp /\ r.does # "capture"
                                   THEN "peekRows" ELSE "ready"]]
    /\ UNCHANGED <<ledger, privacyLock, opLock, deaths, behind>>

\* adopt_legacy_records first looks, without a lock, whether anything would
\* be moved, in the database and then in the file.
\* A plausible bug: nothing in the database, so nothing at all.
PeekRowsOnly(p) ==
    /\ At(p, "peekRows")
    /\ Go(p, IF RowsAwait(run[p].from) THEN "awaitOp" ELSE "ready")
    /\ UNCHANGED <<ledger, privacyLock, opLock, starts, deaths, behind>>

PeekRows(p) ==
    /\ At(p, "peekRows")
    /\ Go(p, IF RowsAwait(run[p].from) THEN "awaitOp" ELSE "peekConsent")
    /\ UNCHANGED <<ledger, privacyLock, opLock, starts, deaths, behind>>

PeekConsent(p) ==
    /\ At(p, "peekConsent")
    /\ Go(p, IF ConsentAwaits(book, run[p].from) THEN "awaitOp" ELSE "ready")
    /\ UNCHANGED <<ledger, privacyLock, opLock, starts, deaths, behind>>

TakeOpLock(p, k, stage, next) ==
    /\ At(p, stage)
    /\ opLock[k] = None
    /\ opLock' = [opLock EXCEPT ![k] = p]
    /\ Go(p, next)
    /\ UNCHANGED <<ledger, privacyLock, starts, deaths, behind>>

LockToAdopt(p) == TakeOpLock(p, Fp, "awaitOp", "awaitLegacy")

TakePrivacy(p, stage, next) ==
    /\ At(p, stage)
    /\ privacyLock = None
    /\ privacyLock' = p
    /\ Go(p, next)
    /\ UNCHANGED <<ledger, opLock, starts, deaths, behind>>

\* A plausible bug: the earlier version is not kept out.
LegacyAtOnce(p) ==
    /\ At(p, "awaitLegacy")
    /\ Go(p, "moveRows")
    /\ UNCHANGED <<ledger, privacyLock, opLock, starts, deaths, behind>>

LockLegacy(p) == TakeOpLock(p, run[p].from, "awaitLegacy", "moveRows")

\* One transaction, which looks again.
MoveRows(p) ==
    /\ At(p, "moveRows")
    /\ IF RowsAwait(run[p].from) THEN AdoptRows(run[p].from) ELSE UNCHANGED ledger
    /\ Go(p, "awaitAdopt")
    /\ UNCHANGED <<privacyLock, opLock, starts, deaths, behind>>

LockFileToAdopt(p) == TakePrivacy(p, "awaitAdopt", "adopt")

\* A plausible bug: the operation lock is kept for the work that follows.
AdoptedHoldingOn(p) ==
    /\ Go(p, "ready")
    /\ privacyLock' = None
    /\ opLock' = [opLock EXCEPT ![run[p].from] = None]
    /\ UNCHANGED <<starts, deaths, behind>>

\* The file is read again under the privacy lock, and all three locks are
\* given up where nothing is left to move.
Adopted(p) ==
    /\ Go(p, "ready")
    /\ privacyLock' = None
    /\ opLock' = [opLock EXCEPT ![Fp] = None, ![run[p].from] = None]
    /\ UNCHANGED <<starts, deaths, behind>>

ReadToAdopt(p) ==
    /\ At(p, "adopt")
    /\ \/ /\ ConsentAwaits(book, run[p].from)
          /\ run' = [run EXCEPT ![p].at = "replaceAdopted", ![p].seen = book]
          /\ UNCHANGED <<privacyLock, opLock, starts, deaths, behind>>
       \/ ~ConsentAwaits(book, run[p].from) /\ Adopted(p)
    /\ UNCHANGED ledger

ReplaceAdopted(p) ==
    /\ At(p, "replaceAdopted")
    /\ book' = WithAdopted(run[p].seen, run[p].from)
    /\ run' = [run EXCEPT ![p].at = "ready", ![p].seen = None]
    /\ privacyLock' = None
    /\ opLock' = [opLock EXCEPT ![Fp] = None, ![run[p].from] = None]
    /\ UNCHANGED <<rows, starts, deaths, behind>>

Adopt(p) ==
    \/ PeekRows(p) \/ PeekConsent(p) \/ LockToAdopt(p) \/ LockLegacy(p) \/ MoveRows(p)
    \/ LockFileToAdopt(p) \/ ReadToAdopt(p) \/ ReplaceAdopted(p)
-----------------------------------------------------------------------------
\* The person reads what is at stake, and types the phrase or does not; what
\* follows is the command's own work.
Proceed(p) ==
    /\ At(p, "ready")
    /\ run[p].does \notin {"look", "share"}
    /\ Go(p, IF run[p].does \in Deciding THEN "awaitPrivacy" ELSE "awaitWork")
    /\ UNCHANGED <<ledger, privacyLock, opLock, starts, deaths, behind>>

Finish(p) ==
    /\ At(p, "ready") /\ run[p].does = "look"
    /\ Leave(p) /\ Forget(p)
    /\ UNCHANGED <<ledger, starts, deaths>>

\* No phrase, the wrong one, or no answer from the remote.
GiveUp(p) ==
    /\ \/ At(p, "ready") /\ run[p].does \in Deciding \cup {"share"}
       \/ At(p, "phrase") \/ At(p, "project")
       \/ At(p, "approve") /\ run[p].does = "push"
    /\ Leave(p) /\ Forget(p)
    /\ UNCHANGED <<ledger, starts, deaths>>

\* acknowledge_capture, acknowledge_sharing_destination and
\* set_auto_push_destination, which needs a consent to change.
LockFile(p) == TakePrivacy(p, "awaitPrivacy", "change")

ReadFile(p) ==
    /\ At(p, "change")
    /\ \/ /\ run[p].does \in {"autoOn", "autoOff"} => book.sharing[Key(p)] # "none"
          /\ run' = [run EXCEPT ![p].at = "replace", ![p].seen = book]
          /\ UNCHANGED <<privacyLock, opLock, behind>>
       \/ /\ run[p].does \in {"autoOn", "autoOff"} /\ book.sharing[Key(p)] = "none"
          /\ Leave(p) /\ Forget(p)
    /\ UNCHANGED <<ledger, starts, deaths>>

\* Consent starts without automatic pushes, whatever it was before.
Changed(b, does, k) ==
    CASE does = "capture" -> WithCapture(b)
      [] does = "consent" -> WithConsent(b, k, "manual")
      [] OTHER -> WithConsent(b, k, IF does = "autoOn" THEN "auto" ELSE "manual")

ReplaceFile(p) ==
    /\ At(p, "replace")
    /\ book' = Changed(run[p].seen, run[p].does, Key(p))
    /\ Leave(p) /\ Surprise(p)
    /\ UNCHANGED <<rows, starts, deaths>>
-----------------------------------------------------------------------------
\* A share takes no lock.  What is published stays so.
ShareIt(p) ==
    /\ At(p, "ready") /\ run[p].does = "share"
    /\ IF rows[Key(p)][run[p].of] \in {"none", "private"}
       THEN Share(Key(p), run[p].of) ELSE UNCHANGED ledger
    /\ Leave(p) /\ Surprise(p)
    /\ UNCHANGED <<starts, deaths>>

LockToWork(p) == TakeOpLock(p, Key(p), "awaitWork", "check")

\* can_unshare is asked before the phrase; the store judges again after it.
MayUnshare(p) == rows[Key(p)][run[p].of] \notin {"pending", "published"}

CheckUnshare(p) ==
    /\ At(p, "check") /\ run[p].does = "unshare"
    /\ \/ MayUnshare(p) /\ Go(p, "phrase") /\ UNCHANGED <<privacyLock, opLock, behind>>
       \/ ~MayUnshare(p) /\ Leave(p) /\ Forget(p)
    /\ UNCHANGED <<ledger, starts, deaths>>

UnshareIt(p) ==
    /\ At(p, "phrase")
    /\ IF rows[Key(p)][run[p].of] \in {"none", "shared"}
       THEN Unshare(Key(p), run[p].of) ELSE UNCHANGED ledger
    /\ Leave(p) /\ Surprise(p)
    /\ UNCHANGED <<starts, deaths>>

\* push_destination: consent, and for a hook the automatic setting, is read
\* under the operation lock.  Then a reconciliation settles what an earlier
\* push left open.
MayPublish(p) ==
    /\ book.sharing[Key(p)] # "none"
    /\ run[p].does = "hook" => book.sharing[Key(p)] = "auto"

Reconcile(p) ==
    /\ At(p, "check") /\ run[p].does \in {"push", "hook"}
    /\ LET open == {c \in Conversations : rows[Key(p)][c] = "pending"}
       IN  \/ /\ MayPublish(p)
              /\ \E there \in SUBSET open : rows' = Settled(Key(p), there, open \ there)
              /\ Go(p, "project")
              /\ UNCHANGED <<privacyLock, opLock, behind>>
           \/ /\ ~MayPublish(p)
              /\ Leave(p) /\ Forget(p)
              /\ UNCHANGED rows
    /\ UNCHANGED <<book, starts, deaths>>

\* The candidate is built from what is shared now.
Project(p) ==
    /\ At(p, "project")
    /\ LET shared == {c \in Conversations : rows[Key(p)][c] = "shared"}
       IN  \/ /\ shared # {}
              /\ run' = [run EXCEPT ![p].at = "approve", ![p].carries = shared]
              /\ UNCHANGED <<privacyLock, opLock, behind>>
           \/ shared = {} /\ Leave(p) /\ Forget(p)
    /\ UNCHANGED <<ledger, starts, deaths>>

\* A person has typed the phrase, or a hook needs none.
MarkPending(p) ==
    /\ At(p, "approve")
    /\ rows' = Marked(Key(p), run[p].carries)
    /\ Go(p, "settle")
    /\ UNCHANGED <<book, privacyLock, opLock, starts, deaths, behind>>

\* settle_push: it arrived; or was refused before a connection was opened; or
\* nobody knows, and it stays open.
SettlePush(p) ==
    /\ At(p, "settle")
    /\ \/ rows' = Settled(Key(p), run[p].carries, {})
       \/ rows' = Settled(Key(p), {}, run[p].carries)
       \/ UNCHANGED rows
    /\ Leave(p) /\ Surprise(p)
    /\ UNCHANGED <<book, starts, deaths>>

Die(p) ==
    /\ ~At(p, "idle")
    /\ deaths < MaxDeaths
    /\ deaths' = deaths + 1
    /\ Leave(p) /\ Forget(p)
    /\ UNCHANGED <<ledger, starts>>
-----------------------------------------------------------------------------
Work(p) ==
    \/ Proceed(p) \/ Finish(p) \/ GiveUp(p)
    \/ LockFile(p) \/ ReadFile(p) \/ ReplaceFile(p)
    \/ ShareIt(p) \/ LockToWork(p) \/ CheckUnshare(p) \/ UnshareIt(p)
    \/ Reconcile(p) \/ Project(p) \/ MarkPending(p) \/ SettlePush(p)

Step(p) == Adopt(p) \/ Work(p)

Next == \E p \in Procs : Start(p) \/ Step(p) \/ Die(p)

\* A process that is not killed goes on, a lock that is free goes to somebody
\* who waits for it, and a person answers or walks away.  With MaxStarts there
\* is no end of others to lose a lock to.
Fairness == \A p \in Procs : WF_vars(Step(p))

Spec == Init /\ [][Next]_vars /\ Fairness
-----------------------------------------------------------------------------
TypeOK ==
    /\ LedgerTypeOK
    /\ privacyLock \in Procs \cup {None}
    /\ opLock \in [Keys -> Procs \cup {None}]
    /\ run \in [Procs -> Running]
    /\ starts \in 0..MaxStarts /\ deaths \in 0..MaxDeaths
    /\ behind \subseteq Procs

\* Each change of the records is one decision or one step of a publication,
\* on the records as they are then: no process writes back a file it read
\* before another changed it, no adoption moves a consent or rows over what is
\* kept already or from under a publication, and what a push marks is shared,
\* under a key with consent, to the end.  privacy.rs 633-693, 899-935 and
\* 988-1009, sync.rs 3105-3125 of cvc-core.
KeepsLedger == LedgerSpec

\* A command of today that looked for records of an earlier version finds them
\* under the fingerprint it acts under, also where an adoption was interrupted
\* between the two stores, or another is under way: nothing that would be
\* moved is left.  Only an earlier version that writes meanwhile may leave
\* something.  sync.rs 3062-3125 of cvc-core.
AdoptedBeforeUse ==
    \A p \in Procs \ behind :
        /\ run[p].at \in Working /\ run[p].version = "today" /\ run[p].does # "capture"
        /\ run[p].from # Fp
        => /\ ~RowsAwait(run[p].from)
           /\ ~ConsentAwaits(book, run[p].from)

\* Every command ends, though an adoption takes three locks while commands of
\* both versions hold one each, and although a lock is not reentrant: none
\* waits for a lock it has.  sync.rs 3081-3083 of cvc-core.
CommandsEnd == \A p \in Procs : ~At(p, "idle") ~> At(p, "idle")
=============================================================================
