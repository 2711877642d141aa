------------------------ MODULE ConsentRecordsProofs ------------------------
(***************************************************************************)
(* What is proved of ConsentRecords, for any number of processes, commands *)
(* and fingerprints: every step of every process is a step of the ledger,  *)
(* and what an earlier version left is adopted before it is used.          *)
(*                                                                         *)
(* It rests on the locks.  A process that holds one finds what it read     *)
(* under it unchanged: the file under the privacy lock, and the consent    *)
(* and rows of a key under its operation lock, which an adoption takes for *)
(* both of its keys.                                                       *)
(***************************************************************************)
EXTENDS ConsentRecords, TLAPS

\* Who is past a lock has it, and only a command of today on a URL with user
\* information adopts.  A command is about a conversation.
Held == \A p \in Procs :
    /\ run[p].at \in WithPrivacy => privacyLock = p
    /\ run[p].at \in WithWork => opLock[Key(p)] = p
    /\ run[p].at \in Moving \cup {"awaitLegacy"} => opLock[Fp] = p
    /\ run[p].at \in Moving => opLock[run[p].from] = p
    /\ run[p].at \in Peeking \cup Moving => run[p].version = "today" /\ run[p].from \in Legacies
    /\ run[p].at # "idle" => run[p].of \in Conversations

\* What a process read of the file, under the privacy lock, is still so.
Fresh == \A p \in Procs :
    /\ run[p].at \in {"replace", "replaceAdopted"} => run[p].seen = book
    /\ run[p].at = "replaceAdopted" => ConsentAwaits(book, run[p].from)
    /\ run[p].at = "replace" /\ run[p].does = "autoOn" => book.sharing[Key(p)] # "none"

\* What a publication read, under its operation lock, is still so.
Untouched == \A p \in Procs :
    /\ run[p].at \in {"project", "approve"} => book.sharing[Key(p)] # "none"
    /\ run[p].at = "approve" => \A c \in run[p].carries : rows[Key(p)][c] = "shared"
    /\ run[p].at = "settle" => \A c \in run[p].carries : rows[Key(p)][c] = "pending"

\* Another process is where it was and has the locks it had.
OthersKept(p) == \A q \in Procs \ {p} :
    /\ run'[q] = run[q]
    /\ privacyLock = q => privacyLock' = q
    /\ \A k \in Keys : opLock[k] = q => opLock'[k] = q

USE DEF Stages, Peeking, Moving, Working, WithPrivacy, WithWork, Versions, Does, Deciding
-----------------------------------------------------------------------------
(* Types *)

LEMMA GoTyped ==
    ASSUME NEW p \in Procs, NEW stage \in Stages, run \in [Procs -> Running]
    PROVE  [run EXCEPT ![p].at = stage] \in [Procs -> Running]
<1> DEFINE r == run[p]
<1>1. r \in Running OBVIOUS
<1>2. [r EXCEPT !.at = stage] \in Running
  <2> HIDE DEF r
  <2> QED BY <1>1 DEF Running
<1> QED BY <1>2

LEMMA SeeTyped ==
    ASSUME NEW p \in Procs, NEW stage \in Stages, NEW b \in Books \cup {None},
           run \in [Procs -> Running]
    PROVE  [run EXCEPT ![p].at = stage, ![p].seen = b] \in [Procs -> Running]
<1> DEFINE r == run[p]
<1>1. r \in Running OBVIOUS
<1>2. [r EXCEPT !.at = stage, !.seen = b] \in Running
  <2> HIDE DEF r
  <2> QED BY <1>1 DEF Running
<1> QED BY <1>2

LEMMA CarryTyped ==
    ASSUME NEW p \in Procs, NEW stage \in Stages, NEW cs \in SUBSET Conversations,
           run \in [Procs -> Running]
    PROVE  [run EXCEPT ![p].at = stage, ![p].carries = cs] \in [Procs -> Running]
<1> DEFINE r == run[p]
<1>1. r \in Running OBVIOUS
<1>2. [r EXCEPT !.at = stage, !.carries = cs] \in Running
  <2> HIDE DEF r
  <2> QED BY <1>1 DEF Running
<1> QED BY <1>2

LEMMA IdleTyped == Idle \in Running
BY DEF Idle, Running, Keys

LEMMA LeaveTyped ==
    ASSUME NEW p \in Procs, TypeOK, Leave(p)
    PROVE  /\ run' \in [Procs -> Running]
           /\ privacyLock' \in Procs \cup {None}
           /\ opLock' \in [Keys -> Procs \cup {None}]
BY IdleTyped DEF TypeOK, Leave

LEMMA ForgetTyped ==
    ASSUME NEW p \in Procs, TypeOK, Forget(p) \/ Surprise(p)
    PROVE  behind' \subseteq Procs
BY DEF TypeOK, Forget, Surprise

LEMMA BooksTyped ==
    ASSUME NEW b \in Books, NEW k \in Keys, NEW l \in Keys, NEW auto \in Consent
    PROVE  WithCapture(b) \in Books /\ WithConsent(b, k, auto) \in Books /\ WithAdopted(b, l) \in Books
<1> Fp \in Keys BY DEF Keys
<1> QED BY DEF Books, Consent, WithCapture, WithConsent, WithAdopted

LEMMA RowsTyped ==
    ASSUME LedgerTypeOK, NEW k \in Keys, NEW cs \in SUBSET Conversations,
           NEW ds \in SUBSET Conversations
    PROVE  /\ Marked(k, cs) \in [Keys -> [Conversations -> Standing]]
           /\ Settled(k, cs, ds) \in [Keys -> [Conversations -> Standing]]
BY DEF LedgerTypeOK, Marked, Settled, Standing

LEMMA PutTyped ==
    ASSUME LedgerTypeOK, NEW k \in Keys, NEW c, NEW standing \in Standing
    PROVE  [rows EXCEPT ![k][c] = standing] \in [Keys -> [Conversations -> Standing]]
<1> DEFINE row == rows[k]
<1>1. row \in [Conversations -> Standing] /\ rows \in [Keys -> [Conversations -> Standing]]
  BY DEF LedgerTypeOK
<1>2. [row EXCEPT ![c] = standing] \in [Conversations -> Standing]
  <2> HIDE DEF row
  <2> QED BY <1>1
<1> QED BY <1>1, <1>2

LEMMA FromTyped ==
    ASSUME TypeOK, NEW p \in Procs
    PROVE  run[p].from \in Keys /\ Fp \in Keys /\ Legacies \subseteq Keys
BY DEF TypeOK, Running, Keys

LEMMA KeyTyped == ASSUME TypeOK, NEW p \in Procs PROVE Key(p) \in Keys
BY DEF TypeOK, Running, Key, Keys
-----------------------------------------------------------------------------
(* Steps: what is typed stays typed, and other processes keep their locks. *)

Act(p) == Start(p) \/ Step(p) \/ Die(p)

LEMMA LeaveOthers ==
    ASSUME NEW p \in Procs, TypeOK, Leave(p)
    PROVE  OthersKept(p)
BY RecordsOK DEF TypeOK, Leave, OthersKept

LEMMA AdoptOthers ==
    ASSUME NEW p \in Procs, TypeOK, Held, Adopt(p)
    PROVE  OthersKept(p)
<1> USE RecordsOK DEF Go, At, OthersKept, TypeOK
<1>1. CASE PeekRows(p) BY <1>1 DEF PeekRows
<1>2. CASE PeekConsent(p) BY <1>2 DEF PeekConsent
<1>3. CASE LockToAdopt(p) BY <1>3 DEF LockToAdopt, TakeOpLock
<1>4. CASE LockLegacy(p) BY <1>4 DEF LockLegacy, TakeOpLock
<1>5. CASE MoveRows(p) BY <1>5 DEF MoveRows
<1>6. CASE LockFileToAdopt(p) BY <1>6 DEF LockFileToAdopt, TakePrivacy
<1>7. CASE ReadToAdopt(p) BY <1>7 DEF ReadToAdopt, Adopted, Held
<1>8. CASE ReplaceAdopted(p) BY <1>8 DEF ReplaceAdopted, Held
<1> QED BY <1>1, <1>2, <1>3, <1>4, <1>5, <1>6, <1>7, <1>8 DEF Adopt

LEMMA WorkOthers ==
    ASSUME NEW p \in Procs, TypeOK, Work(p)
    PROVE  OthersKept(p)
<1>1. CASE Leave(p) BY <1>1, LeaveOthers
<1>2. CASE ~Leave(p)
  <2> USE <1>2, RecordsOK DEF Go, At, OthersKept, TypeOK
  <2>1. CASE Proceed(p) BY <2>1 DEF Proceed
  <2>2. CASE LockFile(p) BY <2>2 DEF LockFile, TakePrivacy
  <2>3. CASE ReadFile(p) BY <2>3 DEF ReadFile
  <2>4. CASE LockToWork(p) BY <2>4 DEF LockToWork, TakeOpLock
  <2>5. CASE CheckUnshare(p) BY <2>5 DEF CheckUnshare
  <2>6. CASE Reconcile(p) BY <2>6 DEF Reconcile
  <2>7. CASE Project(p) BY <2>7 DEF Project
  <2>8. CASE MarkPending(p) BY <2>8 DEF MarkPending
  <2> QED BY <2>1, <2>2, <2>3, <2>4, <2>5, <2>6, <2>7, <2>8
          DEF Work, Finish, GiveUp, ReplaceFile, ShareIt, UnshareIt, SettlePush
<1> QED BY <1>1, <1>2

LEMMA ActOthers ==
    ASSUME NEW p \in Procs, TypeOK, Held, Act(p)
    PROVE  OthersKept(p)
<1>1. CASE Start(p) BY <1>1 DEF Start, OthersKept, TypeOK
<1>2. CASE Step(p) BY <1>2, AdoptOthers, WorkOthers DEF Step
<1>3. CASE Die(p) BY <1>3, LeaveOthers DEF Die
<1> QED BY <1>1, <1>2, <1>3 DEF Act

LEMMA AdoptTyped ==
    ASSUME NEW p \in Procs, TypeOK, Held, Fresh, Adopt(p)
    PROVE  TypeOK'
<1> USE RecordsOK, GoTyped, SeeTyped DEF At, TypeOK
<1>1. CASE PeekRows(p) BY <1>1 DEF PeekRows, Go, LedgerTypeOK, ledger
<1>2. CASE PeekConsent(p) BY <1>2 DEF PeekConsent, Go, LedgerTypeOK, ledger
<1>3. CASE LockToAdopt(p) BY <1>3 DEF LockToAdopt, TakeOpLock, Go, LedgerTypeOK, ledger
<1>4. CASE LockLegacy(p) BY <1>4 DEF LockLegacy, TakeOpLock, Go, LedgerTypeOK, ledger
<1>5. CASE MoveRows(p)
  <2>1. rows' \in [Keys -> [Conversations -> Standing]] /\ book' = book
    <3>1. CASE RowsAwait(run[p].from)
      <4> DEFINE l == run[p].from   empty == [c \in Conversations |-> "none"]
      <4>1. rows[l] \in [Conversations -> Standing] /\ empty \in [Conversations -> Standing]
        BY FromTyped DEF LedgerTypeOK, Standing
      <4>2. rows' = [rows EXCEPT ![Fp] = rows[l], ![l] = empty] /\ book' = book
        BY <1>5, <3>1 DEF MoveRows, AdoptRows
      <4> HIDE DEF l, empty
      <4> QED BY <4>1, <4>2 DEF LedgerTypeOK
    <3>2. CASE ~RowsAwait(run[p].from) BY <1>5, <3>2 DEF MoveRows, ledger, LedgerTypeOK
    <3> QED BY <3>1, <3>2
  <2> QED BY <1>5, <2>1 DEF MoveRows, Go, LedgerTypeOK
<1>6. CASE LockFileToAdopt(p)
  BY <1>6 DEF LockFileToAdopt, TakePrivacy, Go, LedgerTypeOK, ledger
<1>7. CASE ReadToAdopt(p)
  <2>1. CASE ConsentAwaits(book, run[p].from)
    <3>1. /\ run' = [run EXCEPT ![p].at = "replaceAdopted", ![p].seen = book]
          /\ UNCHANGED <<book, rows, privacyLock, opLock, starts, deaths, behind>>
      BY <1>7, <2>1 DEF ReadToAdopt, ledger
    <3>2. run' \in [Procs -> Running]
      <4>1. book \in Books \cup {None} /\ "replaceAdopted" \in Stages BY DEF LedgerTypeOK
      <4> QED BY <3>1, <4>1, SeeTyped
    <3> QED BY <3>1, <3>2 DEF LedgerTypeOK
  <2>2. CASE ~ConsentAwaits(book, run[p].from)
    <3>1. /\ run' = [run EXCEPT ![p].at = "ready"] /\ privacyLock' = None
          /\ opLock' = [opLock EXCEPT ![Fp] = None, ![run[p].from] = None]
          /\ UNCHANGED <<book, rows, starts, deaths, behind>>
      BY <1>7, <2>2 DEF ReadToAdopt, Adopted, Go, ledger
    <3>2. run' \in [Procs -> Running] BY <3>1
    <3> QED BY <3>1, <3>2 DEF LedgerTypeOK
  <2> QED BY <2>1, <2>2
<1>8. CASE ReplaceAdopted(p)
  <2>1. book' \in Books
    <3>1. run[p].seen \in Books BY <1>8 DEF ReplaceAdopted, Fresh, LedgerTypeOK
    <3> QED BY <1>8, <3>1, BooksTyped, FromTyped DEF ReplaceAdopted, Consent
  <2>2. run' \in [Procs -> Running]
    BY <1>8 DEF ReplaceAdopted
  <2> QED BY <1>8, <2>1, <2>2 DEF ReplaceAdopted, LedgerTypeOK
<1> QED BY <1>1, <1>2, <1>3, <1>4, <1>5, <1>6, <1>7, <1>8 DEF Adopt

\* A process that leaves, having changed the records or not.
LEMMA LeaveTypeOK ==
    ASSUME NEW p \in Procs, TypeOK, Leave(p), Forget(p) \/ Surprise(p), LedgerTypeOK',
           starts' = starts, deaths' \in 0..MaxDeaths
    PROVE  TypeOK'
BY LeaveTyped, ForgetTyped DEF TypeOK

LEMMA WorkTyped ==
    ASSUME NEW p \in Procs, TypeOK, Held, Fresh, Work(p)
    PROVE  TypeOK'
<1>0. LedgerTypeOK /\ Key(p) \in Keys /\ run[p] \in Running
  BY KeyTyped DEF TypeOK
<1> USE GoTyped, SeeTyped, CarryTyped DEF At
<1>1. CASE Proceed(p) BY <1>1 DEF Proceed, TypeOK, Go, LedgerTypeOK, ledger
<1>2. CASE Finish(p) \/ GiveUp(p)
  BY <1>0, <1>2, LeaveTypeOK DEF Finish, GiveUp, LedgerTypeOK, ledger, TypeOK
<1>4. CASE LockFile(p) BY <1>4 DEF LockFile, TakePrivacy, Go, LedgerTypeOK, ledger, TypeOK
<1>5. CASE ReadFile(p)
  <2>1. CASE Leave(p) /\ Forget(p)
    BY <1>0, <1>5, <2>1, LeaveTypeOK DEF ReadFile, LedgerTypeOK, ledger, TypeOK
  <2>2. CASE ~(Leave(p) /\ Forget(p))
    <3>1. /\ run' = [run EXCEPT ![p].at = "replace", ![p].seen = book]
          /\ UNCHANGED <<book, rows, privacyLock, opLock, starts, deaths, behind>>
      BY <1>5, <2>2 DEF ReadFile, ledger
    <3>2. run' \in [Procs -> Running]
      <4>1. book \in Books \cup {None} /\ "replace" \in Stages BY <1>0 DEF LedgerTypeOK
      <4> QED BY <3>1, <4>1, SeeTyped DEF TypeOK
    <3> QED BY <3>1, <3>2 DEF LedgerTypeOK, TypeOK
  <2> QED BY <2>1, <2>2
<1>6. CASE ReplaceFile(p)
  <2>1. book' \in Books
    <3>1. run[p].seen \in Books BY <1>0, <1>6 DEF ReplaceFile, Fresh, LedgerTypeOK
    <3> QED BY <1>0, <1>6, <3>1, BooksTyped DEF ReplaceFile, Changed, Consent
  <2> QED BY <1>0, <1>6, <2>1, LeaveTypeOK DEF ReplaceFile, LedgerTypeOK, TypeOK
<1>7. CASE ShareIt(p)
  <2>1. rows' \in [Keys -> [Conversations -> Standing]] /\ book' = book
    <3>1. CASE Share(Key(p), run[p].of)
      <4>1. "shared" \in Standing BY DEF Standing
      <4> QED BY <1>0, <3>1, <4>1, PutTyped DEF Share
    <3>2. CASE UNCHANGED ledger BY <1>0, <3>2 DEF ledger, LedgerTypeOK
    <3> QED BY <1>7, <3>1, <3>2 DEF ShareIt
  <2> QED BY <1>0, <1>7, <2>1, LeaveTypeOK DEF ShareIt, LedgerTypeOK, TypeOK
<1>8. CASE LockToWork(p)
  BY <1>0, <1>8 DEF LockToWork, TakeOpLock, Go, LedgerTypeOK, ledger, TypeOK
<1>9. CASE CheckUnshare(p)
  <2>1. CASE Leave(p) /\ Forget(p)
    BY <1>0, <1>9, <2>1, LeaveTypeOK DEF CheckUnshare, LedgerTypeOK, ledger, TypeOK
  <2>2. CASE ~(Leave(p) /\ Forget(p))
    <3>1. /\ run' = [run EXCEPT ![p].at = "phrase"]
          /\ UNCHANGED <<book, rows, privacyLock, opLock, starts, deaths, behind>>
      BY <1>9, <2>2 DEF CheckUnshare, Go, ledger
    <3>2. run' \in [Procs -> Running] BY <3>1 DEF TypeOK
    <3> QED BY <3>1, <3>2 DEF LedgerTypeOK, TypeOK
  <2> QED BY <2>1, <2>2
<1>10. CASE UnshareIt(p)
  <2>1. rows' \in [Keys -> [Conversations -> Standing]] /\ book' = book
    <3>1. CASE Unshare(Key(p), run[p].of)
      <4>1. "private" \in Standing BY DEF Standing
      <4> QED BY <1>0, <3>1, <4>1, PutTyped DEF Unshare
    <3>2. CASE UNCHANGED ledger BY <1>0, <3>2 DEF ledger, LedgerTypeOK
    <3> QED BY <1>10, <3>1, <3>2 DEF UnshareIt
  <2> QED BY <1>0, <1>10, <2>1, LeaveTypeOK DEF UnshareIt, LedgerTypeOK, TypeOK
<1>11. CASE Reconcile(p)
  <2> DEFINE open == {c \in Conversations : rows[Key(p)][c] = "pending"}
  <2>1. rows' \in [Keys -> [Conversations -> Standing]] /\ book' = book
    <3>1. CASE UNCHANGED rows BY <1>0, <1>11, <3>1 DEF Reconcile, LedgerTypeOK
    <3>2. CASE \E there \in SUBSET open : rows' = Settled(Key(p), there, open \ there)
      <4>1. PICK there \in SUBSET open : rows' = Settled(Key(p), there, open \ there)
        BY <3>2
      <4>2. there \in SUBSET Conversations /\ open \ there \in SUBSET Conversations
        BY <4>1
      <4> HIDE DEF open
      <4> QED BY <1>0, <1>11, <4>1, <4>2, RowsTyped DEF Reconcile
    <3> QED BY <1>11, <3>1, <3>2 DEF Reconcile
  <2>2. CASE MayPublish(p)
    <3>1. /\ run' = [run EXCEPT ![p].at = "project"]
          /\ UNCHANGED <<privacyLock, opLock, starts, deaths, behind>>
      BY <1>11, <2>2 DEF Reconcile, Go
    <3>2. run' \in [Procs -> Running] BY <3>1 DEF TypeOK
    <3> QED BY <2>1, <3>1, <3>2 DEF LedgerTypeOK, TypeOK
  <2>3. CASE ~MayPublish(p)
    BY <1>11, <2>1, <2>3, LeaveTypeOK DEF Reconcile, LedgerTypeOK, TypeOK
  <2> QED BY <2>2, <2>3
<1>12. CASE Project(p)
  <2> DEFINE shared == {c \in Conversations : rows[Key(p)][c] = "shared"}
  <2>1. CASE shared = {}
    BY <1>0, <1>12, <2>1, LeaveTypeOK DEF Project, LedgerTypeOK, ledger, TypeOK
  <2>2. CASE shared # {}
    <3>1. /\ run' = [run EXCEPT ![p].at = "approve", ![p].carries = shared]
          /\ UNCHANGED <<book, rows, privacyLock, opLock, starts, deaths, behind>>
      BY <1>12, <2>2 DEF Project, ledger
    <3>2. run' \in [Procs -> Running]
      <4>1. shared \in SUBSET Conversations /\ "approve" \in Stages OBVIOUS
      <4> HIDE DEF shared
      <4> QED BY <3>1, <4>1, CarryTyped DEF TypeOK
    <3> HIDE DEF shared
    <3> QED BY <3>1, <3>2 DEF LedgerTypeOK, TypeOK
  <2> QED BY <2>1, <2>2
<1>13. CASE MarkPending(p)
  <2>1. rows' \in [Keys -> [Conversations -> Standing]]
    BY <1>0, <1>13, RowsTyped DEF MarkPending, Running
  <2> QED BY <1>13, <2>1 DEF MarkPending, Go, LedgerTypeOK, TypeOK
<1>14. CASE SettlePush(p)
  <2>1. rows' \in [Keys -> [Conversations -> Standing]]
    <3>1. run[p].carries \in SUBSET Conversations /\ {} \in SUBSET Conversations
      BY <1>0 DEF Running
    <3>2. CASE UNCHANGED rows BY <1>0, <3>2 DEF LedgerTypeOK
    <3>3. CASE rows' = Settled(Key(p), run[p].carries, {})
      <4> DEFINE cs == run[p].carries
      <4> HIDE DEF cs
      <4> QED BY <1>0, <3>1, <3>3, RowsTyped DEF cs
    <3>4. CASE rows' = Settled(Key(p), {}, run[p].carries)
      <4> DEFINE cs == run[p].carries
      <4>1. cs \in SUBSET Conversations /\ rows' = Settled(Key(p), {}, cs) BY <3>1, <3>4
      <4> HIDE DEF cs
      <4>2. {} \in SUBSET Conversations OBVIOUS
      <4> QED BY <1>0, <4>1, <4>2, RowsTyped
    <3> QED BY <1>14, <3>2, <3>3, <3>4 DEF SettlePush
  <2> QED BY <1>0, <1>14, <2>1, LeaveTypeOK DEF SettlePush, LedgerTypeOK, TypeOK
<1> QED BY <1>1, <1>2, <1>4, <1>5, <1>6, <1>7, <1>8, <1>9, <1>10, <1>11, <1>12, <1>13, <1>14
        DEF Work

LEMMA ActTyped ==
    ASSUME NEW p \in Procs, TypeOK, Held, Fresh, Act(p)
    PROVE  TypeOK'
<1>1. CASE Start(p)
  <2>1. PICK r \in Requests, c \in Conversations :
            run' = [run EXCEPT ![p] =
                [Idle EXCEPT !.does = r.does, !.version = r.version, !.from = r.from, !.of = c,
                             !.at = IF r.version = "today" /\ r.from # Fp /\ r.does # "capture"
                                    THEN "peekRows" ELSE "ready"]]
    BY <1>1 DEF Start
  <2>2. r.does \in Does /\ r.version \in Versions /\ r.from \in Keys
    BY RecordsOK
  <2>3. run' \in [Procs -> Running]
    BY <2>1, <2>2 DEF Idle, Running, TypeOK
  <2> QED BY <1>1, <2>3, RecordsOK DEF Start, TypeOK, LedgerTypeOK, ledger
<1>2. CASE Step(p) BY <1>2, AdoptTyped, WorkTyped DEF Step
<1>3. CASE Die(p)
  BY <1>3, LeaveTypeOK, RecordsOK DEF Die, TypeOK, LedgerTypeOK, ledger
<1> QED BY <1>1, <1>2, <1>3 DEF Act

\* A process that moves has taken the lock it needs at its next stage.
LEMMA AdoptHeld ==
    ASSUME NEW p \in Procs, TypeOK, Held, Adopt(p)
    PROVE  Held'
<1>1. OthersKept(p) BY AdoptOthers
<1> USE RecordsOK DEF Go, At, OthersKept, TypeOK, Held, Key, Running, Keys
<1>2. CASE PeekRows(p) BY <1>1, <1>2 DEF PeekRows
<1>3. CASE PeekConsent(p) BY <1>1, <1>3 DEF PeekConsent
<1>4. CASE LockToAdopt(p) BY <1>1, <1>4 DEF LockToAdopt, TakeOpLock
<1>5. CASE LockLegacy(p) BY <1>1, <1>5 DEF LockLegacy, TakeOpLock
<1>6. CASE MoveRows(p) BY <1>1, <1>6 DEF MoveRows
<1>7. CASE LockFileToAdopt(p) BY <1>1, <1>7 DEF LockFileToAdopt, TakePrivacy
<1>8. CASE ReadToAdopt(p) BY <1>1, <1>8 DEF ReadToAdopt, Adopted
<1>9. CASE ReplaceAdopted(p) BY <1>1, <1>9 DEF ReplaceAdopted
<1> QED BY <1>2, <1>3, <1>4, <1>5, <1>6, <1>7, <1>8, <1>9 DEF Adopt

LEMMA LeaveHeld ==
    ASSUME NEW p \in Procs, TypeOK, Held, Leave(p)
    PROVE  Held'
BY LeaveOthers DEF Leave, OthersKept, TypeOK, Held, Key, Idle, Running, Keys

LEMMA WorkHeld ==
    ASSUME NEW p \in Procs, TypeOK, Held, Work(p)
    PROVE  Held'
<1>1. CASE Leave(p) BY <1>1, LeaveHeld
<1>2. CASE ~Leave(p)
  <2>0. OthersKept(p) BY WorkOthers
  <2> USE <1>2, <2>0, RecordsOK DEF Go, At, OthersKept, TypeOK, Held, Key, Running, Keys
  <2>1. CASE Proceed(p) BY <2>1 DEF Proceed
  <2>2. CASE LockFile(p) BY <2>2 DEF LockFile, TakePrivacy
  <2>3. CASE ReadFile(p) BY <2>3 DEF ReadFile
  <2>4. CASE LockToWork(p) BY <2>4 DEF LockToWork, TakeOpLock
  <2>5. CASE CheckUnshare(p) BY <2>5 DEF CheckUnshare
  <2>6. CASE Reconcile(p) BY <2>6 DEF Reconcile
  <2>7. CASE Project(p) BY <2>7 DEF Project
  <2>8. CASE MarkPending(p) BY <2>8 DEF MarkPending
  <2> QED BY <2>1, <2>2, <2>3, <2>4, <2>5, <2>6, <2>7, <2>8
          DEF Work, Finish, GiveUp, ReplaceFile, ShareIt, UnshareIt, SettlePush
<1> QED BY <1>1, <1>2

LEMMA ActHeld ==
    ASSUME NEW p \in Procs, TypeOK, Held, Act(p)
    PROVE  Held'
<1>1. CASE Start(p)
  <2>1. PICK r \in Requests, c \in Conversations :
            run' = [run EXCEPT ![p] =
                [Idle EXCEPT !.does = r.does, !.version = r.version, !.from = r.from, !.of = c,
                             !.at = IF r.version = "today" /\ r.from # Fp /\ r.does # "capture"
                                    THEN "peekRows" ELSE "ready"]]
    BY <1>1 DEF Start
  <2>2. r.from \in Keys BY RecordsOK
  <2> QED BY <1>1, <2>1, <2>2 DEF Start, Held, TypeOK, Idle, Key, Running, Keys
<1>2. CASE Step(p) BY <1>2, AdoptHeld, WorkHeld DEF Step
<1>3. CASE Die(p) BY <1>3, LeaveHeld DEF Die
<1> QED BY <1>1, <1>2, <1>3 DEF Act
-----------------------------------------------------------------------------
(* Who changes what. *)

\* The file is replaced by who read it under the privacy lock.
LEMMA BookStill ==
    ASSUME NEW p \in Procs, Act(p), run[p].at \notin {"replaceAdopted", "replace"}
    PROVE  book' = book
<1> USE DEF At, ledger
<1>1. CASE Adopt(p)
  BY <1>1 DEF Adopt, PeekRows, PeekConsent, LockToAdopt, LockLegacy, TakeOpLock, MoveRows, AdoptRows,
     LockFileToAdopt, TakePrivacy, ReadToAdopt, ReplaceAdopted
<1>2. CASE Work(p)
  BY <1>2 DEF Work, Proceed, Finish, GiveUp, LockFile, TakePrivacy, ReadFile, ReplaceFile, ShareIt,
     Share, LockToWork, TakeOpLock, CheckUnshare, UnshareIt, Unshare, Reconcile, Project, MarkPending,
     SettlePush
<1> QED BY <1>1, <1>2 DEF Act, Step, Start, Die

\* The file read under the lock is there to be replaced: another process would
\* need the lock.
LEMMA ActFresh ==
    ASSUME NEW p \in Procs, TypeOK, Held, Fresh, Act(p)
    PROVE  Fresh'
<1> SUFFICES ASSUME NEW q \in Procs, run'[q].at \in {"replace", "replaceAdopted"}
             PROVE  /\ run'[q].seen = book'
                    /\ run'[q].at = "replaceAdopted" => ConsentAwaits(book', run'[q].from)
                    /\ run'[q].at = "replace" /\ run'[q].does = "autoOn"
                       => book'.sharing[Key(q)'] # "none"
  BY DEF Fresh
<1>1. CASE q # p
  <2>1. run'[q] = run[q] /\ Key(q)' = Key(q) BY <1>1, ActOthers DEF OthersKept, Key
  <2>2. privacyLock = q BY <2>1 DEF Held
  <2>3. run[p].at \notin {"replaceAdopted", "replace"} BY <1>1, <2>2 DEF Held
  <2>4. book' = book BY <2>3, BookStill
  <2> QED BY <2>1, <2>4 DEF Fresh
<1>2. CASE q = p
  <2>1. CASE ReadToAdopt(p)
    BY <1>2, <2>1 DEF ReadToAdopt, Adopted, Go, At, TypeOK, Running, ledger
  <2>2. CASE ReadFile(p)
    BY <1>2, <2>2 DEF ReadFile, Leave, Idle, At, TypeOK, Running, ledger, Key
  <2>3. CASE ~ReadToAdopt(p) /\ ~ReadFile(p)
    <3>1. ~Leave(p) BY <1>2 DEF Leave, Idle, TypeOK
    <3>2. CASE Start(p)
      <4>1. run'[p].at \in {"peekRows", "ready"} BY <3>2 DEF Start, Idle, TypeOK
      <4> QED BY <1>2, <4>1
    <3>3. CASE Adopt(p)
      BY <1>2, <2>3, <3>3 DEF Adopt, PeekRows, PeekConsent, LockToAdopt, LockLegacy, TakeOpLock,
         MoveRows, LockFileToAdopt, TakePrivacy, ReplaceAdopted, Go, TypeOK, Running
    <3>4. CASE Work(p)
      BY <1>2, <2>3, <3>1, <3>4 DEF Work, Proceed, Finish, GiveUp, LockFile, TakePrivacy,
         ReplaceFile, ShareIt, LockToWork, TakeOpLock, CheckUnshare, UnshareIt, Reconcile, Project,
         MarkPending, SettlePush, Go, TypeOK, Running
    <3> QED BY <3>1, <3>2, <3>3, <3>4 DEF Act, Step, Die
  <2> QED BY <2>1, <2>2, <2>3
<1> QED BY <1>1, <1>2

\* A consent that goes was adopted, by who holds the lock of its key.
LEMMA ConsentStill ==
    ASSUME NEW p \in Procs, TypeOK, Held, Fresh, Act(p), NEW k \in Keys,
           book.sharing[k] # "none", opLock[k] # p
    PROVE  book'.sharing[k] # "none"
<1>0. book \in Books /\ Key(p) \in Keys BY KeyTyped DEF TypeOK, LedgerTypeOK
<1>1. CASE ReplaceAdopted(p)
  <2>1. run[p].seen = book /\ opLock[run[p].from] = p /\ opLock[Fp] = p
    BY <1>1 DEF ReplaceAdopted, At, Fresh, Held
  <2>2. k # run[p].from /\ k # Fp BY <2>1
  <2> QED BY <1>0, <1>1, <2>1, <2>2 DEF ReplaceAdopted, WithAdopted, Books
<1>2. CASE ReplaceFile(p)
  <2>1. run[p].seen = book BY <1>2 DEF ReplaceFile, At, Fresh
  <2> QED BY <1>0, <1>2, <2>1 DEF ReplaceFile, Changed, WithCapture, WithConsent, Books
<1>3. CASE book' = book BY <1>3
<1> QED
  BY <1>1, <1>2, <1>3 DEF Act, Start, Step, Die, Adopt, PeekRows, PeekConsent, LockToAdopt,
     LockLegacy, TakeOpLock, MoveRows, AdoptRows, LockFileToAdopt, TakePrivacy, ReadToAdopt,
     Work, Proceed, Finish, GiveUp, LockFile, ReadFile, ShareIt,
     Share, LockToWork, CheckUnshare, UnshareIt, Unshare, Reconcile, Project, MarkPending,
     SettlePush, ledger

\* Without its lock, nobody changes what is shared or pending under a key.
LEMMA RowsStill ==
    ASSUME NEW p \in Procs, TypeOK, Held, Act(p), NEW k \in Keys, NEW c \in Conversations,
           rows[k][c] \in {"shared", "pending"}, opLock[k] # p
    PROVE  rows'[k][c] = rows[k][c]
<1>0. /\ rows \in [Keys -> [Conversations -> Standing]] /\ Key(p) \in Keys
      /\ run[p].from \in Keys /\ Fp \in Keys
  BY KeyTyped, FromTyped DEF TypeOK, LedgerTypeOK
<1>1. CASE MoveRows(p)
  <2>1. k # run[p].from /\ k # Fp BY <1>1 DEF MoveRows, At, Held
  <2> QED BY <1>0, <1>1, <2>1 DEF MoveRows, AdoptRows, ledger
<1>2. CASE ShareIt(p)
  BY <1>0, <1>2 DEF ShareIt, Share, ledger
<1>3. CASE UnshareIt(p) \/ Reconcile(p) \/ MarkPending(p) \/ SettlePush(p)
  <2>1. opLock[Key(p)] = p
    BY <1>3 DEF UnshareIt, Reconcile, MarkPending, SettlePush, At, Held
  <2>2. k # Key(p) BY <2>1
  <2> QED BY <1>0, <1>3, <2>2 DEF UnshareIt, Unshare, Reconcile, MarkPending, SettlePush, Marked,
             Settled, ledger
<1>4. CASE rows' = rows BY <1>4
<1> QED
  BY <1>1, <1>2, <1>3, <1>4 DEF Act, Start, Step, Die, Adopt, PeekRows, PeekConsent, LockToAdopt,
     LockLegacy, TakeOpLock, LockFileToAdopt, TakePrivacy, ReadToAdopt, ReplaceAdopted,
     Work, Proceed, Finish, GiveUp, LockFile, ReadFile, ReplaceFile, LockToWork, CheckUnshare,
     Project, ledger

\* What a publication read is still so at its next step.
LEMMA ActUntouched ==
    ASSUME NEW p \in Procs, TypeOK, Held, Fresh, Untouched, Act(p)
    PROVE  Untouched'
<1> SUFFICES ASSUME NEW q \in Procs
             PROVE  /\ run'[q].at \in {"project", "approve"} => book'.sharing[Key(q)'] # "none"
                    /\ run'[q].at = "approve" =>
                           \A c \in run'[q].carries : rows'[Key(q)'][c] = "shared"
                    /\ run'[q].at = "settle" =>
                           \A c \in run'[q].carries : rows'[Key(q)'][c] = "pending"
  BY DEF Untouched
<1>1. CASE q # p /\ run[q].at \in {"project", "approve", "settle"}
  <2>1. run'[q] = run[q] /\ Key(q)' = Key(q) BY <1>1, ActOthers DEF OthersKept, Key
  <2>2. opLock[Key(q)] # p /\ Key(q) \in Keys BY <1>1, KeyTyped DEF Held
  <2>3. run[q].carries \subseteq Conversations BY DEF TypeOK, Running
  <2>4. ASSUME NEW c \in run[q].carries, rows[Key(q)][c] \in {"shared", "pending"}
        PROVE  rows'[Key(q)][c] = rows[Key(q)][c]
    BY <2>2, <2>3, <2>4, RowsStill
  <2>5. book.sharing[Key(q)] # "none" => book'.sharing[Key(q)] # "none"
    BY <2>2, ConsentStill
  <2> QED BY <2>1, <2>4, <2>5 DEF Untouched
<1>2. CASE q # p /\ run[q].at \notin {"project", "approve", "settle"}
  <2>1. run'[q] = run[q] BY <1>2, ActOthers DEF OthersKept
  <2> QED BY <1>2, <2>1
<1>3. CASE q = p
  <2> USE <1>3 DEF At, Go, TypeOK, Running
  <2>1. CASE Reconcile(p)
    BY <2>1 DEF Reconcile, MayPublish, Leave, Idle, Key
  <2>2. CASE Project(p)
    BY <2>2 DEF Project, Leave, Idle, Key, Untouched, ledger
  <2>3. CASE MarkPending(p)
    <3>1. Key(p) \in Keys BY KeyTyped
    <3> QED BY <2>3, <3>1 DEF MarkPending, Marked, Key, LedgerTypeOK
  <2>4. CASE ~Reconcile(p) /\ ~Project(p) /\ ~MarkPending(p)
    <3> SUFFICES run'[p].at \notin {"project", "approve", "settle"} BY <1>3
    <3>1. CASE Leave(p) BY <3>1 DEF Leave, Idle
    <3>2. CASE Start(p)
      <4>1. run'[p].at \in {"peekRows", "ready"} BY <3>2 DEF Start, Idle
      <4> QED BY <4>1
    <3>3. CASE Adopt(p)
      BY <3>3 DEF Adopt, PeekRows, PeekConsent, LockToAdopt, LockLegacy, TakeOpLock, MoveRows,
         LockFileToAdopt, TakePrivacy, ReadToAdopt, Adopted, ReplaceAdopted
    <3>4. CASE Work(p) /\ ~Leave(p)
      BY <2>4, <3>4 DEF Work, Proceed, Finish, GiveUp, LockFile, TakePrivacy, ReadFile,
         ReplaceFile, ShareIt, LockToWork, TakeOpLock, CheckUnshare, UnshareIt, SettlePush
    <3> QED BY <3>1, <3>2, <3>3, <3>4 DEF Act, Step, Die
  <2> QED BY <2>1, <2>2, <2>3, <2>4
<1> QED BY <1>1, <1>2, <1>3
-----------------------------------------------------------------------------
(* The records keep the ledger. *)

IInv == TypeOK /\ Held /\ Fresh /\ Untouched

LEMMA InitIInv == Init => IInv
<1> SUFFICES ASSUME Init PROVE IInv OBVIOUS
<1>1. TypeOK
  <2>1. LedgerTypeOK BY DEF Init, LedgerInit, LedgerTypeOK, Books, Standing
  <2> QED BY <2>1, IdleTyped, RecordsOK DEF Init, TypeOK
<1>2. \A p \in Procs : run[p].at = "idle" BY DEF Init, Idle
<1> QED BY <1>1, <1>2 DEF IInv, Held, Fresh, Untouched

LEMMA NextIInv == IInv /\ [Next]_vars => IInv'
<1> SUFFICES ASSUME IInv, [Next]_vars PROVE IInv' OBVIOUS
<1>1. ASSUME NEW p \in Procs, Act(p) PROVE IInv'
  BY <1>1, ActTyped, ActHeld, ActFresh, ActUntouched DEF IInv
<1>2. CASE UNCHANGED vars
  BY <1>2 DEF vars, IInv, TypeOK, LedgerTypeOK, Held, Fresh, Untouched, Key, ConsentAwaits
<1> QED BY <1>1, <1>2 DEF Next, Act

\* One step for each action that changes a record; the others change none.
LEMMA ActKeeps ==
    ASSUME NEW p \in Procs, IInv, Act(p)
    PROVE  LedgerNext \/ UNCHANGED ledger
<1>0. /\ TypeOK /\ Held /\ Fresh /\ Untouched /\ Key(p) \in Keys
      /\ run[p].carries \in SUBSET Conversations
  BY KeyTyped DEF IInv, TypeOK, Running
<1> USE DEF At
<1>1. CASE MoveRows(p)
  BY <1>0, <1>1 DEF MoveRows, Held, LedgerNext
<1>2. CASE ReplaceAdopted(p)
  BY <1>0, <1>2 DEF ReplaceAdopted, Held, Fresh, LedgerNext, AdoptConsent
<1>3. CASE ReplaceFile(p)
  <2>1. book' = Changed(book, run[p].does, Key(p)) /\ UNCHANGED rows
    BY <1>0, <1>3 DEF ReplaceFile, Fresh
  <2>2. run[p].does = "autoOn" => book.sharing[Key(p)] # "none"
    BY <1>0, <1>3 DEF ReplaceFile, Fresh
  <2>3. Decide
    <3>1. CASE run[p].does = "capture" BY <2>1, <3>1 DEF Changed, Decide
    <3>2. CASE run[p].does = "autoOn"
      <4>1. book' = WithConsent(book, Key(p), "auto") BY <2>1, <3>2 DEF Changed
      <4>2. "auto" \in Consent \ {"none"} BY DEF Consent
      <4> QED BY <1>0, <2>1, <2>2, <3>2, <4>1, <4>2 DEF Decide
    <3>3. CASE run[p].does \notin {"capture", "autoOn"}
      <4>1. book' = WithConsent(book, Key(p), "manual") BY <2>1, <3>3 DEF Changed
      <4> QED BY <1>0, <2>1, <4>1 DEF Decide
    <3> QED BY <3>1, <3>2, <3>3
  <2> QED BY <2>3 DEF LedgerNext
<1>4. CASE ShareIt(p)
  BY <1>0, <1>4 DEF ShareIt, Held, LedgerNext
<1>5. CASE UnshareIt(p)
  BY <1>0, <1>5 DEF UnshareIt, Held, LedgerNext
<1>6. CASE Reconcile(p)
  <2> DEFINE open == {c \in Conversations : rows[Key(p)][c] = "pending"}
  <2>1. CASE UNCHANGED rows BY <1>6, <2>1 DEF Reconcile, ledger
  <2>2. CASE \E there \in SUBSET open : rows' = Settled(Key(p), there, open \ there)
    <3>1. PICK there \in SUBSET open : rows' = Settled(Key(p), there, open \ there)
      BY <2>2
    <3>2. Settle(Key(p), there, open \ there)
      BY <1>6, <3>1 DEF Settle, Reconcile
    <3>3. there \in SUBSET Conversations /\ open \ there \in SUBSET Conversations
      BY <3>1
    <3> HIDE DEF open
    <3> QED BY <1>0, <3>2, <3>3 DEF LedgerNext
  <2> QED BY <1>6, <2>1, <2>2 DEF Reconcile
<1>7. CASE MarkPending(p)
  <2>1. Mark(Key(p), run[p].carries)
    BY <1>0, <1>7 DEF MarkPending, Untouched, Mark
  <2> QED BY <1>0, <2>1 DEF LedgerNext
<1>8. CASE SettlePush(p)
  <2>1. \/ Settle(Key(p), run[p].carries, {})
        \/ Settle(Key(p), {}, run[p].carries)
        \/ UNCHANGED ledger
    BY <1>0, <1>8 DEF SettlePush, Untouched, Settle, ledger
  <2>2. {} \in SUBSET Conversations OBVIOUS
  <2> QED BY <1>0, <2>1, <2>2 DEF LedgerNext
<1>9. CASE UNCHANGED ledger BY <1>9
<1> QED
  BY <1>1, <1>2, <1>3, <1>4, <1>5, <1>6, <1>7, <1>8, <1>9
  DEF Act, Start, Step, Die, Adopt, PeekRows, PeekConsent, LockToAdopt, LockLegacy, TakeOpLock,
      LockFileToAdopt, TakePrivacy, ReadToAdopt, Work, Proceed, Finish, GiveUp, LockFile, ReadFile,
      LockToWork, CheckUnshare, Project

\* Every change of the records is one decision or one step of a publication,
\* on the records as they are then.
THEOREM RecordsKeepLedger == Spec => KeepsLedger
<1>1. Init => LedgerInit BY DEF Init
<1>2. IInv /\ [Next]_vars => [LedgerNext]_ledger
  <2> SUFFICES ASSUME IInv, [Next]_vars PROVE LedgerNext \/ UNCHANGED ledger OBVIOUS
  <2>1. CASE UNCHANGED vars BY <2>1 DEF vars, ledger
  <2> QED BY <2>1, ActKeeps DEF Next, Act
<1> QED BY InitIInv, NextIInv, <1>1, <1>2, PTL DEF Spec, KeepsLedger, LedgerSpec
-----------------------------------------------------------------------------
(* What an earlier version left is adopted before it is used. *)

LEMMA SpecIInv == Spec => []IInv
BY InitIInv, NextIInv, PTL DEF Spec

\* Rows appear under a key because they were adopted, or by a share or an
\* unshare there, which surprises whom it may; and under the location they stay.
LEMMA RowsNews ==
    ASSUME NEW p \in Procs, IInv, Act(p)
    PROVE  /\ HasRows(Fp) => HasRows(Fp)'
           /\ \A l \in Legacies : HasRows(l)' /\ ~HasRows(l) => Key(p) = l /\ Surprise(p)
<1>0. /\ TypeOK /\ Held /\ Untouched /\ Key(p) \in Keys /\ run[p].from \in Keys
      /\ rows \in [Keys -> [Conversations -> Standing]]
      /\ run[p].carries \in SUBSET Conversations /\ Fp \in Keys /\ Legacies \subseteq Keys
  BY KeyTyped, FromTyped DEF IInv, TypeOK, Running, LedgerTypeOK
<1>1. CASE rows' = rows BY <1>1 DEF HasRows
<1>2. CASE MoveRows(p) /\ rows' # rows
  <2>1. /\ rows' = [rows EXCEPT ![Fp] = rows[run[p].from],
                                ![run[p].from] = [c \in Conversations |-> "none"]]
        /\ HasRows(run[p].from) /\ run[p].from \in Legacies
    BY <1>0, <1>2 DEF MoveRows, AdoptRows, RowsAwait, ledger, At, Held
  <2>2. run[p].from # Fp BY <2>1, RecordsOK
  <2>3. HasRows(Fp)' BY <1>0, <2>1, <2>2 DEF HasRows
  <2>4. ASSUME NEW l \in Legacies, HasRows(l)' PROVE HasRows(l)
    <3>1. l # Fp /\ l \in Keys BY <1>0, RecordsOK
    <3> QED BY <1>0, <2>1, <2>4, <3>1 DEF HasRows
  <2> QED BY <2>3, <2>4
<1>3. CASE (ShareIt(p) \/ UnshareIt(p)) /\ rows' # rows
  <2>1. /\ Surprise(p) /\ run[p].of \in Conversations
        /\ \E standing \in {"shared", "private"} : rows' = [rows EXCEPT ![Key(p)][run[p].of] = standing]
    BY <1>0, <1>3 DEF ShareIt, UnshareIt, Share, Unshare, ledger, At, Held
  <2>2. PICK standing \in {"shared", "private"} : rows' = [rows EXCEPT ![Key(p)][run[p].of] = standing]
    BY <2>1
  <2>3. \A k \in Keys : k # Key(p) => rows'[k] = rows[k] BY <1>0, <2>2
  <2>4. rows'[Key(p)][run[p].of] # "none" BY <1>0, <2>1, <2>2
  <2> QED BY <1>0, <2>1, <2>3, <2>4 DEF HasRows
<1>4. CASE MarkPending(p) \/ SettlePush(p) \/ Reconcile(p)
  <2>1. \A k \in Keys : \A c \in Conversations : rows'[k][c] = "none" <=> rows[k][c] = "none"
    <3>1. CASE MarkPending(p)
      BY <1>0, <3>1 DEF MarkPending, Untouched, Marked, At
    <3>2. CASE SettlePush(p)
      BY <1>0, <3>2 DEF SettlePush, Untouched, Settled, At
    <3>3. CASE Reconcile(p)
      BY <1>0, <3>3 DEF Reconcile, Settled
    <3> QED BY <1>4, <3>1, <3>2, <3>3
  <2> QED BY <1>0, <2>1 DEF HasRows
<1> QED
  BY <1>1, <1>2, <1>3, <1>4
  DEF Act, Start, Step, Die, Adopt, PeekRows, PeekConsent, LockToAdopt, LockLegacy, TakeOpLock,
      LockFileToAdopt, TakePrivacy, ReadToAdopt, ReplaceAdopted, Work, Proceed, Finish, GiveUp,
      LockFile, ReadFile, ReplaceFile, LockToWork, CheckUnshare, Project, ledger

\* The same of consents.
LEMMA ConsentNews ==
    ASSUME NEW p \in Procs, IInv, Act(p)
    PROVE  /\ book.sharing[Fp] # "none" => book'.sharing[Fp] # "none"
           /\ \A l \in Legacies : book'.sharing[l] # "none" /\ book.sharing[l] = "none"
                                 => Key(p) = l /\ Surprise(p)
<1>0. /\ TypeOK /\ Held /\ Fresh /\ Key(p) \in Keys /\ book \in Books
      /\ Fp \in Keys /\ Legacies \subseteq Keys
  BY KeyTyped, FromTyped DEF IInv, TypeOK, LedgerTypeOK
<1>1. CASE ReplaceAdopted(p)
  <2>1. /\ book' = WithAdopted(book, run[p].from) /\ ConsentAwaits(book, run[p].from)
        /\ run[p].from \in Legacies
    BY <1>0, <1>1 DEF ReplaceAdopted, At, Fresh, Held
  <2>2. run[p].from \in Keys /\ run[p].from # Fp /\ Fp \notin Legacies BY <1>0, <2>1, RecordsOK
  <2> QED BY <1>0, <2>1, <2>2 DEF WithAdopted, ConsentAwaits, Books
<1>2. CASE ReplaceFile(p)
  <2>1. book' = Changed(book, run[p].does, Key(p)) /\ Surprise(p)
    BY <1>0, <1>2 DEF ReplaceFile, At, Fresh
  <2> QED BY <1>0, <2>1 DEF Changed, WithCapture, WithConsent, Books
<1>3. CASE run[p].at \notin {"replaceAdopted", "replace"} BY <1>3, BookStill
<1>4. CASE run[p].at \in {"replaceAdopted", "replace"} /\ ~ReplaceAdopted(p) /\ ~ReplaceFile(p)
  <2>1. book' = book
    BY <1>4 DEF Act, Start, Step, Die, Adopt, PeekRows, PeekConsent, LockToAdopt, LockLegacy,
      TakeOpLock, MoveRows, LockFileToAdopt, TakePrivacy, ReadToAdopt, Work, Proceed, Finish,
      GiveUp, LockFile, ReadFile, ShareIt, LockToWork, CheckUnshare, UnshareIt, Reconcile, Project,
      MarkPending, SettlePush, At, ledger
  <2> QED BY <2>1
<1> QED BY <1>1, <1>2, <1>3, <1>4

\* A command of today on a URL with user information, with no news.
Concerned(p) ==
    /\ p \notin behind
    /\ run[p].version = "today" /\ run[p].from # Fp /\ run[p].does # "capture"

\* What each stage of the adoption has made sure of.
Cleared == \A p \in Procs : Concerned(p) =>
    /\ run[p].at \in {"peekConsent", "awaitAdopt", "adopt", "replaceAdopted"} \cup Working
          => ~RowsAwait(run[p].from)
    /\ run[p].at \in Working => ~ConsentAwaits(book, run[p].from)

\* Who is not idle is not surprised by another unless it is behind.
LEMMA NoNews ==
    ASSUME NEW p \in Procs, NEW q \in Procs \ {p}, IInv, Act(p), run[q].at # "idle",
           Concerned(q)'
    PROVE  /\ Concerned(q) /\ run'[q] = run[q] /\ run[q].from \in Legacies
           /\ ~(Key(p) = run[q].from /\ Surprise(p))
<1>1. run'[q] = run[q] BY ActOthers DEF IInv, OthersKept
<1>2. q \in behind' => ~Concerned(q)' BY DEF Concerned
<1>3. behind \ {p} \subseteq behind'
  BY DEF Act, Start, Step, Die, Adopt, PeekRows, PeekConsent, LockToAdopt, LockLegacy, TakeOpLock,
     MoveRows, LockFileToAdopt, TakePrivacy, ReadToAdopt, Adopted, ReplaceAdopted, Work, Proceed,
     Finish, GiveUp, LockFile, ReadFile, ReplaceFile, ShareIt, LockToWork, CheckUnshare, UnshareIt,
     Reconcile, Project, MarkPending, SettlePush, Forget, Surprise
<1>4. run[q].from \in Keys BY FromTyped DEF IInv
<1>5. run[q].from \in Legacies BY <1>1, <1>4 DEF Concerned, Keys
<1>6. ASSUME Key(p) = run[q].from, Surprise(p) PROVE FALSE
  <2>1. run[p].version = "earlier" /\ run[p].from = run[q].from
    <3>1. run[p].version \in Versions BY DEF IInv, TypeOK, Running
    <3> QED BY <1>1, <1>6, <3>1 DEF Key, Concerned
  <2>2. q \in behind' BY <1>1, <1>6, <2>1 DEF Surprise, Concerned
  <2> QED BY <1>2, <2>2
<1> QED BY <1>1, <1>2, <1>3, <1>5, <1>6 DEF Concerned

LEMMA ActCleared ==
    ASSUME NEW p \in Procs, IInv, Cleared, Act(p)
    PROVE  Cleared'
<1>0. TypeOK /\ Held /\ Fresh BY DEF IInv
<1> SUFFICES ASSUME NEW q \in Procs, Concerned(q)'
             PROVE  /\ run'[q].at \in {"peekConsent", "awaitAdopt", "adopt", "replaceAdopted"}
                                       \cup Working => ~RowsAwait(run[q].from)'
                    /\ run'[q].at \in Working => ~ConsentAwaits(book', run'[q].from)
  BY DEF Cleared, RowsAwait, HasRows
<1>1. CASE q # p
  <2>0. run'[q] = run[q] BY <1>0, <1>1, ActOthers DEF OthersKept
  <2>1. CASE run[q].at = "idle" BY <2>0, <2>1
  <2>2. CASE run[q].at # "idle"
    <3>1. /\ Concerned(q) /\ run[q].from \in Legacies
          /\ ~(Key(p) = run[q].from /\ Surprise(p))
      BY <1>1, <2>2, NoNews
    <3>2. ~RowsAwait(run[q].from) => ~RowsAwait(run[q].from)'
      BY <2>0, <3>1, RowsNews DEF RowsAwait, HasRows
    <3>3. ~ConsentAwaits(book, run[q].from) => ~ConsentAwaits(book', run[q].from)
      BY <3>1, ConsentNews DEF ConsentAwaits
    <3> QED BY <2>0, <3>1, <3>2, <3>3 DEF Cleared, RowsAwait, HasRows
  <2> QED BY <2>1, <2>2
<1>2. CASE q = p
  <2>1. CASE Leave(p) BY <1>2, <2>1 DEF Leave, Idle, IInv, TypeOK
  <2>2. CASE ~Leave(p)
    <3> USE <1>2, <2>2 DEF IInv, TypeOK, Running, Go, At
    <3>1. CASE Start(p)
      <4>1. PICK r \in Requests, c \in Conversations :
                run' = [run EXCEPT ![p] =
                    [Idle EXCEPT !.does = r.does, !.version = r.version, !.from = r.from, !.of = c,
                                 !.at = IF r.version = "today" /\ r.from # Fp /\ r.does # "capture"
                                        THEN "peekRows" ELSE "ready"]]
        BY <3>1 DEF Start
      <4>2. run'[p].at = "peekRows" BY <4>1 DEF Concerned, Idle
      <4> QED BY <4>2
    <3>2. CASE PeekRows(p)
      BY <3>2 DEF PeekRows, RowsAwait, HasRows, ledger
    <3>3. CASE PeekConsent(p)
      BY <3>3 DEF PeekConsent, RowsAwait, HasRows, ledger, Cleared, Concerned
    <3>4. CASE MoveRows(p)
      <4>1. run[p].from \in Legacies /\ run[p].from # Fp /\ run[p].from \in Keys
        BY <1>0, <3>4, RecordsOK DEF MoveRows, Held, Keys
      <4>2. run'[p].from = run[p].from /\ run'[p].at = "awaitAdopt" BY <3>4 DEF MoveRows
      <4>3. CASE RowsAwait(run[p].from)
        <5>1. \A c \in Conversations : rows'[run[p].from][c] = "none"
          BY <3>4, <4>1, <4>3 DEF MoveRows, AdoptRows, LedgerTypeOK
        <5> QED BY <4>2, <5>1 DEF RowsAwait, HasRows
      <4>4. CASE ~RowsAwait(run[p].from)
        BY <3>4, <4>2, <4>4 DEF MoveRows, RowsAwait, HasRows, ledger
      <4> QED BY <4>3, <4>4
    <3>5. CASE ReadToAdopt(p)
      BY <3>5 DEF ReadToAdopt, Adopted, RowsAwait, HasRows, ledger, Cleared, Concerned
    <3>6. CASE ReplaceAdopted(p)
      <4>1. /\ book' = WithAdopted(book, run[p].from) /\ ConsentAwaits(book, run[p].from)
            /\ run[p].from \in Legacies /\ run[p].from # Fp /\ Fp \in Keys /\ book \in Books
        BY <1>0, <3>6, RecordsOK DEF ReplaceAdopted, Fresh, Held, Keys, LedgerTypeOK
      <4>2. book'.sharing[Fp] # "none"
        BY <4>1 DEF WithAdopted, ConsentAwaits, Books
      <4>3. run'[p].from = run[p].from /\ rows' = rows BY <3>6 DEF ReplaceAdopted
      <4>4. Concerned(p) BY <3>6 DEF Concerned, ReplaceAdopted
      <4>5. ~RowsAwait(run[p].from) BY <3>6, <4>4 DEF Cleared, ReplaceAdopted
      <4> QED BY <4>2, <4>3, <4>5 DEF ConsentAwaits, RowsAwait, HasRows
    <3>7. CASE LockToAdopt(p) \/ LockLegacy(p)
      BY <3>7 DEF LockToAdopt, LockLegacy, TakeOpLock
    <3>8. CASE LockFileToAdopt(p)
      BY <3>8 DEF LockFileToAdopt, TakePrivacy, RowsAwait, HasRows, ledger, Cleared, Concerned
    <3>9. CASE Work(p)
      <4>1. /\ run[p].at \in Working /\ run'[p].from = run[p].from
            /\ run'[p].version = run[p].version /\ run'[p].does = run[p].does
            /\ behind' = behind
        BY <3>9 DEF Work, Proceed, Finish, GiveUp, LockFile, TakePrivacy, ReadFile, ReplaceFile,
           ShareIt, LockToWork, TakeOpLock, CheckUnshare, UnshareIt, Reconcile, Project,
           MarkPending, SettlePush
      <4>2. Concerned(p) BY <4>1 DEF Concerned
      <4>3. run[p].from \in Legacies /\ Key(p) = Fp /\ Fp \notin Legacies
        BY <4>2, RecordsOK DEF Concerned, Key, Keys
      <4>4. ~RowsAwait(run[p].from)'
        <5> DEFINE l == run[p].from
        <5>1. HasRows(Fp) => HasRows(Fp)' BY RowsNews
        <5>2. (\E c \in Conversations : rows'[l][c] # "none") => HasRows(l)
          <6> l \in Legacies /\ Key(p) # l BY <4>3
          <6> HIDE DEF l
          <6> QED BY RowsNews DEF HasRows
        <5>3. ~RowsAwait(l) BY <4>1, <4>2 DEF Cleared
        <5> QED BY <4>1, <5>1, <5>2, <5>3 DEF RowsAwait, HasRows
      <4>5. ~ConsentAwaits(book', run[p].from)
        BY <4>1, <4>2, <4>3, ConsentNews DEF Cleared, ConsentAwaits
      <4> QED BY <4>1, <4>4, <4>5 DEF RowsAwait, HasRows
    <3> QED BY <3>1, <3>2, <3>3, <3>4, <3>5, <3>6, <3>7, <3>8, <3>9 DEF Act, Step, Adopt, Die
  <2> QED BY <2>1, <2>2
<1> QED BY <1>1, <1>2

\* A command of today finds what an earlier version left under the
\* fingerprint it acts under.
THEOREM AdoptionPrecedesUse == Spec => []AdoptedBeforeUse
<1>1. Init => Cleared BY DEF Init, Idle, Cleared
<1>2. IInv /\ Cleared /\ [Next]_vars => Cleared'
  <2> SUFFICES ASSUME IInv, Cleared, [Next]_vars PROVE Cleared' OBVIOUS
  <2>1. CASE UNCHANGED vars
    BY <2>1 DEF vars, Cleared, Concerned, RowsAwait, HasRows, ConsentAwaits
  <2> QED BY <2>1, ActCleared DEF Next, Act
<1>3. Cleared => AdoptedBeforeUse BY DEF Cleared, Concerned, AdoptedBeforeUse
<1> QED BY SpecIInv, <1>1, <1>2, <1>3, PTL DEF Spec
=============================================================================
