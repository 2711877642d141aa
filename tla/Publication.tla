---------------------------- MODULE Publication ----------------------------
(***************************************************************************)
(* How the clones of one repository publish captured thoughts to shared    *)
(* destinations, and learn from them.                                      *)
(*                                                                         *)
(* A clone keeps its thoughts in a SQLite store (cvc-core/src/db.rs).  A   *)
(* destination is a Git remote whose ref refs/cvc/main names a tree of     *)
(* thoughts and tombstones.  A push reconciles what an earlier push left   *)
(* uncertain, fetches and imports the destination's tree, builds on it     *)
(* the tree it wants (the projection), records its new thoughts as         *)
(* pending, sends the commit without force, and settles the records by     *)
(* what the transport reported (cvc-cli/src/commands/sync.rs).  Between    *)
(* any two of these steps the process may die, another clone may push, and *)
(* this clone's user may share, capture or delete.                         *)
(*                                                                         *)
(* Each action is one transaction of the store, or one exchange with the   *)
(* destination.  A push, a reconcile and a redaction hold the clone's      *)
(* lock for the destination, so there is one operation in progress for     *)
(* each clone and destination; capture, share and delete-local take no     *)
(* lock.  Thoughts, texts and clock readings are data: what matters of a   *)
(* thought is its session, its parent and how it was captured.             *)
(***************************************************************************)
EXTENDS Naturals, Sequences, FiniteSets

CONSTANTS
    Clones,        \* the clones of the repository, each with its own store
    Destinations,  \* destination fingerprints: a push URL and its ref
    Thoughts,      \* interaction ids
    NoThought,     \* a parent_id that is NULL
    Sessions,      \* conversation ids as a capture names them
    Consented,     \* Consented[c]: destinations clone c's user acknowledged
    AuthorOf,      \* AuthorOf[t]: the clone on which t is captured
    SessionOf,     \* SessionOf[t]: the conversation t is captured in
    ParentOf,      \* ParentOf[t]: the thought t is captured as a reply to
    SourceOf,      \* SourceOf[t]: the CaptureSource t is captured by
    RequestOf,     \* RequestOf[t]: the source_request_id of a passive capture
    Clock,         \* the readings deleted_at may take
    LateArrival,   \* may a push that reported an error still land later?
    MaxEvents      \* bound: what users decide, and what fails

Sources == {"mcp", "cli", "passive", "harness"}

ASSUME ConstantsOK ==
    /\ NoThought \notin Thoughts
    /\ Consented \in [Clones -> SUBSET Destinations]
    /\ AuthorOf \in [Thoughts -> Clones]
    /\ SessionOf \in [Thoughts -> Sessions]
    /\ ParentOf \in [Thoughts -> Thoughts \cup {NoThought}]
    /\ SourceOf \in [Thoughts -> Sources]
    /\ DOMAIN RequestOf = Thoughts
    /\ Clock \subseteq Nat
    /\ LateArrival \in BOOLEAN
    /\ MaxEvents \in Nat

VARIABLES
    row,        \* row[c][t]: the interactions row of t in c's store
    shares,     \* shares[c][d]: interaction_shares, the thoughts c may send to d
    future,     \* future[c][d]: conversations whose later thoughts are shared too
    pub,        \* pub[c][d][t]: the publications row: what c knows d to hold
    buried,     \* buried[c]: tombstones of scope 'local'
    tomb,       \* tomb[c][d][t]: the tombstone of scope 'remote' for d
    op,         \* op[c][d]: the operation holding c's lock for d
    tip,        \* tip[d]: the commit refs/cvc/main names at d
    inFlight,   \* inFlight[d]: pushes given up by their sender, not by the network
    minted,     \* thoughts captured so far: a random id is drawn once
    events,     \* decisions and failures so far, against MaxEvents
    sent,       \* history: sent[c][d], the thoughts c's pushes put at d
    granted     \* history: granted[c][d], conversations shared and not unshared

storeVars == <<row, shares, future, pub, buried, tomb>>
historyVars == <<sent, granted>>
vars == <<row, shares, future, pub, buried, tomb, op, tip, inFlight,
          minted, events, sent, granted>>

-----------------------------------------------------------------------------
(* Data *)

\* A conversation id is the session the capture named, behind one
\* `remote:<fingerprint>:` prefix for each destination it was pulled through.
Via == Seq(Destinations)
Conversation == [via : Via, session : Sessions]
Row == [stored : BOOLEAN, via : Via, parent : Thoughts \cup {NoThought}]
NoRow == [stored |-> FALSE, via |-> <<>>, parent |-> NoThought]

PublicationState == {"none", "pending", "published", "unknown"}
Uncertain == {"pending", "unknown"}
Tombstone == [state : {"none", "pending", "published"}, stamp : Nat]
NoTombstone == [state |-> "none", stamp |-> 0]

\* What refs/cvc/main resolves to.  A commit is its tree: a push that would
\* repeat the tree is not sent and no thought ever comes back from under its
\* tombstone, so along a destination's line of commits no tree occurs twice.
WireNode == [id : Thoughts, via : Via, parent : Thoughts \cup {NoThought}]
WireTombstone == [id : Thoughts, stamp : Nat]
Commit == [nodes : SUBSET WireNode, tombs : SUBSET WireTombstone]
Absent == [nodes |-> {}, tombs |-> {}]

NodeIds(commit) == {n.id : n \in commit.nodes}
TombIds(commit) == {x.id : x \in commit.tombs}
Held(commit) == NodeIds(commit) \cup TombIds(commit)

\* The progress of one locked operation, in the order a push goes through it.
Phase == {"idle", "reconcile", "clear", "pull", "project", "confirm", "send",
          "accepted", "tombstones", "refused", "failed", "redact"}
Operation == [phase : Phase, publish : BOOLEAN, uncertain : SUBSET Thoughts,
              tracking : Commit, base : Commit, candidate : Commit,
              new : SUBSET Thoughts]
Message == [clone : Clones, base : Commit, candidate : Commit,
            new : SUBSET Thoughts]
Idle == [phase |-> "idle", publish |-> FALSE, uncertain |-> {},
         tracking |-> Absent, base |-> Absent, candidate |-> Absent, new |-> {}]

Rows(c) == {t \in Thoughts : row[c][t].stored}
ConversationOf(c, t) == [via |-> row[c][t].via, session |-> SessionOf[t]]
MembersOf(c, k) == {t \in Rows(c) : ConversationOf(c, t) = k}
Tombstoned(c, d) == {t \in Thoughts : tomb[c][d][t].state # "none"}
InheritsFutureSharing(source) == source # "mcp"

SetOp(c, d, new) == op' = [op EXCEPT ![c][d] = new]
EndOp(c, d) == SetOp(c, d, Idle)
Step(c, d, phase) == SetOp(c, d, [op[c][d] EXCEPT !.phase = phase])
Event == events < MaxEvents /\ events' = events + 1

Init ==
    /\ row = [c \in Clones |-> [t \in Thoughts |-> NoRow]]
    /\ shares = [c \in Clones |-> [d \in Destinations |-> {}]]
    /\ future = [c \in Clones |-> [d \in Destinations |-> {}]]
    /\ pub = [c \in Clones |-> [d \in Destinations |-> [t \in Thoughts |-> "none"]]]
    /\ buried = [c \in Clones |-> {}]
    /\ tomb = [c \in Clones |-> [d \in Destinations |->
                                    [t \in Thoughts |-> NoTombstone]]]
    /\ op = [c \in Clones |-> [d \in Destinations |-> Idle]]
    /\ tip = [d \in Destinations |-> Absent]
    /\ inFlight = [d \in Destinations |-> {}]
    /\ minted = {}
    /\ events = 0
    /\ sent = [c \in Clones |-> [d \in Destinations |-> {}]]
    /\ granted = [c \in Clones |-> [d \in Destinations |-> {}]]

-----------------------------------------------------------------------------
(* Capture *)

\* The interactions row of a thought captured here, and the shares it inherits
\* from its conversation's future sharing.
Insert(c, t, parent, rows) ==
    /\ row' = [row EXCEPT ![c] =
                [rows EXCEPT ![t] = [stored |-> TRUE, via |-> <<>>, parent |-> parent]]]
    /\ shares' = [shares EXCEPT ![c] = [d \in Destinations |->
                    IF /\ InheritsFutureSharing(SourceOf[t])
                       /\ [via |-> <<>>, session |-> SessionOf[t]] \in future[c][d]
                    THEN shares[c][d] \cup {t}
                    ELSE shares[c][d]]]
    /\ minted' = minted \cup {t}
    /\ UNCHANGED <<future, pub, buried, tomb, op, tip, inFlight, events, historyVars>>

\* commit_thought ("mcp"), `cvc run` and an editor's explicit capture ("cli"): a
\* random id, refused by the foreign key when its parent is not stored.
Capture(c, t) ==
    /\ AuthorOf[t] = c /\ SourceOf[t] \in {"mcp", "cli"} /\ t \notin minted
    /\ t \notin buried[c]
    /\ ParentOf[t] \in Rows(c) \cup {NoThought}
    /\ Insert(c, t, ParentOf[t], row[c])

\* The passive watcher processed a chat request again: the thoughts of that
\* request make way, with their rows and nothing else, for a new one.
PassiveCapture(c, t) ==
    LET replaced == {u \in Rows(c) : RequestOf[u] = RequestOf[t]}
    IN  /\ AuthorOf[t] = c /\ SourceOf[t] = "passive" /\ t \notin minted
        /\ t \notin buried[c]
        /\ \A u \in Rows(c) \ replaced : row[c][u].parent \notin replaced
        /\ Insert(c, t, NoThought,
                  [u \in Thoughts |-> IF u \in replaced THEN NoRow ELSE row[c][u]])

\* A transcript is ingested, from its cursor or from its start: the id is
\* computed from the response, and a thought stored or deleted here is skipped.
HarnessCapture(c, t) ==
    /\ AuthorOf[t] = c /\ SourceOf[t] = "harness"
    /\ t \notin Rows(c) /\ t \notin buried[c]
    /\ Insert(c, t, IF ParentOf[t] \in Rows(c) THEN ParentOf[t] ELSE NoThought, row[c])

-----------------------------------------------------------------------------
(* Deletion and import *)

\* What a tombstone of any scope does to the store: the thought goes, with its
\* shares and publications for every destination, and its children are detached.
Detached(r, gone) == IF r.parent \in gone THEN [r EXCEPT !.parent = NoThought] ELSE r
RowsWithout(c, gone) ==
    [t \in Thoughts |-> IF t \in gone THEN NoRow ELSE Detached(row[c][t], gone)]
SharesWithout(c, gone) == [d \in Destinations |-> shares[c][d] \ gone]
PubWithout(c, gone) ==
    [d \in Destinations |-> [t \in Thoughts |->
        IF t \in gone THEN "none" ELSE pub[c][d][t]]]

\* cvc delete-local, of an id its user has seen: no destination is involved and
\* no lock is taken.
DeleteLocal(c, t) ==
    /\ t \in minted \ buried[c] /\ Event
    /\ buried' = [buried EXCEPT ![c] = @ \cup {t}]
    /\ row' = [row EXCEPT ![c] = RowsWithout(c, {t})]
    /\ shares' = [shares EXCEPT ![c] = SharesWithout(c, {t})]
    /\ pub' = [pub EXCEPT ![c] = PubWithout(c, {t})]
    /\ UNCHANGED <<future, tomb, op, tip, inFlight, minted, historyVars>>

\* The nodes an import inserts: those not suppressed by the commit itself, not
\* stored, and not suppressed here for this source.
ArrivalsDespiteRedaction(c, d, commit) ==
    {n \in commit.nodes : n.id \notin TombIds(commit) \cup Rows(c) \cup buried[c]}
ArrivalsDespiteDeletion(c, d, commit) ==
    {n \in commit.nodes : n.id \notin TombIds(commit) \cup Rows(c) \cup Tombstoned(c, d)}
Arrivals(c, d, commit) ==
    {n \in commit.nodes : n.id \notin TombIds(commit) \cup Rows(c) \cup buried[c]
                                        \cup Tombstoned(c, d)}
ArrivalParent(n, commit) == IF n.parent \in TombIds(commit) THEN NoThought ELSE n.parent

\* The foreign key on parent_id: a parent is stored, or arrives with its child.
ParentsPresent(c, d, commit) ==
    \A n \in Arrivals(c, d, commit) :
        ArrivalParent(n, commit) \in
            {NoThought} \cup (Rows(c) \ TombIds(commit))
                        \cup {m.id : m \in Arrivals(c, d, commit)}

ArrivalOf(c, d, commit, t) == CHOOSE n \in Arrivals(c, d, commit) : n.id = t
WireStamp(commit, t) == (CHOOSE x \in commit.tombs : x.id = t).stamp

ImportedRows(c, d, commit) ==
    [t \in Thoughts |->
        IF \E n \in Arrivals(c, d, commit) : n.id = t
        THEN LET n == ArrivalOf(c, d, commit, t)
             IN  [stored |-> TRUE, via |-> <<d>> \o n.via,
                  parent |-> ArrivalParent(n, commit)]
        ELSE RowsWithout(c, TombIds(commit))[t]]

\* A row inserted by an import inherits the future sharing of its conversation,
\* under the name that conversation has here.
ImportedShares(c, d, commit) ==
    [e \in Destinations |->
        SharesWithout(c, TombIds(commit))[e] \cup
        {n.id : n \in {m \in Arrivals(c, d, commit) :
            [via |-> <<d>> \o m.via, session |-> SessionOf[m.id]] \in future[c][e]}}]

\* A tombstone on the wire is recorded, or proves the one recorded here.
ImportedTombs(c, d, commit) ==
    [t \in Thoughts |->
        IF t \notin TombIds(commit) THEN tomb[c][d][t]
        ELSE IF tomb[c][d][t].state = "none"
        THEN [state |-> "published", stamp |-> WireStamp(commit, t)]
        ELSE [tomb[c][d][t] EXCEPT !.state = "published"]]

\* All that the commit holds is recorded as published, inserted or not.
ImportedPub(c, d, commit) ==
    [PubWithout(c, TombIds(commit)) EXCEPT ![d] =
        [t \in Thoughts |-> IF t \in NodeIds(commit) \ TombIds(commit)
                            THEN "published" ELSE @[t]]]

\* One transaction.
Import(c, d, commit) ==
    /\ ParentsPresent(c, d, commit)
    /\ row' = [row EXCEPT ![c] = ImportedRows(c, d, commit)]
    /\ shares' = [shares EXCEPT ![c] = ImportedShares(c, d, commit)]
    /\ pub' = [pub EXCEPT ![c] = ImportedPub(c, d, commit)]
    /\ tomb' = [tomb EXCEPT ![c][d] = ImportedTombs(c, d, commit)]
    /\ UNCHANGED <<future, buried, tip, inFlight, minted, events, historyVars>>

\* cvc pull: lock, fetch, import, unlock.
Pull(c, d) ==
    /\ op[c][d] = Idle
    /\ Import(c, d, tip[d])
    /\ UNCHANGED op

-----------------------------------------------------------------------------
(* Sharing *)

\* cvc share.  The conversation is read and its phrase and once typed
\* the share is recorded only if the conversation still holds exactly what the
\* phrase was shown for: an effect on the members it has then, or none.
Share(c, d, k, withFuture) ==
    /\ Event
    /\ shares' = [shares EXCEPT ![c][d] = @ \cup MembersOf(c, k)]
    /\ future' = [future EXCEPT ![c][d] = IF withFuture THEN @ \cup {k} ELSE @ \ {k}]
    /\ granted' = [granted EXCEPT ![c][d] = @ \cup {k}]
    /\ UNCHANGED <<row, pub, buried, tomb, op, tip, inFlight, minted, sent>>

\* Mutants of Unshare: it looks at `published` records only; it takes no lock.
UnshareUncertain(c, d, k) ==
    /\ op[c][d] = Idle /\ Event
    /\ \A t \in MembersOf(c, k) : pub[c][d][t] # "published"
    /\ shares' = [shares EXCEPT ![c][d] = @ \ MembersOf(c, k)]
    /\ future' = [future EXCEPT ![c][d] = @ \ {k}]
    /\ granted' = [granted EXCEPT ![c][d] = @ \ {k}]
    /\ UNCHANGED <<row, pub, buried, tomb, op, tip, inFlight, minted, sent>>
UnshareUnlocked(c, d, k) ==
    /\ Event
    /\ \A t \in MembersOf(c, k) : pub[c][d][t] = "none"
    /\ shares' = [shares EXCEPT ![c][d] = @ \ MembersOf(c, k)]
    /\ future' = [future EXCEPT ![c][d] = @ \ {k}]
    /\ granted' = [granted EXCEPT ![c][d] = @ \ {k}]
    /\ UNCHANGED <<row, pub, buried, tomb, op, tip, inFlight, minted, sent>>

\* cvc unshare, under the lock throughout: refused while a thought of the
\* conversation may be at the destination.
Unshare(c, d, k) ==
    /\ op[c][d] = Idle /\ Event
    /\ \A t \in MembersOf(c, k) : pub[c][d][t] = "none"
    /\ shares' = [shares EXCEPT ![c][d] = @ \ MembersOf(c, k)]
    /\ future' = [future EXCEPT ![c][d] = @ \ {k}]
    /\ granted' = [granted EXCEPT ![c][d] = @ \ {k}]
    /\ UNCHANGED <<row, pub, buried, tomb, op, tip, inFlight, minted, sent>>

-----------------------------------------------------------------------------
(* Push and reconcile *)

UncertainIds(c, d) == {t \in Thoughts : pub[c][d][t] \in Uncertain}

\* A mutant of Mark: sending is taken for having sent.
MarkEarly(c, d, ids, state) ==
    pub' = [pub EXCEPT ![c][d] = [t \in Thoughts |->
                IF t \in ids THEN "published" ELSE @[t]]]

\* The records of `ids` for d move to `state`; `published` is terminal.
Mark(c, d, ids, state) ==
    pub' = [pub EXCEPT ![c][d] = [t \in Thoughts |->
                IF t \in ids /\ @[t] # "published" THEN state ELSE @[t]]]
\* (Mutant) Only `pending` goes.
ClearPending(c, d, ids) ==
    pub' = [pub EXCEPT ![c][d] = [t \in Thoughts |->
                IF t \in ids /\ @[t] = "pending" THEN "none" ELSE @[t]]]
Clear(c, d, ids) ==
    pub' = [pub EXCEPT ![c][d] = [t \in Thoughts |->
                IF t \in ids /\ @[t] \in Uncertain THEN "none" ELSE @[t]]]
OnlyPub == UNCHANGED <<row, shares, future, buried, tomb, tip, inFlight, minted,
                       events, historyVars>>
OnlyOp == UNCHANGED <<storeVars, tip, inFlight, minted, events, historyVars>>

Begin(c, d, publish) ==
    /\ op[c][d] = Idle
    /\ SetOp(c, d, [Idle EXCEPT !.phase = "reconcile", !.publish = publish,
                                !.uncertain = UncertainIds(c, d)])
    /\ OnlyOp
PushBegin(c, d) == d \in Consented[c] /\ Begin(c, d, TRUE)
ReconcileBegin(c, d) == Begin(c, d, FALSE)

ReconcilePull(c, d) ==
    /\ op[c][d].phase = "reconcile"
    /\ Import(c, d, tip[d])
    /\ Step(c, d, "clear")

\* Whatever the import did not find at the destination is taken to be absent.
ClearUncertain(c, d) ==
    /\ op[c][d].phase = "clear"
    /\ Clear(c, d, op[c][d].uncertain)
    /\ IF op[c][d].publish
       THEN SetOp(c, d, [Idle EXCEPT !.phase = "pull"])
       ELSE EndOp(c, d)
    /\ OnlyPub

\* The second fetch: its commit is pinned, and the projection is built on it.
PushPull(c, d) ==
    /\ op[c][d].phase = "pull"
    /\ Import(c, d, tip[d])
    /\ SetOp(c, d, [Idle EXCEPT !.phase = "project", !.tracking = tip[d],
                                !.base = tip[d]])

\* The import failed on a parent that is nowhere: the command ends there.
ImportRefused(c, d) ==
    /\ op[c][d].phase \in {"reconcile", "pull"}
    /\ ~ParentsPresent(c, d, tip[d])
    /\ EndOp(c, d) /\ OnlyOp

\* The tracking ref is named by the remote's name, the lock by its fingerprint:
\* a plain `git fetch` moves the ref under a push in progress.  Before the pull
\* the push has not read it, and once projected the push no longer does.
TrackingMoves(c, d) ==
    /\ op[c][d].phase = "project" /\ op[c][d].tracking # tip[d]
    /\ SetOp(c, d, [op[c][d] EXCEPT !.tracking = tip[d]])
    /\ OnlyOp

\* The thoughts c may send to d, and the tree it would send: the base without
\* what c holds suppressed for d, with the thoughts the base lacks.
ProjectionIdsAnywhere(c, d) ==   \* a mutant: shared for some destination
    {t \in Rows(c) : /\ \E e \in Destinations : t \in shares[c][e]
                     /\ pub[c][d][t] # "unknown"}
ProjectionIds(c, d) ==
    {t \in Rows(c) : t \in shares[c][d] /\ pub[c][d][t] # "unknown"}
NewIds(c, d, base) == ProjectionIds(c, d) \ (Tombstoned(c, d) \cup NodeIds(base))
NodeOf(c, t) == [id |-> t, via |-> row[c][t].via, parent |-> row[c][t].parent]
\* Mutants of Candidate: what the base serves is left in place under its
\* tombstone; a redaction is not sent.
CandidateUnpruned(c, d, base) ==
    [nodes |-> base.nodes \cup {NodeOf(c, t) : t \in NewIds(c, d, base)},
     tombs |-> base.tombs \cup
                 {[id |-> t, stamp |-> tomb[c][d][t].stamp] :
                    t \in Tombstoned(c, d) \ TombIds(base)}]
CandidateOfThoughts(c, d, base) ==
    [nodes |-> {n \in base.nodes : n.id \notin Tombstoned(c, d)}
                 \cup {NodeOf(c, t) : t \in NewIds(c, d, base)},
     tombs |-> base.tombs]
Candidate(c, d, base) ==
    [nodes |-> {n \in base.nodes : n.id \notin Tombstoned(c, d)}
                 \cup {NodeOf(c, t) : t \in NewIds(c, d, base)},
     tombs |-> base.tombs \cup
                 {[id |-> t, stamp |-> tomb[c][d][t].stamp] :
                    t \in Tombstoned(c, d) \ TombIds(base)}]

\* The base's tombstone for a thought c suppressed too is another record.
TombstoneConflict(c, d, base) ==
    \E x \in base.tombs : /\ x.id \in Tombstoned(c, d)
                          /\ x.stamp # tomb[c][d][x.id].stamp

Project(c, d) ==
    LET o == op[c][d]
        candidate == Candidate(c, d, o.base)
    IN  /\ o.phase = "project" /\ o.tracking = o.base
        /\ ~TombstoneConflict(c, d, o.base)
        /\ candidate # o.base
        /\ SetOp(c, d, [o EXCEPT !.phase = "confirm", !.tracking = Absent,
                                 !.candidate = candidate, !.new = NewIds(c, d, o.base)])
        /\ OnlyOp

\* Nothing to publish, a base that moved, or a tombstone in conflict.
ProjectEnds(c, d) ==
    LET o == op[c][d]
    IN  /\ o.phase = "project"
        /\ \/ o.tracking # o.base
           \/ TombstoneConflict(c, d, o.base)
           \/ Candidate(c, d, o.base) = o.base
        /\ EndOp(c, d) /\ OnlyOp

\* The publish phrase was typed, or a standing grant covers it.
MarkPending(c, d) ==
    /\ op[c][d].phase = "confirm"
    /\ Mark(c, d, op[c][d].new, "pending")
    /\ Step(c, d, "send")
    /\ OnlyPub

-----------------------------------------------------------------------------
(* Transport *)

\* The destination takes a commit only on top of the commit it has.
Lands(c, d, base, candidate, new) ==
    /\ tip[d] = base
    /\ tip' = [tip EXCEPT ![d] = candidate]
    /\ sent' = [sent EXCEPT ![c][d] = @ \cup new]
Sending(c, d) ==
    /\ op[c][d].phase = "send"
    /\ UNCHANGED <<storeVars, minted, granted>>
OpLandsForced(c, d) ==   \* a mutant: a forced push
    /\ tip' = [tip EXCEPT ![d] = op[c][d].candidate]
    /\ sent' = [sent EXCEPT ![c][d] = @ \cup op[c][d].new]
OpLands(c, d) == Lands(c, d, op[c][d].base, op[c][d].candidate, op[c][d].new)
NothingLands == UNCHANGED <<tip, sent>>
AnsweredWell(c, d, phase) ==   \* a mutant: the ref update's status is not read
    SetOp(c, d, [Idle EXCEPT !.phase = "accepted", !.new = op[c][d].new])
Answered(c, d, phase) ==
    SetOp(c, d, [Idle EXCEPT !.phase = phase, !.new = op[c][d].new])

SendAccepted(c, d) ==
    /\ Sending(c, d) /\ OpLands(c, d)
    /\ Answered(c, d, "accepted")
    /\ UNCHANGED <<inFlight, events>>

\* The destination took the commit, and the answer was lost.
SendUnanswered(c, d) ==
    /\ Sending(c, d) /\ OpLands(c, d) /\ Event
    /\ Answered(c, d, "failed")
    /\ UNCHANGED inFlight

\* Another clone's commit came first.
SendRejected(c, d) ==
    /\ Sending(c, d) /\ NothingLands
    /\ tip[d] # op[c][d].base
    /\ Answered(c, d, "failed")
    /\ UNCHANGED <<inFlight, events>>

\* The request was lost or declined; one given up by the client may be on its way.
SendLost(c, d) ==
    /\ Sending(c, d) /\ NothingLands /\ Event
    /\ Answered(c, d, "failed")
    /\ inFlight' = [inFlight EXCEPT ![d] =
            IF LateArrival
            THEN @ \cup {[clone |-> c, base |-> op[c][d].base, new |-> op[c][d].new,
                          candidate |-> op[c][d].candidate]}
            ELSE @]

\* The remote no longer resolves to the consented URL: nothing was sent.
SendRefused(c, d) ==
    /\ Sending(c, d) /\ NothingLands /\ Event
    /\ Answered(c, d, "refused")
    /\ UNCHANGED inFlight

LateLanding(d, m) ==
    /\ m \in inFlight[d]
    /\ Lands(m.clone, d, m.base, m.candidate, m.new)
    /\ inFlight' = [inFlight EXCEPT ![d] = @ \ {m}]
    /\ UNCHANGED <<storeVars, op, minted, events, granted>>

-----------------------------------------------------------------------------
(* Settling a push *)

SettleAccepted(c, d) ==
    /\ op[c][d].phase = "accepted"
    /\ Mark(c, d, op[c][d].new, "published")
    /\ SetOp(c, d, [Idle EXCEPT !.phase = "tombstones"])
    /\ OnlyPub

SettleTombstones(c, d) ==
    /\ op[c][d].phase = "tombstones"
    /\ tomb' = [tomb EXCEPT ![c][d] = [t \in Thoughts |->
                    IF @[t].state = "pending"
                    THEN [@[t] EXCEPT !.state = "published"] ELSE @[t]]]
    /\ EndOp(c, d)
    /\ UNCHANGED <<row, shares, future, pub, buried, tip, inFlight, minted,
                   events, historyVars>>

SettleRefused(c, d) ==
    /\ op[c][d].phase = "refused"
    /\ Clear(c, d, op[c][d].new)
    /\ EndOp(c, d)
    /\ OnlyPub

SettleFailedAsAbsent(c, d) ==   \* a mutant: an error is taken for a refusal
    /\ op[c][d].phase = "failed"
    /\ Clear(c, d, op[c][d].new)
    /\ EndOp(c, d)
    /\ OnlyPub
SettleFailed(c, d) ==
    /\ op[c][d].phase = "failed"
    /\ Mark(c, d, op[c][d].new, "unknown")
    /\ EndOp(c, d)
    /\ OnlyPub

-----------------------------------------------------------------------------
(* Redaction *)

\* cvc redact fetches and imports first: without a baseline there is nothing
\* to redact.
RedactBegin(c, d) ==
    /\ op[c][d] = Idle
    /\ tip[d] # Absent
    /\ Import(c, d, tip[d])
    /\ Step(c, d, "redact")

\* The redact phrase was typed.  A thought shared for d, or that d may hold, is
\* suppressed at once here, and at d by the next push.
RedactTyped(c, d, t, now) ==
    /\ op[c][d].phase = "redact" /\ Event
    /\ tomb[c][d][t].state = "none"
    /\ t \in Rows(c) /\ (t \in shares[c][d] \/ pub[c][d][t] # "none")
    /\ tomb' = [tomb EXCEPT ![c][d][t] = [state |-> "pending", stamp |-> now]]
    /\ row' = [row EXCEPT ![c] = RowsWithout(c, {t})]
    /\ shares' = [shares EXCEPT ![c] = SharesWithout(c, {t})]
    /\ pub' = [pub EXCEPT ![c] = PubWithout(c, {t})]
    /\ EndOp(c, d)
    /\ UNCHANGED <<future, buried, tip, inFlight, minted, historyVars>>

\* The phrase of a publication or a redaction was not typed.
Decline(c, d) ==
    /\ op[c][d].phase \in {"confirm", "redact"}
    /\ EndOp(c, d) /\ OnlyOp

\* The process died, or a fetch failed: the lock is free and the store is as the
\* last transaction left it.
Abort(c, d) ==
    /\ op[c][d] # Idle /\ Event
    /\ EndOp(c, d)
    /\ UNCHANGED <<storeVars, tip, inFlight, minted, historyVars>>

-----------------------------------------------------------------------------
KnownConversations(c) == {ConversationOf(c, t) : t \in Rows(c)}

Unlocked(c) ==
    \/ \E t \in Thoughts : \/ Capture(c, t)
                           \/ PassiveCapture(c, t)
                           \/ HarnessCapture(c, t)
                           \/ DeleteLocal(c, t)
    \/ \E d \in Destinations, k \in KnownConversations(c), withFuture \in BOOLEAN :
            Share(c, d, k, withFuture)

Push(c, d) ==
    \/ PushBegin(c, d) \/ ReconcileBegin(c, d) \/ ReconcilePull(c, d)
    \/ ClearUncertain(c, d) \/ PushPull(c, d) \/ ImportRefused(c, d)
    \/ TrackingMoves(c, d) \/ Project(c, d) \/ ProjectEnds(c, d) \/ MarkPending(c, d)

Transport(c, d) ==
    \/ SendAccepted(c, d) \/ SendUnanswered(c, d) \/ SendRejected(c, d)
    \/ SendLost(c, d) \/ SendRefused(c, d)

Settle(c, d) ==
    \/ SettleAccepted(c, d) \/ SettleTombstones(c, d)
    \/ SettleRefused(c, d) \/ SettleFailed(c, d)

Locked(c, d) ==
    \/ Pull(c, d) \/ Push(c, d) \/ Transport(c, d) \/ Settle(c, d)
    \/ \E k \in KnownConversations(c) : Unshare(c, d, k)
    \/ RedactBegin(c, d)
    \/ \E t \in Thoughts, now \in Clock : RedactTyped(c, d, t, now)
    \/ Decline(c, d) \/ Abort(c, d)

Next ==
    \/ \E c \in Clones : Unlocked(c)
    \/ \E c \in Clones, d \in Destinations : Locked(c, d)
    \/ \E d \in Destinations : \E m \in inFlight[d] : LateLanding(d, m)

Spec == Init /\ [][Next]_vars

\* The steps of an operation that holds a lock are taken by a running process;
\* publication is tried again, by the pre-push hook or by hand, the lock is
\* granted to it among the other commands, and a user asked for the phrase over
\* and over types it some time (under auto-push nobody is asked).
FairSpec ==
    /\ Spec
    /\ \A c \in Clones, d \in Destinations :
        /\ SF_vars(PushBegin(c, d))
        /\ WF_vars(ReconcilePull(c, d) \/ ImportRefused(c, d))
        /\ WF_vars(ClearUncertain(c, d))
        /\ WF_vars(PushPull(c, d))
        /\ WF_vars(Project(c, d) \/ ProjectEnds(c, d))
        /\ SF_vars(MarkPending(c, d))
        /\ WF_vars(Decline(c, d))
        /\ WF_vars(SendAccepted(c, d) \/ SendRejected(c, d))
        /\ WF_vars(Settle(c, d))

-----------------------------------------------------------------------------
(* Properties *)

\* Types: one record for each row, tombstone and operation, and a conversation
\* is named by where it came from.
TypeOK ==
    /\ row \in [Clones -> [Thoughts -> Row]]
    /\ shares \in [Clones -> [Destinations -> SUBSET Thoughts]]
    /\ future \in [Clones -> [Destinations -> SUBSET Conversation]]
    /\ pub \in [Clones -> [Destinations -> [Thoughts -> PublicationState]]]
    /\ buried \in [Clones -> SUBSET Thoughts]
    /\ tomb \in [Clones -> [Destinations -> [Thoughts -> Tombstone]]]
    /\ op \in [Clones -> [Destinations -> Operation]]
    /\ tip \in [Destinations -> Commit]
    /\ inFlight \in [Destinations -> SUBSET Message]
    /\ minted \subseteq Thoughts
    /\ events \in 0..MaxEvents
    /\ sent \in [Clones -> [Destinations -> SUBSET Thoughts]]
    /\ granted \in [Clones -> [Destinations -> SUBSET Conversation]]

\* A record `published` is proof: the destination holds the thought, or the
\* tombstone that replaced it.  `unshare` and `redact` decide on these records
\* (mark_publication, import_sync_batch, settle_push).
PublishedIsHeld ==
    \A c \in Clones, d \in Destinations, t \in Thoughts :
        pub[c][d][t] = "published" => t \in Held(tip[d])

\* A redaction recorded as published reached its destination, whatever was
\* rejected, lost or crashed on the way (mark_remote_tombstones_published).
RedactionProven ==
    \A c \in Clones, d \in Destinations, t \in Thoughts :
        tomb[c][d][t].state = "published" => t \in TombIds(tip[d])

\* No tree serves a thought next to its tombstone, though clones that have not
\* heard of the redaction go on pushing (push_ids_to_ref, topo of import).
TombstonedNotServed ==
    \A d \in Destinations : NodeIds(tip[d]) \cap TombIds(tip[d]) = {}

\* A commit built on another keeps what that one holds, adds to its tombstones,
\* and holds the thoughts it was built for.
BuiltOn(base, candidate, new) ==
    /\ Held(base) \subseteq Held(candidate)
    /\ TombIds(base) \subseteq TombIds(candidate)
    /\ NodeIds(candidate) \cap TombIds(candidate) = {}
    /\ new \subseteq NodeIds(candidate)

\* Each step of a push may rely on what the steps before it established, though
\* the store and the destination went on changing: the projection knows every
\* tombstone of the tree it builds on, the candidate carries every redaction
\* recorded here, and what is settled as published is at the destination; a push
\* its sender gave up is still one that loses nothing (push_destination).
OperationSound(c, d) ==
    LET o == op[c][d]
    IN  /\ o.phase = "project" => TombIds(o.base) \subseteq Tombstoned(c, d)
        /\ o.phase \in {"confirm", "send"} =>
                /\ BuiltOn(o.base, o.candidate, o.new)
                /\ Tombstoned(c, d) \subseteq TombIds(o.candidate)
        /\ o.phase = "accepted" => o.new \subseteq Held(tip[d])
        /\ o.phase \in {"accepted", "tombstones"} =>
                Tombstoned(c, d) \subseteq TombIds(tip[d])
InProgressSound ==
    /\ \A c \in Clones, d \in Destinations : OperationSound(c, d)
    /\ \A d \in Destinations : \A m \in inFlight[d] :
            BuiltOn(m.base, m.candidate, m.new)

\* A thought redacted for d does not come back from d, not even from the tree d
\* still serves while the redaction is pending (is_tombstoned_for_source_tx).
SuppressedForSource ==
    \A c \in Clones, d \in Destinations :
        \A t \in Rows(c) \cap Tombstoned(c, d) :
            row[c][t].via = <<>> \/ Head(row[c][t].via) # d

\* A thought deleted on this clone comes back neither by pull nor by ingestion,
\* and is nowhere shared (is_tombstoned_tx, apply_tombstones_tx).
DeletedStaysDeleted ==
    \A c \in Clones : \A t \in buried[c] :
        t \notin Rows(c) /\ \A d \in Destinations : t \notin shares[c][d]

\* The thoughts of c's own conversations its pushes put at d, where d still
\* serves them and c did not redact them for d.
OwnServed(c, d) ==
    {t \in (sent[c][d] \cap NodeIds(tip[d]) \cap Rows(c)) \ Tombstoned(c, d) :
        row[c][t].via = <<>>}

\* The fact unshare and redact rest on: a clone never forgets that a thought of
\* its own may be at the destination, across crashes, lost answers, rejected and
\* refused pushes and the reconciliations that follow (reconcile_destination).
ServedIsRecorded ==
    \A c \in Clones, d \in Destinations :
        \A t \in OwnServed(c, d) : pub[c][d][t] # "none"

\* What unshare promises: a thought the user took back is not at the
\* destination (unshare_conversation_for_remote).
UnsharedIsAbsent ==
    \A c \in Clones, d \in Destinations : OwnServed(c, d) \subseteq shares[c][d]

\* What a push is about to send belongs to conversations shared for that
\* destination and not unshared since, under the name it is sent with; pulling a
\* thought from one destination grants nothing for another (projection_interaction_ids).
ProjectedIsGranted ==
    \A c \in Clones, d \in Destinations :
        op[c][d].phase \in {"confirm", "send"} =>
            \A n \in op[c][d].candidate.nodes : n.id \in op[c][d].new =>
                [via |-> n.via, session |-> SessionOf[n.id]] \in granted[c][d]

\* An unshare is refused while the destination serves a thought of the
\* conversation that this clone published to it (unshare_conversation_for_remote).
UnshareRefusesPublished ==
    [][\A c \in Clones, d \in Destinations : \A k \in KnownConversations(c) :
            Unshare(c, d, k) => MembersOf(c, k) \cap OwnServed(c, d) = {}]_vars

\* Two clones may redact one thought: the record each keeps of it is the one the
\* destination has, or a push could not go on from it (apply_tombstones: matching
\* records are idempotent; push_ids_to_ref refuses another record).
RedactionsUnite ==
    \A c \in Clones, d \in Destinations :
        op[c][d].phase = "project" => ~TombstoneConflict(c, d, op[c][d].base)

\* The destinations behave as the append-only log they are documented to be: no
\* push undoes what another clone published, and no tombstone is ever lifted
\* (push_ids_to_ref, push_temp_ref).
Log == INSTANCE ThoughtLog WITH
    served <- [d \in Destinations |-> NodeIds(tip[d])],
    suppressed <- [d \in Destinations |-> TombIds(tip[d])]
AppendOnly == Log!Spec

\* A thought may be pulled whatever was deleted here: a child survives its parent.
PullPossible ==
    \A c \in Clones, d \in Destinations : ParentsPresent(c, d, tip[d])

\* What an interrupted or failed push left uncertain is settled, by the
\* reconciliation every later push begins with.
UncertainSettles ==
    \A c \in Clones, d \in Destinations, t \in Thoughts :
        (pub[c][d][t] \in Uncertain) ~> (pub[c][d][t] \notin Uncertain)

\* A redaction reaches its destination, past the pushes of other clones.
RedactionDelivered ==
    \A c \in Clones, d \in Destinations, t \in Thoughts :
        (tomb[c][d][t].state = "pending") ~> (t \in TombIds(tip[d]))
=============================================================================
