----------------------------- MODULE SquashScan -----------------------------
(***************************************************************************)
(* How a branch's squash commits are found and relinked to the thoughts of *)
(* the range they squash (cvc-core/src/squash.rs, scan_with_abort; db.rs,  *)
(* discover_squash_targets, mark_squash_attempt, apply_squash_plan).       *)
(*                                                                         *)
(* A scan, run by the post-commit and post-merge hooks and by a pull,      *)
(* reads HEAD and the branch's cursor, walks the first parents from one to *)
(* the other, and in one transaction puts the commits on the way into the  *)
(* queue and moves the cursor to HEAD, if the cursor is still what it      *)
(* read.  Then it attempts the targets that were least recently attempted. *)
(* A target whose changeset equals that of exactly one trusted range is    *)
(* relinked by a plan which the transaction compares with the store, the   *)
(* cursor and HEAD.  The first error ends the scan.                        *)
(*                                                                         *)
(* The model is one branch of one worktree, whose scans may overlap, and   *)
(* the evidence the store has for each commit: what a changeset and a      *)
(* source snapshot contain is abstracted to whether they match.            *)
(***************************************************************************)
EXTENDS Naturals, Sequences, FiniteSets, FiniteSetsExt, SequencesExt

CONSTANTS
    Scans,        \* scanning processes
    Commits,      \* commit ids
    NoCommit,     \* no commit: a cursor not set, a root's parent, another branch
    FirstParent,  \* FirstParent[c]: the first parent of c
    Merges,       \* the commits that have not exactly one parent, roots aside
    Tips,         \* commits the branch is at, at first
    Squashed,     \* commits that repeat a range observed before the first scan
    MaxScan,      \* MAX_SCAN_COMMITS
    MaxPending,   \* MAX_PENDING_SQUASH_TARGETS
    MaxResolved,  \* MAX_RESOLVED_SQUASH_TARGETS
    BatchSize,    \* the LIMIT of pending_squash_targets
    HeadMoves,    \* bound: the moves of HEAD, pairs <<from, to>>
    MaxMoves,     \* bound: how often HEAD moves
    MaxFaults     \* bound: deadlines, kills and changes of evidence

ASSUME ConstantsOK ==
    /\ NoCommit \notin Commits
    /\ FirstParent \in [Commits -> Commits \cup {NoCommit}]
    /\ Merges \subseteq Commits
    /\ Tips \subseteq Commits /\ Squashed \subseteq Commits
    /\ HeadMoves \subseteq (Commits \cup {NoCommit}) \X (Commits \cup {NoCommit})
    /\ {MaxScan, MaxPending, MaxResolved, BatchSize, MaxMoves, MaxFaults} \subseteq Nat

VARIABLES
    head,      \* the commit HEAD names, NoCommit when on another branch
    evidence,  \* evidence[c]: the trusted ranges with the changeset of c
    cursor,    \* branch_scan_cursors: the tip of the last scan
    rows,      \* pending_squash_targets: of a target its status and discovered_order
    tried,     \* the pending targets attempted, in the order of last_attempt_seq
    relinked,  \* the targets that have their squash_exact events
    scan,      \* scan[s]: where scan s stands
    moves,     \* how often HEAD moved
    faults,    \* how many faults there were
    seen,      \* history: the commits that were ever entered in the queue
    anchor     \* history: where the cursor's continuous walk began

queue == <<cursor, rows, tried>>
history == <<seen, anchor>>
bounds == <<moves, faults>>
vars == <<head, evidence, queue, relinked, scan, bounds, history>>
-----------------------------------------------------------------------------
(* First parents                                                           *)

Supported(c) == FirstParent[c] # NoCommit /\ c \notin Merges

\* The walks along first parents, the oldest commit first, and from which commit
\* to which there is one.
Walks ==
    {w \in UNION {[1 .. n -> Commits] : n \in 1 .. MaxScan} :
        \A i \in 2 .. Len(w) : FirstParent[w[i]] = w[i - 1]}
Connected == {<<FirstParent[w[1]], w[Len(w)]>> : w \in Walks}
WalkOf ==
    [p \in Connected |-> CHOOSE w \in Walks : <<FirstParent[w[1]], w[Len(w)]>> = p]

Continuous(old, tip) == <<old, tip>> \in Connected
Walk(old, tip) == WalkOf[<<old, tip>>]

\* What a scan finds between the cursor and HEAD.  A branch without a cursor
\* starts at HEAD; where the walk does not reach the cursor it starts again.
Discovered(old, tip, immediate) ==
    IF old = NoCommit THEN (IF immediate THEN <<tip>> ELSE <<>>)
    ELSE IF old = tip THEN <<>>
    ELSE IF Continuous(old, tip) THEN Walk(old, tip)
    ELSE IF Supported(tip) THEN <<tip>> ELSE <<>>
-----------------------------------------------------------------------------
(* The queue                                                               *)

Status == {"pending", "unsupported", "matched"}
Row == [status : Status, order : Nat]
IsPending(r) == r.status = "pending"
Known == DOMAIN rows
Pending == {c \in Known : IsPending(rows[c])}

NewStatus(c) == IF Supported(c) THEN "pending" ELSE "unsupported"
NewCount(found) == Cardinality(Range(found) \ Known)

\* What is there already keeps its row.
LastOrder == Max({0} \cup {rows[c].order : c \in Known})
WithRows(found) ==
    [c \in Known \cup Range(found) |->
        IF c \in Known THEN rows[c]
        ELSE [status |-> NewStatus(c),
              order |-> LastOrder + (CHOOSE i \in DOMAIN found : found[i] = c)]]

\* (Mutant) The oldest rows go, whatever their status.
TrimmedByAge(rs) ==
    LET later(c) == {x \in DOMAIN rs : rs[x].order > rs[c].order}
    IN  Restrict(rs, {c \in DOMAIN rs : Cardinality(later(c)) < MaxResolved})

\* Of the rows no longer pending only the latest discovered are kept.
Trimmed(rs) ==
    LET resolved == {c \in DOMAIN rs : ~IsPending(rs[c])}
        later(c) == {x \in resolved : rs[x].order > rs[c].order}
    IN  Restrict(rs, {c \in DOMAIN rs : c \in resolved => Cardinality(later(c)) < MaxResolved})

ByDiscovery(cs) == SetToSortSeq(cs, LAMBDA x, y : rows[x].order < rows[y].order)

\* (Mutant) Always in the order of discovery.
DiscoveryOrder == ByDiscovery(Pending)

\* Never attempted first, in the order of discovery; then the least recently
\* attempted.
AttemptOrder == ByDiscovery(Pending \ Range(tried)) \o tried
Batch == SubSeq(AttemptOrder, 1, IF Len(AttemptOrder) < BatchSize
                                 THEN Len(AttemptOrder) ELSE BatchSize)
Without(s, c) == SelectSeq(s, LAMBDA x : x # c)
-----------------------------------------------------------------------------
(* Scans                                                                   *)

Evidence == {"none", "exact", "ambiguous", "stale"}
Stage == {"idle", "cursor", "discover", "list", "attempt", "apply"}
IdleScan == [at |-> "idle", tip |-> NoCommit, old |-> NoCommit, immediate |-> FALSE,
             todo |-> <<>>]

At(s, stage) == scan[s].at = stage
Goto(s, stage) == scan' = [scan EXCEPT ![s].at = stage]
Exit(s) == scan' = [scan EXCEPT ![s] = IdleScan]
Current(s) == Head(scan[s].todo)
Fault == faults < MaxFaults /\ faults' = faults + 1

Init ==
    /\ head \in Tips
    /\ evidence = [c \in Commits |-> IF c \in Squashed THEN "exact" ELSE "none"]
    /\ cursor = NoCommit
    /\ rows = [c \in {} |-> 0]
    /\ tried = <<>>
    /\ relinked = {}
    /\ scan = [s \in Scans |-> IdleScan]
    /\ moves = 0
    /\ faults = 0
    /\ seen = {}
    /\ anchor = NoCommit

\* HEAD moves: a commit, a merge, a reset, another branch and back.
Move(c) ==
    /\ moves < MaxMoves
    /\ <<head, c>> \in HeadMoves
    /\ head' = c
    /\ moves' = moves + 1
    /\ UNCHANGED <<evidence, queue, relinked, scan, faults, history>>

\* A range is observed, a second one with another claim makes it ambiguous,
\* a share or a deletion changes a source it was observed with.
Observe(c, found) ==
    /\ Fault
    /\ \/ evidence[c] = "none" /\ found = "exact"
       \/ evidence[c] = "exact" /\ found \in {"ambiguous", "stale"}
    /\ evidence' = [evidence EXCEPT ![c] = found]
    /\ UNCHANGED <<head, queue, relinked, scan, moves, history>>

\* branch_key and HEAD.  The post-commit hook may enter a branch's HEAD at once,
\* which makes a difference only while the branch has no cursor.
Begin(s, immediate) ==
    /\ At(s, "idle")
    /\ head # NoCommit
    /\ immediate => cursor = NoCommit
    /\ scan' = [scan EXCEPT ![s] = [IdleScan EXCEPT !.at = "cursor", !.tip = head,
                                                    !.immediate = immediate]]
    /\ UNCHANGED <<head, evidence, queue, relinked, bounds, history>>

ReadCursor(s) ==
    /\ At(s, "cursor")
    /\ scan' = [scan EXCEPT ![s].at = "discover", ![s].old = cursor]
    /\ UNCHANGED <<head, evidence, queue, relinked, bounds, history>>

\* What discovery leaves for the rest of the scan.
Proceed(s) ==
    scan' = [scan EXCEPT ![s] = [IdleScan EXCEPT !.at = "list", !.tip = scan[s].tip]]

\* discover_squash_targets.  A full queue is refused whole: the cursor stays,
\* and the scan goes on to the targets that wait already.
Found(s) == Discovered(scan[s].old, scan[s].tip, scan[s].immediate)

Overfull(found) == Cardinality(Pending) + NewCount(found) > MaxPending
Reset(s) == cursor = NoCommit \/ (cursor # scan[s].tip /\ ~Continuous(cursor, scan[s].tip))

\* (Mutant) The cursor is written whatever it is by now.
CursorIgnored(s) == TRUE
CursorUnchanged(s) == cursor = scan[s].old

Discover(s) ==
    /\ At(s, "discover")
    /\ \/ /\ ~CursorUnchanged(s)
          /\ Exit(s)
          /\ UNCHANGED <<queue, history>>
       \/ /\ CursorUnchanged(s) /\ Overfull(Found(s))
          /\ Proceed(s)
          /\ UNCHANGED <<queue, history>>
       \/ /\ CursorUnchanged(s) /\ ~Overfull(Found(s))
          /\ rows' = Trimmed(WithRows(Found(s)))
          /\ cursor' = scan[s].tip
          /\ seen' = seen \cup Range(Found(s))
          /\ anchor' = IF Reset(s) THEN scan[s].tip ELSE anchor
          /\ Proceed(s)
          /\ UNCHANGED tried
    /\ UNCHANGED <<head, evidence, relinked, bounds>>

List(s) ==
    /\ At(s, "list")
    /\ scan' = [scan EXCEPT ![s].at = "attempt", ![s].todo = Batch]
    /\ UNCHANGED <<head, evidence, queue, relinked, bounds, history>>

\* mark_squash_attempt, which does nothing for a target no longer pending,
\* then the choice of a range.  Without one the target stays pending.
Attempt(s) ==
    /\ At(s, "attempt")
    /\ IF scan[s].todo = <<>> THEN Exit(s) /\ UNCHANGED tried
       ELSE LET c == Current(s) IN
            /\ tried' = IF c \in Pending THEN Append(Without(tried, c), c) ELSE tried
            /\ IF evidence[c] \in {"exact", "stale"} THEN Goto(s, "apply")
               ELSE scan' = [scan EXCEPT ![s].todo = Tail(@)]
    /\ UNCHANGED <<head, evidence, cursor, rows, relinked, bounds, history>>

\* apply_squash_plan: the cursor and HEAD must be where this scan began, the
\* sources as they were observed, and the target still pending.
Admitted(s) ==
    /\ cursor = scan[s].tip
    /\ head = scan[s].tip
    /\ evidence[Current(s)] \in {"exact", "ambiguous"}
    /\ Current(s) \in Pending
Matched(c) == Trimmed([rows EXCEPT ![c].status = "matched"])

Apply(s) ==
    /\ At(s, "apply")
    /\ \/ /\ Admitted(s)
          /\ relinked' = relinked \cup {Current(s)}
          /\ rows' = Matched(Current(s))
          /\ tried' = Without(tried, Current(s))
          /\ scan' = [scan EXCEPT ![s].at = "attempt", ![s].todo = Tail(@)]
       \/ ~Admitted(s) /\ Exit(s) /\ UNCHANGED <<relinked, rows, tried>>
    /\ UNCHANGED <<head, evidence, cursor, bounds, history>>

\* The deadline passes, or the process is killed.
Abandon(s) ==
    /\ Fault
    /\ ~At(s, "idle")
    /\ Exit(s)
    /\ UNCHANGED <<head, evidence, queue, relinked, moves, history>>
-----------------------------------------------------------------------------
Steps(s) == ReadCursor(s) \/ Discover(s) \/ List(s) \/ Attempt(s) \/ Apply(s)

Next ==
    \/ \E s \in Scans : Steps(s) \/ Abandon(s)
    \/ \E s \in Scans, immediate \in BOOLEAN : Begin(s, immediate)
    \/ \E c \in Commits \cup {NoCommit} : Move(c)
    \/ \E c \in Commits, found \in Evidence : Observe(c, found)

Spec == Init /\ [][Next]_vars

\* A scan that runs is scheduled; whether one is started is Git's and the
\* user's doing.
FairSpec == Spec /\ \A s \in Scans : WF_vars(Steps(s))
-----------------------------------------------------------------------------
(* What must hold                                                          *)

\* Every variable stays within its type.
TypeOK ==
    /\ head \in Commits \cup {NoCommit}
    /\ evidence \in [Commits -> Evidence]
    /\ cursor \in Commits \cup {NoCommit}
    /\ Known \subseteq Commits /\ rows \in [Known -> Row]
    /\ tried \in Seq(Commits)
    /\ relinked \subseteq Commits
    /\ scan \in [Scans -> [at : Stage, tip : Commits \cup {NoCommit},
                           old : Commits \cup {NoCommit}, immediate : BOOLEAN,
                           todo : Seq(Commits)]]
    /\ moves \in 0 .. MaxMoves
    /\ faults \in 0 .. MaxFaults
    /\ seen \subseteq Commits
    /\ anchor \in Commits \cup {NoCommit}

\* The cursor never runs past a commit: from the cursor down to the commit at
\* which the walk began, every first parent has been entered in the queue,
\* although scans overlap, the branch moves under them and they are killed.
NoCommitSkipped ==
    cursor # NoCommit =>
        \E walked \in SUBSET seen :
            /\ cursor \in walked \cup {anchor}
            /\ \A c \in walked : FirstParent[c] \in walked \cup {anchor}

\* The queue refuses what does not fit, and drops nothing for it: a target
\* stops waiting only by being relinked.
PendingKept == [][Pending \ Pending' \subseteq relinked']_vars

\* A target with exact evidence is not starved by retries of others, if the
\* branch keeps being scanned with its cursor at HEAD: each attempt, also one
\* that ends the scan with an error, sends its target to the end.
Waits(c) == c \in Pending /\ evidence[c] = "exact"
NotStarvedAtHead ==
    \A c \in Commits :
        []<>(\E s \in Scans : At(s, "list") /\ cursor = head) => []<>~Waits(c)
=============================================================================
