-------------------------- MODULE TranscriptIngest --------------------------
(***************************************************************************)
(* How a Claude Code session becomes thoughts, and the thoughts that made  *)
(* a commit are linked to it (cvc-core/src/claude_code: ingest.rs,         *)
(* transcript.rs, links.rs; db.rs, capture_claude_code_batch; linker.rs).  *)
(*                                                                         *)
(* Claude Code writes the transcript line by line and starts a run of `cvc *)
(* ingest` at every hook, so runs overlap; SessionLock orders them where   *)
(* the file system can.  A run reads the transcript from the cursor in the *)
(* store, plans the responses that are closed, writes those that are new   *)
(* in one transaction with the advanced cursor, and then links what the    *)
(* session's own commits explain.  A commit made by a tool call runs the   *)
(* post-commit hook, whose linker takes what is in the store by then.      *)
(*                                                                         *)
(* A response is one API request, its entries next to each other as in the *)
(* fixtures of cvc-core/tests; each entry's parent is the one before it.   *)
(* A position in the transcript stands for its byte offset and its time.   *)
(***************************************************************************)
EXTENDS Naturals, Sequences, FiniteSets, FiniteSetsExt, SessionLock

CONSTANTS
    Script,      \* the entries of the session, in the order they are written
    Responses,   \* the requests of the session
    NoResponse,  \* no response: what a user's entry belongs to, no parent
    Stops,       \* the positions after which Stop or SessionEnd fires
    CommitAt,    \* CommitAt[c]: the position of the tool result that names c
    Commits,     \* the commits the session's tool calls make
    Lost,        \* responses that not even a stand-in can be stored for
    MaxUpsets    \* bound: kills, busy databases, cuts, thoughts taken away, by
                 \* whether the file system can lock

\* An entry: who wrote it, the calls it makes and the calls it answers.
Calls == UNION {Script[i].calls : i \in DOMAIN Script}

ASSUME ScriptOK ==
    /\ Script \in Seq([kind : {"prompt", "result", "response", "boundary", "other"},
                      of : Responses \cup {NoResponse},
                      calls : SUBSET Calls, answers : SUBSET Calls])
    /\ NoResponse \notin Responses
    /\ Stops \subseteq DOMAIN Script
    /\ CommitAt \in [Commits -> DOMAIN Script]
    /\ Lost \subseteq Responses
    /\ MaxUpsets \in [BOOLEAN -> Nat]

VARIABLES
    written,    \* how many entries the transcript has
    recorded,   \* recorded[r]: the thought of a response r that is in the store
    deleted,    \* the responses with a local tombstone
    cursor,     \* harness_ingest_cursors: how many entries are done with
    links,      \* links[r]: the commits r is linked to
    hook,       \* the post-commit hook: the commit it links and to what
    linked,     \* the commits whose post-commit hook has run
    job,        \* job[p]: where run p stands, once it is in
    upsets,     \* how many things went another way
    ever,       \* history: the responses that were ever recorded
    withdrawn,  \* history: those a tombstone for one destination took away
    happened    \* history: a run found the store "busy", was "cut" off from
                \* its links

storeVars == <<recorded, deleted, cursor, links>>
gitVars == <<hook, linked>>
history == <<ever, withdrawn, happened>>
vars == <<lockVars, written, storeVars, gitVars, job, upsets, history>>
-----------------------------------------------------------------------------
(* Transcripts                                                             *)

Positions(r, from, upto) == {i \in from .. upto : Script[i].of = r}
First(r, from, upto) == Min(Positions(r, from, upto))
Last(r, from, upto) == Max(Positions(r, from, upto))
Begins == [r \in Responses |-> First(r, 1, Len(Script))]

CallsOf(r, from, upto) == UNION {Script[i].calls : i \in Positions(r, from, upto)}
AnsweredIn(from, upto) == UNION {Script[i].answers : i \in from .. upto}
MovesOn(i) == Script[i].kind \in {"prompt", "response", "boundary"}
MovedOn(i, upto) == \E j \in i + 1 .. upto : MovesOn(j)

\* How Claude Code writes a session: the entries of a response next to each
\* other, one answer to a call, before the conversation moves on, and neither
\* after a stop that comes in between.  A commit is named by such an answer.
ASSUME SessionOK ==
    /\ \A r \in Responses : \E i \in DOMAIN Script : Script[i].of = r
    /\ \A i \in DOMAIN Script : Script[i].of \in Responses <=> Script[i].kind = "response"
    /\ \A i, k \in DOMAIN Script : \A j \in i .. k :
         Script[i].of \in Responses /\ Script[k].of = Script[i].of
         => Script[j].of = Script[i].of
    /\ \A i, k \in DOMAIN Script :
         Script[i].of \in Responses /\ Script[i].calls \cap Script[k].answers # {}
         => /\ k < i => Script[k].of = Script[i].of
            /\ \A j \in i .. k - 1 : MovesOn(j) => Script[j].of = Script[i].of
    /\ \A stop \in Stops : \A i \in 1 .. stop, k \in stop + 1 .. Len(Script) :
         Script[i].of \in Responses
         => Script[k].of # Script[i].of /\ Script[i].calls \cap Script[k].answers = {}
    /\ \A k, l \in DOMAIN Script : Script[k].answers \cap Script[l].answers # {} => k = l
    /\ \A c \in Commits :
         /\ Script[CommitAt[c]].kind # "response"
         /\ \E i \in DOMAIN Script :
              Script[i].of \in Responses
              /\ Script[i].calls \cap Script[CommitAt[c]].answers # {}

\* A response is closed when its calls are answered and something follows it,
\* when the conversation moved on, or when the session stopped.
\* (Mutant) The last response is closed as soon as its calls are answered.
ClosedEarly(r, from, upto, final) ==
    \/ final
    \/ CallsOf(r, from, upto) \subseteq AnsweredIn(from, upto)
    \/ MovedOn(Last(r, from, upto), upto)
Closed(r, from, upto, final) ==
    \/ final
    \/ /\ Last(r, from, upto) < upto
       /\ \/ CallsOf(r, from, upto) \subseteq AnsweredIn(from, upto)
          \/ MovedOn(Last(r, from, upto), upto)

\* What the model reacted to: the user's entries since the response before.
Stimulus(r, from, upto) ==
    {i \in from .. First(r, from, upto) - 1 :
        /\ Script[i].kind \in {"prompt", "result"}
        /\ \A j \in i .. First(r, from, upto) - 1 : Script[j].kind # "response"}
Before(r, from, upto) ==
    LET earlier == {i \in from .. First(r, from, upto) - 1 : Script[i].kind = "response"}
    IN  IF earlier = {} THEN NoResponse ELSE Script[Max(earlier)].of

\* What a run plans from a window of the transcript.
Planned(from, upto, final) ==
    {r \in Responses : Positions(r, from, upto) # {} /\ Closed(r, from, upto, final)}

\* The next read starts at the last closed response, so that its calls and
\* their results stay in view.
\* (Mutant) It starts at the end of what was read.
CursorAtEnd(from, upto, final) == upto
NextCursor(from, upto, final) ==
    IF Planned(from, upto, final) = {} THEN from - 1
    ELSE Max({First(r, from, upto) : r \in Planned(from, upto, final)}) - 1

\* The commits named by the results of calls in the window.
Verified(from, upto, final) ==
    {c \in Commits :
        /\ CommitAt[c] \in from .. upto
        /\ \E r \in Planned(from, upto, final) :
              CallsOf(r, from, upto) \cap Script[CommitAt[c]].answers # {}}
\* (Mutant) From the last one back.
LatestOf(cs) == CHOOSE c \in cs : \A d \in cs : CommitAt[d] <= CommitAt[c]
Earliest(cs) == CHOOSE c \in cs : \A d \in cs : CommitAt[c] <= CommitAt[d]
-----------------------------------------------------------------------------
(* The store                                                               *)

Exists(r) == r \in DOMAIN recorded
Floating == {r \in DOMAIN recorded : links[r] = {}}
Without(r) ==
    [x \in DOMAIN recorded \ {r} |->
        IF recorded[x].parent = r THEN [recorded[x] EXCEPT !.parent = NoResponse]
        ELSE recorded[x]]

\* What the transaction adds: neither what is there nor what has a local
\* tombstone.  (Mutant) What was deleted here is captured like the rest.
AddedAgain(captures) == {r \in captures : ~Exists(r) /\ r \notin Lost}
Added(captures) == {r \in captures : ~Exists(r) /\ r \notin deleted /\ r \notin Lost}

\* A capture that is not stored passes its parent on to its children; where
\* that one is not stored either, the chain breaks.
\* (Mutant) It breaks the foreign key.
ParentUnchecked(r, captures, from, upto) == Before(r, from, upto)
ParentOf(r, captures, from, upto) ==
    LET stored == DOMAIN recorded \cup Added(captures)
        earlier == {i \in from .. First(r, from, upto) - 1 :
                       Script[i].kind = "response"
                       /\ (Script[i].of \in stored \/ Script[i].of \notin captures)}
        nearest == Script[Max(earlier)].of
    IN  IF earlier # {} /\ nearest \in stored THEN nearest ELSE NoResponse
-----------------------------------------------------------------------------
(* Runs                                                                    *)

IdleJob == [at |-> "idle", final |-> FALSE, from |-> 1, upto |-> 0,
            captures |-> {}, commits |-> {}, ids |-> {}]
NoHook == [of |-> "none", ids |-> {}]

Step(p, stage) == At(p, "in") /\ job[p].at = stage
Goes(p, stage) == job' = [job EXCEPT ![p].at = stage]
Upset == upsets < MaxUpsets[locking] /\ upsets' = upsets + 1
CutOff(if) == IF if THEN {"cut"} ELSE {}
Linking(p) == job[p].at \in {"floating", "link"}

Init ==
    /\ LockInit
    /\ written = 0
    /\ recorded = [r \in {} |-> {}]
    /\ deleted = {}
    /\ cursor = 0
    /\ links = [r \in Responses |-> {}]
    /\ hook = NoHook
    /\ linked = {}
    /\ job = [p \in Runs |-> IdleJob]
    /\ upsets = 0
    /\ ever = {}
    /\ withdrawn = {}
    /\ happened = {}
-----------------------------------------------------------------------------
(* The session and the user                                                *)

\* Claude Code waits for the hooks of Stop and SessionEnd; the result of a
\* commit follows its post-commit hook.
FinalRuns == {p \in Runs : job[p].final}
Write ==
    /\ written < Len(Script)
    /\ FinalRuns = {}
    /\ \A c \in Commits : CommitAt[c] = written + 1 => c \in linked
    /\ written' = written + 1
    /\ UNCHANGED <<lockVars, storeVars, gitVars, job, upsets, history>>

\* While nothing reads it, the transcript loses its end, which the session
\* then writes again.
CutShort(n) ==
    /\ Upset
    /\ n < written
    /\ hook = NoHook /\ \A p \in Runs : At(p, "out")
    /\ written' = n
    /\ UNCHANGED <<lockVars, storeVars, gitVars, job, history>>

\* A tombstone takes the thought away, its links with it.
TakeAway(r) ==
    /\ Upset
    /\ recorded' = Without(r)
    /\ links' = [links EXCEPT ![r] = {}]
    /\ UNCHANGED <<lockVars, written, cursor, gitVars, job, ever, happened>>

\* cvc delete-local, whether or not the thought is there: a local tombstone.
DeleteLocal(r) ==
    /\ TakeAway(r)
    /\ deleted' = deleted \cup {r}
    /\ UNCHANGED withdrawn

\* cvc redact, or a tombstone pulled from a destination: one for that
\* destination alone, which does not keep the transcript from bringing the
\* thought back.
Withdraw(r) ==
    /\ Exists(r)
    /\ TakeAway(r)
    /\ withdrawn' = withdrawn \cup {r}
    /\ UNCHANGED deleted
-----------------------------------------------------------------------------
(* The post-commit hook: link_current_commit_with_policy                   *)

Earlier(c) == {d \in Commits : CommitAt[d] < CommitAt[c]}

\* Only what began after the commit's first parent may be linked; the window
\* and the files may leave it all out.
LinkerTakes(c) ==
    {r \in Floating : \A d \in Earlier(c) : Begins[r] >= CommitAt[d]}

HookReads(c, ids) ==
    /\ hook = NoHook
    /\ CommitAt[c] = written + 1 /\ c \notin linked
    /\ ids \in {{}, LinkerTakes(c)}
    /\ hook' = [of |-> c, ids |-> ids]
    /\ UNCHANGED <<lockVars, written, storeVars, linked, job, upsets, history>>

\* One transaction, which a thought deleted in the meantime refuses.
Link(ids, c) ==
    IF ids \subseteq DOMAIN recorded
    THEN links' = [r \in Responses |-> IF r \in ids THEN links[r] \cup {c} ELSE links[r]]
    ELSE UNCHANGED links

HookLinks(c) ==
    /\ hook.of = c
    /\ Link(hook.ids, c)
    /\ hook' = NoHook
    /\ linked' = linked \cup {c}
    /\ UNCHANGED <<lockVars, written, recorded, deleted, cursor, job, upsets,
                   history>>
-----------------------------------------------------------------------------
(* ingest                                                                  *)

\* A hook's event, or the user, starts a run.
Start(p, final) ==
    /\ Acquire(p)
    /\ final => written \in Stops
    /\ job' = [job EXCEPT ![p] = [IdleJob EXCEPT !.at = "read", !.final = final]]
    /\ UNCHANGED <<written, storeVars, gitVars, upsets, history>>

TakeLock(p) ==
    /\ Acquiring(p)
    /\ job' = IF taker'[p] = "out" THEN [job EXCEPT ![p] = IdleJob] ELSE job
    /\ UNCHANGED <<written, storeVars, gitVars, upsets, history>>

\* The cursor, then the transcript; a cursor behind its end is not trusted.
\* A capture is a planned response that was not in the store.
ReadCursor(p) ==
    /\ Step(p, "read")
    /\ job' = [job EXCEPT ![p].at = "plan",
                          ![p].from = IF cursor > written THEN 1 ELSE cursor + 1]
    /\ UNCHANGED <<lockVars, written, storeVars, gitVars, upsets, history>>

ReadTranscript(p) ==
    /\ Step(p, "plan")
    /\ LET rs == Planned(job[p].from, written, job[p].final) IN
       job' = [job EXCEPT ![p].at = "batch", ![p].upto = written,
                          ![p].captures = {r \in rs : ~Exists(r)}]
    /\ UNCHANGED <<lockVars, written, storeVars, gitVars, upsets, history>>

\* capture_claude_code_batch: one transaction for the captures and the cursor.
Batch(p) ==
    /\ Step(p, "batch")
    /\ LET from == job[p].from
           upto == job[p].upto
           captures == job[p].captures
           commits == Verified(from, upto, job[p].final)
       IN /\ recorded' = [r \in DOMAIN recorded \cup Added(captures) |->
                 IF Exists(r) THEN recorded[r]
                 ELSE [stimulus |-> Stimulus(r, from, upto),
                       answered |-> CallsOf(r, from, upto) \cap AnsweredIn(from, upto),
                       parent |-> ParentOf(r, captures, from, upto)]]
          /\ cursor' = NextCursor(from, upto, job[p].final)
          /\ ever' = ever \cup Added(captures)
          /\ job' = [job EXCEPT ![p].at = IF commits = {} THEN "done" ELSE "floating",
                                ![p].captures = {}, ![p].commits = commits]
    /\ UNCHANGED <<lockVars, written, deleted, links, gitVars, upsets, withdrawn,
                   happened>>

\* link_transcript_commits: what floats, then commit by commit from the
\* earliest what began before it.
ReadFloating(p) ==
    /\ Step(p, "floating")
    /\ job' = [job EXCEPT ![p].at = "link", ![p].ids = Floating]
    /\ UNCHANGED <<lockVars, written, storeVars, gitVars, upsets, history>>

Claimed(ids, c) == {r \in ids : Begins[r] < CommitAt[c]}

LinkCommit(p) ==
    /\ Step(p, "link")
    /\ LET c == Earliest(job[p].commits)
           ids == Claimed(job[p].ids, c)
           rest == job[p].commits \ {c}
           failed == ~(ids \subseteq DOMAIN recorded)
       IN /\ Link(ids, c)
          /\ job' = [job EXCEPT ![p].at = IF failed \/ rest = {} THEN "done" ELSE "link",
                                ![p].commits = rest, ![p].ids = @ \ ids]
          /\ happened' = happened \cup CutOff(failed)
    /\ UNCHANGED <<lockVars, written, recorded, deleted, cursor, gitVars, upsets,
                   ever, withdrawn>>

\* The lock is dropped and the process ends.
Leave(p) ==
    /\ Step(p, "done")
    /\ Remove(p)
    /\ UNCHANGED <<written, storeVars, gitVars, job, upsets, history>>
End(p) ==
    /\ Unlock(p)
    /\ job' = [job EXCEPT ![p] = IdleJob]
    /\ UNCHANGED <<written, storeVars, gitVars, upsets, history>>

\* The store stays busy past the retries: the run fails where it is.
Busy(p) ==
    /\ Upset
    /\ \E stage \in {"batch", "link"} : Step(p, stage)
    /\ Goes(p, "done")
    /\ happened' = happened \cup {"busy"} \cup CutOff(Linking(p))
    /\ UNCHANGED <<lockVars, written, storeVars, gitVars, ever, withdrawn>>

Kill(p) ==
    /\ Upset
    /\ Die(p)
    /\ job' = [job EXCEPT ![p] = IdleJob]
    /\ happened' = happened \cup CutOff(Linking(p))
    /\ UNCHANGED <<written, storeVars, gitVars, ever, withdrawn>>
-----------------------------------------------------------------------------
Steps(p) ==
    \/ TakeLock(p)
    \/ ReadCursor(p) \/ ReadTranscript(p) \/ Batch(p) \/ ReadFloating(p) \/ LinkCommit(p)
    \/ Leave(p) \/ End(p)

HookSteps ==
    \E c \in Commits : HookLinks(c) \/ \E ids \in SUBSET Responses : HookReads(c, ids)

Next ==
    \/ Write \/ HookSteps
    \/ \E n \in 0 .. Len(Script) : CutShort(n)
    \/ \E r \in Responses : DeleteLocal(r) \/ Withdraw(r)
    \/ \E p \in Runs : Steps(p) \/ Busy(p) \/ Kill(p)
    \/ \E p \in Runs, final \in BOOLEAN : Start(p, final)

Spec == Init /\ [][Next]_vars
-----------------------------------------------------------------------------
(* What must hold                                                          *)

\* Every variable stays within its type.
TypeOK ==
    /\ LockTypeOK
    /\ written \in 0 .. Len(Script)
    /\ \E stored \in SUBSET Responses :
         recorded \in [stored -> [stimulus : SUBSET DOMAIN Script, answered : SUBSET Calls,
                                 parent : Responses \cup {NoResponse}]]
    /\ deleted \subseteq Responses
    /\ cursor \in 0 .. Len(Script)
    /\ links \in [Responses -> SUBSET Commits]
    /\ hook \in [of : Commits \cup {"none"}, ids : SUBSET Responses]
    /\ linked \subseteq Commits
    /\ job \in [Runs -> [at : {"idle", "read", "plan", "batch", "floating", "link", "done"},
                        final : BOOLEAN,
                        from : 1 .. Len(Script) + 1, upto : 0 .. Len(Script),
                        captures : SUBSET Responses, ids : SUBSET Responses,
                        commits : SUBSET Commits]]
    /\ upsets \in 0 .. MaxUpsets[locking]
    /\ ever \cup withdrawn \subseteq Responses
    /\ happened \subseteq {"busy", "cut"}

\* A thought is recorded once and as the whole transcript tells it, however
\* the reads that led to it cut the transcript: with all it reacted to and all
\* its calls answered, none because a read ended before the answer.  (What a
\* tombstone for one destination took away may be captured again with less.)
Whole == Len(Script)
WholeStimulus == [r \in Responses |-> Stimulus(r, 1, Whole)]
WholeAnswered == [r \in Responses |-> CallsOf(r, 1, Whole) \cap AnsweredIn(1, Whole)]
RecordedWhole ==
    \A r \in DOMAIN recorded \ withdrawn :
        /\ recorded[r].stimulus = WholeStimulus[r]
        /\ recorded[r].answered = WholeAnswered[r]

\* The thoughts of a session are one chain: where nothing was taken away, each
\* answers the one before it that could be stored, and the chain breaks at most
\* right after one that could not; a parent is always stored.
Storable == {i \in DOMAIN Script : Script[i].kind = "response" /\ Script[i].of \notin Lost}
NearestBefore ==
    [r \in Responses |->
        LET earlier == {i \in Storable : i < Begins[r]}
        IN  IF earlier = {} THEN NoResponse ELSE Script[Max(earlier)].of]
OneChain ==
    \A r \in DOMAIN recorded :
        /\ recorded[r].parent \in DOMAIN recorded \cup {NoResponse}
        /\ deleted \cup withdrawn = {} =>
             \/ recorded[r].parent = NearestBefore[r]
             \/ recorded[r].parent = NoResponse /\ Before(r, 1, Whole) \in Lost

\* The cursor is never past a response that was neither recorded nor deleted:
\* overlapping runs, kills and a file cut short leave nothing behind.  A run at
\* a stop, whatever became of those before it, leaves none at all of what it
\* read, the last one and unanswered calls included.
NothingSkipped ==
    \A r \in Responses \ Lost :
        \/ Begins[r] <= cursor
        \/ \E p \in Runs :
              /\ Step(p, "done") /\ job[p].final /\ "busy" \notin happened
              /\ Begins[r] <= job[p].upto
        => r \in ever \cup deleted

\* What cvc delete-local deleted is not captured again, though the transcript is
\* read again from before it and may have been read before the deletion.  (What
\* was redacted at a destination only, without a local tombstone, may be.)
DeletedStaysAway == deleted \cap DOMAIN recorded = {}

\* Each commit claims only the reasoning since the one before, and what made a
\* commit is linked as soon as no run is at its links, unless a run was cut off
\* between its batch and its links.
CommitsLinked ==
    locking /\ "cut" \notin happened =>
        /\ \A r \in Responses : \A c \in links[r], d \in Commits :
               Begins[r] < CommitAt[d] => CommitAt[c] <= CommitAt[d]
        /\ (\A p \in Runs : ~Linking(p)) =>
               \A r \in DOMAIN recorded, c \in Commits :
                   WholeAnswered[r] \cap Script[CommitAt[c]].answers # {} => links[r] # {}
=============================================================================
