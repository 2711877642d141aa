---------------------------- MODULE RewriteInbox ----------------------------
(***************************************************************************)
(* How thoughts follow the commits they explain when Git rewrites them.    *)
(*                                                                         *)
(* An amend or a rebase runs the post-rewrite hook with the pairs of old   *)
(* and new commits (cvc-cli/src/commands/hook.rs).  The hook writes them   *)
(* to the inbox, a directory of files named by the hash of their content,  *)
(* before it opens the store; then it replays the whole inbox, in the      *)
(* order of the names, and removes what it applied.  Applying a batch      *)
(* derives, for each source a thought has at an old commit, an event that  *)
(* puts the thought at the new one (cvc-core/src/rewrite.rs).  The sources *)
(* are read first and compared again in the transaction that writes the    *)
(* events (db.rs, apply_rewrite_events).                                   *)
(*                                                                         *)
(* The worktrees of a repository share the inbox and the store, so hooks   *)
(* run at the same time; any may be killed between two steps.              *)
(*                                                                         *)
(* An event is named by the hash of its thought, its source and its        *)
(* commits, and its source is a link or another event: it is represented   *)
(* by what that hash unfolds to, the path of commits from the link's.      *)
(***************************************************************************)
EXTENDS Naturals, Sequences, FiniteSets

CONSTANTS
    Hooks,         \* processes of the post-rewrite hook
    Thoughts,      \* interaction ids
    Destinations,  \* destination fingerprints
    Commits,       \* commit ids
    Batches,       \* inputs of the hook, named as their file in the inbox
    PairsOf,       \* PairsOf[b]: the pairs <<old, new>> of batch b
    Malformed,     \* files that do not parse, left in the inbox from before
    NameOrder,     \* every batch, in the order of the file names
    Born,          \* the commits Git has at first
    MaxFiles,      \* MAX_INBOX_FILES
    MaxFaults,     \* bound: kills, busy databases, pruned commits, linkers that race
    MaxUpsets      \* bound: faults, and what the user shares, unshares and deletes

ASSUME ConstantsOK ==
    /\ PairsOf \in [Batches -> SUBSET (Commits \X Commits)]
    /\ Malformed \subseteq Batches
    /\ NameOrder \in Seq(Batches)
    /\ Born \subseteq Commits
    /\ {MaxFiles, MaxFaults, MaxUpsets} \subseteq Nat

VARIABLES
    commits,    \* the commits Git can find
    rewritten,  \* the batches of the rewrites Git has done
    alive,      \* the thoughts in the store
    links,      \* links[t]: the commits t is linked to, observed locally
    shares,     \* shares[t]: interaction_shares, the destinations t is shared for
    derived,    \* derived[t]: the rewrite events of t with their authorizations
    recorded,   \* rewrite_batches: the batches applied
    inbox,      \* the batches with a complete file
    temp,       \* temp[b]: the temporary file of b
    hook,       \* hook[h]: where hook process h stands
    faults,     \* how many faults there were
    choices,    \* how many choices the user made
    accepted,   \* history: the batches persist_inbox answered Ok for
    late,       \* history: batches read before one they follow on was recorded
    belated     \* history: the thoughts linked to an old commit of a batch only
                \* when the batch had been read, with that batch

store == <<alive, links, shares, derived, recorded>>
files == <<inbox, temp>>
world == <<commits, rewritten, faults, choices>>
history == <<accepted, late, belated>>
vars == <<store, files, world, hook, history>>
-----------------------------------------------------------------------------
(* Sources and events                                                      *)

\* A source of a thought: a link, whose path is one commit, or an event.
Source == [path : Seq(Commits), auth : SUBSET Destinations]
Endpoint(s) == s.path[Len(s.path)]
Sources(t, c) ==
    {[path |-> <<x>>, auth |-> shares[t]] : x \in links[t] \cap {c}}
    \cup {e \in derived[t] : Endpoint(e) = c}

\* What a batch reads before it is applied, and the events it derives from it.
\* (Mutant) Only links are sources.
SnapshotOfLinks(b) == [t \in Thoughts |->
    {[source |-> [path |-> <<pair[1]>>, auth |-> shares[t]], new |-> pair[2]] :
     pair \in {p \in PairsOf[b] : p[1] \in links[t]}}]
Snapshot(b) == [t \in Thoughts |->
    UNION {{[source |-> s, new |-> pair[2]] : s \in Sources(t, pair[1])} :
           pair \in PairsOf[b]}]

EventOf(x) == [path |-> Append(x.source.path, x.new), auth |-> x.source.auth]

\* (Mutant) The sources are compared by name only.
UnchangedByName(read) ==
    \A t \in Thoughts : \A x \in read[t] :
        \E s \in Sources(t, Endpoint(x.source)) : s.path = x.source.path
Unchanged(read) ==
    \A t \in Thoughts : \A x \in read[t] : x.source \in Sources(t, Endpoint(x.source))

\* Inserting an event that is there only adds the new authorizations.
Merge(old, new) ==
    {[path |-> p, auth |-> UNION {e.auth : e \in {x \in old \cup new : x.path = p}}] :
     p \in {e.path : e \in old \cup new}}
-----------------------------------------------------------------------------
(* Hook processes                                                          *)

Stage == {"idle", "check", "reserve", "publish", "list", "read", "apply",
          "remove", "quarantine"}
Unread == [t \in Thoughts |-> {}]
HookAt(at, todo) == [at |-> at, todo |-> todo, read |-> Unread, early |-> FALSE,
                     missed |-> {}]
IdleHook == HookAt("idle", <<>>)

At(h, stage) == hook[h].at = stage
Goto(h, stage) == hook' = [hook EXCEPT ![h].at = stage]
Exit(h) == hook' = [hook EXCEPT ![h] = IdleHook]
Current(h) == Head(hook[h].todo)
NextEntry(h) == hook' = [hook EXCEPT ![h] = HookAt("read", Tail(hook[h].todo))]
Calm == faults + choices < MaxUpsets
Fault == Calm /\ faults < MaxFaults /\ faults' = faults + 1
Choice == Calm /\ choices' = choices + 1
Accept(b) == accepted' = accepted \cup {b}

Init ==
    /\ commits = Born
    /\ rewritten = {}
    /\ alive = Thoughts
    /\ links = [t \in Thoughts |-> {}]
    /\ shares = [t \in Thoughts |-> {}]
    /\ derived = [t \in Thoughts |-> {}]
    /\ recorded = {}
    /\ inbox = Malformed
    /\ temp = [b \in Batches |-> "none"]
    /\ hook = [h \in Hooks |-> IdleHook]
    /\ faults = 0
    /\ choices = 0
    /\ accepted = {}
    /\ late = {}
    /\ belated = {}
-----------------------------------------------------------------------------
(* The user and Git                                                        *)

OldOf(b) == {pair[1] : pair \in PairsOf[b]}
NewOf(b) == {pair[2] : pair \in PairsOf[b]}

\* Git rewrites the old commits and runs the hook.  Another worktree may do
\* the same rewrite again and so deliver the same input a second time.
Rewrite(h, b) ==
    /\ At(h, "idle")
    /\ b \notin Malformed
    /\ OldOf(b) \subseteq commits
    /\ commits' = commits \cup NewOf(b)
    /\ rewritten' = rewritten \cup {b}
    /\ hook' = [hook EXCEPT ![h] = HookAt("check", <<b>>)]
    /\ UNCHANGED <<store, files, faults, choices, history>>

\* (History) Who has read a batch without the link that is made now.
MissedBy(h, t, c) == At(h, "apply") /\ c \in OldOf(Current(h))
Misses(t, c) ==
    /\ hook' = [h \in Hooks |-> IF MissedBy(h, t, c) THEN [hook[h] EXCEPT !.missed = @ \cup {t}]
                              ELSE hook[h]]
    /\ belated' = belated \cup {<<t, b>> : b \in {x \in recorded : c \in OldOf(x)}}

\* The transaction of both linkers: the post-commit hook's, for the commit just
\* made, and that of ingest, for the commits its transcript names, rewritten or
\* not (claude_code/links.rs).  Either takes floating thoughts, of which the other
\* may have linked one since; the transaction asks neither for other links nor
\* for rewrites.
Link(t, c) ==
    /\ t \in alive
    /\ c \in commits \ links[t]
    /\ \/ links[t] = {} /\ UNCHANGED faults
       \/ links[t] # {} /\ Fault
    /\ links' = [links EXCEPT ![t] = @ \cup {c}]
    /\ Misses(t, c)
    /\ UNCHANGED <<alive, shares, derived, recorded, files, commits, rewritten, choices,
                   accepted, late>>

Share(t, d) ==
    /\ Choice
    /\ t \in alive /\ d \notin shares[t]
    /\ shares' = [shares EXCEPT ![t] = @ \cup {d}]
    /\ UNCHANGED <<alive, links, derived, recorded, files, commits, rewritten, faults,
                   hook, history>>

Unshare(t, d) ==
    /\ Choice
    /\ d \in shares[t]
    /\ shares' = [shares EXCEPT ![t] = @ \ {d}]
    /\ UNCHANGED <<alive, links, derived, recorded, files, commits, rewritten, faults,
                   hook, history>>

\* A tombstone deletes the thought, its links, its shares and its events.  While
\* there is one, of whatever scope, the thought is no source even if it comes back.
Delete(t) ==
    /\ Choice
    /\ t \in alive
    /\ alive' = alive \ {t}
    /\ links' = [links EXCEPT ![t] = {}]
    /\ shares' = [shares EXCEPT ![t] = {}]
    /\ derived' = [derived EXCEPT ![t] = {}]
    /\ UNCHANGED <<recorded, files, commits, rewritten, faults, hook, history>>

\* Git prunes an unreachable commit.
Prune(c) ==
    /\ Fault
    /\ c \in commits
    /\ \E b \in rewritten : c \in OldOf(b)
    /\ commits' = commits \ {c}
    /\ UNCHANGED <<store, files, rewritten, choices, hook, history>>
-----------------------------------------------------------------------------
(* persist_inbox                                                           *)

\* Idempotency precedes the quota: what is in the inbox is accepted as it is.
Check(h) ==
    /\ At(h, "check")
    /\ LET b == Current(h) IN
       \/ b \in inbox /\ Accept(b) /\ Goto(h, "list")
       \/ b \notin inbox /\ Goto(h, "reserve") /\ UNCHANGED accepted
    /\ UNCHANGED <<store, files, world, late, belated>>

\* (Mutant) Temporary files are never swept.
Unswept == temp

\* Old temporary files go whether or not the batch is then taken.
Swept == [b \in Batches |-> IF temp[b] = "stale" THEN "none" ELSE temp[b]]

Reserve(h) ==
    /\ At(h, "reserve")
    /\ LET b == Current(h)
           full == Cardinality(inbox) >= MaxFiles
       IN \/ full /\ temp' = Swept /\ Exit(h) /\ UNCHANGED accepted
          \/ /\ ~full /\ Swept[b] = "none"
             /\ temp' = [Swept EXCEPT ![b] = "live"]
             /\ Goto(h, "publish")
             /\ UNCHANGED accepted
          \/ /\ ~full /\ Swept[b] # "none" /\ temp' = Swept
             /\ \/ b \in inbox /\ Accept(b) /\ Goto(h, "list")
                \/ b \notin inbox /\ Exit(h) /\ UNCHANGED accepted
    /\ UNCHANGED <<store, inbox, world, late, belated>>

\* The file is written, synced and renamed to its name.
Publish(h) ==
    /\ At(h, "publish")
    /\ LET b == Current(h) IN
       /\ inbox' = inbox \cup {b}
       /\ temp' = [temp EXCEPT ![b] = "none"]
       /\ Accept(b)
    /\ Goto(h, "list")
    /\ UNCHANGED <<store, world, late, belated>>

\* A temporary file whose writer died is an hour old.
Age(b) ==
    /\ temp[b] = "left"
    /\ temp' = [temp EXCEPT ![b] = "stale"]
    /\ UNCHANGED <<store, inbox, world, hook, history>>
-----------------------------------------------------------------------------
(* replay_inbox and apply_inbox                                            *)

List(h) ==
    /\ At(h, "list")
    /\ LET entries == SelectSeq(NameOrder, LAMBDA b : b \in inbox)
       IN hook' = [hook EXCEPT ![h] = HookAt("read", entries)]
    /\ UNCHANGED <<store, files, world, history>>

\* The next entry is read with the sources its pairs have.  One that is gone,
\* or whose new commit Git does not find, is passed over and stays.
Applicable(b) == NewOf(b) \subseteq commits

\* (History) A rewrite whose result b rewrites is not recorded yet.
FollowsOnWaiting(b) ==
    \E a \in rewritten \ (recorded \cup {b}) : NewOf(a) \cap OldOf(b) # {}

\* (Mutant) An entry that does not parse ends the replay.
StopReplay(h) == Exit(h)
SetAside(h) == Goto(h, "quarantine")

Read(h) ==
    /\ At(h, "read")
    /\ IF hook[h].todo = <<>> THEN Exit(h)
       ELSE LET b == Current(h) IN
            \/ b \in inbox \cap Malformed /\ SetAside(h)
            \/ /\ b \in inbox \ Malformed /\ Applicable(b)
               /\ hook' = [hook EXCEPT ![h] =
                    [at |-> "apply", todo |-> hook[h].todo,
                     read |-> Snapshot(b), early |-> FollowsOnWaiting(b), missed |-> {}]]
            \/ b \notin inbox /\ NextEntry(h)
            \/ b \in inbox \ Malformed /\ ~Applicable(b) /\ NextEntry(h)
    /\ UNCHANGED <<store, files, world, history>>

\* A file another hook moved first ends this hook's replay with an error.
Quarantine(h) ==
    /\ At(h, "quarantine")
    /\ LET b == Current(h) IN
       \/ b \in inbox /\ inbox' = inbox \ {b} /\ NextEntry(h)
       \/ b \notin inbox /\ Exit(h) /\ UNCHANGED inbox
    /\ UNCHANGED <<store, temp, world, history>>

\* (Mutant) What could not be applied now is removed like what was.
Drop(h) == Goto(h, "remove")

\* Retryable work remains in the inbox.
Defer(h) == NextEntry(h)

\* apply_rewrite_events.  A recorded batch changes nothing; one whose sources
\* changed since they were read is left for a later replay.
Apply(h) ==
    /\ At(h, "apply")
    /\ LET b == Current(h)
           read == hook[h].read
       IN \/ b \in recorded /\ Goto(h, "remove") /\ UNCHANGED <<derived, recorded, late, belated>>
          \/ /\ b \notin recorded /\ Unchanged(read)
             /\ derived' = [t \in Thoughts |->
                    Merge(derived[t], {EventOf(x) : x \in read[t]})]
             /\ recorded' = recorded \cup {b}
             /\ late' = IF hook[h].early THEN late \cup {b} ELSE late
             /\ belated' = belated \cup (hook[h].missed \X {b})
             /\ Goto(h, "remove")
          \/ /\ b \notin recorded /\ ~Unchanged(read)
             /\ Defer(h)
             /\ UNCHANGED <<derived, recorded, late, belated>>
    /\ UNCHANGED <<alive, links, shares, files, world, accepted>>

Remove(h) ==
    /\ At(h, "remove")
    /\ inbox' = inbox \ {Current(h)}
    /\ NextEntry(h)
    /\ UNCHANGED <<store, temp, world, history>>

\* The database is busy: the store does not open, or one entry is deferred.
Busy(h) ==
    /\ Fault
    /\ \/ At(h, "list") /\ Exit(h)
       \/ At(h, "apply") /\ Defer(h)
    /\ UNCHANGED <<store, files, commits, rewritten, choices, history>>

\* The process is killed.
Kill(h) ==
    /\ Fault
    /\ ~At(h, "idle")
    /\ temp' = IF At(h, "publish") THEN [temp EXCEPT ![Current(h)] = "left"] ELSE temp
    /\ Exit(h)
    /\ UNCHANGED <<store, inbox, commits, rewritten, choices, history>>
-----------------------------------------------------------------------------
Steps(h) ==
    \/ Check(h) \/ Reserve(h) \/ Publish(h)
    \/ List(h) \/ Read(h) \/ Quarantine(h) \/ Apply(h) \/ Remove(h)

Next ==
    \/ \E h \in Hooks : Steps(h) \/ Busy(h) \/ Kill(h)
    \/ \E h \in Hooks, b \in Batches : Rewrite(h, b)
    \/ \E b \in Batches : Age(b)
    \/ \E t \in Thoughts : Delete(t)
    \/ \E t \in Thoughts, c \in Commits : Link(t, c)
    \/ \E t \in Thoughts, d \in Destinations : Share(t, d) \/ Unshare(t, d)
    \/ \E c \in Commits : Prune(c)

Spec == Init /\ [][Next]_vars

\* A hook that runs is scheduled, and time passes.  Whether Git runs hooks at
\* all is the user's choice.
FairSpec ==
    /\ Spec
    /\ \A h \in Hooks : WF_vars(Steps(h))
    /\ \A b \in Batches : WF_vars(Age(b))
-----------------------------------------------------------------------------
(* What must hold                                                          *)

\* Every variable stays within its type.
TypeOK ==
    /\ commits \subseteq Commits
    /\ rewritten \subseteq Batches
    /\ alive \subseteq Thoughts
    /\ links \in [Thoughts -> SUBSET Commits]
    /\ shares \in [Thoughts -> SUBSET Destinations]
    /\ \A t \in Thoughts : derived[t] \subseteq {e \in Source : Len(e.path) > 1}
    /\ recorded \subseteq Batches
    /\ inbox \subseteq Batches
    /\ temp \in [Batches -> {"none", "live", "left", "stale"}]
    /\ \A h \in Hooks :
         /\ hook[h].at \in Stage /\ hook[h].early \in BOOLEAN
         /\ hook[h].todo \in Seq(Batches) /\ hook[h].missed \subseteq Thoughts
         /\ \A t \in Thoughts : hook[h].read[t] \subseteq [source : Source, new : Commits]
    /\ faults \in 0 .. MaxFaults
    /\ choices \in 0 .. MaxUpsets
    /\ accepted \cup late \subseteq Batches
    /\ belated \subseteq Thoughts \X Batches

\* A rewrite the hook accepted is never lost: until it is recorded as applied
\* its file is in the inbox, whichever processes were killed, deferred or raced.
AcceptedNotLost == accepted \subseteq inbox \cup recorded

\* An event never outlives or precedes what it cites: its thought is in the
\* store and so is its source, although a deletion may fall between the
\* reading of the sources and the writing of the events.
SourcesPresent ==
    \A t \in Thoughts : \A e \in derived[t] :
        /\ t \in alive
        /\ LET before == SubSeq(e.path, 1, Len(e.path) - 1) IN
           \E s \in Sources(t, before[Len(before)]) : s.path = before

\* Destination authority is inherited from the source as it is when the event
\* is written: what an unshare took away while a hook was between reading and
\* writing is not given back by the event.
AuthorityFromSource ==
    [][\A t \in Thoughts : \A e \in derived'[t] : \A d \in e.auth :
          \/ \E old \in derived[t] : old.path = e.path /\ d \in old.auth
          \/ \E c \in Commits : \E s \in Sources(t, c) :
                /\ e.path = Append(s.path, Endpoint(e))
                /\ d \in s.auth]_vars

\* A batch that waits in the inbox is recorded in the end, if hooks keep
\* replaying the inbox: no entry before it that fails for good blocks it.
WaitingIsRecorded ==
    \A b \in Batches \ Malformed :
        []<>(\E h \in Hooks : At(h, "list"))
            => [](b \in inbox => <>(b \in recorded \/ ~Applicable(b)))

\* A hook killed while it wrote its file does not lock its batch out for good:
\* delivered again and again, with room in the inbox, it is accepted.
RedeliveredIsAccepted ==
    \A b \in Batches \ Malformed :
        []<>(\E h \in Hooks : At(h, "check") /\ Current(h) = b)
            => <>(b \in accepted \/ Cardinality(inbox) >= MaxFiles)

\* A thought that explains the old commit of a recorded rewrite explains the
\* new one, through as many rewrites as there were, whatever was shared, linked
\* or deleted while the hooks ran.  Two orders of events lose it, and the README
\* says so: a rewrite read before the one it follows on was recorded, and a
\* thought linked to the old commit only when its rewrite had been read.
Explains(t, c) == Sources(t, c) # {}
FollowsRewrites ==
    \A t \in Thoughts, b \in recorded \ late : <<t, b>> \notin belated =>
        \A pair \in PairsOf[b] : Explains(t, pair[1]) => Explains(t, pair[2])
=============================================================================
