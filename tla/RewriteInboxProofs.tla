------------------------- MODULE RewriteInboxProofs -------------------------
(***************************************************************************)
(* What is proved of RewriteInbox, for any hooks, thoughts, commits and    *)
(* batches and without the bounds.                                         *)
(***************************************************************************)
EXTENDS RewriteInbox, TLAPS

\* The state of a hook is a record, whatever it read.
HooksAreRecords ==
    hook = [h \in Hooks |-> [at |-> hook[h].at, todo |-> hook[h].todo,
                             read |-> hook[h].read, early |-> hook[h].early,
                             missed |-> hook[h].missed]]

\* Hook h is where it was, with what it has read.
Stays(h) ==
    /\ hook'[h].at = hook[h].at /\ hook'[h].todo = hook[h].todo
    /\ hook'[h].read = hook[h].read /\ hook'[h].early = hook[h].early
    /\ hook[h].missed \subseteq hook'[h].missed

\* A link leaves every hook where it is and marks those it comes too late for.
LEMMA LinkMarks ==
    ASSUME HooksAreRecords, NEW t, NEW c, Misses(t, c)
    PROVE  /\ HooksAreRecords'
           /\ \A h \in Hooks : Stays(h) /\ (MissedBy(h, t, c) => t \in hook'[h].missed)
<1>1. ASSUME NEW h \in Hooks
      PROVE  /\ hook'[h] = [at |-> hook[h].at, todo |-> hook[h].todo, read |-> hook[h].read,
                            early |-> hook[h].early, missed |-> hook'[h].missed]
             /\ Stays(h) /\ (MissedBy(h, t, c) => t \in hook'[h].missed)
  <2>1. hook[h] = [at |-> hook[h].at, todo |-> hook[h].todo, read |-> hook[h].read,
                   early |-> hook[h].early, missed |-> hook[h].missed]
    BY DEF HooksAreRecords
  <2>2. CASE MissedBy(h, t, c)
    <3>1. hook'[h] = [hook[h] EXCEPT !.missed = @ \cup {t}] BY <2>2 DEF Misses
    <3>2. hook'[h] = [at |-> hook[h].at, todo |-> hook[h].todo, read |-> hook[h].read,
                      early |-> hook[h].early, missed |-> hook[h].missed \cup {t}]
      BY <2>1, <3>1
    <3> QED BY <3>2 DEF Stays
  <2>3. CASE ~MissedBy(h, t, c)
    <3>1. hook'[h] = hook[h] BY <2>3 DEF Misses
    <3> QED BY <2>1, <2>3, <3>1 DEF Stays
  <2> QED BY <2>2, <2>3
<1>2. hook' = [h \in Hooks |-> hook'[h]] BY DEF Misses
<1>3. HooksAreRecords' BY <1>1, <1>2 DEF HooksAreRecords, Stays
<1> QED BY <1>1, <1>3

-----------------------------------------------------------------------------
(* An accepted rewrite is not lost                                         *)

\* A file leaves the inbox where its batch is recorded or where it is malformed,
\* and Git does not deliver what is malformed.
RemovedIsRecorded == \A h \in Hooks : At(h, "remove") => Current(h) \in recorded
SetAsideIsMalformed == \A h \in Hooks : At(h, "quarantine") => Current(h) \in Malformed
DeliveredParses ==
    /\ accepted \cap Malformed = {}
    /\ \A h \in Hooks : hook[h].at \in {"check", "reserve", "publish"}
           => Current(h) \in Batches \ Malformed

InboxIInv ==
    /\ HooksAreRecords
    /\ inbox \subseteq Batches
    /\ AcceptedNotLost
    /\ RemovedIsRecorded
    /\ SetAsideIsMalformed
    /\ DeliveredParses

\* It holds at first, when every hook is idle.
LEMMA InitInboxIInv == Init => InboxIInv
BY ConstantsOK DEF Init, IdleHook, HookAt, InboxIInv, HooksAreRecords, AcceptedNotLost, RemovedIsRecorded,
       SetAsideIsMalformed, DeliveredParses, At

\* How a hook moves: to a stage, to its next entry, out.
Moved(h, at, todo) ==
    /\ HooksAreRecords'
    /\ hook'[h].at = at /\ hook'[h].todo = todo
    /\ \A g \in Hooks \ {h} : hook'[g] = hook[g]

LEMMA GotoMoves ==
    ASSUME HooksAreRecords, NEW h \in Hooks, NEW stage, Goto(h, stage)
    PROVE  Moved(h, stage, hook[h].todo)
BY DEF HooksAreRecords, Goto, Moved

LEMMA ReplaceMoves ==
    ASSUME HooksAreRecords, NEW h \in Hooks, NEW at, NEW todo, NEW read, NEW early,
           hook' = [hook EXCEPT ![h] = [at |-> at, todo |-> todo, read |-> read,
                                        early |-> early, missed |-> {}]]
    PROVE  Moved(h, at, todo)
BY DEF HooksAreRecords, Moved

LEMMA NextEntryMoves ==
    ASSUME HooksAreRecords, NEW h \in Hooks, NextEntry(h)
    PROVE  Moved(h, "read", Tail(hook[h].todo))
BY ReplaceMoves DEF NextEntry, HookAt

LEMMA ExitMoves ==
    ASSUME HooksAreRecords, NEW h \in Hooks, Exit(h)
    PROVE  Moved(h, "idle", <<>>)
BY ReplaceMoves DEF Exit, IdleHook, HookAt

\* A move keeps the invariant if the stage it leads to keeps its promise.
LEMMA SoundMove ==
    ASSUME InboxIInv, NEW h \in Hooks, NEW at, NEW todo, Moved(h, at, todo),
           at = "remove" => Head(todo) \in recorded',
           at = "quarantine" => Head(todo) \in Malformed,
           at \in {"check", "reserve", "publish"} => Head(todo) \in Batches \ Malformed,
           inbox' \subseteq Batches, AcceptedNotLost', accepted' \cap Malformed = {}, recorded \subseteq recorded'
    PROVE  InboxIInv'
BY DEF Moved, InboxIInv, RemovedIsRecorded, SetAsideIsMalformed, DeliveredParses, At, Current

\* A hook takes its batch through persist_inbox.
LEMMA PersistStep ==
    ASSUME InboxIInv, NEW h \in Hooks, Check(h) \/ Reserve(h) \/ Publish(h)
    PROVE  InboxIInv'
<1>1. Current(h) \in Batches \ Malformed
  BY DEF InboxIInv, DeliveredParses, Check, Reserve, Publish, At
<1>2. /\ recorded' = recorded
      /\ accepted' \cap Malformed = {}
  BY <1>1 DEF InboxIInv, DeliveredParses, Check, Reserve, Publish, Accept, store, history
<1>3. AcceptedNotLost' /\ inbox' \subseteq Batches
  BY <1>1 DEF InboxIInv, AcceptedNotLost, Check, Reserve, Publish, Accept, store, files, history
<1>4. CASE \E stage \in {"list", "reserve", "publish"} : Goto(h, stage)
  BY <1>1, <1>2, <1>3, <1>4, GotoMoves, SoundMove DEF InboxIInv, Current
<1>5. CASE Exit(h)
  BY <1>2, <1>3, <1>5, ExitMoves, SoundMove DEF InboxIInv
<1> QED BY <1>4, <1>5 DEF Check, Reserve, Publish

\* A hook replays the inbox: what it removes is recorded or malformed.
LEMMA ReplayStep ==
    ASSUME InboxIInv, NEW h \in Hooks,
           List(h) \/ Read(h) \/ Quarantine(h) \/ Apply(h) \/ Remove(h)
    PROVE  InboxIInv'
<1>1. HooksAreRecords BY DEF InboxIInv
<1>2. CASE List(h)
  <2>1. PICK todo : hook' = [hook EXCEPT ![h] = HookAt("read", todo)]
    BY <1>2 DEF List
  <2>2. Moved(h, "read", todo)
    BY <1>1, <2>1, ReplaceMoves DEF HookAt
  <2>3. UNCHANGED <<accepted, recorded, inbox>>
    BY <1>2 DEF List, store, files, history
  <2> QED
    BY <2>2, <2>3, SoundMove DEF InboxIInv, AcceptedNotLost, DeliveredParses
<1>3. CASE Read(h)
  <2>1. UNCHANGED <<accepted, recorded, inbox>>
    BY <1>3 DEF Read, store, files, history
  <2>2. /\ AcceptedNotLost' /\ accepted' \cap Malformed = {}
        /\ recorded \subseteq recorded' /\ inbox' \subseteq Batches
    BY <2>1 DEF InboxIInv, AcceptedNotLost, DeliveredParses
  <2>3. CASE Exit(h) \/ NextEntry(h)
    BY <1>1, <2>2, <2>3, ExitMoves, NextEntryMoves, SoundMove
  <2>4. CASE Current(h) \in Malformed /\ Goto(h, "quarantine")
    BY <1>1, <2>2, <2>4, GotoMoves, SoundMove DEF Current
  <2>5. CASE \E read, early : hook' = [hook EXCEPT ![h] =
               [at |-> "apply", todo |-> hook[h].todo, read |-> read, early |-> early,
                missed |-> {}]]
    <3>1. PICK read, early : hook' = [hook EXCEPT ![h] =
            [at |-> "apply", todo |-> hook[h].todo, read |-> read, early |-> early,
                missed |-> {}]]
      BY <2>5
    <3>2. Moved(h, "apply", hook[h].todo) BY <1>1, <3>1, ReplaceMoves
    <3> QED BY <2>2, <3>2, SoundMove
  <2> QED BY <1>3, <2>3, <2>4, <2>5 DEF Read, SetAside
<1>4. CASE Quarantine(h)
  <2>1. UNCHANGED <<accepted, recorded>> /\ inbox' \in {inbox, inbox \ {Current(h)}}
    BY <1>4 DEF Quarantine, store, history
  <2>2. Current(h) \notin accepted
    BY <1>4 DEF Quarantine, InboxIInv, SetAsideIsMalformed, DeliveredParses
  <2>3. /\ AcceptedNotLost' /\ accepted' \cap Malformed = {}
        /\ recorded \subseteq recorded' /\ inbox' \subseteq Batches
    BY <2>1, <2>2 DEF InboxIInv, AcceptedNotLost, DeliveredParses
  <2> QED BY <1>1, <1>4, <2>3, ExitMoves, NextEntryMoves, SoundMove DEF Quarantine
<1>5. CASE Apply(h)
  <2>1. UNCHANGED <<accepted, inbox>> /\ recorded \subseteq recorded'
    BY <1>5 DEF Apply, files
  <2>2. AcceptedNotLost' /\ accepted' \cap Malformed = {} /\ inbox' \subseteq Batches
    BY <2>1 DEF InboxIInv, AcceptedNotLost, DeliveredParses
  <2>3. CASE Current(h) \in recorded' /\ Goto(h, "remove")
    BY <1>1, <2>1, <2>2, <2>3, GotoMoves, SoundMove DEF Current
  <2>4. CASE NextEntry(h)
    BY <1>1, <2>1, <2>2, <2>4, NextEntryMoves, SoundMove
  <2> QED BY <1>5, <2>3, <2>4 DEF Apply, Defer
<1>6. CASE Remove(h)
  <2>1. UNCHANGED <<accepted, recorded>> /\ inbox' = inbox \ {Current(h)}
    BY <1>6 DEF Remove, store, history
  <2>2. Current(h) \in recorded
    BY <1>6 DEF Remove, InboxIInv, RemovedIsRecorded
  <2>3. /\ AcceptedNotLost' /\ accepted' \cap Malformed = {}
        /\ recorded \subseteq recorded' /\ inbox' \subseteq Batches
    BY <2>1, <2>2 DEF InboxIInv, AcceptedNotLost, DeliveredParses
  <2> QED BY <1>1, <1>6, <2>3, NextEntryMoves, SoundMove DEF Remove
<1> QED BY <1>2, <1>3, <1>4, <1>5, <1>6

\* Every step keeps the invariant.
LEMMA NextInboxIInv == InboxIInv /\ [Next]_vars => InboxIInv'
<1> SUFFICES ASSUME InboxIInv, [Next]_vars PROVE InboxIInv' OBVIOUS
<1>1. ASSUME NEW h \in Hooks, Steps(h) PROVE InboxIInv'
  BY <1>1, PersistStep, ReplayStep DEF Steps
<1>2. ASSUME NEW h \in Hooks, Busy(h) \/ Kill(h) PROVE InboxIInv'
  <2>1. UNCHANGED <<accepted, recorded, inbox>>
    BY <1>2 DEF Busy, Kill, store, files, history
  <2>2. /\ AcceptedNotLost' /\ accepted' \cap Malformed = {}
        /\ recorded \subseteq recorded' /\ inbox' \subseteq Batches
    BY <2>1 DEF InboxIInv, AcceptedNotLost, DeliveredParses
  <2> QED
    BY <1>2, <2>2, ExitMoves, NextEntryMoves, SoundMove DEF Busy, Kill, Defer, InboxIInv
<1>3. ASSUME NEW h \in Hooks, NEW b \in Batches, Rewrite(h, b) PROVE InboxIInv'
  <2>1. Moved(h, "check", <<b>>)
    BY <1>3, ReplaceMoves DEF Rewrite, HookAt, InboxIInv
  <2>2. UNCHANGED <<accepted, recorded, inbox>> /\ b \notin Malformed
    BY <1>3 DEF Rewrite, store, files, history
  <2>3. Head(<<b>>) = b OBVIOUS
  <2> QED
    BY <2>1, <2>2, <2>3, SoundMove DEF InboxIInv, AcceptedNotLost, DeliveredParses
<1>4. CASE UNCHANGED <<accepted, recorded, inbox>> /\ HooksAreRecords' /\ \A h \in Hooks : Stays(h)
  BY <1>4 DEF InboxIInv, AcceptedNotLost, RemovedIsRecorded, SetAsideIsMalformed,
       DeliveredParses, At, Current, Stays
<1>5. ASSUME NEW t \in Thoughts, NEW c \in Commits, Link(t, c)
      PROVE  UNCHANGED <<accepted, recorded, inbox>> /\ HooksAreRecords' /\ \A h \in Hooks : Stays(h)
  BY <1>5, LinkMarks DEF Link, files, InboxIInv
<1>6. ASSUME \/ \E b \in Batches : Age(b)
             \/ \E t \in Thoughts : Delete(t)
             \/ \E t \in Thoughts, d \in Destinations : Share(t, d) \/ Unshare(t, d)
             \/ \E c \in Commits : Prune(c)
             \/ UNCHANGED vars
      PROVE  UNCHANGED <<accepted, recorded, inbox>> /\ HooksAreRecords' /\ \A h \in Hooks : Stays(h)
  <2>1. UNCHANGED <<accepted, recorded, inbox, hook>>
    BY <1>6 DEF Age, Delete, Share, Unshare, Prune, vars, store, files, history
  <2> QED BY <2>1 DEF InboxIInv, HooksAreRecords, Stays
<1> QED BY <1>1, <1>2, <1>3, <1>4, <1>5, <1>6 DEF Next

\* A rewrite the hook accepted is never lost: until it is recorded as applied
\* its file is in the inbox, whichever hooks were killed, deferred or raced.
THEOREM NoRewriteLost == Spec => []AcceptedNotLost
<1>1. InboxIInv => AcceptedNotLost BY DEF InboxIInv
<1> QED BY <1>1, InitInboxIInv, NextInboxIInv, PTL DEF Spec
-----------------------------------------------------------------------------
(* Events and their sources                                                *)

\* The paths a thought has, of its links and of its events.
PathsOf(t) == {<<c>> : c \in links[t]} \cup {e.path : e \in derived[t]}

SourcesTyped ==
    /\ links \in [Thoughts -> SUBSET Commits]
    /\ shares \in [Thoughts -> SUBSET Destinations]
    /\ derived \in [Thoughts -> SUBSET Source]

\* Every event prolongs a path its thought has, and what was deleted has none.
EventsCite ==
    \A t \in Thoughts : \A e \in derived[t] :
        /\ e.path # <<>>
        /\ \E p \in PathsOf(t), c \in Commits : e.path = Append(p, c)
DeletedHasNone ==
    \A t \in Thoughts \ alive : links[t] = {} /\ derived[t] = {}

\* What a hook has read names commits Git was given.
ReadsTyped ==
    \A h \in Hooks, t \in Thoughts : \A x \in hook[h].read[t] : x.new \in Commits

SourceIInv == SourcesTyped /\ EventsCite /\ DeletedHasNone /\ ReadsTyped

\* The last commit of a path that was prolonged, and what it prolongs.
LEMMA AppendFacts ==
    ASSUME NEW p \in Seq(Commits), NEW c \in Commits
    PROVE  /\ Append(p, c) \in Seq(Commits) /\ Append(p, c) # <<>>
           /\ Append(p, c)[Len(Append(p, c))] = c
           /\ SubSeq(Append(p, c), 1, Len(Append(p, c)) - 1) = p
OBVIOUS

\* A path a thought has is one of a source, at the commit where it ends.
LEMMA PathIsSource ==
    ASSUME SourceIInv, NEW t \in Thoughts, NEW p \in PathsOf(t)
    PROVE  /\ p \in Seq(Commits) /\ p # <<>> /\ p[Len(p)] \in Commits
           /\ \E s \in Sources(t, p[Len(p)]) : s.path = p
<1>1. CASE \E c \in links[t] : p = <<c>>
  <2>1. PICK c \in links[t] : p = <<c>> BY <1>1
  <2>2. c \in Commits BY DEF SourceIInv, SourcesTyped
  <2>3. p \in Seq(Commits) /\ p # <<>> /\ p[Len(p)] = c BY <2>1, <2>2
  <2>4. [path |-> <<c>>, auth |-> shares[t]] \in Sources(t, c) BY DEF Sources
  <2> QED BY <2>1, <2>2, <2>3, <2>4
<1>2. CASE \E e \in derived[t] : p = e.path
  <2>1. PICK e \in derived[t] : p = e.path BY <1>2
  <2>2. p \in Seq(Commits) BY <2>1 DEF SourceIInv, SourcesTyped, Source
  <2>3. p # <<>> BY <2>1 DEF SourceIInv, EventsCite
  <2>4. e \in Sources(t, p[Len(p)]) BY <2>1 DEF Sources, Endpoint
  <2>5. p[Len(p)] \in Commits BY <2>2, <2>3
  <2> QED BY <2>1, <2>2, <2>3, <2>4, <2>5
<1> QED BY <1>1, <1>2 DEF PathsOf

\* A source is typed, its path is one the thought has, and its thought is there.
LEMMA SourceIsPath ==
    ASSUME SourceIInv, NEW t \in Thoughts, NEW c, NEW s \in Sources(t, c)
    PROVE  s \in Source /\ s.path \in PathsOf(t) /\ t \in alive
<1>1. CASE s \in derived[t]
  BY <1>1 DEF SourceIInv, SourcesTyped, DeletedHasNone, PathsOf
<1>2. CASE \E x \in links[t] : s = [path |-> <<x>>, auth |-> shares[t]]
  BY <1>2 DEF SourceIInv, SourcesTyped, DeletedHasNone, PathsOf, Source
<1> QED BY <1>1, <1>2 DEF Sources

\* With that, an event never outlives or precedes what it cites.
LEMMA CitesArePresent == ASSUME SourceIInv PROVE SourcesPresent
<1> SUFFICES ASSUME NEW t \in Thoughts, NEW e \in derived[t]
             PROVE  /\ t \in alive
                    /\ LET before == SubSeq(e.path, 1, Len(e.path) - 1) IN
                       \E s \in Sources(t, before[Len(before)]) : s.path = before
    BY DEF SourcesPresent
<1>1. PICK p \in PathsOf(t), c \in Commits : e.path = Append(p, c)
  BY DEF SourceIInv, EventsCite
<1>2. p \in Seq(Commits) /\ \E s \in Sources(t, p[Len(p)]) : s.path = p
  BY PathIsSource
<1>3. SubSeq(e.path, 1, Len(e.path) - 1) = p
  BY <1>1, <1>2, AppendFacts
<1>4. t \in alive BY DEF SourceIInv, DeletedHasNone
<1> QED BY <1>2, <1>3, <1>4

\* A merge keeps the paths of both sides, and what it authorizes one of them does.
Joins(old, new, all) ==
    /\ all \subseteq Source
    /\ \A e \in old \cup new : \E f \in all : f.path = e.path
    /\ \A e \in all :
         /\ \E f \in old \cup new : f.path = e.path
         /\ \A d \in e.auth : \E f \in old \cup new : f.path = e.path /\ d \in f.auth
LEMMA MergeFacts == \A old, new \in SUBSET Source : Joins(old, new, Merge(old, new))
<1> TAKE old, new \in SUBSET Source
<1> DEFINE both == old \cup new
           event(p) == [path |-> p, auth |-> UNION {e.auth : e \in {x \in both : x.path = p}}]
<1>1. ASSUME NEW e \in Merge(old, new)
      PROVE  \E f \in both : e = event(f.path)
  BY <1>1 DEF Merge
<1>2. ASSUME NEW f \in both PROVE event(f.path) \in Merge(old, new)
  BY <1>2 DEF Merge
<1>3. ASSUME NEW f \in both PROVE event(f.path) \in Source
  <2>1. f.path \in Seq(Commits) BY <1>3 DEF Source
  <2>2. \A e \in {x \in both : x.path = f.path} : e.auth \subseteq Destinations BY DEF Source
  <2>3. UNION {e.auth : e \in {x \in both : x.path = f.path}} \subseteq Destinations BY <2>2
  <2> QED BY <2>1, <2>3 DEF Source
<1>4. ASSUME NEW f \in both, NEW d \in event(f.path).auth
      PROVE  \E g \in both : g.path = f.path /\ d \in g.auth
  BY <1>4
<1>5. Merge(old, new) \subseteq Source BY <1>1, <1>3
<1>6. \A e \in both : \E f \in Merge(old, new) : f.path = e.path BY <1>2
<1>7. ASSUME NEW e \in Merge(old, new)
      PROVE  /\ \E f \in both : f.path = e.path
             /\ \A d \in e.auth : \E f \in both : f.path = e.path /\ d \in f.auth
  BY <1>1, <1>4, <1>7
<1> HIDE DEF both
<1> QED BY <1>5, <1>6, <1>7 DEF both, Joins

\* What a hook that applies a batch adds: events that prolong the thought's paths,
\* each with the authority of a source as it is now.
LEMMA AppliedEvents ==
    ASSUME SourceIInv, NEW h \in Hooks, Unchanged(hook[h].read), NEW t \in Thoughts,
           NEW x \in hook[h].read[t]
    PROVE  /\ EventOf(x) \in Source
           /\ EventOf(x).path # <<>> /\ Endpoint(EventOf(x)) = x.new
           /\ EventOf(x).path = Append(x.source.path, x.new) /\ x.new \in Commits
           /\ x.source \in Sources(t, Endpoint(x.source)) /\ Endpoint(x.source) \in Commits
           /\ x.source.path \in PathsOf(t) /\ t \in alive
           /\ EventOf(x).auth = x.source.auth
<1>1. x.source \in Sources(t, Endpoint(x.source)) /\ x.new \in Commits
  BY DEF Unchanged, SourceIInv, ReadsTyped
<1>2. x.source \in Source /\ x.source.path \in PathsOf(t) /\ t \in alive
  BY <1>1, SourceIsPath
<1>3. x.source.path \in Seq(Commits) /\ Endpoint(x.source) \in Commits
  BY <1>2, PathIsSource DEF Endpoint
<1>4. Append(x.source.path, x.new) \in Seq(Commits) /\ x.source.auth \subseteq Destinations
  BY <1>1, <1>2, <1>3, AppendFacts DEF Source
<1>5. EventOf(x).path = Append(x.source.path, x.new) /\ EventOf(x).auth = x.source.auth
  BY DEF EventOf
<1>6. EventOf(x) \in Source BY <1>4 DEF EventOf, Source
<1>7. EventOf(x).path # <<>> /\ Endpoint(EventOf(x)) = x.new
  BY <1>1, <1>3, <1>5, AppendFacts DEF Endpoint
<1> QED BY <1>1, <1>2, <1>3, <1>5, <1>6, <1>7

\* The events of a thought once a batch is applied, from those it had and those added.
Added(h, t) == {EventOf(x) : x \in hook[h].read[t]}
Merges(h) ==
    /\ Unchanged(hook[h].read)
    /\ derived' = [t \in Thoughts |-> Merge(derived[t], Added(h, t))]
LEMMA AppliedMerge ==
    ASSUME SourceIInv, NEW h \in Hooks, Merges(h), NEW t \in Thoughts
    PROVE  Joins(derived[t], Added(h, t), derived'[t])
<1>1. derived[t] \in SUBSET Source BY DEF SourceIInv, SourcesTyped
<1>2. Added(h, t) \in SUBSET Source BY AppliedEvents DEF Merges, Added
<1>3. derived'[t] = Merge(derived[t], Added(h, t)) BY DEF Merges
<1> QED BY <1>1, <1>2, <1>3, MergeFacts

\* Applying a batch keeps events on paths the thought has.
LEMMA MergeCites ==
    ASSUME SourceIInv, NEW h \in Hooks, Merges(h), UNCHANGED <<links, shares, alive>>
    PROVE  SourcesTyped' /\ EventsCite' /\ DeletedHasNone'
<1>1. SourcesTyped'
  <2>1. \A t \in Thoughts : derived'[t] \in SUBSET Source BY AppliedMerge DEF Joins
  <2>2. derived' \in [Thoughts -> SUBSET Source] BY <2>1 DEF Merges
  <2> QED BY <2>2 DEF SourceIInv, SourcesTyped
<1>2. ASSUME NEW t \in Thoughts PROVE PathsOf(t) \subseteq PathsOf(t)'
  <2>1. \A e \in derived[t] : \E f \in derived'[t] : f.path = e.path
    BY AppliedMerge DEF Joins
  <2> QED BY <2>1 DEF PathsOf
<1>3. ASSUME NEW t \in Thoughts, NEW f \in derived[t] \cup Added(h, t)
      PROVE  f.path # <<>> /\ \E p \in PathsOf(t), c \in Commits : f.path = Append(p, c)
  <2>1. CASE f \in derived[t] BY <2>1 DEF SourceIInv, EventsCite
  <2>2. CASE \E x \in hook[h].read[t] : f = EventOf(x)
    BY <2>2, AppliedEvents DEF Merges
  <2> QED BY <1>3, <2>1, <2>2 DEF Added
<1>4. EventsCite'
  <2> SUFFICES ASSUME NEW t \in Thoughts, NEW e \in derived'[t]
               PROVE  /\ e.path # <<>>
                      /\ \E p \in PathsOf(t)', c \in Commits : e.path = Append(p, c)
    BY DEF EventsCite
  <2>1. PICK f \in derived[t] \cup Added(h, t) : f.path = e.path
    BY AppliedMerge DEF Joins
  <2> QED BY <1>2, <1>3, <2>1
<1>5. DeletedHasNone'
  <2> SUFFICES ASSUME NEW t \in Thoughts \ alive PROVE derived'[t] = {}
    BY DEF DeletedHasNone, SourceIInv
  <2>1. derived[t] = {} BY DEF SourceIInv, DeletedHasNone
  <2>2. Added(h, t) = {} BY AppliedEvents DEF Merges, Added
  <2>3. \A e \in derived'[t] : \E f \in derived[t] \cup Added(h, t) : f.path = e.path
    BY AppliedMerge DEF Joins
  <2> QED BY <2>1, <2>2, <2>3
<1> QED BY <1>1, <1>4, <1>5

\* What a hook reads names new commits of its pairs.
LEMMA SnapshotNames ==
    ASSUME NEW b \in Batches, NEW t \in Thoughts, NEW x \in Snapshot(b)[t]
    PROVE  x.new \in Commits
<1>1. PICK pair \in PairsOf[b] : x \in {[source |-> s, new |-> pair[2]] : s \in Sources(t, pair[1])}
  BY DEF Snapshot
<1>2. pair \in Commits \X Commits BY <1>1, ConstantsOK
<1> QED BY <1>1, <1>2

\* A step of hook h leaves the other hooks, and reads nothing or the sources of a batch.
ReadsKept(h) ==
    /\ \A g \in Hooks \ {h} : hook'[g] = hook[g]
    /\ \/ hook'[h].read = hook[h].read
       \/ hook'[h].read = Unread
       \/ \E b \in Batches : hook'[h].read = Snapshot(b)
LEMMA ReadsKeptTyped ==
    ASSUME ReadsTyped, NEW h \in Hooks, ReadsKept(h) PROVE ReadsTyped'
<1> SUFFICES ASSUME NEW g \in Hooks, NEW t \in Thoughts, NEW x \in hook'[g].read[t]
             PROVE  x.new \in Commits
  BY DEF ReadsTyped
<1>1. CASE hook'[g].read = hook[g].read BY <1>1 DEF ReadsTyped
<1>2. CASE hook'[g].read = Unread BY <1>2 DEF Unread
<1>3. CASE \E b \in Batches : hook'[g].read = Snapshot(b) BY <1>3, SnapshotNames
<1> QED BY <1>1, <1>2, <1>3 DEF ReadsKept

LEMMA GotoReads ==
    ASSUME HooksAreRecords, NEW h \in Hooks, NEW stage, Goto(h, stage)
    PROVE  ReadsKept(h)
BY DEF HooksAreRecords, Goto, ReadsKept

LEMMA PlaceReads ==
    ASSUME HooksAreRecords, NEW h \in Hooks, NEW at, NEW todo, NEW read, NEW early,
           hook' = [hook EXCEPT ![h] = [at |-> at, todo |-> todo, read |-> read,
                                        early |-> early, missed |-> {}]],
           read = Unread \/ \E b \in Batches : read = Snapshot(b)
    PROVE  ReadsKept(h)
BY DEF HooksAreRecords, ReadsKept

LEMMA AnewReads ==
    ASSUME HooksAreRecords, NEW h \in Hooks, NEW at, NEW todo,
           hook' = [hook EXCEPT ![h] = HookAt(at, todo)]
    PROVE  ReadsKept(h)
BY PlaceReads DEF HookAt

LEMMA HookReads ==
    ASSUME InboxIInv, NEW h \in Hooks,
           \/ Steps(h) \/ Busy(h) \/ Kill(h) \/ \E b \in Batches : Rewrite(h, b)
    PROVE  ReadsKept(h)
<1>1. HooksAreRecords /\ inbox \subseteq Batches BY DEF InboxIInv
<1>2. CASE \E stage \in Stage : Goto(h, stage) BY <1>1, <1>2, GotoReads
<1>3. CASE \E at, todo : hook' = [hook EXCEPT ![h] = HookAt(at, todo)]
  BY <1>1, <1>3, AnewReads
<1>4. CASE NextEntry(h) \/ Exit(h) BY <1>3, <1>4 DEF NextEntry, Exit, IdleHook
<1>5. CASE Read(h)
  <2>1. CASE SetAside(h) BY <1>2, <2>1 DEF SetAside, Stage
  <2>2. CASE Current(h) \in inbox /\ hook' = [hook EXCEPT ![h] =
               [at |-> "apply", todo |-> hook[h].todo,
                read |-> Snapshot(Current(h)), early |-> FollowsOnWaiting(Current(h)),
                missed |-> {}]]
    BY <1>1, <2>2, PlaceReads
  <2> QED BY <1>4, <1>5, <2>1, <2>2 DEF Read
<1>6. CASE Check(h) \/ Reserve(h) \/ Publish(h) \/ List(h) \/ Quarantine(h) \/ Apply(h) \/ Remove(h)
  BY <1>2, <1>3, <1>4, <1>6
     DEF Check, Reserve, Publish, List, Quarantine, Apply, Remove, Defer, Stage
<1>7. CASE Busy(h) \/ Kill(h) BY <1>4, <1>7 DEF Busy, Kill, Defer
<1>8. CASE \E b \in Batches : Rewrite(h, b) BY <1>3, <1>8 DEF Rewrite
<1> QED BY <1>5, <1>6, <1>7, <1>8 DEF Steps

\* The choices of the user keep events on paths their thoughts have.
LEMMA ChoicesCite ==
    ASSUME SourceIInv, NEW t \in Thoughts,
           \/ Delete(t)
           \/ \E c \in Commits : Link(t, c)
           \/ \E d \in Destinations : Share(t, d) \/ Unshare(t, d)
    PROVE  SourcesTyped' /\ EventsCite' /\ DeletedHasNone'
<1>1. CASE Delete(t)
  <2>1. /\ derived' = [derived EXCEPT ![t] = {}] /\ links' = [links EXCEPT ![t] = {}]
        /\ shares' = [shares EXCEPT ![t] = {}] /\ alive' = alive \ {t}
    BY <1>1 DEF Delete
  <2>2. SourcesTyped' /\ DeletedHasNone'
    BY <2>1 DEF SourceIInv, SourcesTyped, DeletedHasNone
  <2>3. \A u \in Thoughts \ {t} : PathsOf(u)' = PathsOf(u) /\ derived'[u] = derived[u]
    BY <2>1 DEF PathsOf, SourceIInv, SourcesTyped
  <2>4. derived'[t] = {} BY <2>1 DEF SourceIInv, SourcesTyped
  <2> QED BY <2>2, <2>3, <2>4 DEF SourceIInv, EventsCite
<1>2. CASE \E c \in Commits : Link(t, c)
  <2>1. PICK c \in Commits : Link(t, c) BY <1>2
  <2>2. /\ links' = [links EXCEPT ![t] = @ \cup {c}] /\ t \in alive
        /\ UNCHANGED <<derived, shares, alive>>
    BY <2>1 DEF Link
  <2>3. SourcesTyped' /\ DeletedHasNone'
    BY <2>2 DEF SourceIInv, SourcesTyped, DeletedHasNone
  <2>4. \A u \in Thoughts : links[u] \subseteq links'[u]
    BY <2>2 DEF SourceIInv, SourcesTyped
  <2>5. \A u \in Thoughts : PathsOf(u) \subseteq PathsOf(u)' /\ derived'[u] = derived[u]
    BY <2>2, <2>4 DEF PathsOf
  <2> QED BY <2>3, <2>5 DEF SourceIInv, EventsCite
<1>3. CASE \E d \in Destinations : Share(t, d) \/ Unshare(t, d)
  <2>1. PICK d \in Destinations : Share(t, d) \/ Unshare(t, d) BY <1>3
  <2>2. /\ shares' \in {[shares EXCEPT ![t] = @ \cup {d}], [shares EXCEPT ![t] = @ \ {d}]}
        /\ UNCHANGED <<derived, links, alive>>
    BY <2>1 DEF Share, Unshare
  <2> QED BY <2>2 DEF SourceIInv, SourcesTyped, DeletedHasNone, EventsCite, PathsOf
<1> QED BY <1>1, <1>2, <1>3

\* The steps that are not of a hook applying its batch leave the store.
LEMMA ApplyIsMerge ==
    ASSUME NEW h \in Hooks, Steps(h)
    PROVE  UNCHANGED store \/ (Merges(h) /\ UNCHANGED <<links, shares, alive>>)
<1>1. CASE Apply(h) BY <1>1 DEF Apply, Merges, Added, store
<1>2. CASE ~Apply(h)
  BY <1>2 DEF Steps, Check, Reserve, Publish, List, Read, Quarantine, Remove, store
<1> QED BY <1>1, <1>2

LEMMA StoreKept ==
    ASSUME SourceIInv, UNCHANGED store
    PROVE  SourcesTyped' /\ EventsCite' /\ DeletedHasNone'
BY DEF store, SourceIInv, SourcesTyped, EventsCite, DeletedHasNone, PathsOf

LEMMA InitSourceIInv == Init => SourceIInv
BY DEF Init, SourceIInv, SourcesTyped, EventsCite, DeletedHasNone, ReadsTyped, IdleHook,
       HookAt, Unread

\* Every step keeps the invariant.
LEMMA NextSourceIInv == InboxIInv /\ SourceIInv /\ [Next]_vars => SourceIInv'
<1> SUFFICES ASSUME InboxIInv, SourceIInv, [Next]_vars PROVE SourceIInv' OBVIOUS
<1>1. ASSUME NEW h \in Hooks, Steps(h) PROVE SourceIInv'
  <2>1. ReadsTyped' BY <1>1, HookReads, ReadsKeptTyped DEF SourceIInv
  <2>2. SourcesTyped' /\ EventsCite' /\ DeletedHasNone'
    BY <1>1, ApplyIsMerge, StoreKept, MergeCites
  <2> QED BY <2>1, <2>2 DEF SourceIInv
<1>2. ASSUME NEW h \in Hooks, Busy(h) \/ Kill(h) \/ \E b \in Batches : Rewrite(h, b)
      PROVE  SourceIInv'
  <2>1. ReadsTyped' BY <1>2, HookReads, ReadsKeptTyped DEF SourceIInv
  <2>2. UNCHANGED store BY <1>2 DEF Busy, Kill, Rewrite, store
  <2> QED BY <2>1, <2>2, StoreKept DEF SourceIInv
<1>3. ASSUME NEW t \in Thoughts,
             \/ Delete(t)
             \/ \E c \in Commits : Link(t, c)
             \/ \E d \in Destinations : Share(t, d) \/ Unshare(t, d)
      PROVE  SourceIInv'
  <2>1. \A h \in Hooks : hook'[h].read = hook[h].read
    BY <1>3, LinkMarks DEF Delete, Link, Share, Unshare, InboxIInv, Stays
  <2>2. ReadsTyped' BY <2>1 DEF SourceIInv, ReadsTyped
  <2> QED BY <1>3, <2>2, ChoicesCite DEF SourceIInv
<1>4. CASE \/ \E b \in Batches : Age(b)
           \/ \E c \in Commits : Prune(c)
           \/ UNCHANGED vars
  <2>1. UNCHANGED <<store, hook>> BY <1>4 DEF Age, Prune, vars, store
  <2>2. ReadsTyped' BY <2>1 DEF SourceIInv, ReadsTyped
  <2> QED BY <2>1, <2>2, StoreKept DEF SourceIInv
<1> QED BY <1>1, <1>2, <1>3, <1>4 DEF Next

\* An event never outlives or precedes what it cites: its thought is in the store
\* and so is its source, whatever a deletion or another hook does between the
\* reading of the sources and the writing of the events.
THEOREM SourcesArePresent == Spec => []SourcesPresent
<1>1. SourceIInv => SourcesPresent BY CitesArePresent
<1> QED BY <1>1, InitInboxIInv, NextInboxIInv, InitSourceIInv, NextSourceIInv, PTL DEF Spec

\* A step that writes authorizations takes each from the event as it was or from
\* the source as it is.
Inherits ==
    \A t \in Thoughts : \A e \in derived'[t] : \A d \in e.auth :
        \/ \E old \in derived[t] : old.path = e.path /\ d \in old.auth
        \/ \E c \in Commits : \E s \in Sources(t, c) :
              /\ e.path = Append(s.path, Endpoint(e))
              /\ d \in s.auth
LEMMA StepInherits == InboxIInv /\ SourceIInv /\ [Next]_vars => Inherits
<1> SUFFICES ASSUME InboxIInv, SourceIInv, [Next]_vars, NEW t \in Thoughts,
                    NEW e \in derived'[t], NEW d \in e.auth
             PROVE  \/ \E old \in derived[t] : old.path = e.path /\ d \in old.auth
                    \/ \E c \in Commits : \E s \in Sources(t, c) :
                          /\ e.path = Append(s.path, Endpoint(e))
                          /\ d \in s.auth
  BY DEF Inherits
<1>1. CASE derived'[t] \subseteq derived[t] BY <1>1
<1>2. ASSUME NEW h \in Hooks, Merges(h)
      PROVE  \/ \E old \in derived[t] : old.path = e.path /\ d \in old.auth
             \/ \E c \in Commits : \E s \in Sources(t, c) :
                   /\ e.path = Append(s.path, Endpoint(e))
                   /\ d \in s.auth
  <2>1. PICK f \in derived[t] \cup Added(h, t) : f.path = e.path /\ d \in f.auth
    BY <1>2, AppliedMerge DEF Joins
  <2>2. CASE f \in derived[t] BY <2>1, <2>2
  <2>3. CASE f \in Added(h, t)
    <3>1. PICK x \in hook[h].read[t] : f = EventOf(x) BY <2>3 DEF Added
    <3>2. /\ Endpoint(f) = x.new /\ f.path = Append(x.source.path, x.new)
          /\ x.source \in Sources(t, Endpoint(x.source)) /\ Endpoint(x.source) \in Commits
          /\ f.auth = x.source.auth
      BY <1>2, <3>1, AppliedEvents DEF Merges
    <3>3. Endpoint(e) = x.new BY <2>1, <3>2 DEF Endpoint
    <3> QED BY <2>1, <3>2, <3>3
  <2> QED BY <2>1, <2>2, <2>3
<1>3. CASE \E h \in Hooks : Steps(h)
  BY <1>1, <1>2, <1>3, ApplyIsMerge DEF store
<1>4. CASE \E u \in Thoughts : Delete(u)
  BY <1>1, <1>4 DEF Delete, SourceIInv, SourcesTyped
<1>5. CASE UNCHANGED derived BY <1>1, <1>5
<1>6. CASE \/ \E h \in Hooks : Busy(h) \/ Kill(h)
           \/ \E h \in Hooks, b \in Batches : Rewrite(h, b)
           \/ \E b \in Batches : Age(b)
           \/ \E u \in Thoughts, c \in Commits : Link(u, c)
           \/ \E u \in Thoughts, g \in Destinations : Share(u, g) \/ Unshare(u, g)
           \/ \E c \in Commits : Prune(c)
           \/ UNCHANGED vars
  <2>1. UNCHANGED derived
    BY <1>6 DEF Busy, Kill, Rewrite, Age, Link, Share, Unshare, Prune, vars, store
  <2> QED BY <1>5, <2>1
<1> QED BY <1>3, <1>4, <1>6 DEF Next

\* Destination authority is inherited from the source as it is when the event is
\* written: what an unshare took away between reading and writing stays away.
THEOREM AuthorityInherited == Spec => AuthorityFromSource
<1>1. InboxIInv /\ SourceIInv /\ [Next]_vars => [Inherits]_vars BY StepInherits
<1>2. [][Inherits]_vars <=> AuthorityFromSource BY DEF Inherits, AuthorityFromSource
<1> QED
  BY <1>1, <1>2, InitInboxIInv, NextInboxIInv, InitSourceIInv, NextSourceIInv, PTL DEF Spec
-----------------------------------------------------------------------------
(* Thoughts follow their commits                                           *)

\* A rewrite makes commits that were not there and that no other makes: Git names
\* them by what they contain, their parents and their date.
ResultsAreNew ==
    /\ \A b \in Batches : NewOf(b) \cap (Born \cup OldOf(b)) = {}
    /\ \A a, b \in Batches : NewOf(a) \cap NewOf(b) # {} => a = b

\* Batch b rewrites what batch a made.
Precedes(a, b) == NewOf(a) \cap OldOf(b) # {}

\* Git made what a batch rewrites before it rewrote it, and what hooks handle
\* and the store records are rewrites Git did.
DoneByGit ==
    /\ rewritten \subseteq Batches
    /\ commits \subseteq Born \cup UNION {NewOf(b) : b \in rewritten}
    /\ \A b \in rewritten, a \in Batches : Precedes(a, b) => a \in rewritten
    /\ inbox \ Malformed \subseteq rewritten
    /\ recorded \subseteq rewritten
    /\ \A h \in Hooks : hook[h].at \in {"check", "reserve", "publish", "apply"}
           => Current(h) \in rewritten

\* All that batch b follows on is recorded.
Settled(b) == \A a \in Batches : Precedes(a, b) => a \in recorded

\* What a hook read that is about to apply a batch it did not read too early: for
\* each old commit that a thought explains, there is something to derive, but for
\* the thoughts that were linked to one since.
ReadWhole(h) ==
    /\ \A t \in Thoughts : \A x \in hook[h].read[t] : x.new \in NewOf(Current(h))
    /\ ~hook[h].early =>
         /\ Settled(Current(h))
         /\ \A t \in Thoughts \ hook[h].missed : \A pair \in PairsOf[Current(h)] :
               Explains(t, pair[1]) => \E x \in hook[h].read[t] : x.new = pair[2]

FollowInv ==
    /\ ResultsAreNew
    /\ DoneByGit
    /\ \A b \in recorded \ late : Settled(b)
    /\ \A h \in Hooks : At(h, "apply") => ReadWhole(h)
    /\ FollowsRewrites

\* A hook that has a sound move handles what Git did.
LEMMA HandledMove ==
    ASSUME DoneByGit, NEW h \in Hooks, NEW at, NEW todo, Moved(h, at, todo),
           at \in {"check", "reserve", "publish", "apply"} => Head(todo) \in rewritten',
           rewritten \subseteq rewritten'
    PROVE  \A g \in Hooks : hook'[g].at \in {"check", "reserve", "publish", "apply"}
               => Head(hook'[g].todo) \in rewritten'
BY DEF Moved, DoneByGit, Current

\* What Git has done, the inbox and the records stay in step.
LEMMA HookKeepsDone ==
    ASSUME InboxIInv, DoneByGit, NEW h \in Hooks, Steps(h) \/ Busy(h) \/ Kill(h)
    PROVE  DoneByGit'
<1>1. HooksAreRecords /\ UNCHANGED <<rewritten, commits>>
  BY DEF InboxIInv, Steps, Check, Reserve, Publish, List, Read, Quarantine, Apply, Remove,
         Busy, Kill, world
<1>2. \A g \in Hooks : hook'[g].at \in {"check", "reserve", "publish", "apply"}
          => Head(hook'[g].todo) \in rewritten'
  <2>1. CASE \E stage \in {"list", "reserve", "publish"} :
                 Goto(h, stage) /\ (Check(h) \/ Reserve(h) \/ Publish(h))
    <3>1. Head(hook[h].todo) \in rewritten
      BY <2>1 DEF DoneByGit, Check, Reserve, Publish, At, Current
    <3> QED BY <1>1, <2>1, <3>1, GotoMoves, HandledMove
  <2>2. CASE \E stage \in {"remove", "quarantine"} : Goto(h, stage)
    BY <1>1, <2>2, GotoMoves, HandledMove
  <2>3. CASE NextEntry(h) \/ Exit(h)
    BY <1>1, <2>3, NextEntryMoves, ExitMoves, HandledMove
  <2>4. CASE \E todo : hook' = [hook EXCEPT ![h] = HookAt("read", todo)]
    <3>1. PICK todo : hook' = [hook EXCEPT ![h] = HookAt("read", todo)]
      BY <2>4
    <3>2. Moved(h, "read", todo)
      BY <1>1, <3>1, ReplaceMoves DEF HookAt
    <3> QED BY <1>1, <3>2, HandledMove
  <2>5. CASE /\ Current(h) \in inbox \ Malformed
             /\ \E read, early : hook' = [hook EXCEPT ![h] =
                    [at |-> "apply", todo |-> hook[h].todo, read |-> read, early |-> early,
                missed |-> {}]]
    <3>1. PICK read, early : hook' = [hook EXCEPT ![h] =
            [at |-> "apply", todo |-> hook[h].todo, read |-> read, early |-> early,
                missed |-> {}]]
      BY <2>5
    <3>2. Moved(h, "apply", hook[h].todo)
      BY <1>1, <3>1, ReplaceMoves
    <3>3. Head(hook[h].todo) \in rewritten
      BY <2>5 DEF DoneByGit, Current
    <3> QED BY <1>1, <3>2, <3>3, HandledMove
  <2>6. CASE Check(h) \/ Reserve(h) \/ Publish(h)
    BY <2>6, <2>1, <2>3 DEF Check, Reserve, Publish
  <2>7. CASE List(h)
    BY <2>7, <2>4 DEF List
  <2>8. CASE Read(h)
    BY <2>8, <2>2, <2>3, <2>5 DEF Read, SetAside
  <2>9. CASE Quarantine(h) \/ Apply(h) \/ Remove(h) \/ Busy(h) \/ Kill(h)
    BY <2>9, <2>2, <2>3 DEF Quarantine, Apply, Remove, Busy, Kill, Defer
  <2> QED BY <2>6, <2>7, <2>8, <2>9 DEF Steps
<1>3. inbox' \ Malformed \subseteq rewritten'
  <2>1. CASE Publish(h)
    BY <2>1, <1>1 DEF Publish, DoneByGit, At
  <2>2. CASE ~Publish(h)
    <3>1. inbox' \subseteq inbox
      BY <2>2 DEF Steps, Check, Reserve, List, Read, Quarantine, Apply, Remove, Busy, Kill, files
    <3> QED BY <3>1, <1>1 DEF DoneByGit
  <2> QED BY <2>1, <2>2
<1>4. recorded' \subseteq rewritten'
  <2>1. CASE Apply(h)
    BY <2>1, <1>1 DEF Apply, DoneByGit, At
  <2>2. CASE ~Apply(h)
    <3>1. recorded' = recorded
      BY <2>2 DEF Steps, Check, Reserve, Publish, List, Read, Quarantine, Remove, Busy, Kill, store
    <3> QED BY <3>1, <1>1 DEF DoneByGit
  <2> QED BY <2>1, <2>2
<1> QED BY <1>1, <1>2, <1>3, <1>4 DEF DoneByGit, Current, Precedes

\* A rewrite works on commits that are there, all made by rewrites before it.
LEMMA RewriteKeepsDone ==
    ASSUME InboxIInv, ResultsAreNew, DoneByGit, NEW h \in Hooks, NEW b \in Batches, Rewrite(h, b)
    PROVE  DoneByGit'
<1>1. /\ OldOf(b) \subseteq commits /\ commits' = commits \cup NewOf(b)
      /\ rewritten' = rewritten \cup {b} /\ UNCHANGED <<inbox, recorded>>
  BY DEF Rewrite, store, files
<1>2. \A g \in Hooks : hook'[g].at \in {"check", "reserve", "publish", "apply"}
          => Head(hook'[g].todo) \in rewritten'
  <2>1. Moved(h, "check", <<b>>)
    BY ReplaceMoves DEF Rewrite, HookAt, InboxIInv
  <2>2. Head(<<b>>) = b
    OBVIOUS
  <2> QED BY <1>1, <2>1, <2>2, HandledMove
<1>3. commits' \subseteq Born \cup UNION {NewOf(x) : x \in rewritten'}
  <2>1. UNION {NewOf(x) : x \in rewritten} \subseteq UNION {NewOf(x) : x \in rewritten'}
    BY <1>1
  <2>2. NewOf(b) \subseteq UNION {NewOf(x) : x \in rewritten'}
    BY <1>1
  <2> QED BY <1>1, <2>1, <2>2 DEF DoneByGit
<1>4. ASSUME NEW a \in Batches, Precedes(a, b)
      PROVE  a \in rewritten
  <2>1. PICK c : c \in NewOf(a) /\ c \in OldOf(b)
    BY <1>4 DEF Precedes
  <2>2. c \notin Born
    BY <2>1 DEF ResultsAreNew
  <2>3. PICK x \in rewritten : c \in NewOf(x)
    BY <1>1, <2>1, <2>2 DEF DoneByGit
  <2>4. x \in Batches /\ NewOf(a) \cap NewOf(x) # {}
    BY <2>1, <2>3 DEF DoneByGit
  <2> QED BY <2>3, <2>4 DEF ResultsAreNew
<1>5. \A x \in rewritten', a \in Batches : Precedes(a, x) => a \in rewritten'
  BY <1>1, <1>4 DEF DoneByGit
<1> QED BY <1>1, <1>2, <1>3, <1>5 DEF DoneByGit, Current, Precedes

LEMMA NextKeepsDone == InboxIInv /\ ResultsAreNew /\ DoneByGit /\ [Next]_vars => DoneByGit'
<1> SUFFICES ASSUME InboxIInv, ResultsAreNew, DoneByGit, [Next]_vars PROVE DoneByGit' OBVIOUS
<1>1. CASE /\ commits' \subseteq commits /\ UNCHANGED <<rewritten, inbox, recorded>>
           /\ \A h \in Hooks : Stays(h)
  BY <1>1 DEF DoneByGit, Current, Precedes, Stays
<1>2. CASE \/ \E b \in Batches : Age(b)
           \/ \E t \in Thoughts : Delete(t)
           \/ \E t \in Thoughts, d \in Destinations : Share(t, d) \/ Unshare(t, d)
           \/ \E c \in Commits : Prune(c)
           \/ UNCHANGED vars
  <2>1. commits' \subseteq commits /\ UNCHANGED <<rewritten, inbox, recorded, hook>>
    BY <1>2 DEF Age, Delete, Share, Unshare, Prune, vars, store, files, world
  <2> QED BY <1>1, <2>1 DEF Stays
<1>3. CASE \E t \in Thoughts, c \in Commits : Link(t, c)
  <2>1. UNCHANGED <<commits, rewritten, inbox, recorded>> /\ \A h \in Hooks : Stays(h)
    BY <1>3, LinkMarks DEF Link, files, InboxIInv
  <2> QED BY <1>1, <2>1
<1> QED BY <1>2, <1>3, HookKeepsDone, RewriteKeepsDone DEF Next

\* A thought explains the commits it is linked to and those its events end at.
LEMMA ExplainsIs ==
    \A t, c : Explains(t, c) <=> c \in links[t] \/ \E e \in derived[t] : Endpoint(e) = c
BY DEF Explains, Sources

\* Four things may happen to what thoughts explain.
Merging(h) ==
    /\ At(h, "apply") /\ Current(h) \notin recorded
    /\ Merges(h)
    /\ recorded' = recorded \cup {Current(h)}
    /\ late' = IF hook[h].early THEN late \cup {Current(h)} ELSE late
    /\ belated' = belated \cup (hook[h].missed \X {Current(h)})
    /\ UNCHANGED links
Linking(t, c) ==
    /\ links' = [links EXCEPT ![t] = @ \cup {c}]
    /\ Misses(t, c)
    /\ UNCHANGED <<derived, recorded, late>>
Deleting(t) ==
    /\ links' = [links EXCEPT ![t] = {}]
    /\ derived' = [derived EXCEPT ![t] = {}]
    /\ UNCHANGED <<recorded, late, belated>>
LEMMA FourSteps ==
    ASSUME [Next]_vars
    PROVE  \/ UNCHANGED <<links, derived, recorded, late, belated>>
           \/ \E h \in Hooks : Merging(h)
           \/ \E t \in Thoughts, c \in Commits : Linking(t, c)
           \/ \E t \in Thoughts : Deleting(t)
<1>1. CASE \E h \in Hooks : Steps(h)
  <2>1. PICK h \in Hooks : Steps(h) BY <1>1
  <2>2. CASE Apply(h) BY <2>2 DEF Apply, Merging, Merges, Added
  <2>3. CASE ~Apply(h)
    BY <2>1, <2>3 DEF Steps, Check, Reserve, Publish, List, Read, Quarantine, Remove, store, history
  <2> QED BY <2>2, <2>3
<1>2. CASE \E t \in Thoughts, c \in Commits : Link(t, c)
  <2>1. PICK t \in Thoughts, c \in Commits : Link(t, c) BY <1>2
  <2>2. Linking(t, c) BY <2>1 DEF Link, Linking, history
  <2> QED BY <2>2
<1>3. CASE \E t \in Thoughts : Delete(t)
  BY <1>3 DEF Delete, Deleting, history
<1>4. CASE \/ \E h \in Hooks : Busy(h) \/ Kill(h)
           \/ \E h \in Hooks, b \in Batches : Rewrite(h, b)
           \/ \E b \in Batches : Age(b)
           \/ \E u \in Thoughts, g \in Destinations : Share(u, g) \/ Unshare(u, g)
           \/ \E c \in Commits : Prune(c)
           \/ UNCHANGED vars
  BY <1>4 DEF Busy, Kill, Rewrite, Age, Share, Unshare, Prune, vars, store, history
<1> QED BY <1>1, <1>2, <1>3, <1>4 DEF Next

\* What a thought explains after a batch was applied: what it did and what was added.
LEMMA MergingExplains ==
    ASSUME SourceIInv, NEW h \in Hooks, Merging(h), NEW t \in Thoughts, NEW c
    PROVE  Explains(t, c)' <=> Explains(t, c) \/ \E x \in hook[h].read[t] : x.new = c
<1>1. Merges(h) /\ Unchanged(hook[h].read) /\ links' = links BY DEF Merging, Merges
<1>2. Joins(derived[t], Added(h, t), derived'[t]) BY <1>1, AppliedMerge
<1>3. \A e \in derived'[t] : \E f \in derived[t] \cup Added(h, t) : Endpoint(f) = Endpoint(e)
  BY <1>2 DEF Joins, Endpoint
<1>4. \A f \in derived[t] \cup Added(h, t) : \E e \in derived'[t] : Endpoint(f) = Endpoint(e)
  BY <1>2 DEF Joins, Endpoint
<1>5. \A x \in hook[h].read[t] : Endpoint(EventOf(x)) = x.new
  BY <1>1, AppliedEvents
<1>6. Explains(t, c)' <=> c \in links'[t] \/ \E e \in derived'[t] : Endpoint(e) = c
  BY DEF Explains, Sources
<1>7. (\E f \in Added(h, t) : Endpoint(f) = c) <=> \E x \in hook[h].read[t] : x.new = c
  BY <1>5 DEF Added
<1> QED BY <1>1, <1>3, <1>4, <1>6, <1>7, ExplainsIs

\* A thought goes on explaining what it does, unless it is deleted.
LEMMA StillExplains ==
    ASSUME SourceIInv, [Next]_vars, NEW t \in Thoughts, NEW c, Explains(t, c)
    PROVE  Explains(t, c)' \/ \A x : ~Explains(t, x)'
<1>0. /\ links \in [Thoughts -> SUBSET Commits] /\ derived \in [Thoughts -> SUBSET Source]
  BY DEF SourceIInv, SourcesTyped
<1>1. \A x : Explains(t, x)' <=> x \in links'[t] \/ \E e \in derived'[t] : Endpoint(e) = x
  BY DEF Explains, Sources
<1>2. CASE UNCHANGED <<links, derived>> BY <1>1, <1>2, ExplainsIs
<1>3. CASE \E h \in Hooks : Merging(h) BY <1>3, MergingExplains
<1>4. CASE \E u \in Thoughts, x \in Commits : Linking(u, x)
  BY <1>0, <1>1, <1>4, ExplainsIs DEF Linking
<1>5. CASE \E u \in Thoughts : Deleting(u)
  <2>1. PICK u \in Thoughts : Deleting(u) BY <1>5
  <2>2. /\ links'[t] = IF t = u THEN {} ELSE links[t]
        /\ derived'[t] = IF t = u THEN {} ELSE derived[t]
    BY <1>0, <2>1 DEF Deleting
  <2> QED BY <1>1, <2>2, ExplainsIs
<1> QED BY <1>2, <1>3, <1>4, <1>5, FourSteps

\* Nothing but a link comes to explain the old commit of a rewrite Git did once
\* all it follows on is recorded: no event ends at it any more.
LEMMA NothingNew ==
    ASSUME SourceIInv, [Next]_vars, NEW b \in rewritten, b \in Batches, Settled(b),
           \A h \in Hooks : At(h, "apply") => ReadWhole(h) /\ Current(h) \in Batches,
           NEW t \in Thoughts, NEW c \in OldOf(b), Explains(t, c)'
    PROVE  Explains(t, c) \/ Linking(t, c)
<1>0. /\ links \in [Thoughts -> SUBSET Commits] /\ derived \in [Thoughts -> SUBSET Source]
  BY DEF SourceIInv, SourcesTyped
<1>1. c \in links'[t] \/ \E e \in derived'[t] : Endpoint(e) = c
  BY DEF Explains, Sources
<1>2. CASE UNCHANGED <<links, derived>> BY <1>1, <1>2, ExplainsIs
<1>3. CASE \E h \in Hooks : Merging(h)
  <2>1. PICK h \in Hooks : Merging(h) BY <1>3
  <2>2. ASSUME NEW x \in hook[h].read[t], x.new = c PROVE FALSE
    <3>1. /\ At(h, "apply") /\ Current(h) \notin recorded BY <2>1 DEF Merging
    <3>2. c \in NewOf(Current(h)) BY <2>2, <3>1 DEF ReadWhole
    <3>3. Precedes(Current(h), b) BY <3>2 DEF Precedes
    <3> QED BY <3>1, <3>3 DEF Settled
  <2> QED BY <2>1, <2>2, MergingExplains
<1>4. CASE \E u \in Thoughts, x \in Commits : Linking(u, x)
  <2>1. PICK u \in Thoughts, x \in Commits : Linking(u, x) BY <1>4
  <2>2. derived' = derived /\ (c \in links'[t] => c \in links[t] \/ (t = u /\ c = x))
    BY <1>0, <2>1 DEF Linking
  <2> QED BY <1>1, <2>1, <2>2, ExplainsIs
<1>5. CASE \E u \in Thoughts : Deleting(u)
  <2>1. links'[t] \subseteq links[t] /\ derived'[t] \subseteq derived[t]
    BY <1>0, <1>5 DEF Deleting
  <2> QED BY <1>1, <2>1, ExplainsIs
<1> QED BY <1>2, <1>3, <1>4, <1>5, FourSteps

\* A hook is about to apply what it was about to apply, or what it reads now.
ReadsNow(h) ==
    /\ UNCHANGED <<store, late>>
    /\ Current(h) \in inbox \ Malformed
    /\ hook'[h] = [at |-> "apply", todo |-> hook[h].todo,
                   read |-> Snapshot(Current(h)), early |-> FollowsOnWaiting(Current(h)),
                missed |-> {}]
LEMMA ApplyReads ==
    ASSUME InboxIInv, [Next]_vars, NEW g \in Hooks, hook'[g].at = "apply"
    PROVE  Stays(g) \/ ReadsNow(g)
<1>0. HooksAreRecords BY DEF InboxIInv
<1>1. ASSUME NEW h \in Hooks, NEW at, NEW todo, Moved(h, at, todo), at # "apply"
      PROVE  hook'[g] = hook[g]
  BY <1>1 DEF Moved
<1>2. ASSUME NEW h \in Hooks, NEW stage, Goto(h, stage), stage # "apply"
      PROVE  hook'[g] = hook[g]
  BY <1>0, <1>1, <1>2, GotoMoves
<1>3. ASSUME NEW h \in Hooks, NEW stage, NEW todo, stage # "apply",
             hook' = [hook EXCEPT ![h] = HookAt(stage, todo)]
      PROVE  hook'[g] = hook[g]
  BY <1>0, <1>1, <1>3, ReplaceMoves DEF HookAt
<1>4. ASSUME NEW h \in Hooks, NextEntry(h) \/ Exit(h) PROVE hook'[g] = hook[g]
  BY <1>3, <1>4 DEF NextEntry, Exit, IdleHook
<1>5. ASSUME NEW h \in Hooks, Read(h) PROVE hook'[g] = hook[g] \/ ReadsNow(g)
  <2>1. CASE SetAside(h) BY <1>2, <2>1 DEF SetAside
  <2>2. CASE /\ Current(h) \in inbox \ Malformed
             /\ hook' = [hook EXCEPT ![h] =
                  [at |-> "apply", todo |-> hook[h].todo,
                   read |-> Snapshot(Current(h)), early |-> FollowsOnWaiting(Current(h)),
                missed |-> {}]]
    <3>1. UNCHANGED <<store, late>> BY <1>5 DEF Read, history
    <3>2. hook'[h] = [at |-> "apply", todo |-> hook[h].todo,
                      read |-> Snapshot(Current(h)), early |-> FollowsOnWaiting(Current(h)),
                missed |-> {}]
      BY <1>0, <2>2 DEF HooksAreRecords
    <3>3. g # h => hook'[g] = hook[g] BY <1>0, <2>2 DEF HooksAreRecords
    <3> QED BY <2>2, <3>1, <3>2, <3>3 DEF ReadsNow
  <2> QED BY <1>4, <1>5, <2>1, <2>2 DEF Read
<1>6. ASSUME NEW h \in Hooks,
             \/ Check(h) \/ Reserve(h) \/ Publish(h) \/ List(h) \/ Quarantine(h) \/ Apply(h)
             \/ Remove(h) \/ Busy(h) \/ Kill(h) \/ \E b \in Batches : Rewrite(h, b)
      PROVE  hook'[g] = hook[g]
  BY <1>2, <1>3, <1>4, <1>6
     DEF Check, Reserve, Publish, List, Quarantine, Apply, Remove, Busy, Kill, Rewrite, Defer
<1>7. CASE \/ \E b \in Batches : Age(b)
           \/ \E t \in Thoughts : Delete(t)
           \/ \E t \in Thoughts, d \in Destinations : Share(t, d) \/ Unshare(t, d)
           \/ \E c \in Commits : Prune(c)
           \/ UNCHANGED vars
  BY <1>7 DEF Age, Delete, Share, Unshare, Prune, vars, Stays
<1>8. CASE \E t \in Thoughts, c \in Commits : Link(t, c)
  BY <1>0, <1>8, LinkMarks DEF Link
<1> QED BY <1>5, <1>6, <1>7, <1>8 DEF Next, Steps, Stays

\* What a hook reads, it reads whole.
LEMMA SnapshotWhole ==
    ASSUME NEW b \in Batches, NEW t \in Thoughts
    PROVE  /\ \A x \in Snapshot(b)[t] : x.new \in NewOf(b)
           /\ \A pair \in PairsOf[b] :
                 Explains(t, pair[1]) => \E x \in Snapshot(b)[t] : x.new = pair[2]
<1>1. Snapshot(b)[t] = UNION {{[source |-> s, new |-> pair[2]] : s \in Sources(t, pair[1])} :
                              pair \in PairsOf[b]}
  BY DEF Snapshot
<1>2. ASSUME NEW x \in Snapshot(b)[t] PROVE x.new \in NewOf(b)
  BY <1>1, <1>2 DEF NewOf
<1>3. ASSUME NEW pair \in PairsOf[b], NEW s \in Sources(t, pair[1])
      PROVE  [source |-> s, new |-> pair[2]] \in Snapshot(b)[t]
  BY <1>1, <1>3
<1> QED BY <1>2, <1>3 DEF Explains

\* What was recorded stays so, and so does what was late or belated.
LEMMA RecordsGrow ==
    ASSUME [Next]_vars
    PROVE  /\ recorded \subseteq recorded' /\ late \subseteq late' /\ belated \subseteq belated'
           /\ \A b : Settled(b) => Settled(b)'
<1>1. recorded \subseteq recorded' /\ late \subseteq late' /\ belated \subseteq belated'
  BY FourSteps DEF Merging, Linking, Deleting, Misses
<1> QED BY <1>1 DEF Settled, Precedes

\* A hook that did not read too early has still read all there is.
LEMMA NextReadWhole ==
    ASSUME InboxIInv, SourceIInv, FollowInv, [Next]_vars, NEW h \in Hooks, At(h, "apply")'
    PROVE  ReadWhole(h)'
<1>1. CASE ReadsNow(h)
  <2>0. PICK b \in Batches : b = Current(h) BY <1>1 DEF ReadsNow, InboxIInv
  <2>1. b \in rewritten BY <1>1, <2>0 DEF ReadsNow, FollowInv, DoneByGit
  <2>2. /\ Current(h)' = b /\ hook'[h].read = Snapshot(b)
        /\ hook'[h].early = FollowsOnWaiting(b) /\ hook'[h].missed = {}
    BY <1>1, <2>0 DEF ReadsNow, Current
  <2>3. UNCHANGED <<links, shares, derived, recorded>> BY <1>1 DEF ReadsNow, store
  <2>4. \A t, c : Explains(t, c)' <=> Explains(t, c) BY <2>3 DEF Explains, Sources
  <2>5. ~FollowsOnWaiting(b) => Settled(b)
    <3> SUFFICES ASSUME NEW a \in Batches, Precedes(a, b), a \notin recorded
                 PROVE  FollowsOnWaiting(b)
      BY DEF Settled
    <3>1. a \in rewritten BY <2>1 DEF FollowInv, DoneByGit
    <3>2. a # b BY DEF FollowInv, ResultsAreNew, Precedes
    <3> QED BY <3>1, <3>2 DEF FollowsOnWaiting, Precedes
  <2>6. Settled(b) => Settled(b)' BY RecordsGrow
  <2>7. \A t \in Thoughts : \A x \in hook'[h].read[t] : x.new \in NewOf(b)
    BY <2>1, <2>2, SnapshotWhole
  <2>8. \A t \in Thoughts : \A pair \in PairsOf[b] :
           Explains(t, pair[1])' => \E x \in hook'[h].read[t] : x.new = pair[2]
    BY <2>1, <2>2, <2>4, SnapshotWhole
  <2>9. ~hook'[h].early => Settled(b)' BY <2>2, <2>5, <2>6
  <2> QED BY <2>2, <2>7, <2>8, <2>9 DEF ReadWhole, Settled
<1>2. CASE Stays(h)
  <2>1. At(h, "apply") /\ ReadWhole(h) /\ Current(h)' = Current(h)
    BY <1>2 DEF At, FollowInv, Current, Stays
  <2>2. Current(h) \in rewritten /\ Current(h) \in Batches
    BY <2>1 DEF FollowInv, DoneByGit, At
  <2>3. \A g \in Hooks : At(g, "apply") => ReadWhole(g) /\ Current(g) \in Batches
    BY DEF FollowInv, DoneByGit, At
  <2>4. ASSUME ~hook[h].early, NEW t \in Thoughts \ hook'[h].missed, NEW pair \in PairsOf[Current(h)],
               Explains(t, pair[1])'
        PROVE  \E x \in hook[h].read[t] : x.new = pair[2]
    <3>1. Settled(Current(h)) BY <2>1, <2>4 DEF ReadWhole
    <3>2. pair[1] \in OldOf(Current(h)) BY DEF OldOf
    <3>3. ~Linking(t, pair[1])
      BY <2>1, <2>4, <3>2, LinkMarks DEF Linking, MissedBy, InboxIInv
    <3>4. Explains(t, pair[1]) BY <2>2, <2>3, <2>4, <3>1, <3>2, <3>3, NothingNew
    <3>5. t \notin hook[h].missed BY <1>2, <2>4 DEF Stays
    <3> QED BY <2>1, <2>4, <3>4, <3>5 DEF ReadWhole
  <2>5. ~hook[h].early => Settled(Current(h))' BY <2>1, RecordsGrow DEF ReadWhole
  <2> QED BY <1>2, <2>1, <2>4, <2>5 DEF ReadWhole, Settled, Stays
<1> QED BY <1>1, <1>2, ApplyReads DEF At

LEMMA NextFollowInv == InboxIInv /\ SourceIInv /\ FollowInv /\ [Next]_vars => FollowInv'
<1> SUFFICES ASSUME InboxIInv, SourceIInv, FollowInv, [Next]_vars PROVE FollowInv' OBVIOUS
<1>1. DoneByGit' BY NextKeepsDone DEF FollowInv
<1>2. \A h \in Hooks : At(h, "apply")' => ReadWhole(h)' BY NextReadWhole
<1>3. \A g \in Hooks : At(g, "apply") => ReadWhole(g) /\ Current(g) \in Batches
  BY DEF FollowInv, DoneByGit, At
<1>4. ASSUME NEW b \in recorded' \ late'
      PROVE  /\ b \in rewritten /\ b \in Batches /\ Settled(b)
             /\ \/ b \in recorded \ late
                \/ b \notin recorded /\ \E h \in Hooks :
                       Merging(h) /\ b = Current(h) /\ ReadWhole(h) /\ ~hook[h].early
  <2>1. CASE b \in recorded
    BY <1>4, <2>1, RecordsGrow DEF FollowInv, DoneByGit
  <2>2. CASE b \notin recorded
    <3>1. PICK h \in Hooks : Merging(h) /\ b = Current(h)
      BY <2>2, FourSteps DEF Merging, Linking, Deleting
    <3>2. ReadWhole(h) /\ ~hook[h].early /\ b \in Batches /\ b \in rewritten
      BY <1>3, <1>4, <3>1 DEF Merging, FollowInv, DoneByGit, At
    <3> QED BY <2>2, <3>1, <3>2 DEF ReadWhole
  <2> QED BY <2>1, <2>2
<1>5. \A b \in recorded' \ late' : Settled(b)' BY <1>4, RecordsGrow
<1>6. FollowsRewrites'
  <2> SUFFICES ASSUME NEW t \in Thoughts, NEW b \in recorded' \ late', <<t, b>> \notin belated',
                      NEW pair \in PairsOf[b], Explains(t, pair[1])'
               PROVE  Explains(t, pair[2])'
    BY DEF FollowsRewrites
  <2>1. b \in rewritten /\ b \in Batches /\ Settled(b) BY <1>4
  <2>2. pair[1] \in OldOf(b) BY DEF OldOf
  <2>3. ~Linking(t, pair[1])
    <3> SUFFICES ASSUME Linking(t, pair[1]) PROVE FALSE OBVIOUS
    <3>1. recorded' = recorded
          /\ belated' = belated \cup {<<t, x>> : x \in {y \in recorded : pair[1] \in OldOf(y)}}
      BY DEF Linking, Misses
    <3> QED BY <2>2, <3>1
  <2>4. Explains(t, pair[1]) BY <1>3, <2>1, <2>2, <2>3, NothingNew
  <2>5. CASE b \in recorded \ late
    <3>1. Explains(t, pair[2]) BY <2>4, <2>5, RecordsGrow DEF FollowInv, FollowsRewrites
    <3> QED BY <3>1, StillExplains
  <2>6. CASE \E h \in Hooks : Merging(h) /\ b = Current(h) /\ ReadWhole(h) /\ ~hook[h].early
    <3>1. PICK h \in Hooks : Merging(h) /\ b = Current(h) /\ ReadWhole(h) /\ ~hook[h].early
      BY <2>6
    <3>2. t \notin hook[h].missed BY <3>1 DEF Merging
    <3>3. \E x \in hook[h].read[t] : x.new = pair[2] BY <2>4, <3>1, <3>2 DEF ReadWhole
    <3> QED BY <3>1, <3>3, MergingExplains
  <2> QED BY <1>4, <2>5, <2>6
<1>7. ResultsAreNew' BY DEF FollowInv, ResultsAreNew, NewOf, OldOf
<1> QED BY <1>1, <1>2, <1>5, <1>6, <1>7 DEF FollowInv

LEMMA InitFollowInv == ResultsAreNew /\ Init => FollowInv
BY DEF Init, FollowInv, DoneByGit, FollowsRewrites, At, IdleHook, HookAt

\* A thought that explains the old commit of a recorded rewrite explains the new
\* one, through as many rewrites as there were and whatever is shared, linked,
\* deleted or replayed at the same time, if the rewrite was not read before one
\* it follows on was recorded, nor the thought linked to the old commit only
\* when a hook had read the rewrite.
THEOREM ThoughtsFollow == ResultsAreNew /\ Spec => []FollowsRewrites
<1>1. FollowInv => FollowsRewrites BY DEF FollowInv
<1> QED
  BY <1>1, InitInboxIInv, NextInboxIInv, InitSourceIInv, NextSourceIInv, InitFollowInv,
     NextFollowInv, PTL DEF Spec
=============================================================================
