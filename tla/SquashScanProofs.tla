-------------------------- MODULE SquashScanProofs --------------------------
(***************************************************************************)
(* Safety of the squash scan: the cursor passes over no commit, and a full *)
(* queue drops nothing that waits.  Both hold for any number of scans, any *)
(* branch and any limits.                                                  *)
(***************************************************************************)
EXTENDS SquashScan, TLAPS

-----------------------------------------------------------------------------
(* The cursor                                                              *)

\* A walk leads from the commit after `old` to `tip` along first parents.
LEMMA WalkLeads ==
    ASSUME NEW old, NEW tip, Continuous(old, tip)
    PROVE  LET w == Walk(old, tip)
           IN  /\ tip \in Range(w)
               /\ \A c \in Range(w) : FirstParent[c] \in Range(w) \cup {old}
<1> DEFINE w == Walk(old, tip)
<1>1. <<old, tip>> \in Connected
  BY DEF Continuous
<1>2. \E x \in Walks : <<FirstParent[x[1]], x[Len(x)]>> = <<old, tip>>
  BY <1>1 DEF Connected
<1>3. w = CHOOSE x \in Walks : <<FirstParent[x[1]], x[Len(x)]>> = <<old, tip>>
  BY <1>1 DEF Walk, WalkOf
<1>4. w \in Walks /\ FirstParent[w[1]] = old /\ w[Len(w)] = tip
  BY <1>2, <1>3
<1> HIDE DEF w
<1>5. PICK n \in 1 .. MaxScan : w \in [1 .. n -> Commits]
  BY <1>4 DEF Walks
<1>6. Len(w) = n /\ DOMAIN w = 1 .. n /\ n \in Nat \ {0}
  BY <1>5, ConstantsOK
<1>7. tip \in Range(w)
  BY <1>4, <1>6 DEF Range
<1>8. \A c \in Range(w) : FirstParent[c] \in Range(w) \cup {old}
  <2> TAKE c \in Range(w)
  <2>1. PICK i \in 1 .. n : w[i] = c
    BY <1>6 DEF Range
  <2>2. CASE i = 1
    BY <2>1, <2>2, <1>4
  <2>3. CASE i # 1
    <3>1. i \in 2 .. Len(w) /\ i - 1 \in DOMAIN w
      BY <2>3, <1>6
    <3>2. FirstParent[w[i]] = w[i - 1]
      BY <3>1, <1>4 DEF Walks
    <3> QED BY <3>1, <3>2, <2>1 DEF Range
  <2> QED BY <2>2, <2>3
<1> QED BY <1>7, <1>8 DEF w

\* The one step that moves the cursor puts what lies on the way in the queue, or
\* begins the walk anew at the branch's tip.
LEMMA DiscoverSkipsNothing ==
    ASSUME NoCommitSkipped, NEW s \in Scans, Discover(s)
    PROVE  NoCommitSkipped'
<1>1. CASE UNCHANGED <<queue, history>>
  BY <1>1 DEF NoCommitSkipped, queue, history
<1>2. CASE /\ CursorUnchanged(s)
           /\ cursor' = scan[s].tip
           /\ seen' = seen \cup Range(Found(s))
           /\ anchor' = IF Reset(s) THEN scan[s].tip ELSE anchor
  <2> SUFFICES ASSUME cursor' # NoCommit
               PROVE  \E walked \in SUBSET seen' :
                         /\ cursor' \in walked \cup {anchor'}
                         /\ \A c \in walked : FirstParent[c] \in walked \cup {anchor'}
    BY DEF NoCommitSkipped
  <2>1. CASE Reset(s)
    <3>1. cursor' = anchor'
      BY <2>1, <1>2
    <3> WITNESS {} \in SUBSET seen'
    <3> QED BY <3>1
  <2>2. CASE ~Reset(s)
    <3>1. cursor # NoCommit /\ (cursor = scan[s].tip \/ Continuous(cursor, scan[s].tip))
      BY <2>2 DEF Reset
    <3>2. anchor' = anchor
      BY <2>2, <1>2
    <3>3. PICK walked \in SUBSET seen :
             /\ cursor \in walked \cup {anchor}
             /\ \A c \in walked : FirstParent[c] \in walked \cup {anchor}
      BY <3>1 DEF NoCommitSkipped
    <3>4. CASE cursor = scan[s].tip
      <4>1. cursor' = cursor /\ walked \in SUBSET seen'
        BY <3>4, <1>2
      <4> QED BY <4>1, <3>2, <3>3
    <3>5. CASE cursor # scan[s].tip /\ Continuous(cursor, scan[s].tip)
      <4> DEFINE w == Walk(cursor, scan[s].tip)
                 more == walked \cup Range(w)
      <4>1. Found(s) = w
        BY <3>1, <3>5, <1>2 DEF Found, Discovered, CursorUnchanged
      <4>2. /\ cursor' \in Range(w)
            /\ \A c \in Range(w) : FirstParent[c] \in Range(w) \cup {cursor}
        BY <3>5, <1>2, WalkLeads
      <4>3. more \in SUBSET seen'
        BY <4>1, <1>2
      <4>4. cursor' \in more \cup {anchor'}
        BY <4>2
      <4>5. \A c \in more : FirstParent[c] \in more \cup {anchor'}
        BY <4>2, <3>2, <3>3
      <4> HIDE DEF more
      <4> QED BY <4>3, <4>4, <4>5
    <3> QED BY <3>1, <3>4, <3>5
  <2> QED BY <2>1, <2>2
<1> QED BY <1>1, <1>2 DEF Discover

\* The cursor never runs past a commit (squash.rs, scan_with_abort; db.rs,
\* discover_squash_targets): the compare of its compare-and-set is what the walk
\* began from, so what another scan moved meanwhile is never jumped over.
THEOREM CursorSkipsNothing == Spec => []NoCommitSkipped
<1>1. Init => NoCommitSkipped
  BY DEF Init, NoCommitSkipped
<1>2. NoCommitSkipped /\ [Next]_vars => NoCommitSkipped'
  <2> SUFFICES ASSUME NoCommitSkipped, [Next]_vars
               PROVE  NoCommitSkipped'
    OBVIOUS
  <2>1. CASE \E s \in Scans : Discover(s)
    BY <2>1, DiscoverSkipsNothing
  <2>2. CASE UNCHANGED <<cursor, history>>
    BY <2>2 DEF NoCommitSkipped, history
  <2>3. ASSUME NEW s \in Scans, Steps(s) \/ Abandon(s)
        PROVE  Discover(s) \/ UNCHANGED <<cursor, history>>
    BY <2>3 DEF Steps, Abandon, ReadCursor, List, Attempt, Apply, queue, history
  <2>4. ASSUME NEW s \in Scans, NEW immediate \in BOOLEAN, Begin(s, immediate)
        PROVE  UNCHANGED <<cursor, history>>
    BY <2>4 DEF Begin, queue
  <2>5. ASSUME NEW c \in Commits \cup {NoCommit}, Move(c)
        PROVE  UNCHANGED <<cursor, history>>
    BY <2>5 DEF Move, queue
  <2>6. ASSUME NEW c \in Commits, NEW found \in Evidence, Observe(c, found)
        PROVE  UNCHANGED <<cursor, history>>
    BY <2>6 DEF Observe, queue
  <2>7. UNCHANGED vars => UNCHANGED <<cursor, history>>
    BY DEF vars, queue
  <2> QED BY <2>1, <2>2, <2>3, <2>4, <2>5, <2>6, <2>7 DEF Next
<1> QED BY <1>1, <1>2, PTL DEF Spec

-----------------------------------------------------------------------------
(* The queue                                                               *)

\* Trimming takes no pending row and changes none.
LEMMA TrimmedKeeps ==
    ASSUME NEW rs, NEW c \in DOMAIN rs, IsPending(rs[c])
    PROVE  c \in DOMAIN Trimmed(rs) /\ Trimmed(rs)[c] = rs[c]
BY DEF Trimmed, Restrict

\* Discovery keeps what waits, whatever it finds.
LEMMA DiscoverKeeps ==
    ASSUME NEW s \in Scans, Discover(s)
    PROVE  Pending \subseteq Pending'
<1>1. CASE UNCHANGED queue
  BY <1>1 DEF queue, Pending, Known
<1>2. CASE rows' = Trimmed(WithRows(Found(s)))
  <2> SUFFICES ASSUME NEW c \in Pending
               PROVE  c \in Pending'
    OBVIOUS
  <2> DEFINE rs == WithRows(Found(s))
  <2>1. c \in DOMAIN rs /\ rs[c] = rows[c] /\ IsPending(rows[c])
    BY DEF WithRows, Pending, Known
  <2> HIDE DEF rs
  <2>2. c \in DOMAIN Trimmed(rs) /\ Trimmed(rs)[c] = rs[c]
    BY <2>1, TrimmedKeeps
  <2>3. rows' = Trimmed(rs)
    BY <1>2 DEF rs
  <2> QED BY <2>1, <2>2, <2>3 DEF Pending, Known, IsPending
<1> QED BY <1>1, <1>2 DEF Discover

\* Relinking a target takes it off the queue, and no other.
LEMMA ApplyKeeps ==
    ASSUME NEW s \in Scans, Apply(s)
    PROVE  Pending \ Pending' \subseteq relinked'
<1>1. CASE UNCHANGED rows
  BY <1>1 DEF Pending, Known
<1>2. CASE relinked' = relinked \cup {Current(s)} /\ rows' = Matched(Current(s))
  <2> SUFFICES ASSUME NEW c \in Pending, c # Current(s)
               PROVE  c \in Pending'
    BY <1>2
  <2> DEFINE rs == [rows EXCEPT ![Current(s)].status = "matched"]
  <2>1. c \in DOMAIN rs /\ rs[c] = rows[c] /\ IsPending(rows[c])
    BY DEF Pending, Known
  <2>2. rows' = Trimmed(rs)
    BY <1>2 DEF Matched
  <2> HIDE DEF rs
  <2>3. c \in DOMAIN Trimmed(rs) /\ Trimmed(rs)[c] = rs[c]
    BY <2>1, TrimmedKeeps
  <2> QED BY <2>1, <2>2, <2>3 DEF Pending, Known, IsPending
<1> QED BY <1>1, <1>2 DEF Apply

\* A target stops waiting only by being relinked (db.rs, discover_squash_targets
\* and apply_squash_plan): a full queue is refused whole and the trimming after
\* it takes only rows that wait no more.
THEOREM WaitingKept == Spec => PendingKept
<1>1. [Next]_vars => [Pending \ Pending' \subseteq relinked']_vars
  <2> SUFFICES ASSUME Next
               PROVE  Pending \ Pending' \subseteq relinked'
    OBVIOUS
  <2>1. CASE UNCHANGED rows
    BY <2>1 DEF Pending, Known
  <2>2. ASSUME NEW s \in Scans, Steps(s) \/ Abandon(s)
        PROVE  Discover(s) \/ Apply(s) \/ UNCHANGED rows
    BY <2>2 DEF Steps, Abandon, ReadCursor, List, Attempt, queue
  <2>3. ASSUME NEW s \in Scans, NEW immediate \in BOOLEAN, Begin(s, immediate)
        PROVE  UNCHANGED rows
    BY <2>3 DEF Begin, queue
  <2>4. ASSUME NEW c \in Commits \cup {NoCommit}, Move(c)
        PROVE  UNCHANGED rows
    BY <2>4 DEF Move, queue
  <2>5. ASSUME NEW c \in Commits, NEW found \in Evidence, Observe(c, found)
        PROVE  UNCHANGED rows
    BY <2>5 DEF Observe, queue
  <2> QED BY <2>1, <2>2, <2>3, <2>4, <2>5, DiscoverKeeps, ApplyKeeps DEF Next
<1> QED BY <1>1, PTL DEF Spec, PendingKept
=============================================================================
