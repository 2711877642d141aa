------------------------- MODULE PublicationProofs -------------------------
(***************************************************************************)
(* Theorems about Publication, for any clones, destinations and thoughts.  *)
(***************************************************************************)
EXTENDS Publication, TLAPS

-----------------------------------------------------------------------------
(* Types *)

\* A record of the store or of the wire is built from typed parts.
LEMMA RowsWithoutType ==
    ASSUME TypeOK, NEW c \in Clones, NEW gone
    PROVE  /\ RowsWithout(c, gone) \in [Thoughts -> Row]
           /\ SharesWithout(c, gone) \in [Destinations -> SUBSET Thoughts]
           /\ PubWithout(c, gone) \in [Destinations -> [Thoughts -> PublicationState]]
<1>1. RowsWithout(c, gone) \in [Thoughts -> Row]
  <2>1. row[c] \in [Thoughts -> Row] BY DEF TypeOK
  <2>2. ASSUME NEW t \in Thoughts PROVE Detached(row[c][t], gone) \in Row
    BY <2>1, <2>2 DEF Detached, Row
  <2>3. NoRow \in Row BY DEF NoRow, Row, Via
  <2> QED BY <2>2, <2>3 DEF RowsWithout
<1>2. SharesWithout(c, gone) \in [Destinations -> SUBSET Thoughts]
  BY DEF TypeOK, SharesWithout
<1>3. PubWithout(c, gone) \in [Destinations -> [Thoughts -> PublicationState]]
  BY DEF TypeOK, PubWithout, PublicationState
<1> QED BY <1>1, <1>2, <1>3

\* What an import writes is typed, whatever the commit.
LEMMA ImportType ==
    ASSUME TypeOK, NEW c \in Clones, NEW d \in Destinations,
           NEW commit \in Commit, Import(c, d, commit)
    PROVE  /\ row' \in [Clones -> [Thoughts -> Row]]
           /\ shares' \in [Clones -> [Destinations -> SUBSET Thoughts]]
           /\ pub' \in [Clones -> [Destinations -> [Thoughts -> PublicationState]]]
           /\ tomb' \in [Clones -> [Destinations -> [Thoughts -> Tombstone]]]
<1>1. \A n \in Arrivals(c, d, commit) : n \in WireNode
  BY DEF Arrivals, Commit
<1>2. ASSUME NEW t \in Thoughts, \E n \in Arrivals(c, d, commit) : n.id = t
      PROVE  [stored |-> TRUE, via |-> <<d>> \o ArrivalOf(c, d, commit, t).via,
              parent |-> ArrivalParent(ArrivalOf(c, d, commit, t), commit)] \in Row
  <2>1. ArrivalOf(c, d, commit, t) \in WireNode
    BY <1>1, <1>2 DEF ArrivalOf
  <2>2. <<d>> \o ArrivalOf(c, d, commit, t).via \in Via
    BY <2>1 DEF WireNode, Via
  <2> QED BY <2>1, <2>2 DEF WireNode, ArrivalParent, Row
<1>3. ImportedRows(c, d, commit) \in [Thoughts -> Row]
  BY <1>2, RowsWithoutType DEF ImportedRows
<1>4. ImportedShares(c, d, commit) \in [Destinations -> SUBSET Thoughts]
  <2>1. \A n \in Arrivals(c, d, commit) : n.id \in Thoughts BY <1>1 DEF WireNode
  <2>2. ASSUME NEW e \in Destinations
        PROVE  ImportedShares(c, d, commit)[e] \subseteq Thoughts
    <3>1. ImportedShares(c, d, commit)[e] \subseteq
            SharesWithout(c, TombIds(commit))[e] \cup {n.id : n \in Arrivals(c, d, commit)}
      BY DEF ImportedShares
    <3>2. {n.id : n \in Arrivals(c, d, commit)} \subseteq Thoughts BY <2>1
    <3>3. SharesWithout(c, TombIds(commit))[e] \subseteq Thoughts BY RowsWithoutType
    <3> QED BY <3>1, <3>2, <3>3
  <2> QED BY <2>2 DEF ImportedShares
<1>5. ImportedPub(c, d, commit) \in [Destinations -> [Thoughts -> PublicationState]]
  BY RowsWithoutType DEF ImportedPub, PublicationState
<1>6. ImportedTombs(c, d, commit) \in [Thoughts -> Tombstone]
  <2>1. \A t \in TombIds(commit) : WireStamp(commit, t) \in Nat
    BY DEF WireStamp, TombIds, Commit, WireTombstone
  <2>2. tomb[c][d] \in [Thoughts -> Tombstone] BY DEF TypeOK
  <2> QED BY <2>1, <2>2 DEF ImportedTombs, Tombstone
<1> QED
  BY <1>3, <1>4, <1>5, <1>6 DEF Import, TypeOK

\* A conversation known to a clone is named by a path and a session.
LEMMA KnownType ==
    ASSUME TypeOK, NEW c \in Clones
    PROVE  KnownConversations(c) \subseteq Conversation
BY ConstantsOK DEF TypeOK, KnownConversations, ConversationOf, Conversation, Row, Rows

\* The tree a push would send is typed, and so is its list of new thoughts.
LEMMA CandidateType ==
    ASSUME TypeOK, NEW c \in Clones, NEW d \in Destinations, NEW base \in Commit
    PROVE  /\ Candidate(c, d, base) \in Commit
           /\ NewIds(c, d, base) \subseteq Thoughts
<1>1. NewIds(c, d, base) \subseteq Thoughts
  BY DEF NewIds, ProjectionIds, Rows
<1>2. \A t \in NewIds(c, d, base) : NodeOf(c, t) \in WireNode
  BY <1>1 DEF TypeOK, NodeOf, WireNode, Row
<1>3. \A t \in Tombstoned(c, d) :
        [id |-> t, stamp |-> tomb[c][d][t].stamp] \in WireTombstone
  BY DEF TypeOK, Tombstoned, Tombstone, WireTombstone
<1>4. Candidate(c, d, base).nodes \subseteq WireNode
  BY <1>2 DEF Candidate, Commit
<1>5. Candidate(c, d, base).tombs \subseteq WireTombstone
  BY <1>3 DEF Candidate, Commit
<1> QED BY <1>1, <1>4, <1>5 DEF Candidate, Commit

\* What capture writes, whatever its source.
LEMMA InsertType ==
    ASSUME TypeOK, NEW c \in Clones, NEW t \in Thoughts,
           NEW parent \in Thoughts \cup {NoThought},
           NEW rows \in [Thoughts -> Row], Insert(c, t, parent, rows)
    PROVE  TypeOK'
<1>1. [stored |-> TRUE, via |-> <<>>, parent |-> parent] \in Row
  BY DEF Row, Via
<1>2. row' \in [Clones -> [Thoughts -> Row]]
  BY <1>1 DEF Insert, TypeOK
<1>3. shares' \in [Clones -> [Destinations -> SUBSET Thoughts]]
  BY DEF Insert, TypeOK
<1>4. minted' \subseteq Thoughts
  BY DEF Insert, TypeOK
<1> QED BY <1>2, <1>3, <1>4 DEF Insert, TypeOK, historyVars

\* A bounded event is counted within the bound.
LEMMA EventType ==
    ASSUME TypeOK, Event PROVE events' \in 0..MaxEvents
BY ConstantsOK DEF TypeOK, Event

\* What a user, a watcher or a hook does without a lock.
LEMMA CommandsType ==
    ASSUME TypeOK, NEW c \in Clones, Unlocked(c)
    PROVE  TypeOK'
<1>1. ASSUME NEW t \in Thoughts, Capture(c, t) PROVE TypeOK'
  <2>1. ParentOf[t] \in Thoughts \cup {NoThought} BY ConstantsOK
  <2>2. row[c] \in [Thoughts -> Row] BY DEF TypeOK
  <2>3. Insert(c, t, ParentOf[t], row[c]) BY <1>1 DEF Capture
  <2> QED BY <2>1, <2>2, <2>3, InsertType
<1>2. ASSUME NEW t \in Thoughts, PassiveCapture(c, t) PROVE TypeOK'
  <2> DEFINE replaced == {u \in Rows(c) : RequestOf[u] = RequestOf[t]}
             rows == [u \in Thoughts |-> IF u \in replaced THEN NoRow ELSE row[c][u]]
  <2>1. rows \in [Thoughts -> Row] BY DEF TypeOK, NoRow, Row, Via
  <2>2. Insert(c, t, NoThought, rows) BY <1>2 DEF PassiveCapture
  <2> HIDE DEF rows
  <2> QED BY <2>1, <2>2, InsertType
<1>3. ASSUME NEW t \in Thoughts, HarnessCapture(c, t) PROVE TypeOK'
  <2> DEFINE parent == IF ParentOf[t] \in Rows(c) THEN ParentOf[t] ELSE NoThought
  <2>1. parent \in Thoughts \cup {NoThought} BY ConstantsOK
  <2>2. row[c] \in [Thoughts -> Row] BY DEF TypeOK
  <2>3. Insert(c, t, parent, row[c]) BY <1>3 DEF HarnessCapture
  <2> HIDE DEF parent
  <2> QED BY <2>1, <2>2, <2>3, InsertType
<1>4. ASSUME NEW t \in Thoughts, DeleteLocal(c, t) PROVE TypeOK'
  <2>1. Event BY <1>4 DEF DeleteLocal
  <2> QED BY <1>4, <2>1, EventType, RowsWithoutType DEF DeleteLocal, TypeOK, historyVars
<1>5. ASSUME NEW d \in Destinations, NEW k \in KnownConversations(c),
             NEW withFuture \in BOOLEAN, Share(c, d, k, withFuture)
      PROVE  TypeOK'
  <2>1. k \in Conversation BY KnownType
  <2>2. MembersOf(c, k) \subseteq Thoughts BY DEF MembersOf, Rows
  <2>3. Event BY <1>5 DEF Share
  <2> QED BY <1>5, <2>1, <2>2, <2>3, EventType DEF Share, TypeOK
<1> QED BY <1>1, <1>2, <1>3, <1>4, <1>5 DEF Unlocked

\* The operation a step leaves in progress is typed.
LEMMA IdleType == Idle \in Operation
BY DEF Idle, Operation, Phase, Absent, Commit

\* A typed operation put in its slot leaves a typed table of operations.
LEMMA SetOpType ==
    ASSUME TypeOK, NEW c \in Clones, NEW d \in Destinations,
           NEW new \in Operation, SetOp(c, d, new)
    PROVE  op' \in [Clones -> [Destinations -> Operation]]
BY DEF TypeOK, SetOp

\* The operation a step moves on, answers or ends is typed.
LEMMA StepType ==
    ASSUME TypeOK, NEW c \in Clones, NEW d \in Destinations, NEW phase \in Phase
    PROVE  /\ Step(c, d, phase) => op' \in [Clones -> [Destinations -> Operation]]
           /\ Answered(c, d, phase) => op' \in [Clones -> [Destinations -> Operation]]
           /\ EndOp(c, d) => op' \in [Clones -> [Destinations -> Operation]]
<1>1. op[c][d] \in Operation BY DEF TypeOK
<1>2. [op[c][d] EXCEPT !.phase = phase] \in Operation BY <1>1 DEF Operation
<1>3. [Idle EXCEPT !.phase = phase, !.new = op[c][d].new] \in Operation
  BY <1>1, IdleType DEF Operation
<1>4. Step(c, d, phase) => op' \in [Clones -> [Destinations -> Operation]]
  BY <1>2, SetOpType DEF Step
<1>5. Answered(c, d, phase) => op' \in [Clones -> [Destinations -> Operation]]
  BY <1>3, SetOpType DEF Answered
<1>6. EndOp(c, d) => op' \in [Clones -> [Destinations -> Operation]]
  BY IdleType, SetOpType DEF EndOp
<1> QED BY <1>4, <1>5, <1>6

\* The records a step leaves are typed.
LEMMA MarkType ==
    ASSUME TypeOK, NEW c \in Clones, NEW d \in Destinations, NEW ids,
           NEW state \in PublicationState,
           Mark(c, d, ids, state) \/ Clear(c, d, ids)
    PROVE  pub' \in [Clones -> [Destinations -> [Thoughts -> PublicationState]]]
<1> DEFINE marked == [t \in Thoughts |->
                IF t \in ids /\ pub[c][d][t] # "published" THEN state ELSE pub[c][d][t]]
           cleared == [t \in Thoughts |->
                IF t \in ids /\ pub[c][d][t] \in Uncertain THEN "none" ELSE pub[c][d][t]]
<1>1. pub[c][d] \in [Thoughts -> PublicationState] BY DEF TypeOK
<1>2. marked \in [Thoughts -> PublicationState] BY <1>1
<1>3. cleared \in [Thoughts -> PublicationState] BY <1>1 DEF PublicationState
<1>4. pub' = [pub EXCEPT ![c][d] = marked] \/ pub' = [pub EXCEPT ![c][d] = cleared]
  BY DEF Mark, Clear, TypeOK
<1> HIDE DEF marked, cleared
<1>5. CASE pub' = [pub EXCEPT ![c][d] = marked] BY <1>2, <1>5 DEF TypeOK
<1>6. CASE pub' = [pub EXCEPT ![c][d] = cleared] BY <1>3, <1>6 DEF TypeOK
<1> QED BY <1>4, <1>5, <1>6

\* The steps of a push up to the transport write typed values.
LEMMA PushType ==
    ASSUME TypeOK, NEW c \in Clones, NEW d \in Destinations, Push(c, d)
    PROVE  TypeOK'
<1> DEFINE OpOK == op \in [Clones -> [Destinations -> Operation]]
<1>1. op[c][d] \in Operation /\ tip[d] \in Commit BY DEF TypeOK
<1>2. ASSUME NEW publish \in BOOLEAN, Begin(c, d, publish) PROVE TypeOK'
  <2>1. [Idle EXCEPT !.phase = "reconcile", !.publish = publish,
                     !.uncertain = UncertainIds(c, d)] \in Operation
    BY IdleType DEF Operation, Phase, UncertainIds
  <2>2. OpOK' BY <1>2, <2>1 DEF Begin, SetOp, TypeOK
  <2> QED BY <1>2, <2>2 DEF Begin, OnlyOp, storeVars, historyVars, TypeOK
<1>3. CASE ReconcilePull(c, d)
  <2>1. Import(c, d, tip[d]) BY <1>3 DEF ReconcilePull
  <2>2. OpOK' BY <1>3, StepType DEF ReconcilePull, Phase
  <2> QED BY <1>1, <2>1, <2>2, ImportType DEF TypeOK, Import, historyVars
<1>4. CASE ClearUncertain(c, d)
  <2>1. [Idle EXCEPT !.phase = "pull"] \in Operation
    BY IdleType DEF Operation, Phase
  <2>2. OpOK' BY <1>4, <2>1, IdleType, SetOpType DEF ClearUncertain, EndOp
  <2>3. pub' \in [Clones -> [Destinations -> [Thoughts -> PublicationState]]]
    BY <1>4, MarkType DEF ClearUncertain, PublicationState
  <2> QED BY <1>4, <2>2, <2>3 DEF ClearUncertain, OnlyPub, historyVars, TypeOK
<1>5. CASE PushPull(c, d)
  <2>1. [Idle EXCEPT !.phase = "project", !.tracking = tip[d], !.base = tip[d]]
            \in Operation
    BY <1>1, IdleType DEF Operation, Phase
  <2>2. OpOK' BY <1>5, <2>1 DEF PushPull, SetOp, TypeOK
  <2>3. Import(c, d, tip[d]) BY <1>5 DEF PushPull
  <2> QED BY <1>1, <2>2, <2>3, ImportType DEF TypeOK, Import, historyVars
<1>6. CASE ImportRefused(c, d) \/ ProjectEnds(c, d)
  <2>1. EndOp(c, d) /\ OnlyOp BY <1>6 DEF ImportRefused, ProjectEnds
  <2>2. OpOK' BY <2>1, StepType DEF Phase
  <2> QED BY <2>1, <2>2 DEF OnlyOp, storeVars, historyVars, TypeOK
<1>7. CASE TrackingMoves(c, d)
  <2>1. [op[c][d] EXCEPT !.tracking = tip[d]] \in Operation BY <1>1 DEF Operation
  <2>2. OpOK' BY <1>7, <2>1 DEF TrackingMoves, SetOp, TypeOK
  <2> QED BY <1>7, <2>2 DEF TrackingMoves, OnlyOp, storeVars, historyVars, TypeOK
<1>8. CASE Project(c, d)
  <2> DEFINE base == op[c][d].base
             projected == [op[c][d] EXCEPT !.phase = "confirm", !.tracking = Absent,
                              !.candidate = Candidate(c, d, base),
                              !.new = NewIds(c, d, base)]
  <2>1. base \in Commit BY <1>1 DEF Operation
  <2>2. Candidate(c, d, base) \in Commit /\ NewIds(c, d, base) \in SUBSET Thoughts
    BY <2>1, CandidateType
  <2>3. Absent \in Commit BY DEF Absent, Commit
  <2>4. projected \in Operation BY <1>1, <2>2, <2>3 DEF Operation, Phase
  <2>5. OpOK' BY <1>8, <2>4 DEF Project, SetOp, TypeOK
  <2> QED BY <1>8, <2>5 DEF Project, OnlyOp, storeVars, historyVars, TypeOK
<1>9. CASE MarkPending(c, d)
  <2>1. OpOK' BY <1>9, StepType DEF MarkPending, Phase
  <2>2. pub' \in [Clones -> [Destinations -> [Thoughts -> PublicationState]]]
    BY <1>9, MarkType DEF MarkPending, PublicationState
  <2> QED BY <1>9, <2>1, <2>2 DEF MarkPending, OnlyPub, historyVars, TypeOK
<1> QED
  BY <1>2, <1>3, <1>4, <1>5, <1>6, <1>7, <1>8, <1>9
     DEF Push, PushBegin, ReconcileBegin

\* An exchange with the destination, however it ends, writes typed values.
LEMMA TransportType ==
    ASSUME TypeOK, NEW c \in Clones, NEW d \in Destinations, Transport(c, d)
    PROVE  TypeOK'
<1>1. op[c][d] \in Operation BY DEF TypeOK
<1>2. op' \in [Clones -> [Destinations -> Operation]]
  BY StepType DEF Transport, SendAccepted, SendUnanswered, SendRejected, SendLost,
                  SendRefused, Phase
<1>3. tip' \in [Destinations -> Commit] /\ sent' \in [Clones -> [Destinations -> SUBSET Thoughts]]
  <2>1. CASE OpLands(c, d)
    BY <1>1, <2>1 DEF OpLands, Lands, Operation, TypeOK
  <2>2. CASE NothingLands
    BY <2>2 DEF NothingLands, TypeOK
  <2> QED
    BY <2>1, <2>2 DEF Transport, SendAccepted, SendUnanswered, SendRejected, SendLost,
                      SendRefused
<1>4. inFlight' \in [Destinations -> SUBSET Message]
  <2>1. [clone |-> c, base |-> op[c][d].base, new |-> op[c][d].new,
         candidate |-> op[c][d].candidate] \in Message
    BY <1>1 DEF Operation, Message
  <2> QED
    BY <2>1 DEF Transport, SendAccepted, SendUnanswered, SendRejected, SendLost,
                SendRefused, TypeOK
<1>5. events' \in 0..MaxEvents
  BY EventType DEF Transport, SendAccepted, SendUnanswered, SendRejected, SendLost,
                   SendRefused, TypeOK
<1>6. UNCHANGED <<storeVars, minted, granted>>
  BY DEF Transport, SendAccepted, SendUnanswered, SendRejected, SendLost, SendRefused,
         Sending
<1> QED BY <1>2, <1>3, <1>4, <1>5, <1>6 DEF TypeOK, storeVars

\* A push given up by its sender carries a typed commit.
LEMMA LateLandingType ==
    ASSUME TypeOK, NEW d \in Destinations, NEW m \in inFlight[d], LateLanding(d, m)
    PROVE  TypeOK'
<1>1. m \in Message BY DEF TypeOK
<1> QED BY <1>1 DEF LateLanding, Lands, Message, TypeOK, storeVars

\* Settling a push writes typed records.
LEMMA SettleType ==
    ASSUME TypeOK, NEW c \in Clones, NEW d \in Destinations, Settle(c, d)
    PROVE  TypeOK'
<1> DEFINE PubOK == pub \in [Clones -> [Destinations -> [Thoughts -> PublicationState]]]
           OpOK == op \in [Clones -> [Destinations -> Operation]]
<1>1. CASE SettleAccepted(c, d)
  <2>1. [Idle EXCEPT !.phase = "tombstones"] \in Operation
    BY IdleType DEF Operation, Phase
  <2>2. OpOK' BY <1>1, <2>1, SetOpType DEF SettleAccepted
  <2>3. PubOK' BY <1>1, MarkType DEF SettleAccepted, PublicationState
  <2> QED BY <1>1, <2>2, <2>3 DEF SettleAccepted, OnlyPub, historyVars, TypeOK
<1>2. CASE SettleTombstones(c, d)
  <2> DEFINE settled == [t \in Thoughts |->
                    IF tomb[c][d][t].state = "pending"
                    THEN [tomb[c][d][t] EXCEPT !.state = "published"] ELSE tomb[c][d][t]]
  <2>1. settled \in [Thoughts -> Tombstone]
    <3>1. tomb[c][d] \in [Thoughts -> Tombstone] BY DEF TypeOK
    <3> QED BY <3>1 DEF Tombstone
  <2>2. tomb' = [tomb EXCEPT ![c][d] = settled] BY <1>2 DEF SettleTombstones, TypeOK
  <2>3. tomb' \in [Clones -> [Destinations -> [Thoughts -> Tombstone]]]
    BY <2>1, <2>2 DEF TypeOK
  <2>4. OpOK' BY <1>2, StepType DEF SettleTombstones, Phase
  <2> QED BY <1>2, <2>3, <2>4 DEF SettleTombstones, historyVars, TypeOK
<1>3. CASE SettleRefused(c, d) \/ SettleFailed(c, d)
  <2>1. OpOK' BY <1>3, StepType DEF SettleRefused, SettleFailed, Phase
  <2>2. PubOK' BY <1>3, MarkType DEF SettleRefused, SettleFailed, PublicationState
  <2> QED BY <1>3, <2>1, <2>2 DEF SettleRefused, SettleFailed, OnlyPub, historyVars, TypeOK
<1> QED BY <1>1, <1>2, <1>3 DEF Settle

\* Any step of an operation that holds a lock writes typed values.
LEMMA LockedType ==
    ASSUME TypeOK, NEW c \in Clones, NEW d \in Destinations, Locked(c, d)
    PROVE  TypeOK'
<1> DEFINE OpOK == op \in [Clones -> [Destinations -> Operation]]
<1>1. tip[d] \in Commit BY DEF TypeOK
<1>2. CASE Pull(c, d)
  <2>1. Import(c, d, tip[d]) /\ UNCHANGED op BY <1>2 DEF Pull
  <2> QED BY <1>1, <2>1, ImportType DEF TypeOK, Import, historyVars
<1>3. ASSUME NEW k \in KnownConversations(c), Unshare(c, d, k) PROVE TypeOK'
  <2>1. Event BY <1>3 DEF Unshare
  <2> QED BY <1>3, <2>1, EventType DEF Unshare, TypeOK
<1>4. CASE RedactBegin(c, d)
  <2>1. Import(c, d, tip[d]) BY <1>4 DEF RedactBegin
  <2>2. OpOK' BY <1>4, StepType DEF RedactBegin, Phase
  <2> QED BY <1>1, <2>1, <2>2, ImportType DEF TypeOK, Import, historyVars
<1>5. ASSUME NEW t \in Thoughts, NEW now \in Clock, RedactTyped(c, d, t, now)
      PROVE  TypeOK'
  <2>1. Event /\ EndOp(c, d) BY <1>5 DEF RedactTyped
  <2>2. OpOK' BY <2>1, StepType DEF Phase
  <2>3. [state |-> "pending", stamp |-> now] \in Tombstone
    BY ConstantsOK DEF Tombstone
  <2>4. tomb' \in [Clones -> [Destinations -> [Thoughts -> Tombstone]]]
    BY <1>5, <2>3 DEF RedactTyped, TypeOK
  <2>5. /\ row' \in [Clones -> [Thoughts -> Row]]
        /\ shares' \in [Clones -> [Destinations -> SUBSET Thoughts]]
        /\ pub' \in [Clones -> [Destinations -> [Thoughts -> PublicationState]]]
    BY <1>5, RowsWithoutType DEF RedactTyped, TypeOK
  <2> QED BY <1>5, <2>1, <2>2, <2>4, <2>5, EventType DEF RedactTyped, historyVars, TypeOK
<1>6. CASE Decline(c, d)
  <2>1. OpOK' BY <1>6, StepType DEF Decline, Phase
  <2> QED BY <1>6, <2>1 DEF Decline, OnlyOp, storeVars, historyVars, TypeOK
<1>7. CASE Abort(c, d)
  <2>1. OpOK' BY <1>7, StepType DEF Abort, Phase
  <2>2. Event BY <1>7 DEF Abort
  <2> QED BY <1>7, <2>1, <2>2, EventType DEF Abort, storeVars, historyVars, TypeOK
<1> QED
  BY <1>2, <1>3, <1>4, <1>5, <1>6, <1>7, PushType, TransportType, SettleType DEF Locked

\* A new store, and an empty destination, are typed.
LEMMA InitType == Init => TypeOK
<1> SUFFICES ASSUME Init PROVE TypeOK
  OBVIOUS
<1>1. NoRow \in Row BY DEF NoRow, Row, Via
<1>2. NoTombstone \in Tombstone BY DEF NoTombstone, Tombstone
<1>3. Absent \in Commit BY DEF Absent, Commit
<1>4. 0 \in 0..MaxEvents BY ConstantsOK
<1> QED BY <1>1, <1>2, <1>3, <1>4, IdleType DEF Init, TypeOK, PublicationState

\* No step of the clones or of the network breaks a type.
LEMMA NextType == TypeOK /\ [Next]_vars => TypeOK'
<1> SUFFICES ASSUME TypeOK, [Next]_vars PROVE TypeOK'
  OBVIOUS
<1>1. CASE UNCHANGED vars
  BY <1>1 DEF vars, TypeOK
<1>2. CASE Next
  BY <1>2, CommandsType, LockedType, LateLandingType DEF Next
<1> QED BY <1>1, <1>2

\* Every reachable state is typed: a row, a record or a tree is always one the
\* schema of the store and the format of the wire allow.
THEOREM Typing == Spec => []TypeOK
BY InitType, NextType, PTL DEF Spec

-----------------------------------------------------------------------------
(* What the records prove *)

\* The inductive invariant.  What a clone has recorded about a destination is
\* only ever as good as the steps of the operation that recorded it, so the
\* invariant speaks of operations in progress and of pushes on their way too.
RecordsInv ==
    /\ TypeOK
    /\ PublishedIsHeld
    /\ RedactionProven
    /\ TombstonedNotServed
    /\ InProgressSound

\* The destination only gains: what it holds it goes on holding.
Gains(d) ==
    /\ Held(tip[d]) \subseteq Held(tip'[d])
    /\ TombIds(tip[d]) \subseteq TombIds(tip'[d])

\* A projection contains its base, but for what is suppressed here, and turns
\* every suppression recorded here into a tombstone of the tree.
LEMMA CandidateBuiltOn ==
    ASSUME NEW c \in Clones, NEW d \in Destinations, NEW base \in Commit, TypeOK,
           TombIds(base) \subseteq Tombstoned(c, d)
    PROVE  /\ BuiltOn(base, Candidate(c, d, base), NewIds(c, d, base))
           /\ Tombstoned(c, d) \subseteq TombIds(Candidate(c, d, base))
<1> DEFINE candidate == Candidate(c, d, base)
           kept == {n \in base.nodes : n.id \notin Tombstoned(c, d)}
           added == {NodeOf(c, t) : t \in NewIds(c, d, base)}
<1>1. NodeIds(candidate) = {n.id : n \in kept} \cup NewIds(c, d, base)
  <2>1. \A t \in NewIds(c, d, base) : NodeOf(c, t).id = t BY DEF NodeOf
  <2>2. {n.id : n \in added} = NewIds(c, d, base) BY <2>1
  <2>3. candidate.nodes = kept \cup added BY DEF Candidate
  <2> HIDE DEF candidate, kept, added
  <2> QED BY <2>2, <2>3 DEF NodeIds
<1>2. TombIds(candidate) = TombIds(base) \cup Tombstoned(c, d)
  <2> DEFINE records == {[id |-> t, stamp |-> tomb[c][d][t].stamp] :
                            t \in Tombstoned(c, d) \ TombIds(base)}
  <2>1. {x.id : x \in records} = Tombstoned(c, d) \ TombIds(base)
    <3>1. \A x \in records : x.id \in Tombstoned(c, d) \ TombIds(base) OBVIOUS
    <3>2. ASSUME NEW t \in Tombstoned(c, d) \ TombIds(base)
          PROVE  \E x \in records : x.id = t
      <4>1. [id |-> t, stamp |-> tomb[c][d][t].stamp] \in records OBVIOUS
      <4>2. [id |-> t, stamp |-> tomb[c][d][t].stamp].id = t OBVIOUS
      <4> QED BY <4>1, <4>2
    <3> QED BY <3>1, <3>2
  <2>2. candidate.tombs = base.tombs \cup records BY DEF Candidate
  <2>3. TombIds(candidate) = TombIds(base) \cup {x.id : x \in records}
    <3> HIDE DEF candidate, records
    <3> QED BY <2>2 DEF TombIds
  <2> QED BY <2>1, <2>3
<1>3. NodeIds(base) \subseteq NodeIds(candidate) \cup Tombstoned(c, d)
  BY <1>1 DEF NodeIds
<1>4. NodeIds(candidate) \cap Tombstoned(c, d) = {}
  BY <1>1 DEF NewIds
<1> QED
  BY <1>1, <1>2, <1>3, <1>4 DEF BuiltOn, Held

\* After an import, a record is as good as the tree that was imported.
LEMMA ImportProves ==
    ASSUME RecordsInv, NEW c \in Clones, NEW d \in Destinations,
           Import(c, d, tip[d])
    PROVE  /\ PublishedIsHeld'
           /\ RedactionProven'
           /\ TombIds(tip[d]) \subseteq Tombstoned(c, d)'
           /\ \A b \in Clones, e \in Destinations :
                <<b, e>> # <<c, d>> => Tombstoned(b, e)' = Tombstoned(b, e)
<1> USE DEF RecordsInv
<1>1. tip' = tip BY DEF Import
<1>2. PublishedIsHeld'
  <2> SUFFICES ASSUME NEW b \in Clones, NEW e \in Destinations, NEW t \in Thoughts,
                      pub'[b][e][t] = "published"
               PROVE  t \in Held(tip[e])
    BY <1>1 DEF PublishedIsHeld
  <2>1. CASE b # c
    BY <2>1 DEF Import, TypeOK, PublishedIsHeld
  <2>2. CASE b = c
    <3>1. pub'[c][e] = ImportedPub(c, d, tip[d])[e] BY <2>2 DEF Import, TypeOK
    <3>2. PubWithout(c, TombIds(tip[d]))[e][t] = "published" => pub[c][e][t] = "published"
      BY DEF PubWithout
    <3>3. \/ PubWithout(c, TombIds(tip[d]))[e][t] = "published"
          \/ e = d /\ t \in NodeIds(tip[d])
      BY <2>2, <3>1 DEF ImportedPub, PubWithout
    <3> QED BY <2>2, <3>2, <3>3 DEF PublishedIsHeld, Held
  <2> QED BY <2>1, <2>2
<1>3. /\ tomb'[c][d] = ImportedTombs(c, d, tip[d])
      /\ \A b \in Clones, e \in Destinations :
            <<b, e>> # <<c, d>> => tomb'[b][e] = tomb[b][e]
  BY DEF Import, TypeOK
<1>4. RedactionProven'
  <2> SUFFICES ASSUME NEW b \in Clones, NEW e \in Destinations, NEW t \in Thoughts,
                      tomb'[b][e][t].state = "published"
               PROVE  t \in TombIds(tip[e])
    BY <1>1 DEF RedactionProven
  <2>1. CASE <<b, e>> # <<c, d>>
    BY <1>3, <2>1 DEF RedactionProven
  <2>2. CASE <<b, e>> = <<c, d>>
    BY <1>3, <2>2 DEF RedactionProven, ImportedTombs
  <2> QED BY <2>1, <2>2
<1>5. TombIds(tip[d]) \subseteq Tombstoned(c, d)'
  <2> SUFFICES ASSUME NEW t \in TombIds(tip[d])
               PROVE  t \in Thoughts /\ tomb'[c][d][t].state # "none"
    BY DEF Tombstoned
  <2>1. t \in Thoughts BY DEF TombIds, TypeOK, Commit, WireTombstone
  <2>2. tomb[c][d][t] \in Tombstone BY <2>1 DEF TypeOK
  <2> QED BY <1>3, <2>1, <2>2 DEF ImportedTombs, Tombstone
<1>6. \A b \in Clones, e \in Destinations :
        <<b, e>> # <<c, d>> => Tombstoned(b, e)' = Tombstoned(b, e)
  BY <1>3 DEF Tombstoned
<1> QED BY <1>2, <1>4, <1>5, <1>6

\* An operation stays sound while others work: they leave its clone's tombstones
\* for the destination alone, and the destination only gains.
LEMMA OperationKept ==
    ASSUME NEW c \in Clones, NEW d \in Destinations, OperationSound(c, d),
           op'[c][d] = op[c][d], Tombstoned(c, d)' = Tombstoned(c, d), Gains(d)
    PROVE  OperationSound(c, d)'
BY DEF OperationSound, Gains

\* To preserve the invariant, a step of c towards d has to care for its own
\* operation, the records it writes and the pushes on their way.
LEMMA StepPreserves ==
    ASSUME RecordsInv, NEW c \in Clones, NEW d \in Destinations,
           TypeOK', PublishedIsHeld', RedactionProven', TombstonedNotServed',
           OperationSound(c, d)',
           \A b \in Clones, e \in Destinations : <<b, e>> # <<c, d>> =>
                op'[b][e] = op[b][e] /\ Tombstoned(b, e)' = Tombstoned(b, e),
           \A e \in Destinations : Gains(e),
           \A e \in Destinations : \A m \in inFlight'[e] :
                BuiltOn(m.base, m.candidate, m.new)
    PROVE  RecordsInv'
<1>1. ASSUME NEW b \in Clones, NEW e \in Destinations
      PROVE  OperationSound(b, e)'
  <2>1. CASE b = c /\ e = d BY <2>1
  <2>2. CASE <<b, e>> # <<c, d>>
    BY <2>2, OperationKept DEF RecordsInv, InProgressSound
  <2> QED BY <2>1, <2>2
<1> QED BY <1>1 DEF RecordsInv, InProgressSound

\* The destination takes a commit on top of the one it has, or none.
LEMMA LandingGains ==
    ASSUME RecordsInv, NEW c \in Clones, NEW d \in Destinations,
           NEW base, NEW candidate, NEW new,
           BuiltOn(base, candidate, new), Lands(c, d, base, candidate, new)
    PROVE  /\ \A e \in Destinations : Gains(e)
           /\ TombstonedNotServed'
           /\ new \subseteq Held(tip'[d])
           /\ tip'[d] = candidate
<1>1. tip'[d] = candidate /\ \A e \in Destinations : e # d => tip'[e] = tip[e]
  BY DEF Lands, RecordsInv, TypeOK
<1>2. tip[d] = base BY DEF Lands
<1>3. new \subseteq Held(candidate) BY DEF BuiltOn, Held
<1>4. TombstonedNotServed'
  BY <1>1 DEF BuiltOn, TombstonedNotServed, RecordsInv
<1>5. \A e \in Destinations : Gains(e)
  BY <1>1, <1>2 DEF BuiltOn, Gains
<1> QED BY <1>1, <1>3, <1>4, <1>5

\* Steps that touch neither the records, the operations nor the destination.
LEMMA QuietStep ==
    ASSUME RecordsInv, TypeOK', UNCHANGED <<pub, tomb, op, tip, inFlight>>
    PROVE  RecordsInv'
BY DEF RecordsInv, PublishedIsHeld, RedactionProven, TombstonedNotServed,
       InProgressSound, OperationSound, Tombstoned

\* A record that goes proves nothing, and needs no proof.
LEMMA ForgettingKeepsProof ==
    ASSUME RecordsInv, UNCHANGED tip,
           \A c \in Clones, d \in Destinations, t \in Thoughts :
                pub'[c][d][t] = "published" => pub[c][d][t] = "published"
    PROVE  PublishedIsHeld'
BY DEF RecordsInv, PublishedIsHeld

\* While no destination moves, nothing is served that was not.
LEMMA StillTip ==
    ASSUME RecordsInv, UNCHANGED tip
    PROVE  TombstonedNotServed' /\ \A e \in Destinations : Gains(e)
BY DEF RecordsInv, TombstonedNotServed, Gains

\* Pushes on their way stay what they are until they land.
LEMMA StillFlying ==
    ASSUME RecordsInv, UNCHANGED inFlight
    PROVE  \A e \in Destinations : \A m \in inFlight'[e] :
                BuiltOn(m.base, m.candidate, m.new)
BY DEF RecordsInv, InProgressSound

\* While no tombstone and no destination moves, redactions stay proven.
LEMMA StillRedacted ==
    ASSUME RecordsInv, UNCHANGED <<tip, tomb>>
    PROVE  /\ RedactionProven'
           /\ \A b \in Clones, e \in Destinations : Tombstoned(b, e)' = Tombstoned(b, e)
BY DEF RecordsInv, RedactionProven, Tombstoned

\* While no record and no destination moves, publications stay proven.
LEMMA StillPublished ==
    ASSUME RecordsInv, UNCHANGED <<tip, pub>>
    PROVE  PublishedIsHeld'
BY DEF RecordsInv, PublishedIsHeld

\* A step of one operation leaves the operations under other locks alone.
LEMMA OthersWait ==
    ASSUME TypeOK, NEW c \in Clones, NEW d \in Destinations, NEW new, SetOp(c, d, new)
    PROVE  /\ op'[c][d] = new
           /\ \A b \in Clones, e \in Destinations :
                <<b, e>> # <<c, d>> => op'[b][e] = op[b][e]
BY DEF SetOp, TypeOK

\* The phases that rest on nothing an earlier step established.
RestingPhase == {"idle", "reconcile", "clear", "pull", "refused", "failed", "redact"}
\* An operation that ends, or is in a phase that rests on nothing, is sound.
LEMMA RestingSound ==
    ASSUME NEW c \in Clones, NEW d \in Destinations,
           op'[c][d].phase \in RestingPhase
    PROVE  OperationSound(c, d)'
BY DEF OperationSound, RestingPhase

\* A step into a phase that rests on nothing is sound.
LEMMA RestingStepSound ==
    ASSUME RecordsInv, NEW c \in Clones, NEW d \in Destinations, NEW new,
           SetOp(c, d, new), new.phase \in RestingPhase
    PROVE  OperationSound(c, d)'
<1>1. op'[c][d] = new BY OthersWait DEF RecordsInv
<1> QED BY <1>1, RestingSound

\* After the transport, all an operation keeps is the list of its new thoughts.
LEMMA AnsweredLeaves ==
    ASSUME RecordsInv, NEW c \in Clones, NEW d \in Destinations, NEW phase,
           Answered(c, d, phase)
    PROVE  /\ op'[c][d].phase = phase /\ op'[c][d].new = op[c][d].new
           /\ \A b \in Clones, e \in Destinations :
                <<b, e>> # <<c, d>> => op'[b][e] = op[b][e]
<1> DEFINE new == [Idle EXCEPT !.phase = phase, !.new = op[c][d].new]
<1>1. SetOp(c, d, new) BY DEF Answered
<1>2. new.phase = phase /\ new.new = op[c][d].new BY DEF Idle
<1> HIDE DEF new
<1> QED BY <1>1, <1>2, OthersWait DEF RecordsInv

\* Commands without a lock: only delete-local touches a record, and drops it.
LEMMA CommandsPreserve ==
    ASSUME RecordsInv, TypeOK', NEW c \in Clones, Unlocked(c)
    PROVE  RecordsInv'
<1>1. ASSUME NEW t \in Thoughts,
             Capture(c, t) \/ PassiveCapture(c, t) \/ HarnessCapture(c, t)
      PROVE  RecordsInv'
  <2>1. UNCHANGED <<pub, tomb, op, tip, inFlight>>
    BY <1>1 DEF Capture, PassiveCapture, HarnessCapture, Insert
  <2> QED BY <2>1, QuietStep
<1>2. ASSUME NEW t \in Thoughts, DeleteLocal(c, t) PROVE RecordsInv'
  <2>1. UNCHANGED <<tomb, op, tip, inFlight>> BY <1>2 DEF DeleteLocal
  <2>2. ASSUME NEW b \in Clones, NEW e \in Destinations, NEW u \in Thoughts,
               pub'[b][e][u] = "published"
        PROVE  pub[b][e][u] = "published"
    BY <1>2, <2>2 DEF DeleteLocal, PubWithout, RecordsInv, TypeOK
  <2>3. PublishedIsHeld' BY <2>1, <2>2, ForgettingKeepsProof
  <2>4. InProgressSound' BY <2>1 DEF RecordsInv, InProgressSound, OperationSound, Tombstoned
  <2> QED BY <2>1, <2>3, <2>4, StillRedacted, StillTip DEF RecordsInv
<1>3. ASSUME NEW d \in Destinations, NEW k \in KnownConversations(c),
             NEW withFuture \in BOOLEAN, Share(c, d, k, withFuture)
      PROVE  RecordsInv'
  <2>1. UNCHANGED <<pub, tomb, op, tip, inFlight>> BY <1>3 DEF Share
  <2> QED BY <2>1, QuietStep
<1> QED BY <1>1, <1>2, <1>3 DEF Unlocked

\* A fetch and an import, in whatever operation.
LEMMA ImportPreserves ==
    ASSUME RecordsInv, TypeOK', NEW c \in Clones, NEW d \in Destinations, NEW new,
           Import(c, d, tip[d]), SetOp(c, d, new),
           \/ new.phase \in RestingPhase
           \/ new.phase = "project" /\ new.base = tip[d]
    PROVE  RecordsInv'
<1>1. UNCHANGED <<tip, inFlight>> BY DEF Import
<1>2. op'[c][d] = new BY OthersWait DEF RecordsInv
<1>3. OperationSound(c, d)'
  <2>1. CASE new.phase \in RestingPhase BY <1>2, <2>1, RestingSound
  <2>2. CASE new.phase = "project" /\ new.base = tip[d]
    BY <1>2, <2>2, ImportProves DEF OperationSound
  <2> QED BY <2>1, <2>2
<1>4. \A b \in Clones, e \in Destinations : <<b, e>> # <<c, d>> =>
            op'[b][e] = op[b][e] /\ Tombstoned(b, e)' = Tombstoned(b, e)
  BY OthersWait, ImportProves DEF RecordsInv
<1> QED
  BY <1>1, <1>3, <1>4, ImportProves, StillTip, StillFlying, StepPreserves

\* A step that only moves its own operation on.
LEMMA OpStepPreserves ==
    ASSUME RecordsInv, TypeOK', NEW c \in Clones, NEW d \in Destinations, NEW new,
           SetOp(c, d, new), UNCHANGED <<pub, tomb, tip, inFlight>>,
           OperationSound(c, d)'
    PROVE  RecordsInv'
<1>1. \A b \in Clones, e \in Destinations : <<b, e>> # <<c, d>> => op'[b][e] = op[b][e]
  BY OthersWait DEF RecordsInv
<1> QED
  BY <1>1, StillTip, StillFlying, StillRedacted, StillPublished, StepPreserves

\* A step that marks or clears records of thoughts: what it newly calls
\* published is at the destination.
LEMMA MarkPreserves ==
    ASSUME RecordsInv, TypeOK', NEW c \in Clones, NEW d \in Destinations, NEW ids,
           NEW state \in PublicationState, NEW new,
           Mark(c, d, ids, state) \/ Clear(c, d, ids), SetOp(c, d, new),
           UNCHANGED <<tomb, tip, inFlight>>, OperationSound(c, d)',
           state = "published" => ids \subseteq Held(tip[d])
    PROVE  RecordsInv'
<1>1. \A b \in Clones, e \in Destinations : <<b, e>> # <<c, d>> => op'[b][e] = op[b][e]
  BY OthersWait DEF RecordsInv
<1>2. PublishedIsHeld'
  <2> SUFFICES ASSUME NEW b \in Clones, NEW e \in Destinations, NEW t \in Thoughts,
                      pub'[b][e][t] = "published"
               PROVE  t \in Held(tip[e])
    BY DEF PublishedIsHeld
  <2>1. CASE <<b, e>> # <<c, d>>
    <3>1. pub'[b][e] = pub[b][e] BY <2>1 DEF Mark, Clear, RecordsInv, TypeOK
    <3> QED BY <3>1 DEF RecordsInv, PublishedIsHeld
  <2>2. CASE b = c /\ e = d
    <3>1. CASE Mark(c, d, ids, state)
      <4>1. pub'[c][d][t] = IF t \in ids /\ pub[c][d][t] # "published"
                            THEN state ELSE pub[c][d][t]
        BY <3>1 DEF Mark, RecordsInv, TypeOK
      <4> QED BY <2>2, <4>1 DEF RecordsInv, PublishedIsHeld
    <3>2. CASE Clear(c, d, ids)
      <4>1. pub'[c][d][t] = IF t \in ids /\ pub[c][d][t] \in Uncertain
                            THEN "none" ELSE pub[c][d][t]
        BY <3>2 DEF Clear, RecordsInv, TypeOK
      <4> QED BY <2>2, <4>1 DEF RecordsInv, PublishedIsHeld
    <3> QED BY <3>1, <3>2
  <2> QED BY <2>1, <2>2
<1> QED
  BY <1>1, <1>2, StillTip, StillFlying, StillRedacted, StepPreserves

\* The steps of a push up to the transport keep the records true: an import
\* proves what it records, and a projection is built on what was imported.
LEMMA PushPreserves ==
    ASSUME RecordsInv, TypeOK', NEW c \in Clones, NEW d \in Destinations, Push(c, d)
    PROVE  RecordsInv'
<1> USE DEF OnlyOp, OnlyPub, storeVars
<1>1. ASSUME NEW publish \in BOOLEAN, Begin(c, d, publish) PROVE RecordsInv'
  <2> DEFINE new == [Idle EXCEPT !.phase = "reconcile", !.publish = publish,
                                 !.uncertain = UncertainIds(c, d)]
  <2>1. SetOp(c, d, new) BY <1>1 DEF Begin
  <2>2. new.phase \in RestingPhase BY DEF Idle, RestingPhase
  <2>3. OperationSound(c, d)'
    <3> HIDE DEF new
    <3> QED BY <2>1, <2>2, RestingStepSound
  <2> QED BY <1>1, <2>1, <2>3, OpStepPreserves DEF Begin
<1>2. CASE ReconcilePull(c, d)
  <2> DEFINE new == [op[c][d] EXCEPT !.phase = "clear"]
  <2>1. op[c][d] \in Operation BY DEF RecordsInv, TypeOK
  <2>2. new.phase \in RestingPhase BY <2>1 DEF Operation, RestingPhase
  <2>3. Import(c, d, tip[d]) /\ SetOp(c, d, new)
    BY <1>2 DEF ReconcilePull, Step
  <2> QED BY <2>2, <2>3, ImportPreserves
<1>3. CASE ClearUncertain(c, d)
  <2> DEFINE new == IF op[c][d].publish THEN [Idle EXCEPT !.phase = "pull"] ELSE Idle
  <2>1. SetOp(c, d, new) BY <1>3 DEF ClearUncertain, EndOp
  <2>2. new.phase \in RestingPhase BY DEF Idle, RestingPhase
  <2>3. OperationSound(c, d)'
    <3> HIDE DEF new
    <3> QED BY <2>1, <2>2, RestingStepSound
  <2>4. Clear(c, d, op[c][d].uncertain) /\ UNCHANGED <<tomb, tip, inFlight>>
    BY <1>3 DEF ClearUncertain
  <2>5. "none" \in PublicationState BY DEF PublicationState
  <2> QED BY <2>1, <2>3, <2>4, <2>5, MarkPreserves
<1>4. CASE PushPull(c, d)
  <2> DEFINE new == [Idle EXCEPT !.phase = "project", !.tracking = tip[d],
                                 !.base = tip[d]]
  <2>1. new.phase = "project" /\ new.base = tip[d] BY DEF Idle
  <2>2. Import(c, d, tip[d]) /\ SetOp(c, d, new) BY <1>4 DEF PushPull
  <2> QED BY <2>1, <2>2, ImportPreserves
<1>5. CASE ImportRefused(c, d) \/ ProjectEnds(c, d)
  <2>1. SetOp(c, d, Idle) /\ UNCHANGED <<pub, tomb, tip, inFlight>>
    BY <1>5 DEF ImportRefused, ProjectEnds, EndOp
  <2>2. OperationSound(c, d)'
    BY <2>1, OthersWait, RestingSound DEF RecordsInv, Idle, RestingPhase
  <2> QED BY <2>1, <2>2, OpStepPreserves
<1>6. CASE TrackingMoves(c, d)
  <2> DEFINE new == [op[c][d] EXCEPT !.tracking = tip[d]]
  <2>1. SetOp(c, d, new) /\ UNCHANGED <<pub, tomb, tip, inFlight>>
    BY <1>6 DEF TrackingMoves
  <2>2. op'[c][d] = new BY <2>1, OthersWait DEF RecordsInv
  <2>3. op[c][d] \in Operation /\ op[c][d].phase = "project"
    BY <1>6 DEF RecordsInv, TypeOK, TrackingMoves
  <2>4. new.phase = "project" /\ new.base = op[c][d].base
    BY <2>3 DEF Operation
  <2>5. TombIds(op[c][d].base) \subseteq Tombstoned(c, d)
    BY <2>3 DEF RecordsInv, InProgressSound, OperationSound
  <2>6. OperationSound(c, d)'
    BY <2>1, <2>2, <2>4, <2>5, StillRedacted DEF OperationSound
  <2> QED BY <2>1, <2>6, OpStepPreserves
<1>7. CASE Project(c, d)
  <2> DEFINE o == op[c][d]
             candidate == Candidate(c, d, o.base)
             new == [o EXCEPT !.phase = "confirm", !.tracking = Absent,
                              !.candidate = candidate, !.new = NewIds(c, d, o.base)]
  <2>1. SetOp(c, d, new) /\ UNCHANGED <<pub, tomb, tip, inFlight>>
    BY <1>7 DEF Project
  <2>2. op'[c][d] = new BY <2>1, OthersWait DEF RecordsInv
  <2>3. o \in Operation /\ o.phase = "project" /\ o.base \in Commit
    BY <1>7 DEF RecordsInv, TypeOK, Project, Operation
  <2>4. TombIds(o.base) \subseteq Tombstoned(c, d)
    BY <2>3 DEF RecordsInv, InProgressSound, OperationSound
  <2>5. /\ BuiltOn(o.base, candidate, NewIds(c, d, o.base))
        /\ Tombstoned(c, d) \subseteq TombIds(candidate)
    BY <2>3, <2>4, CandidateBuiltOn DEF RecordsInv
  <2>6. /\ new.phase = "confirm" /\ new.base = o.base
        /\ new.candidate = candidate /\ new.new = NewIds(c, d, o.base)
    BY <2>3 DEF Operation
  <2> HIDE DEF new, candidate
  <2>7. OperationSound(c, d)'
    BY <2>1, <2>2, <2>5, <2>6, StillRedacted DEF OperationSound
  <2> QED BY <2>1, <2>7, OpStepPreserves
<1>8. CASE MarkPending(c, d)
  <2> DEFINE new == [op[c][d] EXCEPT !.phase = "send"]
  <2>1. /\ SetOp(c, d, new) /\ UNCHANGED <<tomb, tip, inFlight>>
        /\ Mark(c, d, op[c][d].new, "pending")
    BY <1>8 DEF MarkPending, Step
  <2>2. op'[c][d] = new BY <2>1, OthersWait DEF RecordsInv
  <2>3. op[c][d] \in Operation /\ op[c][d].phase = "confirm"
    BY <1>8 DEF RecordsInv, TypeOK, MarkPending
  <2>4. /\ new.phase = "send" /\ new.base = op[c][d].base
        /\ new.candidate = op[c][d].candidate /\ new.new = op[c][d].new
    BY <2>3 DEF Operation
  <2>5. /\ BuiltOn(op[c][d].base, op[c][d].candidate, op[c][d].new)
        /\ Tombstoned(c, d) \subseteq TombIds(op[c][d].candidate)
    BY <2>3 DEF RecordsInv, InProgressSound, OperationSound
  <2> HIDE DEF new
  <2>6. OperationSound(c, d)'
    BY <2>1, <2>2, <2>4, <2>5, StillRedacted DEF OperationSound
  <2>7. "pending" \in PublicationState BY DEF PublicationState
  <2> QED BY <2>1, <2>6, <2>7, MarkPreserves
<1> QED
  BY <1>1, <1>2, <1>3, <1>4, <1>5, <1>6, <1>7, <1>8
     DEF Push, PushBegin, ReconcileBegin

\* However an exchange ends, the destination gains or stays, and only a commit
\* that landed is settled as accepted.
LEMMA TransportPreserves ==
    ASSUME RecordsInv, TypeOK', NEW c \in Clones, NEW d \in Destinations, Transport(c, d)
    PROVE  RecordsInv'
<1> DEFINE o == op[c][d]
<1>1. UNCHANGED <<pub, tomb>> /\ o.phase = "send"
  BY DEF Transport, SendAccepted, SendUnanswered, SendRejected, SendLost, SendRefused,
         Sending, storeVars
<1>2. BuiltOn(o.base, o.candidate, o.new) /\ Tombstoned(c, d) \subseteq TombIds(o.candidate)
  BY <1>1 DEF RecordsInv, InProgressSound, OperationSound
<1>3. /\ \A e \in Destinations : Gains(e)
      /\ TombstonedNotServed'
      /\ OpLands(c, d) => o.new \subseteq Held(tip'[d]) /\ tip'[d] = o.candidate
  <2>1. OpLands(c, d) \/ UNCHANGED tip
    BY DEF Transport, SendAccepted, SendUnanswered, SendRejected, SendLost, SendRefused,
           NothingLands
  <2>2. CASE OpLands(c, d) BY <1>2, <2>2, LandingGains DEF OpLands
  <2>3. CASE UNCHANGED tip /\ ~OpLands(c, d) BY <2>3, StillTip
  <2> QED BY <2>1, <2>2, <2>3
<1>4. PublishedIsHeld'
  BY <1>1, <1>3 DEF RecordsInv, PublishedIsHeld, Gains
<1>5. RedactionProven' /\ \A b \in Clones, e \in Destinations :
        Tombstoned(b, e)' = Tombstoned(b, e)
  BY <1>1, <1>3 DEF RecordsInv, RedactionProven, Gains, Tombstoned
<1>6. ASSUME NEW e \in Destinations, NEW m \in inFlight'[e]
      PROVE  BuiltOn(m.base, m.candidate, m.new)
  <2> DEFINE given == [clone |-> c, base |-> o.base, new |-> o.new,
                       candidate |-> o.candidate]
  <2>1. ASSUME SendLost(c, d) PROVE m \in inFlight[e] \/ m = given
    <3>1. inFlight' = [inFlight EXCEPT ![d] = IF LateArrival THEN @ \cup {given} ELSE @]
      BY <2>1 DEF SendLost
    <3> HIDE DEF given
    <3>2. m \in inFlight[e] \/ m = given
      BY <1>6, <3>1 DEF RecordsInv, TypeOK
    <3> QED BY <3>2
  <2>2. ASSUME ~SendLost(c, d) PROVE m \in inFlight[e]
    BY <1>6, <2>2 DEF Transport, SendAccepted, SendUnanswered, SendRejected, SendRefused
  <2>3. m \in inFlight[e] \/ m = given BY <2>1, <2>2
  <2> QED BY <1>2, <2>3 DEF RecordsInv, InProgressSound
<1>7. /\ \A b \in Clones, e \in Destinations : <<b, e>> # <<c, d>> => op'[b][e] = op[b][e]
      /\ OperationSound(c, d)'
  <2>1. CASE SendAccepted(c, d)
    <3>1. Answered(c, d, "accepted") /\ OpLands(c, d) BY <2>1 DEF SendAccepted
    <3>2. op'[c][d].phase = "accepted" /\ op'[c][d].new = o.new
      BY <3>1, AnsweredLeaves
    <3>3. OperationSound(c, d)' BY <1>2, <1>3, <1>5, <3>1, <3>2 DEF OperationSound
    <3> QED BY <3>1, <3>3, AnsweredLeaves
  <2>2. CASE SendUnanswered(c, d) \/ SendRejected(c, d) \/ SendLost(c, d)
    <3>1. Answered(c, d, "failed") BY <2>2 DEF SendUnanswered, SendRejected, SendLost
    <3> QED BY <3>1, AnsweredLeaves, RestingSound DEF RestingPhase
  <2>3. CASE SendRefused(c, d)
    <3>1. Answered(c, d, "refused") BY <2>3 DEF SendRefused
    <3> QED BY <3>1, AnsweredLeaves, RestingSound DEF RestingPhase
  <2> QED BY <2>1, <2>2, <2>3 DEF Transport
<1> QED BY <1>3, <1>4, <1>5, <1>6, <1>7, StepPreserves

\* A push that lands after its sender gave it up loses nothing either.
LEMMA LateLandingPreserves ==
    ASSUME RecordsInv, TypeOK', NEW d \in Destinations, NEW m \in inFlight[d],
           LateLanding(d, m)
    PROVE  RecordsInv'
<1>1. m \in Message BY DEF RecordsInv, TypeOK
<1>2. BuiltOn(m.base, m.candidate, m.new) BY DEF RecordsInv, InProgressSound
<1>3. Lands(m.clone, d, m.base, m.candidate, m.new) /\ UNCHANGED <<pub, tomb, op>>
  BY DEF LateLanding, storeVars
<1>4. (\A e \in Destinations : Gains(e)) /\ TombstonedNotServed'
  BY <1>1, <1>2, <1>3, LandingGains DEF Message
<1>5. PublishedIsHeld' BY <1>3, <1>4 DEF RecordsInv, PublishedIsHeld, Gains
<1>6. RedactionProven' BY <1>3, <1>4 DEF RecordsInv, RedactionProven, Gains
<1>7. \A e \in Destinations : inFlight'[e] \subseteq inFlight[e]
  BY DEF LateLanding, RecordsInv, TypeOK
<1>8. ASSUME NEW b \in Clones, NEW e \in Destinations
      PROVE  OperationSound(b, e)'
  <2>1. Tombstoned(b, e)' = Tombstoned(b, e) BY <1>3 DEF Tombstoned
  <2>2. OperationSound(b, e) BY DEF RecordsInv, InProgressSound
  <2> QED BY <1>3, <1>4, <2>1, <2>2, OperationKept
<1>9. InProgressSound'
  BY <1>7, <1>8 DEF InProgressSound, RecordsInv
<1> QED BY <1>4, <1>5, <1>6, <1>9 DEF RecordsInv

\* Settling records as published only what was accepted.
LEMMA SettlePreserves ==
    ASSUME RecordsInv, TypeOK', NEW c \in Clones, NEW d \in Destinations, Settle(c, d)
    PROVE  RecordsInv'
<1> USE DEF OnlyPub
<1>1. CASE SettleAccepted(c, d)
  <2> DEFINE new == [Idle EXCEPT !.phase = "tombstones"]
  <2>1. /\ SetOp(c, d, new) /\ UNCHANGED <<tomb, tip, inFlight>>
        /\ Mark(c, d, op[c][d].new, "published")
    BY <1>1 DEF SettleAccepted
  <2>2. new.phase = "tombstones" BY DEF Idle
  <2> HIDE DEF new
  <2>3. op'[c][d] = new BY <2>1, OthersWait DEF RecordsInv
  <2>4. op[c][d].new \subseteq Held(tip[d]) /\ Tombstoned(c, d) \subseteq TombIds(tip[d])
    BY <1>1 DEF SettleAccepted, RecordsInv, InProgressSound, OperationSound
  <2>5. OperationSound(c, d)'
    BY <2>1, <2>2, <2>3, <2>4, StillRedacted DEF OperationSound
  <2>6. "published" \in PublicationState BY DEF PublicationState
  <2> QED BY <2>1, <2>4, <2>5, <2>6, MarkPreserves
<1>2. CASE SettleTombstones(c, d)
  <2>1. SetOp(c, d, Idle) /\ UNCHANGED <<pub, tip, inFlight>>
    BY <1>2 DEF SettleTombstones, EndOp
  <2>2. Tombstoned(c, d) \subseteq TombIds(tip[d])
    BY <1>2 DEF SettleTombstones, RecordsInv, InProgressSound, OperationSound
  <2>3. \A b \in Clones, e \in Destinations, t \in Thoughts :
            \/ tomb'[b][e][t] = tomb[b][e][t]
            \/ /\ b = c /\ e = d /\ tomb[c][d][t].state = "pending"
               /\ tomb'[c][d][t].state = "published"
    <3>1. \A t \in Thoughts : tomb[c][d][t] \in Tombstone BY DEF RecordsInv, TypeOK
    <3> QED BY <1>2, <3>1 DEF SettleTombstones, RecordsInv, TypeOK, Tombstone
  <2>4. \A b \in Clones, e \in Destinations : Tombstoned(b, e)' = Tombstoned(b, e)
    BY <2>3 DEF Tombstoned
  <2>5. RedactionProven'
    BY <2>1, <2>2, <2>3 DEF RedactionProven, RecordsInv, Tombstoned
  <2>6. OperationSound(c, d)'
    BY <2>1, RestingStepSound DEF Idle, RestingPhase
  <2>7. \A b \in Clones, e \in Destinations : <<b, e>> # <<c, d>> => op'[b][e] = op[b][e]
    BY <2>1, OthersWait DEF RecordsInv
  <2> QED
    BY <2>1, <2>4, <2>5, <2>6, <2>7, StillTip, StillFlying, StillPublished, StepPreserves
<1>3. CASE SettleRefused(c, d) \/ SettleFailed(c, d)
  <2>1. /\ SetOp(c, d, Idle) /\ UNCHANGED <<tomb, tip, inFlight>>
        /\ \/ Clear(c, d, op[c][d].new)
           \/ Mark(c, d, op[c][d].new, "unknown")
    BY <1>3 DEF SettleRefused, SettleFailed, EndOp
  <2>2. OperationSound(c, d)' BY <2>1, RestingStepSound DEF Idle, RestingPhase
  <2>3. "unknown" \in PublicationState BY DEF PublicationState
  <2> QED BY <2>1, <2>2, <2>3, MarkPreserves
<1> QED BY <1>1, <1>2, <1>3 DEF Settle

\* Any step of an operation that holds a lock keeps the records true.
LEMMA LockedPreserves ==
    ASSUME RecordsInv, TypeOK', NEW c \in Clones, NEW d \in Destinations, Locked(c, d)
    PROVE  RecordsInv'
<1>1. CASE Pull(c, d)
  <2>1. Import(c, d, tip[d]) BY <1>1 DEF Pull
  <2>2. SetOp(c, d, Idle) BY <1>1 DEF Pull, SetOp, RecordsInv, TypeOK
  <2> QED BY <2>1, <2>2, ImportPreserves DEF Idle, RestingPhase
<1>2. ASSUME NEW k \in KnownConversations(c), Unshare(c, d, k) PROVE RecordsInv'
  <2>1. UNCHANGED <<pub, tomb, op, tip, inFlight>> BY <1>2 DEF Unshare
  <2> QED BY <2>1, QuietStep
<1>3. CASE RedactBegin(c, d)
  <2> DEFINE new == [op[c][d] EXCEPT !.phase = "redact"]
  <2>1. op[c][d] \in Operation BY DEF RecordsInv, TypeOK
  <2>2. new.phase \in RestingPhase BY <2>1 DEF Operation, RestingPhase
  <2>3. Import(c, d, tip[d]) /\ SetOp(c, d, new) BY <1>3 DEF RedactBegin, Step
  <2> QED BY <2>2, <2>3, ImportPreserves
<1>4. ASSUME NEW t \in Thoughts, NEW now \in Clock, RedactTyped(c, d, t, now)
      PROVE  RecordsInv'
  <2>1. SetOp(c, d, Idle) /\ UNCHANGED <<tip, inFlight>>
    BY <1>4 DEF RedactTyped, EndOp
  <2>2. OperationSound(c, d)' BY <2>1, RestingStepSound DEF Idle, RestingPhase
  <2>3. \A b \in Clones, e \in Destinations :
            /\ <<b, e>> # <<c, d>> => tomb'[b][e] = tomb[b][e]
            /\ <<b, e>> # <<c, d>> => op'[b][e] = op[b][e]
    <3>1. TypeOK BY DEF RecordsInv
    <3>2. \A b \in Clones, e \in Destinations :
            <<b, e>> # <<c, d>> => op'[b][e] = op[b][e]
      BY <2>1, <3>1, OthersWait
    <3>3. tomb \in [Clones -> [Destinations -> [Thoughts -> Tombstone]]]
      BY <3>1 DEF TypeOK
    <3>4. tomb' = [tomb EXCEPT ![c][d][t] = [state |-> "pending", stamp |-> now]]
      BY <1>4 DEF RedactTyped
    <3>5. \A b \in Clones, e \in Destinations :
            <<b, e>> # <<c, d>> => tomb'[b][e] = tomb[b][e]
      BY <3>3, <3>4
    <3> QED BY <3>2, <3>5
  <2>4. \A b \in Clones, e \in Destinations, u \in Thoughts :
            tomb'[b][e][u].state = "published" => tomb[b][e][u].state = "published"
    BY <1>4 DEF RedactTyped, RecordsInv, TypeOK
  <2>5. RedactionProven' BY <2>1, <2>4 DEF RedactionProven, RecordsInv
  <2>6. \A b \in Clones, e \in Destinations, u \in Thoughts :
            pub'[b][e][u] = "published" => pub[b][e][u] = "published"
    BY <1>4 DEF RedactTyped, PubWithout, RecordsInv, TypeOK
  <2>7. PublishedIsHeld' BY <2>1, <2>6, ForgettingKeepsProof
  <2>8. \A b \in Clones, e \in Destinations :
            <<b, e>> # <<c, d>> => Tombstoned(b, e)' = Tombstoned(b, e)
    BY <2>3 DEF Tombstoned
  <2> QED
    BY <2>1, <2>2, <2>3, <2>5, <2>7, <2>8, StillTip, StillFlying, StepPreserves
<1>5. CASE Decline(c, d) \/ Abort(c, d)
  <2>1. SetOp(c, d, Idle) /\ UNCHANGED <<pub, tomb, tip, inFlight>>
    BY <1>5 DEF Decline, Abort, EndOp, OnlyOp, storeVars
  <2>2. OperationSound(c, d)' BY <2>1, RestingStepSound DEF Idle, RestingPhase
  <2> QED BY <2>1, <2>2, OpStepPreserves
<1> QED
  BY <1>1, <1>2, <1>3, <1>4, <1>5, PushPreserves, TransportPreserves, SettlePreserves
     DEF Locked

\* A new clone has recorded nothing, and empty destinations hold nothing.
LEMMA RecordsInit == Init => RecordsInv
<1> SUFFICES ASSUME Init PROVE RecordsInv
  OBVIOUS
<1>1. TypeOK BY InitType
<1>2. PublishedIsHeld BY DEF Init, PublishedIsHeld
<1>3. RedactionProven BY DEF Init, RedactionProven, NoTombstone
<1>4. TombstonedNotServed BY DEF Init, TombstonedNotServed, Absent, NodeIds
<1>5. InProgressSound BY DEF Init, InProgressSound, OperationSound, Idle
<1> QED BY <1>1, <1>2, <1>3, <1>4, <1>5 DEF RecordsInv

\* The records invariant is inductive.
LEMMA RecordsNext == RecordsInv /\ [Next]_vars => RecordsInv'
<1> SUFFICES ASSUME RecordsInv, [Next]_vars PROVE RecordsInv'
  OBVIOUS
<1>1. TypeOK' BY NextType DEF RecordsInv
<1>2. CASE UNCHANGED vars BY <1>1, <1>2, QuietStep DEF vars
<1>3. CASE Next
  BY <1>1, <1>3, CommandsPreserve, LockedPreserves, LateLandingPreserves DEF Next
<1> QED BY <1>2, <1>3

\* Nothing that is lost, late, rejected, crashed or done by another clone makes
\* the records of a clone say more than the destination has.
THEOREM RecordsHold == Spec => []RecordsInv
BY RecordsInit, RecordsNext, PTL DEF Spec

\* A thought recorded as published is at the destination, or suppressed there.
THEOREM PublishedHolds == Spec => []PublishedIsHeld
<1>1. RecordsInv => PublishedIsHeld BY DEF RecordsInv
<1> QED BY <1>1, RecordsHold, PTL

\* A redaction recorded as published reached its destination.
THEOREM RedactionHolds == Spec => []RedactionProven
<1>1. RecordsInv => RedactionProven BY DEF RecordsInv
<1> QED BY <1>1, RecordsHold, PTL

\* No destination serves a thought that it has a tombstone for.
THEOREM TombstonesHold == Spec => []TombstonedNotServed
<1>1. RecordsInv => TombstonedNotServed BY DEF RecordsInv
<1> QED BY <1>1, RecordsHold, PTL

\* Every step of an operation rests on facts its earlier steps established, and
\* they still hold: no push is built on less than it knows of.
THEOREM OperationsHold == Spec => []InProgressSound
<1>1. RecordsInv => InProgressSound BY DEF RecordsInv
<1> QED BY <1>1, RecordsHold, PTL

-----------------------------------------------------------------------------
(* The destinations are an append-only log *)

\* A commit that lands on the commit it was built on publishes, in the log, the
\* thoughts it adds and the tombstones it carries.
LEMMA LandingPublishes ==
    ASSUME TypeOK, NEW c \in Clones, NEW d \in Destinations,
           NEW base, NEW candidate \in Commit, NEW new,
           BuiltOn(base, candidate, new), Lands(c, d, base, candidate, new)
    PROVE  Log!Next
<1> DEFINE added == NodeIds(candidate) \ NodeIds(base)
           gone == TombIds(candidate)
           served == [e \in Destinations |-> NodeIds(tip[e])]
           suppressed == [e \in Destinations |-> TombIds(tip[e])]
<1>1. tip' = [tip EXCEPT ![d] = candidate] /\ tip[d] = base BY DEF Lands
<1>2. added \in SUBSET Thoughts /\ gone \in SUBSET Thoughts
  BY DEF NodeIds, TombIds, Commit, WireNode, WireTombstone
<1>3. added \cap (NodeIds(base) \cup TombIds(base) \cup gone) = {}
  BY DEF BuiltOn
<1>4. NodeIds(candidate) = (NodeIds(base) \cup added) \ gone
  BY DEF BuiltOn, Held
<1>5. gone = TombIds(base) \cup gone
  BY DEF BuiltOn
<1>6. \A e \in Destinations : tip'[e] = IF e = d THEN candidate ELSE tip[e]
  BY <1>1 DEF TypeOK
<1>7. added \cap (served[d] \cup suppressed[d] \cup gone) = {}
  BY <1>1, <1>3
<1>8. ASSUME NEW e \in Destinations
      PROVE  /\ NodeIds(tip'[e]) = IF e = d THEN (NodeIds(tip[d]) \cup added) \ gone
                                   ELSE NodeIds(tip[e])
             /\ TombIds(tip'[e]) = IF e = d THEN TombIds(tip[d]) \cup gone
                                   ELSE TombIds(tip[e])
  <2>1. CASE e = d BY <1>1, <1>4, <1>5, <1>6, <2>1
  <2>2. CASE e # d BY <1>6, <2>2
  <2> QED BY <2>1, <2>2
<1>9. /\ [e \in Destinations |-> NodeIds(tip'[e])]
            = [served EXCEPT ![d] = (@ \cup added) \ gone]
      /\ [e \in Destinations |-> TombIds(tip'[e])]
            = [suppressed EXCEPT ![d] = @ \cup gone]
  <2> HIDE DEF added, gone
  <2> QED BY <1>8
<1>10. Log!Publish(d, added, gone)
  <2> HIDE DEF added, gone
  <2> QED BY <1>7, <1>9 DEF Log!Publish
<1> HIDE DEF added, gone
<1> QED BY <1>2, <1>10 DEF Log!Next

\* Only a push that lands, at once or late, changes what a destination holds.
LEMMA OnlyLandingsMove ==
    ASSUME RecordsInv, [Next]_vars
    PROVE  [Log!Next]_Log!logVars
<1>1. CASE UNCHANGED tip BY <1>1 DEF Log!logVars
<1>2. ASSUME NEW c \in Clones, NEW d \in Destinations, Sending(c, d), OpLands(c, d)
      PROVE  Log!Next
  <2>1. BuiltOn(op[c][d].base, op[c][d].candidate, op[c][d].new)
    BY <1>2 DEF Sending, RecordsInv, InProgressSound, OperationSound
  <2>2. TypeOK /\ op[c][d].candidate \in Commit
    BY DEF RecordsInv, TypeOK, Operation
  <2> QED BY <1>2, <2>1, <2>2, LandingPublishes DEF OpLands
<1>3. ASSUME NEW d \in Destinations, NEW m \in inFlight[d], LateLanding(d, m)
      PROVE  Log!Next
  <2>1. TypeOK /\ m \in Message BY DEF RecordsInv, TypeOK
  <2>2. BuiltOn(m.base, m.candidate, m.new) BY DEF RecordsInv, InProgressSound
  <2>3. Lands(m.clone, d, m.base, m.candidate, m.new) BY <1>3 DEF LateLanding
  <2> QED BY <2>1, <2>2, <2>3, LandingPublishes DEF Message
<1>4. ASSUME NEW c \in Clones, Unlocked(c) PROVE UNCHANGED tip
  BY <1>4 DEF Unlocked, Capture, PassiveCapture, HarnessCapture, Insert, DeleteLocal, Share
<1>5. ASSUME NEW c \in Clones, NEW d \in Destinations, Push(c, d) \/ Settle(c, d)
      PROVE  UNCHANGED tip
  BY <1>5 DEF Push, PushBegin, ReconcileBegin, Begin, ReconcilePull, ClearUncertain,
       PushPull, ImportRefused, TrackingMoves, Project, ProjectEnds, MarkPending, Import,
       Settle, SettleAccepted, SettleTombstones, SettleRefused, SettleFailed, OnlyPub, OnlyOp
<1>6. ASSUME NEW c \in Clones, NEW d \in Destinations, Transport(c, d)
      PROVE  UNCHANGED tip \/ (Sending(c, d) /\ OpLands(c, d))
  BY <1>6 DEF Transport, SendAccepted, SendUnanswered, SendRejected, SendLost,
       SendRefused, NothingLands
<1>7. ASSUME NEW c \in Clones, NEW d \in Destinations,
             Locked(c, d), ~Push(c, d), ~Transport(c, d), ~Settle(c, d)
      PROVE  UNCHANGED tip
  BY <1>7 DEF Locked, Pull, Import, Unshare, RedactBegin, RedactTyped, Decline, Abort, OnlyOp
<1>8. CASE Next
  BY <1>1, <1>2, <1>3, <1>4, <1>5, <1>6, <1>7, <1>8 DEF Next
<1> QED BY <1>1, <1>8 DEF vars

\* The detailed system implements ThoughtLog: whatever crashes, is lost, comes
\* late or runs at the same time, no thought leaves a destination but under its
\* tombstone, and no tombstone is lifted.
THEOREM Refinement == Spec => AppendOnly
<1>1. Init => Log!Init
  BY DEF Init, Log!Init, Absent, NodeIds, TombIds
<1>2. RecordsInv /\ [Next]_vars => [Log!Next]_Log!logVars
  BY OnlyLandingsMove
<1> QED BY <1>1, <1>2, RecordsHold, PTL DEF Spec, AppendOnly, Log!Spec

-----------------------------------------------------------------------------
(***************************************************************************)
(* What a clone's own store says: what was deleted or redacted stays away, *)
(* what a push is about to send was granted, and what the clone published  *)
(* is remembered until it is gone from there.                              *)
(***************************************************************************)

(* What the steps do to a store *)

\* Under a lock, the rows, shares and grants of a clone change by an import, an
\* unshare or a redaction, and by nothing else.
LEMMA LockedTouches ==
    ASSUME TypeOK, NEW c \in Clones, NEW d \in Destinations, Locked(c, d)
    PROVE  \/ Import(c, d, tip[d])
           \/ \E k \in KnownConversations(c) : Unshare(c, d, k)
           \/ \E t \in Thoughts, now \in Clock : RedactTyped(c, d, t, now)
           \/ /\ UNCHANGED <<row, shares, future, buried, minted, granted>>
              /\ \A b \in Clones, e \in Destinations : Tombstoned(b, e)' = Tombstoned(b, e)
<1> DEFINE Still == /\ UNCHANGED <<row, shares, future, buried, minted, granted>>
                    /\ \A b \in Clones, e \in Destinations :
                            Tombstoned(b, e)' = Tombstoned(b, e)
<1>1. UNCHANGED <<row, shares, future, buried, minted, granted, tomb>> => Still
  BY DEF Tombstoned
<1>2. CASE Push(c, d)
  BY <1>1, <1>2 DEF Push, PushBegin, ReconcileBegin, Begin, ReconcilePull, ClearUncertain,
       PushPull, ImportRefused, TrackingMoves, Project, ProjectEnds, MarkPending,
       OnlyOp, OnlyPub, storeVars, historyVars
<1>3. CASE Transport(c, d)
  BY <1>1, <1>3 DEF Transport, SendAccepted, SendUnanswered, SendRejected, SendLost,
       SendRefused, Sending, storeVars
<1>4. CASE Settle(c, d)
  <2>1. CASE SettleTombstones(c, d)
    <3>1. UNCHANGED <<row, shares, future, buried, minted, granted>>
      BY <2>1 DEF SettleTombstones, historyVars
    <3>2. ASSUME NEW b \in Clones, NEW e \in Destinations, NEW t \in Thoughts
          PROVE  tomb'[b][e][t].state # "none" <=> tomb[b][e][t].state # "none"
      <4>1. tomb[c][d] \in [Thoughts -> Tombstone] BY DEF TypeOK
      <4>2. [tomb[c][d][t] EXCEPT !.state = "published"].state = "published"
        BY <4>1 DEF Tombstone
      <4> QED BY <2>1, <4>1, <4>2 DEF SettleTombstones, TypeOK
    <3> QED BY <3>1, <3>2 DEF Tombstoned
  <2>2. CASE SettleAccepted(c, d) \/ SettleRefused(c, d) \/ SettleFailed(c, d)
    BY <1>1, <2>2 DEF SettleAccepted, SettleRefused, SettleFailed, OnlyPub, historyVars
  <2> QED BY <1>4, <2>1, <2>2 DEF Settle
<1>5. CASE Decline(c, d) \/ Abort(c, d)
  BY <1>1, <1>5 DEF Decline, Abort, OnlyOp, storeVars, historyVars
<1> QED
  BY <1>2, <1>3, <1>4, <1>5 DEF Locked, Pull, RedactBegin

\* What an import does to the row of a thought: it keeps it under the name it
\* has, removes it, or brings it in under the name of its source; and what it
\* brings in was neither stored nor deleted here nor suppressed for that source.
LEMMA ImportedRow ==
    ASSUME TypeOK, NEW c \in Clones, NEW d \in Destinations, NEW commit \in Commit,
           Import(c, d, commit), NEW t \in Thoughts, row'[c][t].stored
    PROVE  \/ /\ t \in Rows(c) \ TombIds(commit)
              /\ row'[c][t].via = row[c][t].via
           \/ \E n \in Arrivals(c, d, commit) :
                n.id = t /\ n.via \in Via /\ row'[c][t].via = <<d>> \o n.via
<1>1. row'[c][t] = ImportedRows(c, d, commit)[t] BY DEF Import, TypeOK
<1>2. CASE \E n \in Arrivals(c, d, commit) : n.id = t
  <2>1. /\ ArrivalOf(c, d, commit, t) \in Arrivals(c, d, commit)
        /\ ArrivalOf(c, d, commit, t).id = t
    BY <1>2 DEF ArrivalOf
  <2>2. row'[c][t].via = <<d>> \o ArrivalOf(c, d, commit, t).via
    BY <1>1, <1>2 DEF ImportedRows
  <2>3. ArrivalOf(c, d, commit, t).via \in Via
    BY <2>1 DEF Arrivals, Commit, WireNode
  <2> QED BY <2>1, <2>2, <2>3
<1>3. CASE ~\E n \in Arrivals(c, d, commit) : n.id = t
  <2>1. row'[c][t] = IF t \in TombIds(commit) THEN NoRow
                     ELSE Detached(row[c][t], TombIds(commit))
    BY <1>1, <1>3 DEF ImportedRows, RowsWithout
  <2>2. row[c][t] \in Row BY DEF TypeOK
  <2>3. t \notin TombIds(commit) BY <2>1 DEF NoRow
  <2>4. /\ Detached(row[c][t], TombIds(commit)).via = row[c][t].via
        /\ Detached(row[c][t], TombIds(commit)).stored = row[c][t].stored
    BY <2>2 DEF Detached, Row
  <2> QED BY <2>1, <2>3, <2>4 DEF Rows
<1> QED BY <1>2, <1>3

\* What a tombstone does to the row of a thought that is still there.
LEMMA RowLeft ==
    ASSUME TypeOK, NEW c \in Clones, NEW gone, NEW t \in Thoughts,
           RowsWithout(c, gone)[t].stored
    PROVE  /\ t \in Rows(c) \ gone
           /\ RowsWithout(c, gone)[t].via = row[c][t].via
<1>1. row[c][t] \in Row BY DEF TypeOK
<1>2. t \notin gone BY DEF RowsWithout, NoRow
<1>3. /\ Detached(row[c][t], gone).via = row[c][t].via
      /\ Detached(row[c][t], gone).stored = row[c][t].stored
  BY <1>1 DEF Detached, Row
<1> QED BY <1>2, <1>3 DEF RowsWithout, Rows

\* A thought no tombstone is recorded for keeps its row and its name.
LEMMA RowKept ==
    ASSUME TypeOK, NEW c \in Clones, NEW gone, NEW t \in Rows(c) \ gone
    PROVE  /\ RowsWithout(c, gone)[t].stored
           /\ RowsWithout(c, gone)[t].via = row[c][t].via
<1>1. t \in Thoughts /\ row[c][t].stored BY DEF Rows
<1>2. row[c][t] \in Row BY <1>1 DEF TypeOK
<1>3. /\ Detached(row[c][t], gone).via = row[c][t].via
      /\ Detached(row[c][t], gone).stored = row[c][t].stored
  BY <1>2 DEF Detached, Row
<1> QED BY <1>1, <1>3 DEF RowsWithout

\* An import leaves the row of a stored thought its tree has no tombstone for.
LEMMA ImportKeepsRow ==
    ASSUME TypeOK, NEW c \in Clones, NEW d \in Destinations, NEW commit \in Commit,
           Import(c, d, commit), NEW t \in Rows(c) \ TombIds(commit)
    PROVE  row'[c][t].stored /\ row'[c][t].via = row[c][t].via
<1>1. t \in Thoughts BY DEF Rows
<1>2. ~\E n \in Arrivals(c, d, commit) : n.id = t BY DEF Arrivals
<1>3. row'[c][t] = RowsWithout(c, TombIds(commit))[t]
  BY <1>1, <1>2 DEF Import, ImportedRows, TypeOK
<1> QED BY <1>3, RowKept

\* It stores each arrival under a name that begins with its source.
LEMMA ImportStoresArrival ==
    ASSUME TypeOK, NEW c \in Clones, NEW d \in Destinations, NEW commit \in Commit,
           Import(c, d, commit), \A m, n \in commit.nodes : m.id = n.id => m = n,
           NEW n \in Arrivals(c, d, commit)
    PROVE  /\ n.id \in Thoughts
           /\ row'[c][n.id].stored /\ row'[c][n.id].via = <<d>> \o n.via
<1>1. n.id \in Thoughts BY DEF Arrivals, Commit, WireNode
<1>2. ArrivalOf(c, d, commit, n.id) = n BY DEF ArrivalOf, Arrivals
<1>3. row'[c][n.id] = ImportedRows(c, d, commit)[n.id] BY <1>1 DEF Import, TypeOK
<1> QED BY <1>1, <1>2, <1>3 DEF ImportedRows

\* A share that an import leaves or makes: it was there, or came with an arrival
\* in a conversation whose future is shared.
LEMMA ImportedShare ==
    ASSUME TypeOK, NEW c \in Clones, NEW d \in Destinations, NEW commit \in Commit,
           Import(c, d, commit), NEW e \in Destinations, NEW t,
           t \in shares'[c][e]
    PROVE  \/ t \in shares[c][e] \ TombIds(commit)
           \/ \E n \in Arrivals(c, d, commit) :
                n.id = t /\ [via |-> <<d>> \o n.via, session |-> SessionOf[t]] \in future[c][e]
<1>1. shares'[c][e] = ImportedShares(c, d, commit)[e] BY DEF Import, TypeOK
<1> QED BY <1>1 DEF ImportedShares, SharesWithout

\* A capture stores its thought under a name of this clone, and shares no other.
LEMMA InsertedRow ==
    ASSUME TypeOK, NEW c \in Clones, NEW t \in Thoughts,
           NEW parent \in Thoughts \cup {NoThought}, NEW rows \in [Thoughts -> Row],
           Insert(c, t, parent, rows)
    PROVE  /\ row'[c][t].stored /\ row'[c][t].via = <<>>
           /\ \A u \in Thoughts \ {t} : row'[c][u] = rows[u]
           /\ \A e \in Destinations :
                /\ shares[c][e] \subseteq shares'[c][e]
                /\ shares'[c][e] \subseteq shares[c][e] \cup {t}
           /\ \A b \in Clones \ {c} : row'[b] = row[b] /\ shares'[b] = shares[b]
<1>1. row'[c] = [rows EXCEPT ![t] = [stored |-> TRUE, via |-> <<>>, parent |-> parent]]
  BY DEF Insert, TypeOK
<1>2. row'[c][t] = [stored |-> TRUE, via |-> <<>>, parent |-> parent]
  BY <1>1
<1> QED BY <1>1, <1>2 DEF Insert, TypeOK

\* A capture shares its thought where the future of its conversation is shared.
LEMMA InsertedShare ==
    ASSUME TypeOK, NEW c \in Clones, NEW t \in Thoughts, NEW parent, NEW rows,
           Insert(c, t, parent, rows), NEW e \in Destinations,
           t \in shares'[c][e], t \notin shares[c][e]
    PROVE  [via |-> <<>>, session |-> SessionOf[t]] \in future[c][e]
BY DEF Insert, TypeOK

\* Every capture, whatever its source: an insert of a thought not deleted here,
\* over the rows there are but for those a passive capture replaces.
LEMMA CaptureInserts ==
    ASSUME TypeOK, NEW c \in Clones, NEW t \in Thoughts,
           Capture(c, t) \/ PassiveCapture(c, t) \/ HarnessCapture(c, t)
    PROVE  \E parent \in Thoughts \cup {NoThought}, rows \in [Thoughts -> Row] :
                /\ Insert(c, t, parent, rows) /\ t \notin buried[c]
                /\ t \notin minted \/ (SourceOf[t] = "harness" /\ t \notin Rows(c))
                /\ \A u \in Thoughts : rows[u].stored => rows[u] = row[c][u]
                /\ \A u \in Rows(c) : \/ rows[u] = row[c][u]
                                      \/ SourceOf[t] = "passive" /\ RequestOf[u] = RequestOf[t]
<1>1. row[c] \in [Thoughts -> Row] BY DEF TypeOK
<1>2. ParentOf[t] \in Thoughts \cup {NoThought} BY ConstantsOK
<1>3. CASE Capture(c, t)
  BY <1>1, <1>2, <1>3 DEF Capture
<1>4. CASE PassiveCapture(c, t)
  <2> DEFINE replaced == {u \in Rows(c) : RequestOf[u] = RequestOf[t]}
             rows == [u \in Thoughts |-> IF u \in replaced THEN NoRow ELSE row[c][u]]
  <2>1. NoRow \in Row /\ ~NoRow.stored BY DEF NoRow, Row, Via
  <2>2. rows \in [Thoughts -> Row] BY <1>1, <2>1
  <2>3. /\ Insert(c, t, NoThought, rows) /\ t \notin buried[c] /\ t \notin minted
        /\ SourceOf[t] = "passive"
    BY <1>4 DEF PassiveCapture
  <2>4. \A u \in Thoughts : rows[u].stored => rows[u] = row[c][u] BY <2>1
  <2>5. \A u \in Rows(c) : rows[u] = row[c][u] \/ RequestOf[u] = RequestOf[t]
    BY DEF Rows
  <2> HIDE DEF rows
  <2> QED BY <2>2, <2>3, <2>4, <2>5
<1>5. CASE HarnessCapture(c, t)
  <2> DEFINE parent == IF ParentOf[t] \in Rows(c) THEN ParentOf[t] ELSE NoThought
  <2>1. parent \in Thoughts \cup {NoThought} BY <1>2
  <2>2. /\ Insert(c, t, parent, row[c]) /\ t \notin buried[c]
        /\ SourceOf[t] = "harness" /\ t \notin Rows(c)
    BY <1>5 DEF HarnessCapture
  <2> HIDE DEF parent
  <2> QED BY <1>1, <2>1, <2>2
<1> QED BY <1>3, <1>4, <1>5

-----------------------------------------------------------------------------
(* What was deleted stays away *)

\* A capture leaves what was deleted away.
LEMMA CaptureKeepsDeletions ==
    ASSUME TypeOK, DeletedStaysDeleted, NEW c \in Clones, NEW t \in Thoughts,
           Capture(c, t) \/ PassiveCapture(c, t) \/ HarnessCapture(c, t)
    PROVE  DeletedStaysDeleted'
<1>1. PICK parent \in Thoughts \cup {NoThought}, rows \in [Thoughts -> Row] :
            /\ Insert(c, t, parent, rows) /\ t \notin buried[c]
            /\ \A u \in Thoughts : rows[u].stored => rows[u] = row[c][u]
  BY CaptureInserts
<1>2. buried' = buried BY <1>1 DEF Insert
<1>3. ASSUME NEW b \in Clones, NEW u \in buried[b]
      PROVE  u \notin Rows(b)' /\ \A e \in Destinations : u \notin shares'[b][e]
  <2>1. u \in Thoughts /\ u \notin Rows(b) /\ \A e \in Destinations : u \notin shares[b][e]
    BY <1>3 DEF DeletedStaysDeleted, TypeOK
  <2>2. CASE b = c
    <3>1. u # t BY <1>1, <2>2
    <3>2. ~row'[c][u].stored BY <1>1, <2>1, <2>2, <3>1, InsertedRow DEF Rows
    <3> QED BY <1>1, <2>1, <2>2, <3>1, <3>2, InsertedRow DEF Rows
  <2>3. CASE b # c
    BY <1>1, <2>1, <2>3, InsertedRow DEF Rows
  <2> QED BY <2>2, <2>3
<1> QED BY <1>2, <1>3 DEF DeletedStaysDeleted

\* An import stores and shares nothing that was not there and does not arrive.
LEMMA ImportAddsArrivals ==
    ASSUME TypeOK, NEW c \in Clones, NEW d \in Destinations, NEW commit \in Commit,
           Import(c, d, commit), NEW u \in Thoughts, u \notin Rows(c),
           \A n \in Arrivals(c, d, commit) : n.id # u
    PROVE  /\ u \notin Rows(c)'
           /\ \A e \in Destinations : u \notin shares[c][e] => u \notin shares'[c][e]
<1>1. ~row'[c][u].stored BY ImportedRow
<1>2. ASSUME NEW e \in Destinations, u \in shares'[c][e] PROVE u \in shares[c][e]
  <2>1. \/ u \in shares[c][e] \ TombIds(commit)
        \/ \E n \in Arrivals(c, d, commit) :
                n.id = u /\ [via |-> <<d>> \o n.via, session |-> SessionOf[u]] \in future[c][e]
    BY <1>2, ImportedShare
  <2> QED BY <2>1
<1> QED BY <1>1, <1>2 DEF Rows

\* So does an import, which asks for the tombstones in its own transaction.
LEMMA ImportKeepsDeletions ==
    ASSUME TypeOK, DeletedStaysDeleted, NEW c \in Clones, NEW d \in Destinations,
           NEW commit \in Commit, Import(c, d, commit)
    PROVE  DeletedStaysDeleted'
<1>1. buried' = buried BY DEF Import
<1>2. ASSUME NEW b \in Clones, NEW u \in buried[b]
      PROVE  u \notin Rows(b)' /\ \A e \in Destinations : u \notin shares'[b][e]
  <2>1. u \in Thoughts /\ u \notin Rows(b) /\ \A e \in Destinations : u \notin shares[b][e]
    BY <1>2 DEF DeletedStaysDeleted, TypeOK
  <2>2. CASE b = c
    <3>1. \A n \in Arrivals(c, d, commit) : n.id # u BY <2>2 DEF Arrivals
    <3> QED BY <2>1, <2>2, <3>1, ImportAddsArrivals
  <2>3. CASE b # c
    <3>1. row'[b] = row[b] /\ shares'[b] = shares[b] BY <2>3 DEF Import, TypeOK
    <3> QED BY <2>1, <3>1 DEF Rows
  <2> QED BY <2>2, <2>3
<1> QED BY <1>1, <1>2 DEF DeletedStaysDeleted

\* And so does a tombstone, of whatever scope: it only removes.
LEMMA TombstoneKeepsDeletions ==
    ASSUME TypeOK, DeletedStaysDeleted, NEW c \in Clones, NEW gone \in SUBSET Thoughts,
           row' = [row EXCEPT ![c] = RowsWithout(c, gone)],
           shares' = [shares EXCEPT ![c] = SharesWithout(c, gone)],
           \A b \in Clones : buried'[b] \subseteq IF b = c THEN buried[b] \cup gone ELSE buried[b]
    PROVE  DeletedStaysDeleted'
<1> SUFFICES ASSUME NEW b \in Clones, NEW u \in buried'[b]
             PROVE  u \notin Rows(b)' /\ \A e \in Destinations : u \notin shares'[b][e]
  BY DEF DeletedStaysDeleted
<1>1. CASE b = c
  <2>1. u \in Thoughts BY <1>1 DEF TypeOK
  <2>2. row'[c] = RowsWithout(c, gone) /\ shares'[c] = SharesWithout(c, gone)
    BY DEF TypeOK
  <2>3. u \in gone \/ (u \notin Rows(c) /\ \A e \in Destinations : u \notin shares[c][e])
    BY <1>1 DEF DeletedStaysDeleted
  <2>4. ~row'[c][u].stored BY <2>1, <2>2, <2>3, RowLeft
  <2> QED BY <1>1, <2>2, <2>3, <2>4 DEF Rows, SharesWithout
<1>2. CASE b # c
  <2>1. row'[b] = row[b] /\ shares'[b] = shares[b] /\ u \in buried[b] BY <1>2 DEF TypeOK
  <2> QED BY <2>1 DEF DeletedStaysDeleted, Rows
<1> QED BY <1>1, <1>2

\* A share or an unshare covers only thoughts that are stored.
LEMMA SharingKeepsDeletions ==
    ASSUME TypeOK, DeletedStaysDeleted, NEW c \in Clones, NEW d \in Destinations, NEW k,
           \/ \E withFuture \in BOOLEAN : Share(c, d, k, withFuture)
           \/ Unshare(c, d, k)
    PROVE  DeletedStaysDeleted'
<1>1. UNCHANGED <<row, buried>> BY DEF Share, Unshare
<1>2. ASSUME NEW b \in Clones, NEW e \in Destinations
      PROVE  shares'[b][e] \subseteq shares[b][e] \cup Rows(b)
  <2>1. \/ shares' = [shares EXCEPT ![c][d] = @ \cup MembersOf(c, k)]
        \/ shares' = [shares EXCEPT ![c][d] = @ \ MembersOf(c, k)]
    BY DEF Share, Unshare
  <2>2. MembersOf(c, k) \subseteq Rows(c) BY DEF MembersOf
  <2>3. shares'[b][e] = shares[b][e] \/ (b = c /\ e = d) BY <2>1 DEF TypeOK
  <2>4. shares'[c][d] \subseteq shares[c][d] \cup Rows(c) BY <2>1, <2>2 DEF TypeOK
  <2> QED BY <2>3, <2>4
<1> QED BY <1>1, <1>2 DEF DeletedStaysDeleted, Rows

\* A deletion outlives every step.
LEMMA DeletionsNext == TypeOK /\ DeletedStaysDeleted /\ [Next]_vars => DeletedStaysDeleted'
<1> SUFFICES ASSUME TypeOK, DeletedStaysDeleted, [Next]_vars PROVE DeletedStaysDeleted'
  OBVIOUS
<1>1. CASE UNCHANGED <<row, shares, buried>>
  BY <1>1 DEF DeletedStaysDeleted, Rows
<1>2. ASSUME NEW c \in Clones, Unlocked(c) PROVE DeletedStaysDeleted'
  <2>1. ASSUME NEW t \in Thoughts, DeleteLocal(c, t) PROVE DeletedStaysDeleted'
    <3>1. \A b \in Clones : buried'[b] \subseteq
            IF b = c THEN buried[b] \cup {t} ELSE buried[b]
      BY <2>1 DEF DeleteLocal, TypeOK
    <3> QED BY <2>1, <3>1, TombstoneKeepsDeletions DEF DeleteLocal
  <2> QED
    BY <1>2, <2>1, CaptureKeepsDeletions, SharingKeepsDeletions DEF Unlocked
<1>3. ASSUME NEW c \in Clones, NEW d \in Destinations, Locked(c, d)
      PROVE  DeletedStaysDeleted'
  <2>1. tip[d] \in Commit BY DEF TypeOK
  <2>2. ASSUME NEW t \in Thoughts, NEW now \in Clock, RedactTyped(c, d, t, now)
        PROVE  DeletedStaysDeleted'
    <3>1. \A b \in Clones : buried'[b] \subseteq
            IF b = c THEN buried[b] \cup {t} ELSE buried[b]
      BY <2>2 DEF RedactTyped
    <3>2. /\ row' = [row EXCEPT ![c] = RowsWithout(c, {t})]
          /\ shares' = [shares EXCEPT ![c] = SharesWithout(c, {t})]
      BY <2>2 DEF RedactTyped
    <3> QED BY <3>1, <3>2, TombstoneKeepsDeletions
  <2> QED
    BY <1>1, <1>3, <2>1, <2>2, LockedTouches, ImportKeepsDeletions, SharingKeepsDeletions
<1>4. ASSUME NEW d \in Destinations, NEW m \in inFlight[d], LateLanding(d, m)
      PROVE  DeletedStaysDeleted'
  BY <1>1, <1>4 DEF LateLanding, storeVars
<1> QED BY <1>1, <1>2, <1>3, <1>4 DEF Next, vars

\* What was deleted on a clone comes back neither by pull nor by ingestion, and is
\* nowhere shared.
THEOREM DeletionHolds == Spec => []DeletedStaysDeleted
<1>1. Init => DeletedStaysDeleted BY DEF Init, DeletedStaysDeleted
<1>2. TypeOK /\ DeletedStaysDeleted /\ [Next]_vars => DeletedStaysDeleted'
  BY DeletionsNext
<1> QED BY <1>1, <1>2, Typing, PTL DEF Spec

-----------------------------------------------------------------------------
(* What was redacted for a destination does not come back from it *)

\* The name of a pulled conversation begins with where it was pulled from.
LEMMA PulledFrom ==
    ASSUME NEW d \in Destinations, NEW v \in Via
    PROVE  <<d>> \o v # <<>> /\ Head(<<d>> \o v) = d
BY DEF Via

\* The condition for one clone, destination and thought.
AwayFrom(c, d, t) == row[c][t].via = <<>> \/ Head(row[c][t].via) # d
\* A row that is kept under its name is still away from where it was.
LEMMA AwayKept ==
    ASSUME NEW c, NEW d, NEW t, row'[c][t].via = row[c][t].via, AwayFrom(c, d, t)
    PROVE  AwayFrom(c, d, t)'
BY DEF AwayFrom

\* A capture names a conversation of this clone's own.
LEMMA CaptureKeepsSuppression ==
    ASSUME TypeOK, SuppressedForSource, NEW c \in Clones, NEW t \in Thoughts,
           Capture(c, t) \/ PassiveCapture(c, t) \/ HarnessCapture(c, t)
    PROVE  SuppressedForSource'
<1>1. PICK parent \in Thoughts \cup {NoThought}, rows \in [Thoughts -> Row] :
            /\ Insert(c, t, parent, rows) /\ t \notin buried[c]
            /\ \A u \in Thoughts : rows[u].stored => rows[u] = row[c][u]
  BY CaptureInserts
<1>2. \A b \in Clones, e \in Destinations : Tombstoned(b, e)' = Tombstoned(b, e)
  BY <1>1 DEF Insert, Tombstoned
<1>3. ASSUME NEW b \in Clones, NEW e \in Destinations, NEW u \in Rows(b)' \cap Tombstoned(b, e)
      PROVE  AwayFrom(b, e, u)'
  <2>1. u \in Thoughts /\ row'[b][u].stored BY DEF Rows
  <2>2. CASE b = c /\ u = t
    BY <1>1, <2>2, InsertedRow DEF AwayFrom
  <2>3. CASE b # c \/ u # t
    <3>1. row'[b][u] = row[b][u]
      BY <1>1, <2>1, <2>3, InsertedRow
    <3>2. u \in Rows(b) BY <2>1, <3>1 DEF Rows
    <3> QED BY <3>1, <3>2, AwayKept DEF SuppressedForSource, AwayFrom
  <2> QED BY <2>2, <2>3
<1> QED BY <1>2, <1>3 DEF SuppressedForSource, AwayFrom

\* An import from d brings in nothing redacted for d, and under the name of d.
LEMMA ImportKeepsSuppression ==
    ASSUME RecordsInv, SuppressedForSource, NEW c \in Clones, NEW d \in Destinations,
           Import(c, d, tip[d])
    PROVE  SuppressedForSource'
<1>1. TypeOK /\ tip[d] \in Commit BY DEF RecordsInv, TypeOK
<1>2. ASSUME NEW t \in Thoughts
      PROVE  t \in Tombstoned(c, d)' => t \in Tombstoned(c, d) \cup TombIds(tip[d])
  <2>1. tomb'[c][d] = ImportedTombs(c, d, tip[d]) BY <1>1 DEF Import, TypeOK
  <2> QED BY <2>1 DEF Tombstoned, ImportedTombs
<1>3. \A b \in Clones, e \in Destinations :
        <<b, e>> # <<c, d>> => Tombstoned(b, e)' = Tombstoned(b, e)
  BY ImportProves
<1>4. ASSUME NEW b \in Clones, NEW e \in Destinations,
             NEW u \in Rows(b)' \cap Tombstoned(b, e)'
      PROVE  AwayFrom(b, e, u)'
  <2>1. u \in Thoughts /\ row'[b][u].stored BY DEF Rows
  <2>2. CASE b # c
    <3>1. row'[b] = row[b] /\ u \in Tombstoned(b, e) BY <1>1, <1>3, <2>2 DEF Import, TypeOK
    <3>2. u \in Rows(b) BY <2>1, <3>1 DEF Rows
    <3> QED BY <3>1, <3>2, AwayKept DEF SuppressedForSource, AwayFrom
  <2>3. CASE b = c /\ u \in Rows(c) \ TombIds(tip[d]) /\ row'[c][u].via = row[c][u].via
    <3>1. u \in Tombstoned(c, e) BY <1>2, <1>3, <2>1, <2>3
    <3> QED BY <2>3, <3>1, AwayKept DEF SuppressedForSource, AwayFrom
  <2>4. ASSUME b = c, NEW n \in Arrivals(c, d, tip[d]), n.id = u, n.via \in Via,
               row'[c][u].via = <<d>> \o n.via
        PROVE  AwayFrom(b, e, u)'
    <3>1. u \notin Tombstoned(c, d) \cup TombIds(tip[d]) BY <2>4 DEF Arrivals
    <3>2. e # d BY <1>2, <2>1, <2>4, <3>1
    <3>3. Head(row'[c][u].via) = d BY <2>4, PulledFrom
    <3> QED BY <2>4, <3>2, <3>3 DEF AwayFrom
  <2>5. \/ b # c
        \/ b = c /\ u \in Rows(c) \ TombIds(tip[d]) /\ row'[c][u].via = row[c][u].via
        \/ b = c /\ \E n \in Arrivals(c, d, tip[d]) :
                n.id = u /\ n.via \in Via /\ row'[c][u].via = <<d>> \o n.via
    BY <1>1, <2>1, ImportedRow
  <2> QED BY <2>2, <2>3, <2>4, <2>5
<1> QED BY <1>4 DEF SuppressedForSource, AwayFrom

\* A tombstone, of whatever scope, removes the row it is recorded for.
LEMMA TombstoneKeepsSuppression ==
    ASSUME TypeOK, SuppressedForSource, NEW c \in Clones, NEW gone \in SUBSET Thoughts,
           row' = [row EXCEPT ![c] = RowsWithout(c, gone)],
           \A b \in Clones, e \in Destinations :
                Tombstoned(b, e)' \subseteq
                    IF b = c THEN Tombstoned(b, e) \cup gone ELSE Tombstoned(b, e)
    PROVE  SuppressedForSource'
<1> SUFFICES ASSUME NEW b \in Clones, NEW e \in Destinations,
                    NEW u \in Rows(b)' \cap Tombstoned(b, e)'
             PROVE  AwayFrom(b, e, u)'
  BY DEF SuppressedForSource, AwayFrom
<1>1. u \in Thoughts /\ row'[b][u].stored BY DEF Rows
<1>2. CASE b = c
  <2>1. row'[c] = RowsWithout(c, gone) BY DEF TypeOK
  <2>2. u \in Rows(c) \ gone /\ row'[c][u].via = row[c][u].via
    BY <1>1, <1>2, <2>1, RowLeft
  <2> QED BY <1>2, <2>2, AwayKept DEF SuppressedForSource, AwayFrom
<1>3. CASE b # c
  <2>1. row'[b] = row[b] BY <1>3 DEF TypeOK
  <2>2. u \in Rows(b) \cap Tombstoned(b, e) BY <1>1, <1>3, <2>1 DEF Rows
  <2> QED BY <2>1, <2>2, AwayKept DEF SuppressedForSource, AwayFrom
<1> QED BY <1>2, <1>3

\* A redaction, once typed, is in force against its destination from then on.
LEMMA SuppressionNext ==
    RecordsInv /\ SuppressedForSource /\ [Next]_vars => SuppressedForSource'
<1> SUFFICES ASSUME RecordsInv, SuppressedForSource, [Next]_vars
             PROVE  SuppressedForSource'
  OBVIOUS
<1> USE DEF RecordsInv
<1>1. (/\ UNCHANGED row
       /\ \A b \in Clones, e \in Destinations : Tombstoned(b, e)' = Tombstoned(b, e))
      => SuppressedForSource'
  BY DEF SuppressedForSource, Rows
<1>2. UNCHANGED <<row, tomb>> => SuppressedForSource'
  BY <1>1 DEF Tombstoned
<1>3. ASSUME NEW c \in Clones, Unlocked(c) PROVE SuppressedForSource'
  <2>1. ASSUME NEW t \in Thoughts, DeleteLocal(c, t) PROVE SuppressedForSource'
    <3>1. row' = [row EXCEPT ![c] = RowsWithout(c, {t})] /\ UNCHANGED tomb
      BY <2>1 DEF DeleteLocal
    <3>2. \A b \in Clones, e \in Destinations :
            Tombstoned(b, e)' \subseteq
                IF b = c THEN Tombstoned(b, e) \cup {t} ELSE Tombstoned(b, e)
      BY <3>1 DEF Tombstoned
    <3>3. TypeOK /\ {t} \in SUBSET Thoughts OBVIOUS
    <3> HIDE DEF RecordsInv
    <3> QED BY <3>1, <3>2, <3>3, TombstoneKeepsSuppression
  <2>2. ASSUME NEW d \in Destinations, NEW k, NEW withFuture, Share(c, d, k, withFuture)
        PROVE  SuppressedForSource'
    BY <1>2, <2>2 DEF Share
  <2> QED BY <1>3, <2>1, <2>2, CaptureKeepsSuppression DEF Unlocked
<1>4. ASSUME NEW c \in Clones, NEW d \in Destinations, Locked(c, d)
      PROVE  SuppressedForSource'
  <2>1. ASSUME NEW k, Unshare(c, d, k) PROVE SuppressedForSource'
    BY <1>2, <2>1 DEF Unshare
  <2>2. ASSUME NEW t \in Thoughts, NEW now \in Clock, RedactTyped(c, d, t, now)
        PROVE  SuppressedForSource'
    <3>1. /\ row' = [row EXCEPT ![c] = RowsWithout(c, {t})]
          /\ tomb' = [tomb EXCEPT ![c][d][t] = [state |-> "pending", stamp |-> now]]
      BY <2>2 DEF RedactTyped
    <3>2. \A b \in Clones, e \in Destinations :
            Tombstoned(b, e)' \subseteq
                IF b = c THEN Tombstoned(b, e) \cup {t} ELSE Tombstoned(b, e)
      BY <3>1 DEF Tombstoned, TypeOK
    <3>3. TypeOK /\ {t} \in SUBSET Thoughts OBVIOUS
    <3> HIDE DEF RecordsInv
    <3> QED BY <3>1, <3>2, <3>3, TombstoneKeepsSuppression
  <2> QED
    BY <1>1, <1>4, <2>1, <2>2, LockedTouches, ImportKeepsSuppression
<1>5. ASSUME NEW d \in Destinations, NEW m \in inFlight[d], LateLanding(d, m)
      PROVE  SuppressedForSource'
  BY <1>2, <1>5 DEF LateLanding, storeVars
<1>6. CASE UNCHANGED vars BY <1>2, <1>6 DEF vars
<1> QED BY <1>3, <1>4, <1>5, <1>6 DEF Next

\* A thought redacted for a destination does not come back from it, not even
\* while the redaction is pending and the destination still serves the thought.
THEOREM SuppressionHolds == Spec => []SuppressedForSource
<1>1. Init => SuppressedForSource
  BY DEF Init, SuppressedForSource, Rows, NoRow
<1>2. RecordsInv /\ SuppressedForSource /\ [Next]_vars => SuppressedForSource'
  BY SuppressionNext
<1> QED BY <1>1, <1>2, RecordsHold, PTL DEF Spec

-----------------------------------------------------------------------------
(* A thought is captured before it is stored, sent or served *)

\* A tree of captured thoughts, with one node for each.
TreeOf(commit, ids) ==
    /\ NodeIds(commit) \subseteq ids
    /\ \A m, n \in commit.nodes : m.id = n.id => m = n

\* The inductive invariant: what is stored, served, projected or on its way was
\* captured somewhere.
CapturedInv ==
    /\ \A c \in Clones : Rows(c) \subseteq minted
    /\ \A d \in Destinations : TreeOf(tip[d], minted)
    /\ \A c \in Clones, d \in Destinations :
            /\ TreeOf(op[c][d].base, minted)
            /\ TreeOf(op[c][d].candidate, minted)
            /\ op[c][d].new \subseteq minted
            /\ sent[c][d] \subseteq minted
    /\ \A d \in Destinations : \A m \in inFlight[d] :
            TreeOf(m.candidate, minted) /\ m.new \subseteq minted

\* More may be captured meanwhile.
LEMMA TreeGrows ==
    ASSUME NEW commit, NEW ids, NEW more, TreeOf(commit, ids), ids \subseteq more
    PROVE  TreeOf(commit, more)
BY DEF TreeOf

\* The empty tree is a tree of whatever was captured.
LEMMA EmptyTree == \A ids : TreeOf(Absent, ids)
BY DEF TreeOf, Absent, NodeIds

\* A projection adds stored thoughts, under ids its base does not have.
LEMMA CandidateTree ==
    ASSUME NEW c \in Clones, NEW d \in Destinations, NEW base, NEW ids,
           TreeOf(base, ids), Rows(c) \subseteq ids
    PROVE  TreeOf(Candidate(c, d, base), ids) /\ NewIds(c, d, base) \subseteq ids
<1> DEFINE new == NewIds(c, d, base)
           nodes == Candidate(c, d, base).nodes
<1>1. new \subseteq ids /\ new \cap NodeIds(base) = {}
  BY DEF NewIds, ProjectionIds
<1>2. \A n \in nodes : n \in base.nodes \/ (\E t \in new : n = NodeOf(c, t))
  BY DEF Candidate
<1>3. \A t : NodeOf(c, t).id = t BY DEF NodeOf
<1> HIDE DEF nodes, new
<1>4. \A n \in nodes : n.id \in ids BY <1>1, <1>2, <1>3 DEF TreeOf, NodeIds
<1>5. ASSUME NEW m \in nodes, NEW n \in nodes, m.id = n.id PROVE m = n
  <2>1. CASE m \in base.nodes /\ n \in base.nodes BY <1>5, <2>1 DEF TreeOf
  <2>2. CASE m \in base.nodes <=> n \notin base.nodes
    BY <1>1, <1>2, <1>3, <1>5, <2>2 DEF NodeIds
  <2>3. CASE m \notin base.nodes /\ n \notin base.nodes
    BY <1>2, <1>3, <1>5, <2>3
  <2> QED BY <2>1, <2>2, <2>3
<1> QED BY <1>1, <1>4, <1>5 DEF TreeOf, NodeIds, nodes, new

\* How an operation moves: its base is the destination's tree or what it was, and
\* its candidate and list of new thoughts come from the projection alone.
LEMMA OpMoves ==
    ASSUME TypeOK, NEW c \in Clones, NEW d \in Destinations, Locked(c, d)
    PROVE  /\ \A b \in Clones, e \in Destinations :
                <<b, e>> # <<c, d>> => op'[b][e] = op[b][e]
           /\ op'[c][d].base \in {op[c][d].base, Absent, tip[d]}
           /\ \/ Project(c, d)
              \/ /\ op'[c][d].candidate \in {op[c][d].candidate, Absent}
                 /\ op'[c][d].new \in {op[c][d].new, {}}
           /\ op'[c][d].phase \in {"confirm", "send"} =>
                \/ Project(c, d)
                \/ /\ op[c][d].phase \in {"confirm", "send"}
                   /\ op'[c][d].candidate = op[c][d].candidate
                   /\ op'[c][d].new = op[c][d].new
<1> DEFINE o == op[c][d]
<1>1. o \in Operation BY DEF TypeOK
<1>2. \/ UNCHANGED op
      \/ SetOp(c, d, Idle)
      \/ \E publish \in BOOLEAN, ids \in SUBSET Thoughts :
            SetOp(c, d, [Idle EXCEPT !.phase = "reconcile", !.publish = publish,
                                     !.uncertain = ids])
      \/ \E phase \in {"clear", "redact"} : SetOp(c, d, [o EXCEPT !.phase = phase])
      \/ \E phase \in {"pull", "tombstones"} : SetOp(c, d, [Idle EXCEPT !.phase = phase])
      \/ SetOp(c, d, [Idle EXCEPT !.phase = "project", !.tracking = tip[d],
                                  !.base = tip[d]])
      \/ o.phase = "project" /\ SetOp(c, d, [o EXCEPT !.tracking = tip[d]])
      \/ Project(c, d)
      \/ o.phase = "confirm" /\ SetOp(c, d, [o EXCEPT !.phase = "send"])
      \/ \E phase \in {"accepted", "failed", "refused"} :
            SetOp(c, d, [Idle EXCEPT !.phase = phase, !.new = o.new])
  <2>1. CASE Push(c, d)
    BY <2>1 DEF Push, PushBegin, ReconcileBegin, Begin, ReconcilePull, ClearUncertain,
        PushPull, ImportRefused, TrackingMoves, ProjectEnds, MarkPending, Step,
        EndOp, UncertainIds
  <2>2. CASE Transport(c, d)
    BY <2>2 DEF Transport, SendAccepted, SendUnanswered, SendRejected, SendLost,
        SendRefused, Answered
  <2>3. CASE Settle(c, d)
    BY <2>3 DEF Settle, SettleAccepted, SettleTombstones, SettleRefused, SettleFailed, EndOp
  <2>4. CASE Pull(c, d) \/ RedactBegin(c, d) \/ Decline(c, d) \/ Abort(c, d)
             \/ (\E k \in KnownConversations(c) : Unshare(c, d, k))
             \/ (\E t \in Thoughts, now \in Clock : RedactTyped(c, d, t, now))
    BY <2>4 DEF Pull, RedactBegin, Decline, Abort, Unshare, RedactTyped, Step, EndOp
  <2> QED BY <2>1, <2>2, <2>3, <2>4 DEF Locked
<1>3. \A new : SetOp(c, d, new) =>
        /\ op'[c][d] = new
        /\ \A b \in Clones, e \in Destinations : <<b, e>> # <<c, d>> => op'[b][e] = op[b][e]
  BY OthersWait
<1>4. CASE Project(c, d)
  <2> DEFINE new == [o EXCEPT !.phase = "confirm", !.tracking = Absent,
                              !.candidate = Candidate(c, d, o.base),
                              !.new = NewIds(c, d, o.base)]
  <2>1. SetOp(c, d, new) BY <1>4 DEF Project
  <2>2. new.base = o.base BY <1>1 DEF Operation
  <2> HIDE DEF new
  <2> QED BY <1>3, <1>4, <2>1, <2>2
<1>5. CASE UNCHANGED op
  BY <1>5
<1>6. ASSUME NEW phase, \/ SetOp(c, d, [o EXCEPT !.phase = phase])
                        \/ SetOp(c, d, [o EXCEPT !.tracking = tip[d]]) /\ phase = o.phase,
             phase \in {"confirm", "send"} => o.phase \in {"confirm", "send"}
      PROVE  /\ \A b \in Clones, e \in Destinations :
                    <<b, e>> # <<c, d>> => op'[b][e] = op[b][e]
             /\ op'[c][d].base = o.base /\ op'[c][d].candidate = o.candidate
             /\ op'[c][d].new = o.new
             /\ op'[c][d].phase = phase
  BY <1>1, <1>3, <1>6 DEF Operation
<1>7. ASSUME NEW new, SetOp(c, d, new), new.base \in {Absent, tip[d]},
             new.candidate = Absent, new.new \in {o.new, {}},
             new.phase \notin {"confirm", "send"}
      PROVE  /\ \A b \in Clones, e \in Destinations :
                    <<b, e>> # <<c, d>> => op'[b][e] = op[b][e]
             /\ op'[c][d].base \in {Absent, tip[d]} /\ op'[c][d].candidate = Absent
             /\ op'[c][d].new \in {o.new, {}}
             /\ op'[c][d].phase \notin {"confirm", "send"}
  BY <1>3, <1>7
<1>8. \/ UNCHANGED op
      \/ Project(c, d)
      \/ \E phase \in Phase :
            /\ \/ SetOp(c, d, [o EXCEPT !.phase = phase])
               \/ SetOp(c, d, [o EXCEPT !.tracking = tip[d]]) /\ phase = o.phase
            /\ phase \in {"confirm", "send"} => o.phase \in {"confirm", "send"}
      \/ \E new : /\ SetOp(c, d, new) /\ new.base \in {Absent, tip[d]}
                  /\ new.candidate = Absent /\ new.new \in {o.new, {}}
                  /\ new.phase \notin {"confirm", "send"}
  <2> DEFINE Fresh(new) == /\ SetOp(c, d, new) /\ new.base \in {Absent, tip[d]}
                           /\ new.candidate = Absent /\ new.new \in {o.new, {}}
                           /\ new.phase \notin {"confirm", "send"}
  <2>1. SetOp(c, d, Idle) => Fresh(Idle) BY DEF Idle
  <2>2. ASSUME NEW publish, NEW ids,
               SetOp(c, d, [Idle EXCEPT !.phase = "reconcile", !.publish = publish,
                                        !.uncertain = ids])
        PROVE  Fresh([Idle EXCEPT !.phase = "reconcile", !.publish = publish,
                                  !.uncertain = ids])
    BY <2>2 DEF Idle
  <2>3. ASSUME NEW phase \in {"pull", "tombstones"}, SetOp(c, d, [Idle EXCEPT !.phase = phase])
        PROVE  Fresh([Idle EXCEPT !.phase = phase])
    BY <2>3 DEF Idle
  <2>4. ASSUME SetOp(c, d, [Idle EXCEPT !.phase = "project", !.tracking = tip[d],
                                        !.base = tip[d]])
        PROVE  Fresh([Idle EXCEPT !.phase = "project", !.tracking = tip[d],
                                  !.base = tip[d]])
    BY <2>4 DEF Idle
  <2>5. ASSUME NEW phase \in {"accepted", "failed", "refused"},
               SetOp(c, d, [Idle EXCEPT !.phase = phase, !.new = o.new])
        PROVE  Fresh([Idle EXCEPT !.phase = phase, !.new = o.new])
    BY <2>5 DEF Idle
  <2>6. o.phase \in Phase /\ {"clear", "redact", "send"} \subseteq Phase
    BY <1>1 DEF Operation, Phase
  <2> HIDE DEF Fresh
  <2>7. \/ UNCHANGED op
        \/ Project(c, d)
        \/ \E phase \in Phase :
            /\ \/ SetOp(c, d, [o EXCEPT !.phase = phase])
               \/ SetOp(c, d, [o EXCEPT !.tracking = tip[d]]) /\ phase = o.phase
            /\ phase \in {"confirm", "send"} => o.phase \in {"confirm", "send"}
        \/ \E new : Fresh(new)
    BY <1>2, <2>1, <2>2, <2>3, <2>4, <2>5, <2>6
  <2> QED BY <2>7 DEF Fresh
<1> HIDE DEF o
<1> QED BY <1>4, <1>5, <1>6, <1>7, <1>8 DEF o

\* Under a lock, a destination moves by the commit of the push that holds the
\* lock, and a message stays on its way only where pushes may land late.
LEMMA LockedSends ==
    ASSUME TypeOK, NEW c \in Clones, NEW d \in Destinations, Locked(c, d)
    PROVE  /\ \/ UNCHANGED <<tip, sent>>
              \/ Transport(c, d) /\ Sending(c, d) /\ OpLands(c, d)
           /\ \/ UNCHANGED inFlight
              \/ /\ LateArrival
                 /\ inFlight' = [inFlight EXCEPT ![d] = @ \cup
                        {[clone |-> c, base |-> op[c][d].base, new |-> op[c][d].new,
                          candidate |-> op[c][d].candidate]}]
<1> USE DEF OnlyOp, OnlyPub, storeVars, historyVars
<1>1. CASE Push(c, d)
  BY <1>1 DEF Push, PushBegin, ReconcileBegin, Begin, ReconcilePull, ClearUncertain,
       PushPull, ImportRefused, TrackingMoves, Project, ProjectEnds, MarkPending, Import
<1>2. CASE Transport(c, d)
  <2>1. CASE SendAccepted(c, d) \/ SendUnanswered(c, d)
    BY <1>2, <2>1 DEF SendAccepted, SendUnanswered
  <2>2. CASE SendRejected(c, d) \/ SendRefused(c, d)
    BY <2>2 DEF SendRejected, SendRefused, NothingLands
  <2>3. CASE SendLost(c, d)
    <3>1. UNCHANGED <<tip, sent>> BY <2>3 DEF SendLost, NothingLands
    <3>2. CASE LateArrival BY <2>3, <3>1, <3>2 DEF SendLost
    <3>3. CASE ~LateArrival
      <4>1. inFlight' = [inFlight EXCEPT ![d] = inFlight[d]] BY <2>3, <3>3 DEF SendLost
      <4> QED BY <2>3, <3>1, <3>3, <4>1 DEF TypeOK
    <3> QED BY <3>2, <3>3
  <2> QED BY <1>2, <2>1, <2>2, <2>3 DEF Transport
<1>3. CASE Settle(c, d)
  BY <1>3 DEF Settle, SettleAccepted, SettleTombstones, SettleRefused, SettleFailed
<1>4. CASE Pull(c, d) \/ RedactBegin(c, d) \/ Decline(c, d) \/ Abort(c, d)
             \/ (\E k \in KnownConversations(c) : Unshare(c, d, k))
             \/ (\E t \in Thoughts, now \in Clock : RedactTyped(c, d, t, now))
  BY <1>4 DEF Pull, RedactBegin, Decline, Abort, Unshare, RedactTyped, Import
<1> QED BY <1>1, <1>2, <1>3, <1>4 DEF Locked

\* While no tree, operation or message changes, they stay trees of captured thoughts.
LEMMA QuietTrees ==
    ASSUME CapturedInv, UNCHANGED <<op, tip, inFlight, sent>>, minted \subseteq minted',
           \A c \in Clones : Rows(c)' \subseteq minted'
    PROVE  CapturedInv'
<1>1. \A commit : TreeOf(commit, minted) => TreeOf(commit, minted')
  BY TreeGrows
<1> QED BY <1>1 DEF CapturedInv

\* The rows a step leaves: rows that were there, the thought it captured, or
\* thoughts of the tree it imported.
LEMMA CommandRows ==
    ASSUME TypeOK, NEW c \in Clones, Unlocked(c)
    PROVE  /\ minted \subseteq minted'
           /\ \A b \in Clones : Rows(b)' \subseteq Rows(b) \cup minted'
           /\ UNCHANGED <<op, tip, inFlight, sent>>
<1>1. ASSUME NEW t \in Thoughts,
             Capture(c, t) \/ PassiveCapture(c, t) \/ HarnessCapture(c, t)
      PROVE  /\ minted' = minted \cup {t}
             /\ \A b \in Clones : Rows(b)' \subseteq Rows(b) \cup minted'
             /\ UNCHANGED <<op, tip, inFlight, sent>>
  <2>1. PICK parent \in Thoughts \cup {NoThought}, rows \in [Thoughts -> Row] :
            /\ Insert(c, t, parent, rows)
            /\ \A u \in Thoughts : rows[u].stored => rows[u] = row[c][u]
    BY <1>1, CaptureInserts
  <2>2. /\ minted' = minted \cup {t} /\ UNCHANGED <<op, tip, inFlight, sent>>
    BY <2>1 DEF Insert, historyVars
  <2>3. ASSUME NEW b \in Clones, NEW u \in Thoughts, row'[b][u].stored
        PROVE  row[b][u].stored \/ u = t
    BY <2>1, <2>3, InsertedRow
  <2> QED BY <2>2, <2>3 DEF Rows
<1>2. ASSUME NEW t \in Thoughts, DeleteLocal(c, t)
      PROVE  /\ UNCHANGED <<minted, op, tip, inFlight, sent>>
             /\ \A b \in Clones : Rows(b)' \subseteq Rows(b)
  <2>1. ASSUME NEW b \in Clones, NEW u \in Thoughts, row'[b][u].stored
        PROVE  row[b][u].stored
    <3>1. CASE b = c
      <4>1. row'[c] = RowsWithout(c, {t}) BY <1>2 DEF DeleteLocal, TypeOK
      <4> QED BY <2>1, <3>1, <4>1, RowLeft DEF Rows
    <3>2. CASE b # c BY <1>2, <2>1, <3>2 DEF DeleteLocal, TypeOK
    <3> QED BY <3>1, <3>2
  <2> QED BY <1>2, <2>1 DEF DeleteLocal, historyVars, Rows
<1>3. ASSUME NEW d \in Destinations, NEW k, NEW withFuture, Share(c, d, k, withFuture)
      PROVE  UNCHANGED <<row, minted, op, tip, inFlight, sent>>
  BY <1>3 DEF Share
<1> QED BY <1>1, <1>2, <1>3 DEF Unlocked, Rows

\* Under a lock, rows come only from the tree imported, and nothing is captured.
LEMMA LockedRows ==
    ASSUME TypeOK, NEW c \in Clones, NEW d \in Destinations, Locked(c, d)
    PROVE  /\ minted' = minted
           /\ \A b \in Clones : Rows(b)' \subseteq Rows(b) \cup NodeIds(tip[d])
<1>1. tip[d] \in Commit BY DEF TypeOK
<1>2. CASE Import(c, d, tip[d])
  <2>1. ASSUME NEW b \in Clones, NEW u \in Thoughts, row'[b][u].stored
        PROVE  row[b][u].stored \/ u \in NodeIds(tip[d])
    <3>1. CASE b = c /\ ~row[c][u].stored
      <4>1. PICK n \in Arrivals(c, d, tip[d]) :
              n.id = u /\ n.via \in Via /\ row'[c][u].via = <<d>> \o n.via
        BY <1>1, <1>2, <2>1, <3>1, ImportedRow DEF Rows
      <4> QED BY <4>1 DEF Arrivals, NodeIds
    <3>2. CASE b # c BY <1>2, <2>1, <3>2 DEF Import, TypeOK
    <3> QED BY <3>1, <3>2
  <2> QED BY <1>2, <2>1 DEF Import, Rows
<1>3. ASSUME NEW t \in Thoughts, NEW now \in Clock, RedactTyped(c, d, t, now)
      PROVE  minted' = minted /\ \A b \in Clones : Rows(b)' \subseteq Rows(b)
  <2>1. ASSUME NEW b \in Clones, NEW u \in Thoughts, row'[b][u].stored
        PROVE  row[b][u].stored
    <3>1. CASE b = c
      <4>1. row'[c] = RowsWithout(c, {t}) BY <1>3 DEF RedactTyped, TypeOK
      <4> QED BY <2>1, <3>1, <4>1, RowLeft DEF Rows
    <3>2. CASE b # c BY <1>3, <2>1, <3>2 DEF RedactTyped, TypeOK
    <3> QED BY <3>1, <3>2
  <2> QED BY <1>3, <2>1 DEF RedactTyped, Rows
<1>4. ASSUME NEW k, Unshare(c, d, k) PROVE UNCHANGED <<row, minted>>
  BY <1>4 DEF Unshare
<1> QED BY <1>2, <1>3, <1>4, LockedTouches DEF Rows

\* No step stores, projects, sends or serves what was not captured.
LEMMA CapturedNext == TypeOK /\ CapturedInv /\ [Next]_vars => CapturedInv'
<1> SUFFICES ASSUME TypeOK, CapturedInv, [Next]_vars PROVE CapturedInv'
  OBVIOUS
<1>1. CASE UNCHANGED vars
  BY <1>1, QuietTrees DEF vars, Rows, CapturedInv
<1>2. ASSUME NEW c \in Clones, Unlocked(c) PROVE CapturedInv'
  BY <1>2, CommandRows, QuietTrees DEF CapturedInv
<1>3. ASSUME NEW c \in Clones, NEW d \in Destinations, Locked(c, d) PROVE CapturedInv'
  <2> DEFINE o == op[c][d]
  <2>1. minted' = minted BY <1>3, LockedRows
  <2>2. \A b \in Clones : Rows(b)' \subseteq minted
    BY <1>3, LockedRows DEF CapturedInv, TreeOf
  <2>3. /\ TreeOf(o.base, minted) /\ TreeOf(o.candidate, minted) /\ o.new \subseteq minted
        /\ TreeOf(tip[d], minted) /\ TreeOf(Absent, minted)
    BY EmptyTree DEF CapturedInv
  <2>4. /\ TreeOf(op'[c][d].base, minted)
        /\ TreeOf(op'[c][d].candidate, minted)
        /\ op'[c][d].new \subseteq minted
    <3>1. CASE Project(c, d)
      <4> DEFINE new == [o EXCEPT !.phase = "confirm", !.tracking = Absent,
                                  !.candidate = Candidate(c, d, o.base),
                                  !.new = NewIds(c, d, o.base)]
      <4>1. op'[c][d] = new BY <3>1, OthersWait DEF Project
      <4>2. o \in Operation BY DEF TypeOK
      <4>3. new.base = o.base /\ new.candidate = Candidate(c, d, o.base)
            /\ new.new = NewIds(c, d, o.base)
        BY <4>2 DEF Operation
      <4>4. /\ TreeOf(Candidate(c, d, o.base), minted)
            /\ NewIds(c, d, o.base) \subseteq minted
        BY <2>3, CandidateTree DEF CapturedInv
      <4> HIDE DEF new
      <4> QED BY <2>3, <4>1, <4>3, <4>4
    <3>2. CASE ~Project(c, d)
      BY <1>3, <2>3, <3>2, OpMoves
    <3> QED BY <3>1, <3>2
  <2>5. \A b \in Clones, e \in Destinations : <<b, e>> # <<c, d>> => op'[b][e] = op[b][e]
    BY <1>3, OpMoves
  <2>6. /\ \A e \in Destinations : TreeOf(tip'[e], minted)
        /\ \A b \in Clones, e \in Destinations : sent'[b][e] \subseteq minted
    <3>1. CASE OpLands(c, d)
      <4>1. /\ tip' = [tip EXCEPT ![d] = o.candidate]
            /\ sent' = [sent EXCEPT ![c][d] = @ \cup o.new]
        BY <3>1 DEF OpLands, Lands
      <4> QED BY <2>3, <4>1 DEF CapturedInv, TypeOK
    <3>2. CASE UNCHANGED <<tip, sent>>
      BY <3>2 DEF CapturedInv
    <3> QED BY <1>3, <3>1, <3>2, LockedSends
  <2>7. \A e \in Destinations : \A m \in inFlight'[e] :
            TreeOf(m.candidate, minted) /\ m.new \subseteq minted
    <3> DEFINE sending == [clone |-> c, base |-> o.base, new |-> o.new,
                           candidate |-> o.candidate]
    <3>1. sending.candidate = o.candidate /\ sending.new = o.new OBVIOUS
    <3>2. UNCHANGED inFlight \/ inFlight' = [inFlight EXCEPT ![d] = @ \cup {sending}]
      BY <1>3, LockedSends
    <3> HIDE DEF sending
    <3>3. \A e \in Destinations : inFlight'[e] \subseteq inFlight[e] \cup {sending}
      BY <3>2 DEF TypeOK
    <3> QED BY <2>3, <3>1, <3>3 DEF CapturedInv
  <2> QED BY <2>1, <2>2, <2>4, <2>5, <2>6, <2>7 DEF CapturedInv
<1>4. ASSUME NEW d \in Destinations, NEW m \in inFlight[d], LateLanding(d, m)
      PROVE  CapturedInv'
  <2>1. /\ tip' = [tip EXCEPT ![d] = m.candidate]
        /\ sent' = [sent EXCEPT ![m.clone][d] = @ \cup m.new]
        /\ inFlight' = [inFlight EXCEPT ![d] = @ \ {m}]
        /\ UNCHANGED <<row, op, minted>>
    BY <1>4 DEF LateLanding, Lands, storeVars
  <2>2. TreeOf(m.candidate, minted) /\ m.new \subseteq minted BY DEF CapturedInv
  <2>3. \A e \in Destinations : TreeOf(tip'[e], minted)
    BY <2>1, <2>2 DEF CapturedInv, TypeOK
  <2>4. \A b \in Clones, e \in Destinations : sent'[b][e] \subseteq minted
    BY <2>1, <2>2 DEF CapturedInv, TypeOK
  <2>5. \A e \in Destinations : inFlight'[e] \subseteq inFlight[e]
    BY <2>1 DEF TypeOK
  <2> QED BY <2>1, <2>3, <2>4, <2>5 DEF CapturedInv, Rows
<1> QED BY <1>1, <1>2, <1>3, <1>4 DEF Next

\* A thought is captured before any clone stores, sends or serves it.
THEOREM CapturedFirst == Spec => []CapturedInv
<1>1. Init => CapturedInv
  BY EmptyTree DEF Init, CapturedInv, Rows, NoRow, Idle
<1>2. TypeOK /\ CapturedInv /\ [Next]_vars => CapturedInv'
  BY CapturedNext
<1> QED BY <1>1, <1>2, Typing, PTL DEF Spec

-----------------------------------------------------------------------------
(* What a push is about to send was granted *)

\* The premise: no chat request is processed twice.  Where one is, the share of a
\* thought that made way outlives its row, and the thought may come back under
\* another name (PassiveCapture).
NothingReplaced ==
    \A t, u \in Thoughts : SourceOf[t] = "passive" /\ u # t => RequestOf[u] # RequestOf[t]

\* The inductive invariant: the conversations of shared thoughts are granted, and
\* only stored thoughts are shared.
GrantsFollow(c, d) ==
    /\ future[c][d] \subseteq granted[c][d]
    /\ shares[c][d] \subseteq Rows(c)
    /\ \A t \in shares[c][d] : ConversationOf(c, t) \in granted[c][d]
GrantInv ==
    /\ TypeOK
    /\ CapturedInv
    /\ \A c \in Clones, d \in Destinations : GrantsFollow(c, d)
    /\ ProjectedIsGranted

\* Shared thoughts that keep their rows keep their grants.
LEMMA GrantsKept ==
    ASSUME NEW c \in Clones, NEW d \in Destinations, GrantsFollow(c, d),
           UNCHANGED <<future, granted>>,
           \A t \in shares'[c][d] :
                \/ /\ t \in shares[c][d] /\ t \in Rows(c)'
                   /\ row'[c][t].via = row[c][t].via
                \/ /\ t \in Rows(c)'
                   /\ [via |-> row'[c][t].via, session |-> SessionOf[t]] \in future[c][d]
    PROVE  GrantsFollow(c, d)'
BY DEF GrantsFollow, ConversationOf

\* A capture shares its own thought at most, by a future share.
LEMMA CaptureGrants ==
    ASSUME NothingReplaced, GrantInv, NEW c \in Clones, NEW t \in Thoughts,
           Capture(c, t) \/ PassiveCapture(c, t) \/ HarnessCapture(c, t),
           NEW b \in Clones, NEW e \in Destinations
    PROVE  GrantsFollow(b, e)'
<1>0. TypeOK /\ CapturedInv BY DEF GrantInv
<1>1. PICK parent \in Thoughts \cup {NoThought}, rows \in [Thoughts -> Row] :
            /\ Insert(c, t, parent, rows) /\ t \notin buried[c]
            /\ t \notin minted \/ (SourceOf[t] = "harness" /\ t \notin Rows(c))
            /\ \A u \in Thoughts : rows[u].stored => rows[u] = row[c][u]
            /\ \A u \in Rows(c) : \/ rows[u] = row[c][u]
                                  \/ SourceOf[t] = "passive" /\ RequestOf[u] = RequestOf[t]
  BY <1>0, CaptureInserts
<1> USE DEF GrantInv
<1>2. t \notin Rows(c) BY <1>1 DEF CapturedInv
<1>3. \A u \in Rows(c) : u \in Thoughts /\ u # t /\ rows[u] = row[c][u]
  BY <1>1, <1>2 DEF NothingReplaced, Rows
<1>4. UNCHANGED <<future, granted>> BY <1>1 DEF Insert, historyVars
<1>5. CASE b = c
  <2>1. ASSUME NEW u \in shares[c][e]
        PROVE  u \in Rows(c)' /\ row'[c][u].via = row[c][u].via
    <3>1. u \in Rows(c) BY DEF GrantsFollow
    <3>2. u \in Thoughts \ {t} /\ row[c][u].stored /\ rows[u] = row[c][u]
      BY <1>3, <3>1 DEF Rows
    <3>3. row'[c][u] = row[c][u] BY <1>1, <3>2, InsertedRow
    <3> QED BY <3>2, <3>3 DEF Rows
  <2>2. /\ t \in Rows(c)' /\ row'[c][t].via = <<>>
        /\ \A u \in shares'[c][e] : u \in shares[c][e] \/ u = t
    BY <1>1, InsertedRow DEF Rows
  <2>3. ASSUME t \in shares'[c][e], t \notin shares[c][e]
        PROVE  [via |-> row'[c][t].via, session |-> SessionOf[t]] \in future[c][e]
    BY <1>1, <2>2, <2>3, InsertedShare
  <2> QED BY <1>4, <1>5, <2>1, <2>2, <2>3, GrantsKept
<1>6. CASE b # c
  <2>1. row'[b] = row[b] /\ shares'[b] = shares[b] BY <1>1, <1>6, InsertedRow
  <2> QED BY <1>4, <2>1 DEF GrantsFollow, Rows, ConversationOf
<1> QED BY <1>5, <1>6

\* An import shares an arrival under the name it stores it with.
LEMMA ImportGrants ==
    ASSUME GrantInv, NEW c \in Clones, NEW d \in Destinations, Import(c, d, tip[d]),
           NEW b \in Clones, NEW e \in Destinations
    PROVE  GrantsFollow(b, e)'
<1> USE DEF GrantInv
<1>1. UNCHANGED <<future, granted>> /\ tip[d] \in Commit BY DEF Import, historyVars, TypeOK
<1>2. CASE b = c
  <2>1. ASSUME NEW t \in shares'[c][e]
        PROVE  \/ /\ t \in shares[c][e] /\ t \in Rows(c)'
                  /\ row'[c][t].via = row[c][t].via
               \/ /\ t \in Rows(c)'
                  /\ [via |-> row'[c][t].via, session |-> SessionOf[t]] \in future[c][e]
    <3>1. \/ t \in shares[c][e] \ TombIds(tip[d])
          \/ \E n \in Arrivals(c, d, tip[d]) :
                n.id = t /\ [via |-> <<d>> \o n.via, session |-> SessionOf[t]] \in future[c][e]
      BY <1>1, ImportedShare
    <3>2. CASE t \in shares[c][e] \ TombIds(tip[d])
      <4>1. t \in Rows(c) \ TombIds(tip[d]) BY <3>2 DEF GrantsFollow
      <4> QED BY <1>1, <3>2, <4>1, ImportKeepsRow DEF Rows
    <3>3. ASSUME NEW n \in Arrivals(c, d, tip[d]), n.id = t,
                 [via |-> <<d>> \o n.via, session |-> SessionOf[t]] \in future[c][e]
          PROVE  /\ t \in Rows(c)'
                 /\ [via |-> row'[c][t].via, session |-> SessionOf[t]] \in future[c][e]
      <4>1. \A m, k \in tip[d].nodes : m.id = k.id => m = k BY DEF CapturedInv, TreeOf
      <4>2. t \in Thoughts /\ row'[c][t].stored /\ row'[c][t].via = <<d>> \o n.via
        BY <1>1, <3>3, <4>1, ImportStoresArrival
      <4> QED BY <3>3, <4>2 DEF Rows
    <3> QED BY <3>1, <3>2, <3>3
  <2> QED BY <1>1, <1>2, <2>1, GrantsKept
<1>3. CASE b # c
  <2>1. row'[b] = row[b] /\ shares'[b] = shares[b] BY <1>3 DEF Import, TypeOK
  <2> QED BY <1>1, <2>1 DEF GrantsFollow, Rows, ConversationOf
<1> QED BY <1>2, <1>3

\* A tombstone takes the share with the row.
LEMMA TombstoneGrants ==
    ASSUME GrantInv, NEW c \in Clones, NEW gone \in SUBSET Thoughts,
           row' = [row EXCEPT ![c] = RowsWithout(c, gone)],
           shares' = [shares EXCEPT ![c] = SharesWithout(c, gone)],
           UNCHANGED <<future, granted>>,
           NEW b \in Clones, NEW e \in Destinations
    PROVE  GrantsFollow(b, e)'
<1> USE DEF GrantInv
<1>1. CASE b = c
  <2>1. row'[c] = RowsWithout(c, gone) /\ shares'[c] = SharesWithout(c, gone)
    BY DEF TypeOK
  <2>2. ASSUME NEW t \in shares'[c][e]
        PROVE  t \in shares[c][e] /\ t \in Rows(c)' /\ row'[c][t].via = row[c][t].via
    <3>1. t \in shares[c][e] \ gone BY <2>1 DEF SharesWithout
    <3>2. t \in Rows(c) \ gone /\ t \in Thoughts BY <3>1 DEF GrantsFollow, Rows
    <3> QED BY <2>1, <3>1, <3>2, RowKept DEF Rows
  <2> QED BY <1>1, <2>2, GrantsKept
<1>2. CASE b # c
  <2>1. row'[b] = row[b] /\ shares'[b] = shares[b] BY <1>2 DEF TypeOK
  <2> QED BY <2>1 DEF GrantsFollow, Rows, ConversationOf
<1> QED BY <1>1, <1>2

\* A share grants the conversation it covers; an unshare leaves none of it shared.
LEMMA SharingGrants ==
    ASSUME GrantInv, NEW c \in Clones, NEW d \in Destinations, NEW k,
           \/ \E withFuture \in BOOLEAN : Share(c, d, k, withFuture)
           \/ Unshare(c, d, k),
           NEW b \in Clones, NEW e \in Destinations
    PROVE  GrantsFollow(b, e)'
<1> USE DEF GrantInv
<1>1. row' = row BY DEF Share, Unshare
<1>2. \A t : ConversationOf(b, t)' = ConversationOf(b, t) /\ Rows(b)' = Rows(b)
  BY <1>1 DEF ConversationOf, Rows
<1>3. CASE <<b, e>> = <<c, d>>
  <2>1. ASSUME NEW withFuture \in BOOLEAN, Share(c, d, k, withFuture)
        PROVE  GrantsFollow(c, d)'
    <3>1. /\ shares'[c][d] = shares[c][d] \cup MembersOf(c, k)
          /\ granted'[c][d] = granted[c][d] \cup {k}
          /\ future'[c][d] \subseteq future[c][d] \cup {k}
      BY <2>1 DEF Share, TypeOK
    <3> QED BY <1>2, <1>3, <3>1 DEF GrantsFollow, MembersOf
  <2>2. ASSUME Unshare(c, d, k) PROVE GrantsFollow(c, d)'
    <3>1. /\ shares'[c][d] = shares[c][d] \ MembersOf(c, k)
          /\ granted'[c][d] = granted[c][d] \ {k}
          /\ future'[c][d] = future[c][d] \ {k}
      BY <2>2 DEF Unshare, TypeOK
    <3> QED BY <1>2, <1>3, <3>1 DEF GrantsFollow, MembersOf
  <2> QED BY <1>3, <2>1, <2>2
<1>4. CASE <<b, e>> # <<c, d>>
  <2>1. /\ shares'[b][e] = shares[b][e] /\ granted'[b][e] = granted[b][e]
        /\ future'[b][e] = future[b][e]
    BY <1>4 DEF Share, Unshare, TypeOK
  <2> QED BY <1>2, <2>1 DEF GrantsFollow
<1> QED BY <1>3, <1>4

\* What a push already projected keeps its grants while no unshare touches them.
LEMMA ProjectedKept ==
    ASSUME ProjectedIsGranted, NEW c \in Clones, NEW d \in Destinations,
           granted[c][d] \subseteq granted'[c][d],
           op'[c][d].phase \in {"confirm", "send"} =>
                /\ op[c][d].phase \in {"confirm", "send"}
                /\ op'[c][d].candidate = op[c][d].candidate
                /\ op'[c][d].new = op[c][d].new
    PROVE  op'[c][d].phase \in {"confirm", "send"} =>
                \A n \in op'[c][d].candidate.nodes : n.id \in op'[c][d].new =>
                    [via |-> n.via, session |-> SessionOf[n.id]] \in granted'[c][d]
BY DEF ProjectedIsGranted

\* A projection sends each thought under the name it is stored with here.
LEMMA ProjectionSends ==
    ASSUME GrantInv, NEW c \in Clones, NEW d \in Destinations, Project(c, d),
           UNCHANGED granted
    PROVE  \A n \in op'[c][d].candidate.nodes : n.id \in op'[c][d].new =>
                [via |-> n.via, session |-> SessionOf[n.id]] \in granted'[c][d]
<1> DEFINE o == op[c][d]
           new == [o EXCEPT !.phase = "confirm", !.tracking = Absent,
                            !.candidate = Candidate(c, d, o.base),
                            !.new = NewIds(c, d, o.base)]
<1>1. TypeOK /\ GrantsFollow(c, d) BY DEF GrantInv
<1>2. op'[c][d] = new BY <1>1, OthersWait DEF Project
<1>3. new.candidate = Candidate(c, d, o.base) /\ new.new = NewIds(c, d, o.base)
  BY <1>1 DEF TypeOK, Operation
<1> HIDE DEF new
<1> SUFFICES ASSUME NEW n \in Candidate(c, d, o.base).nodes, n.id \in NewIds(c, d, o.base)
             PROVE  [via |-> n.via, session |-> SessionOf[n.id]] \in granted[c][d]
  BY <1>2, <1>3
<1>4. n \notin o.base.nodes /\ n.id \in shares[c][d]
  BY DEF NewIds, NodeIds, ProjectionIds
<1>5. PICK t \in NewIds(c, d, o.base) : n = NodeOf(c, t)
  BY <1>4 DEF Candidate
<1>6. n.id = t /\ n.via = row[c][t].via BY <1>5 DEF NodeOf
<1>7. ConversationOf(c, t) \in granted[c][d] BY <1>1, <1>4, <1>6 DEF GrantsFollow
<1> QED BY <1>6, <1>7 DEF ConversationOf

\* No step projects or keeps projected what was not granted.
LEMMA ProjectedNext ==
    ASSUME NothingReplaced, GrantInv, [Next]_vars
    PROVE  ProjectedIsGranted'
<1> DEFINE Granted(b, e) ==
            op'[b][e].phase \in {"confirm", "send"} =>
                \A n \in op'[b][e].candidate.nodes : n.id \in op'[b][e].new =>
                    [via |-> n.via, session |-> SessionOf[n.id]] \in granted'[b][e]
<1> SUFFICES ASSUME NEW b \in Clones, NEW e \in Destinations PROVE Granted(b, e)
  BY DEF ProjectedIsGranted
<1>0. TypeOK /\ ProjectedIsGranted BY DEF GrantInv
<1>1. op'[b][e] = op[b][e] /\ granted[b][e] \subseteq granted'[b][e] => Granted(b, e)
  BY <1>0, ProjectedKept
<1>2. CASE UNCHANGED vars BY <1>1, <1>2 DEF vars
<1>3. ASSUME NEW c \in Clones, Unlocked(c) PROVE Granted(b, e)
  <2>1. UNCHANGED op BY <1>0, <1>3, CommandRows
  <2>2. granted[b][e] \subseteq granted'[b][e]
    <3>1. ASSUME NEW t \in Thoughts,
                 Capture(c, t) \/ PassiveCapture(c, t) \/ HarnessCapture(c, t)
                   \/ DeleteLocal(c, t)
          PROVE  UNCHANGED granted
      BY <3>1 DEF Capture, PassiveCapture, HarnessCapture, DeleteLocal, Insert, historyVars
    <3>2. ASSUME NEW d \in Destinations, NEW k, NEW withFuture, Share(c, d, k, withFuture)
          PROVE  granted[b][e] \subseteq granted'[b][e]
      BY <1>0, <3>2 DEF Share, TypeOK
    <3> QED BY <1>3, <3>1, <3>2 DEF Unlocked
  <2> QED BY <1>1, <2>1, <2>2
<1>4. ASSUME NEW c \in Clones, NEW d \in Destinations, Locked(c, d) PROVE Granted(b, e)
  <2>1. CASE \E k \in KnownConversations(c) : Unshare(c, d, k)
    <3>1. PICK k : Unshare(c, d, k) BY <2>1
    <3>2. op'[b][e] = op[b][e] BY <3>1 DEF Unshare
    <3>3. CASE <<b, e>> = <<c, d>>
      <4>1. op'[b][e] = Idle BY <3>1, <3>2, <3>3 DEF Unshare
      <4> QED BY <4>1 DEF Idle
    <3>4. CASE <<b, e>> # <<c, d>>
      <4>1. granted'[b][e] = granted[b][e] BY <1>0, <3>1, <3>4 DEF Unshare, TypeOK
      <4> QED BY <1>1, <3>2, <4>1
    <3> QED BY <3>3, <3>4
  <2>2. CASE UNCHANGED granted
    <3>1. CASE <<b, e>> # <<c, d>>
      <4>1. op'[b][e] = op[b][e] BY <1>0, <1>4, <3>1, OpMoves
      <4> QED BY <1>1, <2>2, <4>1
    <3>2. CASE <<b, e>> = <<c, d>> /\ Project(c, d)
      BY <2>2, <3>2, ProjectionSends
    <3>3. CASE <<b, e>> = <<c, d>> /\ ~Project(c, d)
      <4>1. op'[c][d].phase \in {"confirm", "send"} =>
                /\ op[c][d].phase \in {"confirm", "send"}
                /\ op'[c][d].candidate = op[c][d].candidate
                /\ op'[c][d].new = op[c][d].new
        BY <1>0, <1>4, <3>3, OpMoves
      <4> QED BY <1>0, <2>2, <3>3, <4>1, ProjectedKept
    <3> QED BY <3>1, <3>2, <3>3
  <2>3. UNCHANGED granted \/ \E k \in KnownConversations(c) : Unshare(c, d, k)
    BY <1>0, <1>4, LockedTouches DEF Import, RedactTyped, historyVars
  <2> QED BY <2>1, <2>2, <2>3
<1>5. ASSUME NEW d \in Destinations, NEW m \in inFlight[d], LateLanding(d, m)
      PROVE  Granted(b, e)
  BY <1>1, <1>5 DEF LateLanding
<1> QED BY <1>2, <1>3, <1>4, <1>5 DEF Next

\* No step shares what was not granted.
LEMMA GrantsNext ==
    ASSUME NothingReplaced, GrantInv, [Next]_vars,
           NEW b \in Clones, NEW e \in Destinations
    PROVE  GrantsFollow(b, e)'
<1>0. TypeOK /\ GrantsFollow(b, e) BY DEF GrantInv
<1>1. UNCHANGED <<row, shares, future, granted>> => GrantsFollow(b, e)'
  BY <1>0 DEF GrantsFollow, ConversationOf, Rows
<1>2. CASE UNCHANGED vars BY <1>1, <1>2 DEF vars
<1>3. ASSUME NEW c \in Clones, Unlocked(c) PROVE GrantsFollow(b, e)'
  <2>1. ASSUME NEW t \in Thoughts, DeleteLocal(c, t) PROVE GrantsFollow(b, e)'
    <3>1. /\ row' = [row EXCEPT ![c] = RowsWithout(c, {t})]
          /\ shares' = [shares EXCEPT ![c] = SharesWithout(c, {t})]
          /\ UNCHANGED <<future, granted>> /\ {t} \in SUBSET Thoughts
      BY <2>1 DEF DeleteLocal, historyVars
    <3> QED BY <3>1, TombstoneGrants
  <2> QED BY <1>3, <2>1, CaptureGrants, SharingGrants DEF Unlocked
<1>4. ASSUME NEW c \in Clones, NEW d \in Destinations, Locked(c, d)
      PROVE  GrantsFollow(b, e)'
  <2>1. ASSUME NEW t \in Thoughts, NEW now, RedactTyped(c, d, t, now)
        PROVE  GrantsFollow(b, e)'
    <3>1. /\ row' = [row EXCEPT ![c] = RowsWithout(c, {t})]
          /\ shares' = [shares EXCEPT ![c] = SharesWithout(c, {t})]
          /\ UNCHANGED <<future, granted>> /\ {t} \in SUBSET Thoughts
      BY <2>1 DEF RedactTyped, historyVars
    <3> QED BY <3>1, TombstoneGrants
  <2>2. \/ Import(c, d, tip[d])
        \/ \E k \in KnownConversations(c) : Unshare(c, d, k)
        \/ \E t \in Thoughts, now \in Clock : RedactTyped(c, d, t, now)
        \/ UNCHANGED <<row, shares, future, granted>>
    BY <1>0, <1>4, LockedTouches
  <2> QED BY <1>1, <2>1, <2>2, ImportGrants, SharingGrants
<1>5. ASSUME NEW d \in Destinations, NEW m \in inFlight[d], LateLanding(d, m)
      PROVE  GrantsFollow(b, e)'
  BY <1>1, <1>5 DEF LateLanding, storeVars
<1> QED BY <1>2, <1>3, <1>4, <1>5 DEF Next

\* What a push is about to send belongs to conversations that were shared for its
\* destination and not unshared since, under the name it is sent with.
THEOREM ProjectionGranted == NothingReplaced /\ Spec => []ProjectedIsGranted
<1> DEFINE Inv == NothingReplaced /\ GrantInv
<1>1. NothingReplaced /\ Init => Inv
  <2> SUFFICES ASSUME NothingReplaced, Init PROVE GrantInv OBVIOUS
  <2>1. TypeOK BY InitType
  <2>2. CapturedInv
    BY EmptyTree DEF Init, CapturedInv, Rows, NoRow, Idle
  <2>3. \A c \in Clones, d \in Destinations : GrantsFollow(c, d)
    BY DEF Init, GrantsFollow
  <2>4. ProjectedIsGranted BY DEF Init, ProjectedIsGranted, Idle
  <2> QED BY <2>1, <2>2, <2>3, <2>4 DEF GrantInv
<1>2. Inv /\ [Next]_vars => Inv'
  <2> SUFFICES ASSUME NothingReplaced, GrantInv, [Next]_vars
               PROVE  NothingReplaced' /\ GrantInv'
    OBVIOUS
  <2>1. NothingReplaced' BY DEF NothingReplaced
  <2>2. TypeOK' BY NextType DEF GrantInv
  <2>3. CapturedInv' BY CapturedNext DEF GrantInv
  <2>4. \A c \in Clones, d \in Destinations : GrantsFollow(c, d)' BY GrantsNext
  <2>5. ProjectedIsGranted' BY ProjectedNext
  <2> QED BY <2>1, <2>2, <2>3, <2>4, <2>5 DEF GrantInv
<1>3. Inv => ProjectedIsGranted BY DEF GrantInv
<1> QED BY <1>1, <1>2, <1>3, PTL DEF Spec

-----------------------------------------------------------------------------
(* What a clone published is recorded while the destination serves it *)

\* The premises.  A push that reported an error has not landed later: the
\* reconciliation takes what it does not find for absent.  And a redaction for one
\* destination, which drops the records of all of them, is not followed by a new
\* capture of the same thought: there is one destination, or no thought whose id
\* is computed from a transcript that can be read again.
RecaptureHarmless ==
    \/ \A d, e \in Destinations : d = e
    \/ \A t \in Thoughts : SourceOf[t] # "harness"
NothingLandsLate == \A d \in Destinations : inFlight[d] = {}

\* The thoughts clone c has to account for: those it captured and still has; one
\* computed from a transcript it may read again, unless it deleted it.
Own(c, t) ==
    IF SourceOf[t] = "harness" THEN t \notin buried[c]
    ELSE row[c][t].stored /\ row[c][t].via = <<>>
Kept(c, d, ids) == {t \in ids : Own(c, t) /\ t \notin Tombstoned(c, d)}
Remaining(c, d) == Kept(c, d, sent[c][d] \cap NodeIds(tip[d]))

\* What the destination still serves of c's pushes is recorded and shared.
Accounted(c, d) ==
    /\ sent[c][d] \subseteq Held(tip[d])
    /\ \A t \in Remaining(c, d) : pub[c][d][t] # "none" /\ t \in shares[c][d]

\* What the steps of a push establish for it: after the reconciling import the
\* records are proofs; what is projected was not sent before, is shared when it is
\* chosen and recorded when it is sent.
PushAccounts(c, d) ==
    LET o == op[c][d]
    IN  /\ o.phase = "clear" => \A t \in Remaining(c, d) : pub[c][d][t] = "published"
        /\ o.phase = "project" => sent[c][d] \subseteq Held(o.base)
        /\ o.phase \in {"confirm", "send", "refused"} => o.new \cap sent[c][d] = {}
        /\ o.phase \in {"confirm", "send"} => Kept(c, d, o.new) \subseteq shares[c][d]
        /\ o.phase = "send" => \A t \in Kept(c, d, o.new) : pub[c][d][t] # "none"

AccountInv ==
    /\ NothingLandsLate
    /\ \A c \in Clones, d \in Destinations : Accounted(c, d) /\ PushAccounts(c, d)

\* A step is steady for t when what c has to account for after it, it had to
\* account for before, and the share and the record are still there.
Steady(c, d, t) ==
    Own(c, t)' /\ t \notin Tombstoned(c, d)' =>
        /\ Own(c, t) /\ t \notin Tombstoned(c, d)
        /\ t \in shares[c][d] => t \in shares'[c][d]
        /\ pub[c][d][t] # "none" => pub'[c][d][t] # "none"
        /\ pub[c][d][t] = "published" => pub'[c][d][t] = "published"

\* A step that leaves a store alone is steady for it.
LEMMA SteadyStill ==
    ASSUME NEW c \in Clones, NEW d \in Destinations, NEW t \in Thoughts,
           row'[c] = row[c], buried'[c] = buried[c],
           Tombstoned(c, d)' = Tombstoned(c, d),
           shares[c][d] \subseteq shares'[c][d],
           \/ pub'[c][d][t] = pub[c][d][t]
           \/ pub'[c][d][t] # "none" /\ pub[c][d][t] # "published"
    PROVE  Steady(c, d, t)
BY DEF Steady, Own

\* A capture is steady for every thought captured before.
LEMMA CaptureSteady ==
    ASSUME TypeOK, CapturedInv, NEW c \in Clones, NEW x \in Thoughts,
           Capture(c, x) \/ PassiveCapture(c, x) \/ HarnessCapture(c, x),
           NEW b \in Clones, NEW e \in Destinations, NEW t \in minted
    PROVE  Steady(b, e, t)
<1>1. PICK parent \in Thoughts \cup {NoThought}, rows \in [Thoughts -> Row] :
            /\ Insert(c, x, parent, rows) /\ x \notin buried[c]
            /\ x \notin minted \/ (SourceOf[x] = "harness" /\ x \notin Rows(c))
            /\ \A u \in Thoughts : rows[u].stored => rows[u] = row[c][u]
            /\ \A u \in Rows(c) : \/ rows[u] = row[c][u]
                                  \/ SourceOf[x] = "passive" /\ RequestOf[u] = RequestOf[x]
  BY CaptureInserts
<1>2. /\ UNCHANGED <<buried, pub>> /\ Tombstoned(b, e)' = Tombstoned(b, e)
      /\ t \in Thoughts
  BY <1>1 DEF Insert, Tombstoned, TypeOK
<1>3. CASE b = c
  <2>1. shares[c][e] \subseteq shares'[c][e] BY <1>1, InsertedRow
  <2>2. CASE SourceOf[t] = "harness"
    BY <1>2, <1>3, <2>1, <2>2 DEF Steady, Own
  <2>3. CASE SourceOf[t] # "harness"
    <3>1. t # x BY <1>1, <2>3
    <3>2. row'[c][t] = rows[t] BY <1>1, <1>2, <3>1, InsertedRow
    <3>3. row'[c][t].stored => row'[c][t] = row[c][t] BY <1>1, <1>2, <3>2
    <3> QED BY <1>2, <1>3, <2>1, <2>3, <3>3 DEF Steady, Own
  <2> QED BY <2>2, <2>3
<1>4. CASE b # c
  <2>1. row'[b] = row[b] /\ shares'[b] = shares[b] BY <1>1, <1>4, InsertedRow
  <2> QED BY <1>2, <2>1, SteadyStill
<1> QED BY <1>3, <1>4

\* A tombstone of either scope is steady: of what it removes, nothing is left to
\* account for.
LEMMA TombstoneSteady ==
    ASSUME TypeOK, NEW c \in Clones, NEW x \in Thoughts,
           row' = [row EXCEPT ![c] = RowsWithout(c, {x})],
           shares' = [shares EXCEPT ![c] = SharesWithout(c, {x})],
           pub' = [pub EXCEPT ![c] = PubWithout(c, {x})],
           NEW b \in Clones, NEW e \in Destinations, NEW t \in Thoughts,
           buried[b] \subseteq buried'[b], Tombstoned(b, e) \subseteq Tombstoned(b, e)',
           b = c /\ SourceOf[x] = "harness" => x \in buried'[c] \cup Tombstoned(c, e)'
    PROVE  Steady(b, e, t)
<1>1. CASE b = c /\ t = x
  <2>1. row'[c][x] = NoRow BY DEF RowsWithout, TypeOK
  <2> QED BY <1>1, <2>1 DEF Steady, Own, NoRow
<1>2. CASE b = c /\ t # x
  <2>1. /\ row'[c][t] = RowsWithout(c, {x})[t]
        /\ shares'[c][e] = shares[c][e] \ {x}
        /\ pub'[c][e][t] = pub[c][e][t]
    BY <1>2 DEF SharesWithout, PubWithout, TypeOK
  <2>2. row'[c][t].stored => row[c][t].stored /\ row'[c][t].via = row[c][t].via
    BY <2>1, RowLeft DEF Rows
  <2>3. Own(c, t)' => Own(c, t) BY <1>2, <2>2 DEF Own
  <2> QED BY <1>2, <2>1, <2>3 DEF Steady
<1>3. CASE b # c
  <2>1. row'[b] = row[b] /\ shares'[b] = shares[b] /\ pub'[b] = pub[b]
    BY <1>3 DEF TypeOK
  <2>2. Own(b, t)' => Own(b, t) BY <2>1 DEF Own
  <2> QED BY <2>1, <2>2 DEF Steady
<1> QED BY <1>1, <1>2, <1>3

\* An import is steady: what its tree has a tombstone for goes altogether.
LEMMA ImportSteady ==
    ASSUME RecordsInv, RecaptureHarmless, NEW c \in Clones, NEW d \in Destinations,
           Import(c, d, tip[d]),
           NEW b \in Clones, NEW e \in Destinations, NEW t \in Thoughts
    PROVE  Steady(b, e, t)
<1>1. TypeOK /\ tip[d] \in Commit BY DEF RecordsInv, TypeOK
<1>2. /\ TombIds(tip[d]) \subseteq Tombstoned(c, d)'
      /\ \A a \in Clones, f \in Destinations :
            <<a, f>> # <<c, d>> => Tombstoned(a, f)' = Tombstoned(a, f)
  BY ImportProves
<1>3. buried' = buried BY DEF Import
<1>4. CASE b = c
  <2>1. t \notin TombIds(tip[d]) =>
            /\ t \in shares[c][e] => t \in shares'[c][e]
            /\ pub[c][e][t] # "none" => pub'[c][e][t] # "none"
            /\ pub[c][e][t] = "published" => pub'[c][e][t] = "published"
    <3>1. shares'[c][e] = ImportedShares(c, d, tip[d])[e]
      BY <1>1 DEF Import, TypeOK
    <3>2. pub'[c][e] = ImportedPub(c, d, tip[d])[e]
      BY <1>1 DEF Import, TypeOK
    <3>3. t \notin TombIds(tip[d]) => pub'[c][e][t] \in {pub[c][e][t], "published"}
      BY <3>2 DEF ImportedPub, PubWithout
    <3>4. t \notin TombIds(tip[d]) /\ t \in shares[c][e] => t \in shares'[c][e]
      BY <3>1 DEF ImportedShares, SharesWithout
    <3> QED BY <3>3, <3>4
  <2>2. Tombstoned(c, e) \subseteq Tombstoned(c, e)'
    <3>1. CASE e # d BY <1>2, <3>1
    <3>2. CASE e = d
      <4>1. tomb'[c][d] = ImportedTombs(c, d, tip[d]) BY <1>1 DEF Import, TypeOK
      <4>2. ASSUME NEW u \in Tombstoned(c, d) PROVE tomb'[c][d][u].state # "none"
        <5>1. u \in Thoughts /\ tomb[c][d][u].state # "none" BY DEF Tombstoned
        <5>2. tomb[c][d][u] \in Tombstone BY <1>1, <5>1 DEF TypeOK
        <5> QED BY <4>1, <5>1, <5>2 DEF ImportedTombs, Tombstone
      <4> QED BY <3>2, <4>2 DEF Tombstoned
    <3> QED BY <3>1, <3>2
  <2>3. CASE SourceOf[t] = "harness"
    <3>1. d = e BY <2>3 DEF RecaptureHarmless
    <3> QED BY <1>2, <1>3, <1>4, <2>1, <2>2, <2>3, <3>1 DEF Steady, Own
  <2>4. CASE SourceOf[t] # "harness"
    <3> SUFFICES ASSUME row'[c][t].stored, row'[c][t].via = <<>>,
                        t \notin Tombstoned(c, e)'
                 PROVE  /\ row[c][t].stored /\ row[c][t].via = <<>>
                        /\ t \notin TombIds(tip[d])
      BY <1>4, <2>1, <2>2, <2>4 DEF Steady, Own
    <3>1. ~\E n \in Arrivals(c, d, tip[d]) :
              n.id = t /\ n.via \in Via /\ row'[c][t].via = <<d>> \o n.via
      BY PulledFrom
    <3>2. t \in Rows(c) \ TombIds(tip[d]) /\ row'[c][t].via = row[c][t].via
      BY <1>1, <3>1, ImportedRow
    <3> QED BY <3>2 DEF Rows
  <2> QED BY <2>3, <2>4
<1>5. CASE b # c
  <2>1. row'[b] = row[b] /\ shares'[b] = shares[b] /\ pub'[b] = pub[b]
    BY <1>1, <1>5 DEF Import, TypeOK
  <2> QED BY <1>2, <1>3, <1>5, <2>1, SteadyStill
<1> QED BY <1>4, <1>5

\* What remains to be accounted for goes on being so under steady steps, while the
\* destination gains.
LEMMA AccountedKept ==
    ASSUME TypeOK, CapturedInv, TombstonedNotServed',
           NEW c \in Clones, NEW d \in Destinations, Accounted(c, d),
           \A t \in minted : Steady(c, d, t), sent'[c][d] = sent[c][d], Gains(d)
    PROVE  /\ Accounted(c, d)'
           /\ Remaining(c, d)' \subseteq Remaining(c, d)
<1>1. sent[c][d] \subseteq minted /\ minted \subseteq Thoughts BY DEF CapturedInv, TypeOK
<1>2. Remaining(c, d)' \subseteq Remaining(c, d)
  <2> SUFFICES ASSUME NEW t \in Remaining(c, d)' PROVE t \in Remaining(c, d)
    OBVIOUS
  <2>1. /\ t \in sent[c][d] /\ t \in NodeIds(tip[d])'
        /\ Own(c, t)' /\ t \notin Tombstoned(c, d)'
    BY DEF Remaining, Kept
  <2>2. Own(c, t) /\ t \notin Tombstoned(c, d) BY <1>1, <2>1 DEF Steady
  <2>3. t \notin TombIds(tip[d])
    BY <2>1 DEF TombstonedNotServed, Gains, NodeIds, TombIds
  <2>4. t \in NodeIds(tip[d]) BY <2>1, <2>3 DEF Accounted, Held
  <2> QED BY <2>1, <2>2, <2>4 DEF Remaining, Kept
<1>3. ASSUME NEW t \in Remaining(c, d)' PROVE pub'[c][d][t] # "none" /\ t \in shares'[c][d]
  <2>1. t \in minted /\ Own(c, t)' /\ t \notin Tombstoned(c, d)'
    BY <1>1 DEF Remaining, Kept
  <2> QED BY <1>2, <1>3, <2>1 DEF Steady, Accounted
<1>4. sent'[c][d] \subseteq Held(tip[d])' BY DEF Accounted, Gains, Held, NodeIds, TombIds
<1> QED BY <1>2, <1>3, <1>4 DEF Accounted

\* The same for a push in progress, while its operation stands still.
LEMMA PushKept ==
    ASSUME TypeOK, CapturedInv, TombstonedNotServed',
           NEW c \in Clones, NEW d \in Destinations, Accounted(c, d), PushAccounts(c, d),
           \A t \in minted : Steady(c, d, t), sent'[c][d] = sent[c][d], Gains(d),
           op'[c][d] = op[c][d]
    PROVE  PushAccounts(c, d)'
<1>1. op[c][d].new \subseteq minted BY DEF CapturedInv
<1>2. /\ Remaining(c, d)' \subseteq Remaining(c, d)
      /\ Remaining(c, d)' \subseteq minted
      /\ \A t \in Remaining(c, d)' : Own(c, t)' /\ t \notin Tombstoned(c, d)'
  BY AccountedKept DEF CapturedInv, Remaining, Kept
<1>3. /\ Kept(c, d, op[c][d].new)' \subseteq Kept(c, d, op[c][d].new)
      /\ \A t \in Kept(c, d, op[c][d].new)' :
            t \in minted /\ Own(c, t)' /\ t \notin Tombstoned(c, d)'
  BY <1>1 DEF Kept, Steady
<1>4. op'[c][d].phase = "clear" =>
        \A t \in Remaining(c, d)' : pub'[c][d][t] = "published"
  BY <1>2 DEF PushAccounts, Steady
<1>5. op'[c][d].phase = "project" => sent'[c][d] \subseteq Held(op[c][d].base)'
  BY DEF PushAccounts, Held, NodeIds, TombIds
<1>6. op'[c][d].phase \in {"confirm", "send", "refused"} =>
        op'[c][d].new \cap sent'[c][d] = {}
  BY DEF PushAccounts
<1>7. op'[c][d].phase \in {"confirm", "send"} =>
        Kept(c, d, op[c][d].new)' \subseteq shares'[c][d]
  BY <1>3 DEF PushAccounts, Steady
<1>8. op'[c][d].phase = "send" =>
        \A t \in Kept(c, d, op[c][d].new)' : pub'[c][d][t] # "none"
  BY <1>3 DEF PushAccounts, Steady
<1> QED BY <1>4, <1>5, <1>6, <1>7, <1>8 DEF PushAccounts

\* Phases for which nothing was established.
LEMMA FreePhase ==
    ASSUME NEW c \in Clones, NEW d \in Destinations,
           op'[c][d].phase \in {"idle", "reconcile", "pull", "accepted", "tombstones",
                                "failed", "redact"}
    PROVE  PushAccounts(c, d)'
BY DEF PushAccounts

\* A step of c towards d, steady for every store, has to care for its own push.
LEMMA SteadyStep ==
    ASSUME RecordsInv, RecordsInv', CapturedInv, AccountInv,
           NEW c \in Clones, NEW d \in Destinations,
           \A b \in Clones, e \in Destinations : \A t \in minted : Steady(b, e, t),
           UNCHANGED <<tip, sent, inFlight>>,
           \A b \in Clones, e \in Destinations :
                <<b, e>> # <<c, d>> => op'[b][e] = op[b][e],
           \/ op'[c][d] = op[c][d]
           \/ op'[c][d].phase \in {"idle", "reconcile", "pull", "accepted", "tombstones",
                                   "failed", "redact"}
           \/ PushAccounts(c, d)'
    PROVE  AccountInv'
<1>1. TypeOK /\ TombstonedNotServed' BY DEF RecordsInv
<1>2. \A e \in Destinations : Gains(e) BY DEF Gains, Held, NodeIds, TombIds
<1>3. \A b \in Clones, e \in Destinations : Accounted(b, e)'
  BY <1>1, <1>2, AccountedKept DEF AccountInv
<1>4. \A b \in Clones, e \in Destinations :
        op'[b][e] = op[b][e] => PushAccounts(b, e)'
  BY <1>1, <1>2, PushKept DEF AccountInv
<1>5. \A b \in Clones, e \in Destinations : PushAccounts(b, e)'
  BY <1>4, FreePhase
<1>6. NothingLandsLate' BY DEF AccountInv, NothingLandsLate
<1> QED BY <1>3, <1>5, <1>6 DEF AccountInv

\* A command without a lock.
LEMMA CommandAccounts ==
    ASSUME RecordsInv, RecordsInv', CapturedInv, AccountInv, NEW c \in Clones, Unlocked(c)
    PROVE  AccountInv'
<1>1. TypeOK /\ UNCHANGED <<op, tip, inFlight, sent>>
  BY CommandRows DEF RecordsInv
<1>2. \A t \in minted : t \in Thoughts BY <1>1 DEF TypeOK
<1>3. ASSUME NEW b \in Clones, NEW e \in Destinations, NEW t \in minted
      PROVE  Steady(b, e, t)
  <2>1. ASSUME NEW x \in Thoughts, DeleteLocal(c, x) PROVE Steady(b, e, t)
    <3>1. /\ row' = [row EXCEPT ![c] = RowsWithout(c, {x})]
          /\ shares' = [shares EXCEPT ![c] = SharesWithout(c, {x})]
          /\ pub' = [pub EXCEPT ![c] = PubWithout(c, {x})]
          /\ x \in buried'[c] /\ \A a \in Clones : buried[a] \subseteq buried'[a]
          /\ UNCHANGED tomb
      BY <1>1, <2>1 DEF DeleteLocal, TypeOK
    <3>2. Tombstoned(b, e)' = Tombstoned(b, e) BY <3>1 DEF Tombstoned
    <3> QED BY <1>1, <1>2, <3>1, <3>2, TombstoneSteady
  <2>2. ASSUME NEW f \in Destinations, NEW k, NEW withFuture, Share(c, f, k, withFuture)
        PROVE  Steady(b, e, t)
    <3>1. /\ UNCHANGED <<row, buried, tomb, pub>>
          /\ shares[b][e] \subseteq shares'[b][e]
      BY <1>1, <2>2 DEF Share, TypeOK
    <3>2. Tombstoned(b, e)' = Tombstoned(b, e) BY <3>1 DEF Tombstoned
    <3> QED BY <1>2, <3>1, <3>2, SteadyStill
  <2> QED BY <1>1, <2>1, <2>2, CaptureSteady DEF Unlocked
<1>4. CASE Destinations = {}
  BY <1>4, <1>1 DEF AccountInv, NothingLandsLate
<1>5. CASE Destinations # {}
  <2>1. PICK d \in Destinations : TRUE BY <1>5
  <2> QED BY <1>1, <1>3, <2>1, SteadyStep
<1> QED BY <1>4, <1>5

\* A step of c towards d that is steady for every other store and operation.
LEMMA AccountStep ==
    ASSUME RecordsInv, RecordsInv', CapturedInv, AccountInv,
           NEW c \in Clones, NEW d \in Destinations,
           \A b \in Clones, e \in Destinations : <<b, e>> # <<c, d>> =>
                /\ op'[b][e] = op[b][e] /\ sent'[b][e] = sent[b][e]
                /\ \A t \in minted : Steady(b, e, t),
           \A e \in Destinations : Gains(e),
           NothingLandsLate', Accounted(c, d)', PushAccounts(c, d)'
    PROVE  AccountInv'
<1>1. TypeOK /\ TombstonedNotServed' BY DEF RecordsInv
<1>2. ASSUME NEW b \in Clones, NEW e \in Destinations, <<b, e>> # <<c, d>>
      PROVE  Accounted(b, e)' /\ PushAccounts(b, e)'
  <2>1. Accounted(b, e) /\ PushAccounts(b, e) BY DEF AccountInv
  <2> QED BY <1>1, <1>2, <2>1, AccountedKept, PushKept
<1>3. \A b \in Clones, e \in Destinations : Accounted(b, e)' /\ PushAccounts(b, e)'
  <2> SUFFICES ASSUME NEW b \in Clones, NEW e \in Destinations
               PROVE  Accounted(b, e)' /\ PushAccounts(b, e)'
    OBVIOUS
  <2>1. CASE b = c /\ e = d BY <2>1
  <2>2. CASE <<b, e>> # <<c, d>> BY <1>2, <2>2
  <2> QED BY <2>1, <2>2
<1> QED BY <1>3 DEF AccountInv

\* An operation that ends has established nothing.
LEMMA EndFrees ==
    ASSUME TypeOK, NEW c \in Clones, NEW d \in Destinations, EndOp(c, d)
    PROVE  /\ PushAccounts(c, d)'
           /\ \A b \in Clones, e \in Destinations :
                <<b, e>> # <<c, d>> => op'[b][e] = op[b][e]
<1>1. op'[c][d].phase = "idle" BY OthersWait DEF EndOp, Idle
<1> QED BY <1>1, FreePhase, OthersWait DEF EndOp

\* An operation that starts its next part from nothing.
LEMMA FreshStart ==
    ASSUME TypeOK, NEW c \in Clones, NEW d \in Destinations, NEW phase,
           SetOp(c, d, [Idle EXCEPT !.phase = phase])
    PROVE  /\ op'[c][d].phase = phase
           /\ \A b \in Clones, e \in Destinations :
                <<b, e>> # <<c, d>> => op'[b][e] = op[b][e]
<1> DEFINE new == [Idle EXCEPT !.phase = phase]
<1>1. new.phase = phase BY DEF Idle
<1>2. SetOp(c, d, new) OBVIOUS
<1> HIDE DEF new
<1> QED BY <1>1, <1>2, OthersWait

\* An operation that goes on from its phase keeps what it carries.
LEMMA StepCarries ==
    ASSUME TypeOK, NEW c \in Clones, NEW d \in Destinations, NEW phase,
           Step(c, d, phase)
    PROVE  /\ op'[c][d].phase = phase
           /\ op'[c][d].new = op[c][d].new /\ op'[c][d].base = op[c][d].base
           /\ op'[c][d].candidate = op[c][d].candidate
           /\ \A b \in Clones, e \in Destinations :
                <<b, e>> # <<c, d>> => op'[b][e] = op[b][e]
<1> DEFINE new == [op[c][d] EXCEPT !.phase = phase]
<1>1. op'[c][d] = new /\ op[c][d] \in Operation BY OthersWait DEF Step, TypeOK
<1>2. /\ new.phase = phase /\ new.new = op[c][d].new /\ new.base = op[c][d].base
      /\ new.candidate = op[c][d].candidate
  BY <1>1 DEF Operation
<1> HIDE DEF new
<1> QED BY <1>1, <1>2, OthersWait DEF Step

\* A step that leaves the stores and the destinations alone.
LEMMA StillAccounts ==
    ASSUME RecordsInv, RecordsInv', CapturedInv, AccountInv,
           NEW c \in Clones, NEW d \in Destinations,
           UNCHANGED <<storeVars, tip, sent, inFlight>>,
           \A b \in Clones, e \in Destinations :
                <<b, e>> # <<c, d>> => op'[b][e] = op[b][e],
           \/ op'[c][d] = op[c][d]
           \/ op'[c][d].phase \in {"idle", "reconcile", "pull", "accepted", "tombstones",
                                   "failed", "redact"}
           \/ PushAccounts(c, d)'
    PROVE  AccountInv'
<1>1. ASSUME NEW b \in Clones, NEW e \in Destinations, NEW t \in minted
      PROVE  Steady(b, e, t)
  <2>1. t \in Thoughts /\ Tombstoned(b, e)' = Tombstoned(b, e)
    BY DEF RecordsInv, TypeOK, Tombstoned, storeVars
  <2> QED BY <2>1, SteadyStill DEF storeVars
<1> QED BY <1>1, SteadyStep

\* An import, in whatever operation.
LEMMA ImportAccounts ==
    ASSUME RecordsInv, RecordsInv', CapturedInv, AccountInv, RecaptureHarmless,
           NEW c \in Clones, NEW d \in Destinations, Import(c, d, tip[d]),
           \A b \in Clones, e \in Destinations :
                <<b, e>> # <<c, d>> => op'[b][e] = op[b][e],
           \/ op'[c][d] = op[c][d]
           \/ op'[c][d].phase \in {"clear", "redact"}
           \/ op'[c][d].phase = "project" /\ op'[c][d].base = tip[d]
    PROVE  AccountInv'
<1>1. TypeOK /\ UNCHANGED <<tip, sent, inFlight>>
  BY DEF RecordsInv, Import, historyVars
<1>2. \A b \in Clones, e \in Destinations : \A t \in minted : Steady(b, e, t)
  BY <1>1, ImportSteady DEF TypeOK
<1>3. CASE op'[c][d].phase = "clear"
  <2>1. ASSUME NEW t \in Remaining(c, d)' PROVE pub'[c][d][t] = "published"
    <3>1. t \in NodeIds(tip[d]) /\ t \notin TombIds(tip[d])
      BY <1>1 DEF Remaining, Kept, RecordsInv, TombstonedNotServed, NodeIds
    <3>2. t \in Thoughts BY <3>1, <1>1 DEF CapturedInv, TreeOf, TypeOK
    <3>3. pub'[c][d] = ImportedPub(c, d, tip[d])[d] BY <1>1 DEF Import, TypeOK
    <3> QED BY <3>1, <3>2, <3>3 DEF ImportedPub, PubWithout
  <2>2. PushAccounts(c, d)' BY <1>3, <2>1 DEF PushAccounts
  <2> QED BY <1>1, <1>2, <2>2, SteadyStep
<1>4. CASE op'[c][d].phase = "project" /\ op'[c][d].base = tip[d]
  <2>1. sent'[c][d] \subseteq Held(tip[d]) BY <1>1 DEF AccountInv, Accounted
  <2>2. PushAccounts(c, d)'
    BY <1>4, <2>1 DEF PushAccounts, Held, NodeIds, TombIds
  <2> QED BY <1>1, <1>2, <2>2, SteadyStep
<1>5. CASE op'[c][d] = op[c][d] \/ op'[c][d].phase = "redact"
  BY <1>1, <1>2, <1>5, SteadyStep
<1> QED BY <1>3, <1>4, <1>5

\* What is projected is shared, and was never sent: the tree it is built on serves
\* what was sent, or its tombstone, which the import before recorded here.
LEMMA ProjectAccounts ==
    ASSUME RecordsInv, RecordsInv', CapturedInv, AccountInv,
           NEW c \in Clones, NEW d \in Destinations, Project(c, d)
    PROVE  AccountInv'
<1> DEFINE o == op[c][d]
           new == [o EXCEPT !.phase = "confirm", !.tracking = Absent,
                            !.candidate = Candidate(c, d, o.base),
                            !.new = NewIds(c, d, o.base)]
<1>1. TypeOK /\ o \in Operation BY DEF RecordsInv, TypeOK
<1>2. /\ op'[c][d] = new
      /\ \A b \in Clones, e \in Destinations :
            <<b, e>> # <<c, d>> => op'[b][e] = op[b][e]
  BY <1>1, OthersWait DEF Project
<1>3. new.phase = "confirm" /\ new.new = NewIds(c, d, o.base)
  BY <1>1 DEF Operation
<1> HIDE DEF new
<1>4. UNCHANGED <<storeVars, tip, sent, inFlight>> BY DEF Project, OnlyOp, historyVars
<1>5. o.phase = "project" BY DEF Project
<1>6. /\ sent[c][d] \subseteq Held(o.base) /\ TombIds(o.base) \subseteq Tombstoned(c, d)
  BY <1>5 DEF AccountInv, PushAccounts, RecordsInv, InProgressSound, OperationSound
<1>7. /\ NewIds(c, d, o.base) \cap sent[c][d] = {}
      /\ NewIds(c, d, o.base) \subseteq shares[c][d]
  BY <1>6 DEF NewIds, ProjectionIds, Held
<1>8. /\ op'[c][d].phase = "confirm" /\ op'[c][d].new \cap sent'[c][d] = {}
      /\ Kept(c, d, op[c][d].new)' \subseteq shares'[c][d]
  BY <1>2, <1>3, <1>4, <1>7 DEF Kept, storeVars
<1>9. PushAccounts(c, d)' BY <1>8 DEF PushAccounts
<1> QED BY <1>2, <1>4, <1>9, StillAccounts

\* A push that lands hands over its new thoughts: they are recorded, and of what
\* was served before nothing comes back from under a tombstone.
LEMMA LandingAccounts ==
    ASSUME RecordsInv, RecordsInv', CapturedInv, AccountInv,
           NEW c \in Clones, NEW d \in Destinations,
           Sending(c, d), OpLands(c, d), UNCHANGED inFlight,
           \A b \in Clones, e \in Destinations :
                <<b, e>> # <<c, d>> => op'[b][e] = op[b][e],
           op'[c][d].phase \in {"accepted", "failed"}
    PROVE  AccountInv'
<1> DEFINE o == op[c][d]
<1>1. TypeOK /\ o.phase = "send" /\ UNCHANGED storeVars
  BY DEF RecordsInv, Sending
<1>2. BuiltOn(o.base, o.candidate, o.new)
  BY <1>1 DEF RecordsInv, InProgressSound, OperationSound
<1>3. /\ tip[d] = o.base /\ Lands(c, d, o.base, o.candidate, o.new)
      /\ sent' = [sent EXCEPT ![c][d] = @ \cup o.new]
  BY DEF OpLands, Lands
<1>4. (\A e \in Destinations : Gains(e)) /\ tip'[d] = o.candidate
  BY <1>2, <1>3, LandingGains
<1>5. /\ sent'[c][d] = sent[c][d] \cup o.new
      /\ \A b \in Clones, e \in Destinations :
            <<b, e>> # <<c, d>> => sent'[b][e] = sent[b][e]
  BY <1>1, <1>3 DEF TypeOK
<1>6. ASSUME NEW b \in Clones, NEW e \in Destinations, NEW t \in minted
      PROVE  Steady(b, e, t)
  <2>1. t \in Thoughts /\ Tombstoned(b, e)' = Tombstoned(b, e)
    BY <1>1 DEF TypeOK, Tombstoned, storeVars
  <2> QED BY <1>1, <2>1, SteadyStill DEF storeVars
<1>7. Accounted(c, d)'
  <2>1. sent'[c][d] \subseteq Held(tip[d])'
    <3>1. sent[c][d] \subseteq Held(tip'[d])
      BY <1>4 DEF AccountInv, Accounted, Gains
    <3>2. o.new \subseteq Held(tip'[d]) BY <1>2, <1>4 DEF BuiltOn, Held
    <3> QED BY <1>5, <3>1, <3>2 DEF Held, NodeIds, TombIds
  <2>2. ASSUME NEW t \in Remaining(c, d)'
        PROVE  pub'[c][d][t] # "none" /\ t \in shares'[c][d]
    <3>1. /\ t \in sent'[c][d] /\ t \in NodeIds(tip'[d])
          /\ Own(c, t) /\ t \notin Tombstoned(c, d)
      BY <1>1 DEF Remaining, Kept, Own, Tombstoned, storeVars, NodeIds
    <3>2. CASE t \in o.new
      <4>1. t \in Kept(c, d, o.new) BY <3>1, <3>2 DEF Kept
      <4> QED BY <1>1, <4>1 DEF AccountInv, PushAccounts, storeVars
    <3>3. CASE t \in sent[c][d]
      <4>1. t \notin TombIds(tip'[d])
        BY <3>1 DEF RecordsInv, TombstonedNotServed, NodeIds, TombIds
      <4>2. t \notin TombIds(tip[d]) BY <1>4, <4>1 DEF Gains
      <4>3. t \in NodeIds(tip[d]) BY <3>3, <4>2 DEF AccountInv, Accounted, Held
      <4>4. t \in Remaining(c, d) BY <3>1, <3>3, <4>3 DEF Remaining, Kept
      <4> QED BY <1>1, <4>4 DEF AccountInv, Accounted, storeVars
    <3> QED BY <1>5, <3>1, <3>2, <3>3
  <2> QED BY <2>1, <2>2 DEF Accounted
<1>8. PushAccounts(c, d)' BY FreePhase
<1>9. NothingLandsLate' BY DEF AccountInv, NothingLandsLate
<1> QED BY <1>4, <1>5, <1>6, <1>7, <1>8, <1>9, AccountStep

\* A record is marked: none is lost, and `published` is terminal.
LEMMA MarkAccounts ==
    ASSUME RecordsInv, RecordsInv', CapturedInv, AccountInv,
           NEW c \in Clones, NEW d \in Destinations, NEW ids,
           NEW state \in {"pending", "published", "unknown"},
           Mark(c, d, ids, state), OnlyPub,
           \A b \in Clones, e \in Destinations :
                <<b, e>> # <<c, d>> => op'[b][e] = op[b][e],
           \/ op'[c][d].phase \in {"idle", "tombstones"}
           \/ PushAccounts(c, d)'
    PROVE  AccountInv'
<1>1. TypeOK /\ UNCHANGED <<row, shares, buried, tomb, tip, sent, inFlight>>
  BY DEF RecordsInv, OnlyPub, historyVars
<1>2. ASSUME NEW b \in Clones, NEW e \in Destinations, NEW t \in minted
      PROVE  Steady(b, e, t)
  <2>1. t \in Thoughts /\ Tombstoned(b, e)' = Tombstoned(b, e)
    BY <1>1 DEF TypeOK, Tombstoned
  <2>2. \/ pub'[b][e][t] = pub[b][e][t]
        \/ pub'[b][e][t] # "none" /\ pub[b][e][t] # "published"
    BY <1>1, <2>1 DEF Mark, TypeOK
  <2> QED BY <1>1, <2>1, <2>2, SteadyStill
<1> QED BY <1>1, <1>2, SteadyStep

\* Records are dropped, of thoughts none of which is to be accounted for.
LEMMA DropAccounts ==
    ASSUME RecordsInv, RecordsInv', CapturedInv, AccountInv,
           NEW c \in Clones, NEW d \in Destinations,
           UNCHANGED <<row, buried, tomb, tip, sent, inFlight>>,
           \A b \in Clones, e \in Destinations : <<b, e>> # <<c, d>> =>
                /\ op'[b][e] = op[b][e]
                /\ shares'[b][e] = shares[b][e] /\ pub'[b][e] = pub[b][e],
           \A t \in Remaining(c, d) :
                /\ t \in shares'[c][d]
                /\ pub'[c][d][t] = pub[c][d][t],
           PushAccounts(c, d)'
    PROVE  AccountInv'
<1>1. \A b \in Clones, e \in Destinations : Tombstoned(b, e)' = Tombstoned(b, e)
  BY DEF Tombstoned
<1>2. ASSUME NEW b \in Clones, NEW e \in Destinations, <<b, e>> # <<c, d>>,
             NEW t \in minted
      PROVE  Steady(b, e, t)
  <2>1. t \in Thoughts BY DEF RecordsInv, TypeOK
  <2> QED BY <1>1, <1>2, <2>1, SteadyStill
<1>3. Remaining(c, d)' = Remaining(c, d)
  BY <1>1 DEF Remaining, Kept, Own, NodeIds
<1>4. Accounted(c, d)'
  BY <1>3 DEF AccountInv, Accounted, Held, NodeIds, TombIds
<1>5. \A e \in Destinations : Gains(e) BY DEF Gains, Held, NodeIds, TombIds
<1>6. NothingLandsLate' BY DEF AccountInv, NothingLandsLate
<1> QED BY <1>2, <1>4, <1>5, <1>6, AccountStep

\* The steps of a push up to the transport.
LEMMA PushAccountsNext ==
    ASSUME RecordsInv, RecordsInv', CapturedInv, AccountInv, RecaptureHarmless,
           NEW c \in Clones, NEW d \in Destinations, Push(c, d)
    PROVE  AccountInv'
<1> DEFINE o == op[c][d]
<1>0. TypeOK BY DEF RecordsInv
<1>1. OnlyOp => UNCHANGED <<storeVars, tip, sent, inFlight>> BY DEF OnlyOp, historyVars
<1>2. OnlyPub => UNCHANGED <<row, shares, buried, tomb, tip, sent, inFlight>>
  BY DEF OnlyPub, historyVars
<1>3. ASSUME NEW publish, Begin(c, d, publish) PROVE AccountInv'
  <2> DEFINE new == [Idle EXCEPT !.phase = "reconcile", !.publish = publish,
                                 !.uncertain = UncertainIds(c, d)]
  <2>1. SetOp(c, d, new) /\ OnlyOp BY <1>3 DEF Begin
  <2>2. new.phase = "reconcile" BY DEF Idle
  <2> HIDE DEF new
  <2>3. op'[c][d].phase = "reconcile" BY <1>0, <2>1, <2>2, OthersWait
  <2> QED BY <1>0, <1>1, <2>1, <2>3, OthersWait, StillAccounts
<1>4. CASE ReconcilePull(c, d)
  BY <1>0, <1>4, StepCarries, ImportAccounts DEF ReconcilePull
<1>5. CASE ClearUncertain(c, d)
  <2>1. o.phase = "clear" /\ Clear(c, d, o.uncertain) /\ OnlyPub
    BY <1>5 DEF ClearUncertain
  <2>2. /\ op'[c][d].phase \in {"pull", "idle"}
        /\ \A b \in Clones, e \in Destinations :
                <<b, e>> # <<c, d>> => op'[b][e] = op[b][e]
    <3>1. CASE EndOp(c, d)
      BY <1>0, <3>1, OthersWait DEF EndOp, Idle
    <3>2. CASE SetOp(c, d, [Idle EXCEPT !.phase = "pull"])
      BY <1>0, <3>2, FreshStart
    <3> QED BY <1>5, <3>1, <3>2 DEF ClearUncertain
  <2>3. ASSUME NEW t \in Remaining(c, d)
        PROVE  t \in shares'[c][d] /\ pub'[c][d][t] = pub[c][d][t]
    <3>1. pub[c][d][t] = "published" /\ t \in shares[c][d] /\ t \in Thoughts
      BY <1>0, <2>1 DEF AccountInv, Accounted, PushAccounts, Remaining, Kept, TypeOK
    <3> QED BY <1>0, <1>2, <2>1, <3>1 DEF Clear, TypeOK, Uncertain
  <2>4. \A b \in Clones, e \in Destinations : <<b, e>> # <<c, d>> =>
            pub'[b][e] = pub[b][e]
    BY <1>0, <2>1 DEF Clear, TypeOK
  <2>5. PushAccounts(c, d)' BY <2>2, FreePhase
  <2> QED BY <1>2, <2>1, <2>2, <2>3, <2>4, <2>5, DropAccounts
<1>6. CASE PushPull(c, d)
  <2> DEFINE new == [Idle EXCEPT !.phase = "project", !.tracking = tip[d],
                                 !.base = tip[d]]
  <2>1. SetOp(c, d, new) /\ Import(c, d, tip[d]) BY <1>6 DEF PushPull
  <2>2. new.phase = "project" /\ new.base = tip[d] BY DEF Idle
  <2> HIDE DEF new
  <2>3. op'[c][d].phase = "project" /\ op'[c][d].base = tip[d]
    BY <1>0, <2>1, <2>2, OthersWait
  <2> QED BY <1>0, <2>1, <2>3, OthersWait, ImportAccounts
<1>7. CASE ImportRefused(c, d) \/ ProjectEnds(c, d)
  <2>1. EndOp(c, d) /\ OnlyOp BY <1>7 DEF ImportRefused, ProjectEnds
  <2> QED BY <1>0, <1>1, <2>1, EndFrees, StillAccounts
<1>8. CASE TrackingMoves(c, d)
  <2> DEFINE new == [o EXCEPT !.tracking = tip[d]]
  <2>1. SetOp(c, d, new) /\ OnlyOp /\ o.phase = "project" /\ o \in Operation
    BY <1>0, <1>8 DEF TrackingMoves, TypeOK
  <2>2. new.phase = "project" /\ new.base = o.base BY <2>1 DEF Operation
  <2> HIDE DEF new
  <2>3. op'[c][d].phase = "project" /\ op'[c][d].base = o.base
    BY <1>0, <2>1, <2>2, OthersWait
  <2>4. sent'[c][d] \subseteq Held(o.base)
    BY <1>1, <2>1 DEF AccountInv, PushAccounts
  <2>5. PushAccounts(c, d)'
    BY <2>3, <2>4 DEF PushAccounts, Held, NodeIds, TombIds
  <2> QED BY <1>0, <1>1, <2>1, <2>5, OthersWait, StillAccounts
<1>9. CASE MarkPending(c, d)
  <2>1. /\ o.phase = "confirm" /\ Mark(c, d, o.new, "pending")
        /\ Step(c, d, "send") /\ OnlyPub
    BY <1>9 DEF MarkPending
  <2>2. /\ op'[c][d].phase = "send" /\ op'[c][d].new = o.new
        /\ \A b \in Clones, e \in Destinations :
                <<b, e>> # <<c, d>> => op'[b][e] = op[b][e]
    BY <1>0, <2>1, StepCarries
  <2>3. Kept(c, d, op[c][d].new)' = Kept(c, d, o.new)
    BY <1>2, <2>1, <2>2 DEF Kept, Own, Tombstoned
  <2>4. \A t \in Kept(c, d, o.new) : pub'[c][d][t] # "none"
    <3>1. o.new \subseteq Thoughts BY <1>0 DEF TypeOK, Operation
    <3> QED BY <1>0, <2>1, <3>1 DEF Mark, Kept, TypeOK
  <2>5. PushAccounts(c, d)'
    <3>1. Kept(c, d, o.new) \subseteq shares[c][d] /\ o.new \cap sent[c][d] = {}
      BY <2>1 DEF AccountInv, PushAccounts
    <3> QED BY <1>2, <2>1, <2>2, <2>3, <2>4, <3>1 DEF PushAccounts
  <2> QED BY <2>1, <2>2, <2>5, MarkAccounts
<1> QED
  BY <1>3, <1>4, <1>5, <1>6, <1>7, <1>8, <1>9, ProjectAccounts
  DEF Push, PushBegin, ReconcileBegin

\* The transport: what was refused was sent nowhere.
LEMMA TransportAccounts ==
    ASSUME RecordsInv, RecordsInv', CapturedInv, AccountInv, ~LateArrival,
           NEW c \in Clones, NEW d \in Destinations, Transport(c, d)
    PROVE  AccountInv'
<1> DEFINE o == op[c][d]
<1>0. TypeOK BY DEF RecordsInv
<1>1. UNCHANGED inFlight BY <1>0, LockedSends DEF Locked
<1>2. CASE SendAccepted(c, d) \/ SendUnanswered(c, d)
  <2>1. /\ Sending(c, d) /\ OpLands(c, d)
        /\ \E phase \in {"accepted", "failed"} : Answered(c, d, phase)
    BY <1>2 DEF SendAccepted, SendUnanswered
  <2>2. /\ op'[c][d].phase \in {"accepted", "failed"}
        /\ \A b \in Clones, e \in Destinations :
                <<b, e>> # <<c, d>> => op'[b][e] = op[b][e]
    BY <2>1, AnsweredLeaves
  <2> QED BY <1>1, <2>1, <2>2, LandingAccounts
<1>3. CASE SendRejected(c, d) \/ SendLost(c, d) \/ SendRefused(c, d)
  <2>1. /\ o.phase = "send" /\ UNCHANGED <<storeVars, tip, sent>>
        /\ \E phase \in {"failed", "refused"} : Answered(c, d, phase)
    BY <1>3 DEF SendRejected, SendLost, SendRefused, Sending, NothingLands
  <2>2. /\ op'[c][d].phase \in {"failed", "refused"} /\ op'[c][d].new = o.new
        /\ \A b \in Clones, e \in Destinations :
                <<b, e>> # <<c, d>> => op'[b][e] = op[b][e]
    BY <2>1, AnsweredLeaves
  <2>3. o.new \cap sent[c][d] = {} BY <2>1 DEF AccountInv, PushAccounts
  <2>4. PushAccounts(c, d)' BY <2>1, <2>2, <2>3 DEF PushAccounts
  <2> QED BY <1>1, <2>1, <2>2, <2>4, StillAccounts
<1> QED BY <1>2, <1>3 DEF Transport

\* Settling: a refusal drops the records of what was not sent before either.
LEMMA SettleAccounts ==
    ASSUME RecordsInv, RecordsInv', CapturedInv, AccountInv,
           NEW c \in Clones, NEW d \in Destinations, Settle(c, d)
    PROVE  AccountInv'
<1> DEFINE o == op[c][d]
<1>0. TypeOK BY DEF RecordsInv
<1>1. CASE SettleAccepted(c, d)
  <2>1. SetOp(c, d, [Idle EXCEPT !.phase = "tombstones"])
    BY <1>1 DEF SettleAccepted
  <2>2. Mark(c, d, o.new, "published") /\ OnlyPub BY <1>1 DEF SettleAccepted
  <2>3. /\ op'[c][d].phase = "tombstones"
        /\ \A b \in Clones, e \in Destinations :
                <<b, e>> # <<c, d>> => op'[b][e] = op[b][e]
    BY <1>0, <2>1, FreshStart
  <2> QED BY <2>2, <2>3, MarkAccounts
<1>2. CASE SettleTombstones(c, d)
  <2>1. /\ EndOp(c, d)
        /\ UNCHANGED <<row, shares, pub, buried, tip, sent, inFlight>>
    BY <1>2 DEF SettleTombstones, historyVars
  <2>2. ASSUME NEW b \in Clones, NEW e \in Destinations, NEW t \in minted
        PROVE  Steady(b, e, t)
    <3>1. t \in Thoughts BY <1>0 DEF TypeOK
    <3>2. tomb'[b][e][t].state # "none" <=> tomb[b][e][t].state # "none"
      <4>1. tomb[c][d] \in [Thoughts -> Tombstone] BY <1>0 DEF TypeOK
      <4>2. [tomb[c][d][t] EXCEPT !.state = "published"].state = "published"
        BY <3>1, <4>1 DEF Tombstone
      <4> QED BY <1>0, <1>2, <3>1, <4>1, <4>2 DEF SettleTombstones, TypeOK
    <3> QED BY <2>1, <3>1, <3>2 DEF Steady, Own, Tombstoned
  <2> QED BY <1>0, <2>1, <2>2, EndFrees, SteadyStep
<1>3. CASE SettleRefused(c, d)
  <2>1. /\ o.phase = "refused" /\ Clear(c, d, o.new) /\ EndOp(c, d)
        /\ UNCHANGED <<row, shares, buried, tomb, tip, sent, inFlight>>
    BY <1>3 DEF SettleRefused, OnlyPub, historyVars
  <2>2. o.new \cap sent[c][d] = {} BY <2>1 DEF AccountInv, PushAccounts
  <2>3. ASSUME NEW t \in Remaining(c, d)
        PROVE  t \in shares'[c][d] /\ pub'[c][d][t] = pub[c][d][t]
    <3>1. t \in sent[c][d] /\ t \in Thoughts /\ t \in shares[c][d]
      BY <1>0 DEF AccountInv, Accounted, Remaining, Kept, TypeOK
    <3>2. t \notin o.new BY <2>2, <3>1
    <3> QED BY <1>0, <2>1, <3>1, <3>2 DEF Clear, TypeOK
  <2>4. \A b \in Clones, e \in Destinations : <<b, e>> # <<c, d>> =>
            pub'[b][e] = pub[b][e]
    BY <1>0, <2>1 DEF Clear, TypeOK
  <2> QED BY <1>0, <2>1, <2>3, <2>4, EndFrees, DropAccounts
<1>4. CASE SettleFailed(c, d)
  <2>1. Mark(c, d, o.new, "unknown") /\ OnlyPub /\ EndOp(c, d)
    BY <1>4 DEF SettleFailed
  <2> QED BY <1>0, <2>1, EndFrees, MarkAccounts
<1> QED BY <1>1, <1>2, <1>3, <1>4 DEF Settle

\* Unsharing, redacting, and the commands that end.
LEMMA LockedAccounts ==
    ASSUME RecordsInv, RecordsInv', CapturedInv, AccountInv, RecaptureHarmless,
           ~LateArrival, NEW c \in Clones, NEW d \in Destinations, Locked(c, d)
    PROVE  AccountInv'
<1>0. TypeOK BY DEF RecordsInv
<1>1. CASE Pull(c, d)
  BY <1>1, ImportAccounts DEF Pull
<1>2. CASE RedactBegin(c, d)
  BY <1>0, <1>2, StepCarries, ImportAccounts DEF RedactBegin
<1>3. ASSUME NEW k, Unshare(c, d, k) PROVE AccountInv'
  <2>1. /\ UNCHANGED <<row, pub, buried, tomb, op, tip, sent, inFlight>>
        /\ op[c][d] = Idle
        /\ shares' = [shares EXCEPT ![c][d] = @ \ MembersOf(c, k)]
        /\ \A t \in MembersOf(c, k) : pub[c][d][t] = "none"
    BY <1>3 DEF Unshare
  <2>2. /\ shares'[c][d] = shares[c][d] \ MembersOf(c, k)
        /\ \A b \in Clones, e \in Destinations : <<b, e>> # <<c, d>> =>
                shares'[b][e] = shares[b][e]
    BY <1>0, <2>1 DEF TypeOK
  <2>3. \A t \in Remaining(c, d) : t \in shares'[c][d]
    BY <2>1, <2>2 DEF AccountInv, Accounted
  <2>4. PushAccounts(c, d)'
    <3>1. op'[c][d].phase = "idle" BY <2>1 DEF Idle
    <3> QED BY <3>1, FreePhase
  <2> QED BY <2>1, <2>2, <2>3, <2>4, DropAccounts
<1>4. ASSUME NEW x \in Thoughts, NEW now \in Clock, RedactTyped(c, d, x, now)
      PROVE  AccountInv'
  <2>1. /\ row' = [row EXCEPT ![c] = RowsWithout(c, {x})]
        /\ shares' = [shares EXCEPT ![c] = SharesWithout(c, {x})]
        /\ pub' = [pub EXCEPT ![c] = PubWithout(c, {x})]
        /\ tomb' = [tomb EXCEPT ![c][d][x] = [state |-> "pending", stamp |-> now]]
        /\ EndOp(c, d) /\ UNCHANGED <<buried, tip, sent, inFlight>>
    BY <1>4 DEF RedactTyped, historyVars
  <2>2. /\ \A b \in Clones, e \in Destinations :
                Tombstoned(b, e) \subseteq Tombstoned(b, e)'
        /\ x \in Tombstoned(c, d)'
    BY <1>0, <2>1 DEF Tombstoned, TypeOK
  <2>3. ASSUME NEW b \in Clones, NEW e \in Destinations, NEW t \in minted
        PROVE  Steady(b, e, t)
    <3>1. t \in Thoughts BY <1>0 DEF TypeOK
    <3>2. SourceOf[x] = "harness" => d = e BY DEF RecaptureHarmless
    <3>3. SourceOf[x] = "harness" => x \in buried'[c] \cup Tombstoned(c, e)'
      BY <2>2, <3>2
    <3> QED BY <1>0, <2>1, <2>2, <3>1, <3>3, TombstoneSteady
  <2> QED BY <1>0, <2>1, <2>3, EndFrees, SteadyStep
<1>5. CASE Decline(c, d) \/ Abort(c, d)
  <2>1. EndOp(c, d) /\ UNCHANGED <<storeVars, tip, sent, inFlight>>
    BY <1>5 DEF Decline, Abort, OnlyOp, historyVars
  <2> QED BY <1>0, <2>1, EndFrees, StillAccounts
<1> QED
  BY <1>1, <1>2, <1>3, <1>4, <1>5, PushAccountsNext, TransportAccounts, SettleAccounts
  DEF Locked

\* Under the premises, no step loses track of what the clone published.
LEMMA AccountNext ==
    ASSUME RecaptureHarmless, ~LateArrival, RecordsInv, RecordsInv', CapturedInv,
           AccountInv, [Next]_vars
    PROVE  AccountInv'
<1>1. CASE UNCHANGED vars
  BY <1>1 DEF vars, AccountInv, NothingLandsLate, Accounted, PushAccounts, Remaining,
     Kept, Own, Tombstoned, Held, NodeIds, TombIds
<1>2. ASSUME NEW d \in Destinations, NEW m \in inFlight[d] PROVE FALSE
  BY <1>2 DEF AccountInv, NothingLandsLate
<1> QED BY <1>1, <1>2, CommandAccounts, LockedAccounts DEF Next

\* The invariant holds throughout.
LEMMA AccountsHold == RecaptureHarmless /\ ~LateArrival /\ Spec => []AccountInv
<1> DEFINE Premises == RecaptureHarmless /\ ~LateArrival
           Inv == Premises /\ AccountInv
<1>1. Premises /\ Init => Inv
  BY DEF Init, AccountInv, NothingLandsLate, Accounted, PushAccounts, Remaining, Kept, Idle
<1>2. Inv /\ RecordsInv /\ RecordsInv' /\ CapturedInv /\ [Next]_vars => Inv'
  <2> SUFFICES ASSUME Premises, AccountInv, RecordsInv, RecordsInv', CapturedInv,
                      [Next]_vars
               PROVE  Premises' /\ AccountInv'
    OBVIOUS
  <2>1. Premises' BY DEF RecaptureHarmless
  <2> QED BY <2>1, AccountNext
<1>3. Inv => AccountInv OBVIOUS
<1> QED BY <1>1, <1>2, <1>3, RecordsHold, CapturedFirst, PTL DEF Spec

\* What the destination serves of c's own pushes is what c has to account for.
LEMMA OwnServedRemains ==
    ASSUME DeletedStaysDeleted, NEW c \in Clones, NEW d \in Destinations
    PROVE  OwnServed(c, d) \subseteq Remaining(c, d)
BY DEF OwnServed, Remaining, Kept, Own, Rows, DeletedStaysDeleted

\* A clone never forgets that a thought of its own may be at the destination.
THEOREM ServedHolds == RecaptureHarmless /\ ~LateArrival /\ Spec => []ServedIsRecorded
<1>1. AccountInv /\ DeletedStaysDeleted => ServedIsRecorded
  BY OwnServedRemains DEF AccountInv, Accounted, ServedIsRecorded
<1> QED BY <1>1, AccountsHold, DeletionHolds, PTL

\* A thought the user took back is not at the destination.
THEOREM UnsharedHolds == RecaptureHarmless /\ ~LateArrival /\ Spec => []UnsharedIsAbsent
<1>1. AccountInv /\ DeletedStaysDeleted => UnsharedIsAbsent
  BY OwnServedRemains DEF AccountInv, Accounted, UnsharedIsAbsent
<1> QED BY <1>1, AccountsHold, DeletionHolds, PTL

\* An unshare is refused while the destination serves a thought of the
\* conversation that this clone published to it.
THEOREM UnshareRefused == RecaptureHarmless /\ ~LateArrival /\ Spec => UnshareRefusesPublished
<1>1. ServedIsRecorded =>
        \A c \in Clones, d \in Destinations : \A k \in KnownConversations(c) :
            Unshare(c, d, k) => MembersOf(c, k) \cap OwnServed(c, d) = {}
  BY DEF ServedIsRecorded, Unshare
<1> QED BY <1>1, ServedHolds, PTL DEF UnshareRefusesPublished

=============================================================================
