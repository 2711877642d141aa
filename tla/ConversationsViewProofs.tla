---------------------- MODULE ConversationsViewProofs ----------------------
(***************************************************************************)
(* What is proved of ConversationsView, for any remotes, conversations and *)
(* consents and without the bounds.                                        *)
(***************************************************************************)
EXTENDS ConversationsView, TLAPS

Kinds == {"share", "unshare", "publish", "authorize"}
Times == SUBSET (0 .. FirstTime + edits)

\* What the arguments below need to know of the variables' types.
Typed ==
    /\ url \in [Remotes -> Destinations \cup {None}]
    /\ shown \in [Remotes -> [dest : Destinations \cup {None},
                              consent : Consent \cup {"unreadable"}]]
    /\ remote \in Remotes \cup {None}
    /\ consent \in [Destinations -> Consent]
    /\ edits \in Nat
    /\ thoughts \in [Conversations -> Times]
    /\ shared \in [Destinations -> Times]
    /\ held \in [Destinations -> Times]
    /\ lock \in [Destinations -> {"free", "view", "others"}]
    /\ mode \in [at : Bars \cup {"list", "help", "details"},
                 about : Conversations \cup {None}, enter : BOOLEAN]
    /\ flow \in [kind : Kinds \cup {"none"}, id : Conversations \cup {None},
                 all : BOOLEAN, dest : Destinations \cup {None}, ids : Times]

\* A bar of a conversation, and a flow that runs, know what they are about.
About(kind, c) == kind \in {"share", "unshare"} => c \in Conversations
Subjects ==
    /\ About(mode.at, mode.about)
    /\ About(flow.kind, flow.id)
    /\ stage \notin {"screen", "reload", "ended"} => flow.kind \in Kinds

\* Between the look and the phrase.
Resolved ==
    stage \in {"conversation", "settings", "lock", "ask", "answer"} =>
        flow.dest \in Destinations /\ flow.dest = Destination
LookedAt ==
    stage \in {"lock", "ask", "answer"} =>
        \/ Run({"unshare"}) \/ interim
        \/ consent[flow.dest] = shown[remote].consent
UnshareLocked ==
    stage \in {"ask", "answer"} /\ Run({"unshare"}) => lock[flow.dest] = "view"

ViewIInv == Typed /\ Subjects /\ Resolved /\ LookedAt /\ UnshareLocked /\ UnshareCanHappen
-----------------------------------------------------------------------------
LEMMA InitViewIInv == Init => ViewIInv
<1> SUFFICES ASSUME Init PROVE ViewIInv OBVIOUS
<1> USE ConstantsOK DEF Init
<1>1. Typed
  BY DEF Typed, Times, Overview, Consent, List, NoFlow, Bars, Kinds
<1>2. Subjects /\ Resolved /\ LookedAt /\ UnshareLocked /\ UnshareCanHappen
  BY DEF Subjects, About, List, NoFlow, Resolved, LookedAt, UnshareLocked, UnshareCanHappen
<1> QED BY <1>1, <1>2 DEF ViewIInv

\* What was loaded, and the overview to load, are typed.
LEMMA OverviewTyped ==
    ASSUME Typed
    PROVE  Overview \in [Remotes -> [dest : Destinations \cup {None},
                                     consent : Consent \cup {"unreadable"}]]
BY DEF Typed, Overview, Consent

LEMMA SwitchTyped ==
    ASSUME Typed, NEW r \in Remotes \cup {None}, Switch(r) \/ Switch(remote)
    PROVE  /\ shown' \in [Remotes -> [dest : Destinations \cup {None},
                                      consent : Consent \cup {"unreadable"}]]
           /\ remote' \in Remotes \cup {None}
<1> HIDE DEF Overview
<1> QED BY OverviewTyped DEF Typed, Switch, Apply, loaded

LEMMA BarsTyped ==
    ASSUME Typed, mode' \in {ShareBar, UnshareBar, PublishBar}
    PROVE  /\ mode' \in [at : Bars, about : Conversations \cup {None}, enter : BOOLEAN]
           /\ About(mode'.at, mode'.about)
<1>1. CASE mode' = ShareBar
  BY <1>1 DEF ShareBar, Blocked, Bar, Bars, About, Details, IsListed
<1>2. CASE mode' = UnshareBar
  BY <1>2 DEF UnshareBar, Blocked, Bar, Bars, About, Details, IsListed
<1>3. CASE mode' = PublishBar
  BY <1>3 DEF PublishBar, Blocked, Bar, Bars, About
<1> QED BY <1>1, <1>2, <1>3
-----------------------------------------------------------------------------
(* Keys: no flow runs *)

LEMMA KeysViewIInv == ASSUME ViewIInv, Keys PROVE ViewIInv'
<1> USE DEF ViewIInv
<1>1. stage = "screen"
  BY DEF Keys, MoveTo, Fold, OpenMode, Close, Resize, Quit, Choose, Start, Key
<1>2. UNCHANGED <<url, consent, edits, thoughts, shared, held, lock, interim>>
  BY DEF Keys, MoveTo, Fold, OpenMode, Close, Resize, Quit, Choose, Start,
         WorldUnchanged, settings, store
<1>3. /\ shown' \in [Remotes -> [dest : Destinations \cup {None},
                                 consent : Consent \cup {"unreadable"}]]
      /\ remote' \in Remotes \cup {None}
  <2>1. ASSUME NEW r \in Remotes, Choose(r) PROVE Switch(r) BY <2>1 DEF Choose
  <2>2. CASE UNCHANGED loaded BY <2>2 DEF loaded, Typed
  <2>3. CASE \E r \in Remotes : Switch(r) BY <2>3, SwitchTyped
  <2> QED BY <2>1, <2>2, <2>3 DEF Keys, MoveTo, Fold, OpenMode, Close, Resize, Quit, Start
<1>4. /\ mode' \in [at : Bars \cup {"list", "help", "details"},
                    about : Conversations \cup {None}, enter : BOOLEAN]
      /\ About(mode'.at, mode'.about)
  <2>1. CASE UNCHANGED mode BY <2>1 DEF Typed, Subjects
  <2>2. CASE mode' = List BY <2>2 DEF List, About
  <2>3. CASE OpenMode
    <3>1. CASE mode' \in {ShareBar, UnshareBar, PublishBar}
      BY <3>1, BarsTyped DEF Typed
    <3>2. CASE mode' = Bar("help", None, FALSE)
      BY <3>2 DEF Bar, About, Bars
    <3>3. CASE mode' = Bar("details", None, FALSE)
      BY <3>3 DEF Bar, About, Bars
    <3> QED BY <2>3, <3>1, <3>2, <3>3 DEF OpenMode
  <2>4. CASE Close BY <2>2, <2>4 DEF Close
  <2>5. CASE Resize BY <2>1, <2>2, <2>5, Zenon DEF Resize
  <2>6. ASSUME NEW all, Start(all) PROVE mode' = List BY <2>6 DEF Start
  <2>7. CASE UNCHANGED mode \/ mode' = List BY <2>1, <2>2, <2>7
  <2> QED
    BY <2>3, <2>4, <2>5, <2>6, <2>7 DEF Keys, MoveTo, Fold, Quit, Choose, screen
<1>5. \/ stage' \in {"screen", "ended"} /\ UNCHANGED flow
      \/ /\ stage' = "resolve" /\ mode.at \in Kinds
         /\ \E all \in BOOLEAN :
               flow' = [NoFlow EXCEPT !.kind = mode.at, !.id = mode.about, !.all = all]
  BY <1>1 DEF Keys, MoveTo, Fold, OpenMode, Close, Resize, Quit, Choose, Start,
         FlowUnchanged, Bars, Kinds
<1>6. /\ flow' \in [kind : Kinds \cup {"none"}, id : Conversations \cup {None},
                    all : BOOLEAN, dest : Destinations \cup {None}, ids : Times]
      /\ About(flow'.kind, flow'.id)
      /\ stage' = "resolve" => flow'.kind \in Kinds
  BY <1>5 DEF Typed, Subjects, NoFlow, Times, About
<1>7. Typed' BY <1>2, <1>3, <1>4, <1>6 DEF Typed, Times
<1>8. stage' \in {"screen", "ended", "resolve"} BY <1>5
<1>9. Subjects' BY <1>4, <1>6, <1>8 DEF Subjects
<1>10. Resolved' /\ LookedAt' /\ UnshareLocked' /\ UnshareCanHappen'
  BY <1>8 DEF Resolved, LookedAt, UnshareLocked, UnshareCanHappen
<1> QED BY <1>7, <1>9, <1>10
-----------------------------------------------------------------------------
(* Other terminals: the view stays as it is                                *)

\* Times only grow.
LEMMA TimesGrow ==
    ASSUME Typed, edits' = edits + 1 \/ edits' = edits
    PROVE  Times \subseteq Times' /\ edits' \in Nat
BY ConstantsOK DEF Typed, Times

\* What another terminal does to the lock, the consents and the publications of
\* a destination the view has locked.
OthersRespect ==
    /\ ViewUnchanged
    /\ \A d \in Destinations :
         /\ lock[d] = "view" => lock'[d] = "view"
         /\ consent'[d] = consent[d] \/ (flow.dest = d => interim')
         /\ lock[d] = "view" => \A c \in Conversations :
               CanUnshare(c, d) => (thoughts'[c] \cap held'[d] = {})
    /\ interim => interim'

LEMMA OthersAreTyped == ASSUME Typed, Others PROVE Typed'
<1> USE ConstantsOK
<1>1. ASSUME NEW c \in Conversations, Capture(c) PROVE Typed'
  <2>1. edits' = edits + 1 /\ edits' \in Nat /\ Times \subseteq Times'
    BY <1>1, TimesGrow DEF Capture, Edit
  <2>2. {FirstTime + edits + 1} \in Times'
    BY <2>1 DEF Times, Typed
  <2>3. thoughts' \in [Conversations -> Times'] /\ shared' \in [Destinations -> Times']
    BY <1>1, <2>1, <2>2 DEF Capture, Typed, Times
  <2> QED
    BY <1>1, <2>1, <2>3 DEF Capture, Typed, settings, loaded, screen, ViewUnchanged
<1>2. ASSUME NEW c \in Conversations, NEW t, Delete(c, t) PROVE Typed'
  <2>1. edits' \in Nat /\ Times \subseteq Times'
    BY <1>2, TimesGrow DEF Delete, Edit
  <2>2. /\ thoughts' \in [Conversations -> Times']
        /\ shared' \in [Destinations -> Times'] /\ held' \in [Destinations -> Times']
    BY <1>2, <2>1 DEF Delete, Typed, Times
  <2> QED
    BY <1>2, <2>1, <2>2 DEF Delete, Typed, settings, loaded, screen, ViewUnchanged
<1>3. ASSUME NEW c \in Conversations, NEW d \in Destinations, NEW all,
             ShareElsewhere(c, d, all)
      PROVE  Typed'
  <2>1. edits' \in Nat /\ Times \subseteq Times'
    BY <1>3, TimesGrow DEF ShareElsewhere, Edit
  <2>2. shared' \in [Destinations -> Times']
    BY <1>3, <2>1 DEF ShareElsewhere, Typed, Times
  <2> QED
    BY <1>3, <2>1, <2>2 DEF ShareElsewhere, Typed, settings, loaded, screen, ViewUnchanged
<1>4. ASSUME NEW r \in Remotes, NEW d \in Destinations \cup {None}, EditUrl(r, d)
      PROVE  Typed'
  <2>1. edits' \in Nat /\ Times \subseteq Times'
    BY <1>4, TimesGrow DEF EditUrl, Edit
  <2> QED
    BY <1>4, <2>1 DEF EditUrl, Typed, store, loaded, screen, ViewUnchanged
<1>5. ASSUME NEW d \in Destinations, NEW kind \in {"manual", "auto"}, SetConsent(d, kind)
      PROVE  Typed'
  <2>1. edits' \in Nat /\ Times \subseteq Times'
    BY <1>5, TimesGrow DEF SetConsent, Edit
  <2>2. consent' \in [Destinations -> Consent]
    BY <1>5 DEF SetConsent, Typed, Consent
  <2> QED
    BY <1>5, <2>1, <2>2 DEF SetConsent, Typed, store, loaded, screen, ViewUnchanged
<1>6. CASE Damage
  <2>1. edits' \in Nat /\ Times \subseteq Times'
    BY <1>6, TimesGrow DEF Damage, Edit
  <2> QED
    BY <1>6, <2>1 DEF Damage, Typed, store, loaded, screen, ViewUnchanged
<1>7. ASSUME NEW d \in Destinations, OthersLock(d) PROVE Typed'
  <2>1. edits' \in Nat /\ Times \subseteq Times'
    BY <1>7, TimesGrow DEF OthersLock, Edit
  <2>2. lock' \in [Destinations -> {"free", "view", "others"}]
    BY <1>7 DEF OthersLock, Typed
  <2> QED
    BY <1>7, <2>1, <2>2 DEF OthersLock, Typed, settings, store, loaded, screen, ViewUnchanged
<1>8. ASSUME NEW d \in Destinations, OthersDone(d) PROVE Typed'
  <2>1. Times' = Times BY <1>8 DEF OthersDone, Times
  <2>2. lock' \in [Destinations -> {"free", "view", "others"}]
    BY <1>8 DEF OthersDone, Typed
  <2>3. shared' \in [Destinations -> Times'] /\ held' \in [Destinations -> Times']
    <3>1. shared \in [Destinations -> Times] /\ held \in [Destinations -> Times]
      BY DEF Typed
    <3>2. CASE held' = [held EXCEPT ![d] = @ \cup shared[d]] /\ UNCHANGED shared
      BY <2>1, <3>1, <3>2 DEF Times
    <3>3. ASSUME NEW c \in Conversations, UNCHANGED held,
                 shared' = [shared EXCEPT ![d] = @ \ thoughts[c]]
          PROVE  shared' \in [Destinations -> Times'] /\ held' \in [Destinations -> Times']
      BY <2>1, <3>1, <3>3 DEF Times
    <3>4. CASE UNCHANGED <<shared, held>> BY <2>1, <3>1, <3>4
    <3> QED BY <1>8, <3>2, <3>3, <3>4 DEF OthersDone
  <2> QED
    BY <1>8, <2>1, <2>2, <2>3 DEF OthersDone, Typed, settings, loaded, screen, ViewUnchanged
<1> QED BY <1>1, <1>2, <1>3, <1>4, <1>5, <1>6, <1>7, <1>8 DEF Others

LEMMA OthersAreRespectful == ASSUME Typed, Others PROVE OthersRespect
<1> USE DEF OthersRespect, CanUnshare
<1>1. ASSUME NEW c \in Conversations, Capture(c) PROVE OthersRespect
  <2> DEFINE t == FirstTime + edits + 1
  <2>1. /\ thoughts' = [thoughts EXCEPT ![c] = @ \cup {t}]
        /\ UNCHANGED <<consent, held, lock, interim>> /\ ViewUnchanged
    BY <1>1 DEF Capture, settings
  <2>2. \A d \in Destinations : t \notin held[d]
    BY ConstantsOK DEF Typed, Times
  <2> HIDE DEF t
  <2>3. \A x \in Conversations : thoughts'[x] \subseteq thoughts[x] \cup {t}
    BY <2>1 DEF Typed
  <2> QED BY <2>1, <2>2, <2>3
<1>2. ASSUME NEW c \in Conversations, NEW t, Delete(c, t) PROVE OthersRespect
  <2>1. UNCHANGED <<consent, lock, interim>> /\ ViewUnchanged
    BY <1>2 DEF Delete, settings
  <2>2. \A x \in Conversations : thoughts'[x] \subseteq thoughts[x]
    BY <1>2 DEF Delete, Typed
  <2>3. \A d \in Destinations : held'[d] \subseteq held[d]
    BY <1>2 DEF Delete
  <2> QED BY <2>1, <2>2, <2>3
<1>3. ASSUME NEW c \in Conversations, NEW d \in Destinations, NEW all,
             ShareElsewhere(c, d, all)
      PROVE  OthersRespect
  BY <1>3 DEF ShareElsewhere, settings
<1>4. ASSUME NEW r \in Remotes, NEW d \in Destinations \cup {None}, EditUrl(r, d)
      PROVE  OthersRespect
  BY <1>4 DEF EditUrl, store
<1>5. ASSUME NEW d \in Destinations, NEW kind \in {"manual", "auto"}, SetConsent(d, kind)
      PROVE  OthersRespect
  <2>1. UNCHANGED <<thoughts, held, lock>> /\ ViewUnchanged
    BY <1>5 DEF SetConsent, store
  <2>2. /\ interim' = (interim \/ flow.dest = d)
        /\ \A x \in Destinations \ {d} : consent'[x] = consent[x]
    BY <1>5 DEF SetConsent, Typed
  <2> QED BY <2>1, <2>2
<1>6. CASE Damage BY <1>6 DEF Damage, store
<1>7. ASSUME NEW d \in Destinations, OthersLock(d) PROVE OthersRespect
  <2>1. UNCHANGED <<thoughts, held, consent, interim>> /\ ViewUnchanged
    BY <1>7 DEF OthersLock, store, settings
  <2>2. \A x \in Destinations : lock[x] = "view" => lock'[x] = "view"
    BY <1>7 DEF OthersLock, Typed
  <2> QED BY <2>1, <2>2
<1>8. ASSUME NEW d \in Destinations, OthersDone(d) PROVE OthersRespect
  <2>1. UNCHANGED <<thoughts, consent, interim>> /\ ViewUnchanged
    BY <1>8 DEF OthersDone, settings
  <2>2. \A x \in Destinations : lock[x] = "view" => x # d /\ lock'[x] = "view"
    BY <1>8 DEF OthersDone, Typed
  <2>3. \A x \in Destinations \ {d} : held'[x] = held[x]
    BY <1>8 DEF OthersDone, Typed
  <2> QED BY <2>1, <2>2, <2>3
<1> QED BY <1>1, <1>2, <1>3, <1>4, <1>5, <1>6, <1>7, <1>8 DEF Others

LEMMA OthersViewIInv == ASSUME ViewIInv, Others PROVE ViewIInv'
<1>1. Typed' /\ OthersRespect
  BY OthersAreTyped, OthersAreRespectful DEF ViewIInv
<1>2. UNCHANGED <<shown, remote, mode, stage, flow>>
  BY <1>1 DEF OthersRespect, ViewUnchanged, loaded, screen
<1>3. Subjects' BY <1>2 DEF ViewIInv, Subjects, About
<1>4. Resolved' BY <1>2 DEF ViewIInv, Resolved, Destination, DestOf
<1>5. LookedAt'
  <2> SUFFICES ASSUME stage \in {"lock", "ask", "answer"}, ~Run({"unshare"}), ~interim'
               PROVE  consent'[flow.dest] = shown[remote].consent
    BY <1>2 DEF LookedAt, Run
  <2>1. flow.dest \in Destinations BY DEF ViewIInv, Resolved
  <2>2. consent'[flow.dest] = consent[flow.dest] /\ ~interim
    BY <1>1, <2>1 DEF OthersRespect
  <2> QED BY <2>2 DEF ViewIInv, LookedAt
<1>6. ASSUME stage \in {"ask", "answer"}, Run({"unshare"})
      PROVE  /\ flow.dest \in Destinations /\ flow.id \in Conversations
             /\ lock[flow.dest] = "view" /\ lock'[flow.dest] = "view"
  BY <1>1, <1>6 DEF OthersRespect, ViewIInv, Resolved, Subjects, About, UnshareLocked, Run
<1>7. UnshareLocked' BY <1>2, <1>6 DEF UnshareLocked, Run
<1>8. UnshareCanHappen'
  <2> SUFFICES ASSUME stage = "answer", Run({"unshare"})
               PROVE  thoughts'[flow.id] \cap held'[flow.dest] = {}
    BY <1>2 DEF UnshareCanHappen, CanUnshare, Run
  <2> QED BY <1>1, <1>6 DEF OthersRespect, ViewIInv, UnshareCanHappen
<1> QED BY <1>1, <1>3, <1>4, <1>5, <1>7, <1>8 DEF ViewIInv
-----------------------------------------------------------------------------
(* The steps of a flow *)

LEMMA NoFlowTyped ==
    ASSUME edits \in Nat
    PROVE  /\ NoFlow \in [kind : Kinds \cup {"none"}, id : Conversations \cup {None},
                          all : BOOLEAN, dest : Destinations \cup {None}, ids : Times]
           /\ About(NoFlow.kind, NoFlow.id)
BY DEF NoFlow, Times, About

LEMMA FlowStepsViewIInv == ASSUME ViewIInv, FlowSteps PROVE ViewIInv'
<1> USE DEF ViewIInv
<1>1. CASE Resolve
  <2>1. UNCHANGED <<settings, store, loaded, screen, lock, edits, interim>>
    BY <1>1 DEF Resolve, WorldUnchanged
  <2>2. \/ /\ stage' = "conversation"
           /\ flow' = [flow EXCEPT !.dest = Destination]
           /\ Destination \in Destinations
        \/ stage' = "reload" /\ flow' = flow
    <3>1. Destination \in Destinations \cup {None}
      BY DEF Destination, DestOf, Typed
    <3> QED BY <1>1, <3>1 DEF Resolve, SameDestination, Goes
  <2>3. Typed' BY <2>1, <2>2 DEF Typed, Times, settings, store, loaded, screen
  <2>4. flow'.kind = flow.kind /\ flow'.id = flow.id BY <2>2 DEF Typed
  <2>5. Subjects' BY <1>1, <2>1, <2>2, <2>4 DEF Resolve, Subjects, About, screen
  <2>6. Resolved' BY <2>1, <2>2 DEF Resolved, Destination, DestOf, loaded, Typed
  <2>7. LookedAt' /\ UnshareLocked' /\ UnshareCanHappen'
    BY <2>2 DEF LookedAt, UnshareLocked, UnshareCanHappen
  <2> QED BY <2>3, <2>5, <2>6, <2>7
<1>2. CASE CheckConversation
  <2>1. UNCHANGED <<settings, store, loaded, lock, edits, interim>>
    BY <1>2 DEF CheckConversation, WorldUnchanged
  <2>2. \/ stage' = "screen" /\ mode' = Blocked /\ flow' = NoFlow
        \/ stage' \in {"reload", "settings"} /\ UNCHANGED <<mode, flow>>
    BY <1>2 DEF CheckConversation, Goes
  <2>3. /\ mode' \in [at : Bars \cup {"list", "help", "details"},
                      about : Conversations \cup {None}, enter : BOOLEAN]
        /\ About(mode'.at, mode'.about)
    <3>1. CASE UNCHANGED mode BY <3>1 DEF Typed, Subjects
    <3>2. CASE mode' = Blocked BY <3>2 DEF About, Blocked, Bar, Bars
    <3> QED BY <2>2, <3>1, <3>2
  <2>4. /\ flow' \in [kind : Kinds \cup {"none"}, id : Conversations \cup {None},
                      all : BOOLEAN, dest : Destinations \cup {None}, ids : Times]
        /\ About(flow'.kind, flow'.id)
    <3>1. CASE UNCHANGED flow BY <3>1 DEF Typed, Subjects
    <3>2. CASE flow' = NoFlow BY <3>2, NoFlowTyped DEF Typed
    <3> QED BY <2>2, <3>1, <3>2
  <2>5. Typed' BY <2>1, <2>3, <2>4 DEF Typed, Times, settings, store, loaded
  <2>6. Subjects' BY <1>2, <2>2, <2>3, <2>4 DEF CheckConversation, Subjects
  <2>7. Resolved' BY <1>2, <2>1, <2>2 DEF CheckConversation, Resolved, Destination, DestOf, loaded
  <2>8. LookedAt' /\ UnshareLocked' /\ UnshareCanHappen'
    BY <2>2 DEF LookedAt, UnshareLocked, UnshareCanHappen
  <2> QED BY <2>5, <2>6, <2>7, <2>8
<1>3. CASE CheckSettings
  <2>1. UNCHANGED <<settings, store, loaded, screen, lock, edits>>
    BY <1>3 DEF CheckSettings
  <2>2. \/ /\ stage' \in {"lock", "ask"} /\ UNCHANGED flow
           /\ Run({"unshare"}) => stage' = "lock"
           /\ Run({"unshare"}) \/ AsShown
        \/ stage' = "reload" /\ UNCHANGED flow
        \/ stage' = "screen" /\ flow' = NoFlow
    BY <1>3 DEF CheckSettings, Goes, Run
  <2>3. /\ flow' \in [kind : Kinds \cup {"none"}, id : Conversations \cup {None},
                      all : BOOLEAN, dest : Destinations \cup {None}, ids : Times]
        /\ About(flow'.kind, flow'.id)
    <3>1. CASE UNCHANGED flow BY <3>1 DEF Typed, Subjects
    <3>2. CASE flow' = NoFlow BY <3>2, NoFlowTyped DEF Typed
    <3> QED BY <2>2, <3>1, <3>2
  <2>4. Typed' BY <1>3, <2>1, <2>3 DEF Typed, Times, settings, store, loaded, screen
  <2>5. Subjects' BY <1>3, <2>1, <2>2, <2>3 DEF CheckSettings, Subjects, screen
  <2>6. Resolved' BY <1>3, <2>1, <2>2 DEF CheckSettings, Resolved, Destination, DestOf, loaded
  <2>7. LookedAt' BY <2>1, <2>2 DEF LookedAt, AsShown, Run, settings, loaded
  <2>8. UnshareLocked' /\ UnshareCanHappen'
    BY <2>2 DEF UnshareLocked, UnshareCanHappen, Run
  <2> QED BY <2>4, <2>5, <2>6, <2>7, <2>8
<1>4. CASE TakeLock
  <2>1. UNCHANGED <<settings, store, loaded, screen, flow, edits, interim>>
    BY <1>4 DEF TakeLock
  <2>2. /\ stage = "lock" /\ stage' = "ask"
        /\ lock' = [lock EXCEPT ![flow.dest] = "view"]
    BY <1>4 DEF TakeLock, OperationLock, Goes
  <2>3. flow.dest \in Destinations BY <2>2 DEF Resolved
  <2>4. Typed' BY <2>1, <2>2 DEF Typed, Times, settings, store, loaded, screen
  <2>5. lock'[flow.dest] = "view" BY <2>2, <2>3 DEF Typed
  <2>6. Subjects' /\ Resolved' /\ LookedAt' /\ UnshareLocked' /\ UnshareCanHappen'
    BY <2>1, <2>2, <2>5 DEF Subjects, About, Resolved, Destination, DestOf, LookedAt,
       UnshareLocked, UnshareCanHappen, Run, settings, loaded, screen
  <2> QED BY <2>4, <2>6
<1>5. Released \in [Destinations -> {"free", "view", "others"}]
  BY DEF Typed, Released
<1>6. CASE Ask
  <2>1. UNCHANGED <<settings, store, loaded, screen, edits, interim>> /\ stage = "ask"
    BY <1>6 DEF Ask
  <2>2. flow.dest \in Destinations /\ flow.kind \in Kinds
    BY <2>1 DEF Resolved, Subjects
  <2>3. Covered \in Times
    BY <2>2 DEF Covered, Typed, Times, Subjects, About, Run
  <2>4. \/ /\ stage' = "answer" /\ Asks /\ UNCHANGED lock
           /\ flow' = [flow EXCEPT !.ids = Covered]
        \/ stage' = "reload" /\ lock' = Released /\ UNCHANGED flow
    BY <1>6 DEF Ask, Goes
  <2>5. Typed'
    BY <1>5, <2>1, <2>3, <2>4 DEF Typed, Times, settings, store, loaded, screen
  <2>6. flow'.kind = flow.kind /\ flow'.id = flow.id /\ flow'.dest = flow.dest
    BY <2>4 DEF Typed
  <2>7. Subjects' /\ Resolved' /\ LookedAt'
    BY <2>1, <2>2, <2>4, <2>6 DEF Subjects, About, Resolved, Destination, DestOf, LookedAt,
       Run, settings, loaded, screen
  <2>8. UnshareLocked' /\ UnshareCanHappen'
    BY <2>1, <2>4, <2>6 DEF UnshareLocked, UnshareCanHappen, CanUnshare, Asks, Run, store
  <2> QED BY <2>5, <2>7, <2>8
<1>7. CASE Answer
  <2>1. UNCHANGED <<url, thoughts, loaded, screen, flow, edits, interim>>
        /\ stage = "answer" /\ stage' = "reload" /\ lock' = Released
    BY <1>7 DEF Answer, Goes
  <2>2. flow.dest \in Destinations /\ flow.ids \in Times
    BY <2>1 DEF Resolved, Typed
  <2>3. /\ consent' \in [Destinations -> Consent]
        /\ shared' \in [Destinations -> Times] /\ held' \in [Destinations -> Times]
    <3>1. CASE Run({"share"}) /\ ShareExact BY <2>2, <3>1 DEF ShareExact, Typed, Times
    <3>2. CASE Run({"unshare"}) /\ Unshare BY <2>2, <3>2 DEF Unshare, Typed, Times
    <3>3. CASE Run({"publish"}) /\ Publish BY <2>2, <3>3 DEF Publish, Typed, Times
    <3>4. CASE Run({"authorize"}) /\ Authorize
      BY <2>2, <3>4 DEF Authorize, Typed, Consent
    <3>5. CASE UNCHANGED <<consent, shared, held>> BY <3>5 DEF Typed
    <3> QED BY <1>7, <3>1, <3>2, <3>3, <3>4, <3>5 DEF Answer
  <2>4. Typed' BY <1>5, <2>1, <2>3 DEF Typed, Times, loaded, screen
  <2>5. Subjects' /\ Resolved' /\ LookedAt' /\ UnshareLocked' /\ UnshareCanHappen'
    BY <2>1 DEF Subjects, About, Resolved, LookedAt, UnshareLocked, UnshareCanHappen, screen
  <2> QED BY <2>4, <2>5
<1>8. CASE Reload
  <2>1. UNCHANGED <<settings, store, lock, mode, edits, interim>> /\ flow' = NoFlow
        /\ stage' \in {"screen", "ended"} /\ Switch(remote)
    BY <1>8 DEF Reload, WorldUnchanged
  <2>2. /\ shown' \in [Remotes -> [dest : Destinations \cup {None},
                                   consent : Consent \cup {"unreadable"}]]
        /\ remote' \in Remotes \cup {None}
    BY <2>1, SwitchTyped DEF Typed
  <2>3. Typed' BY <2>1, <2>2 DEF Typed, Times, NoFlow, settings, store
  <2>4. Subjects' /\ Resolved' /\ LookedAt' /\ UnshareLocked' /\ UnshareCanHappen'
    BY <2>1 DEF Subjects, About, NoFlow, Resolved, LookedAt, UnshareLocked, UnshareCanHappen
  <2> QED BY <2>3, <2>4
<1> QED BY <1>1, <1>2, <1>3, <1>4, <1>6, <1>7, <1>8 DEF FlowSteps

LEMMA NextViewIInv == ASSUME ViewIInv, [Next]_vars PROVE ViewIInv'
<1>1. CASE UNCHANGED vars
  BY <1>1 DEF vars, settings, store, loaded, screen, ViewIInv, Typed, Times, Subjects, About,
     Resolved, Destination, DestOf, LookedAt, UnshareLocked, UnshareCanHappen, CanUnshare, Run
<1> QED BY <1>1, FlowStepsViewIInv, KeysViewIInv, OthersViewIInv DEF Next

LEMMA ViewInvariant == Spec => []ViewIInv
BY InitViewIInv, NextViewIInv, PTL DEF Spec
-----------------------------------------------------------------------------
\* A phrase is asked for the destination and the settings the screen showed:
\* the look again of run_flow, for any edits of the remotes and the consents.
THEOREM PhraseOnShown == Spec => []AskedOnShown
<1>1. ViewIInv => AskedOnShown
  BY DEF ViewIInv, Resolved, LookedAt, AskedOnShown
<1> QED BY <1>1, ViewInvariant, PTL

\* No phrase is asked for an unshare that cannot happen: the operation lock,
\* taken before the check, keeps every publication out until the answer.
THEOREM UnshareNotInVain == Spec => []UnshareCanHappen
<1>1. ViewIInv => UnshareCanHappen BY DEF ViewIInv
<1> QED BY <1>1, ViewInvariant, PTL

\* A share covers the thoughts its phrase was asked for, all or none: the exact
\* snapshot of share_exact_snapshot.
THEOREM ShareCoversAsked == Spec => SharedAsAsked
<1>1. ASSUME ViewIInv, [Next]_vars, stage = "answer", stage' = "reload", Run({"share"}),
             shared' # shared
      PROVE  /\ \A d \in Destinations : shared'[d] \ shared[d] \subseteq flow.ids
             /\ flow.ids \subseteq shared'[flow.dest]
  <2>1. Answer
    BY <1>1 DEF Next, FlowSteps, Resolve, CheckConversation, CheckSettings, TakeLock, Ask,
       Reload, Keys, MoveTo, Fold, OpenMode, Close, Resize, Quit, Choose, Start, Key, Others,
       Capture, Delete, ShareElsewhere, EditUrl, SetConsent, Damage, OthersLock, OthersDone,
       ViewUnchanged, vars
  <2>2. shared' = [shared EXCEPT ![flow.dest] = @ \cup flow.ids]
    BY <1>1, <2>1 DEF Answer, ShareExact, Run
  <2>3. flow.dest \in Destinations BY <1>1 DEF ViewIInv, Resolved
  <2> QED BY <1>1, <2>2, <2>3 DEF ViewIInv, Typed
<1>2. ASSUME ViewIInv, [Next]_vars
      PROVE  [stage = "answer" /\ stage' = "reload" /\ Run({"share"}) /\ shared' # shared =>
                /\ \A d \in Destinations : shared'[d] \ shared[d] \subseteq flow.ids
                /\ flow.ids \subseteq shared'[flow.dest]]_vars
  BY <1>1, <1>2
<1> QED BY <1>2, ViewInvariant, PTL DEF Spec, SharedAsAsked
-----------------------------------------------------------------------------
(* What is on the screen is of one destination *)

ShownIInv ==
    listedFor = Destination /\ readFor \in [Conversations -> {Unread, Destination}]

LEMMA DrawnOf ==
    ASSUME NEW D, NEW read \in [Conversations -> {Unread, D}], NEW c
    PROVE  Drawn(read, c, D) \in [Conversations -> {Unread, D}]
BY DEF Drawn

LEMMA ApplyShown == ASSUME NEW r, Apply(r) PROVE ShownIInv'
<1> DEFINE D == DestOf(Overview, r)
           at == Restored(thoughts, Selected, expanded)
           sel == SelectedAt(thoughts, expanded, at)
<1>1. /\ Destination' = D /\ listedFor' = D
      /\ readFor' = Drawn([c \in Conversations |-> Unread], sel, D)
  BY DEF Apply, Destination, DestOf
<1>2. Drawn([c \in Conversations |-> Unread], sel, D) \in [Conversations -> {Unread, D}]
  <2> HIDE DEF D, sel
  <2> QED BY DrawnOf
<1> HIDE DEF D, sel
<1> QED BY <1>1, <1>2 DEF ShownIInv

LEMMA NextShown == ASSUME ShownIInv, [Next]_vars PROVE ShownIInv'
<1>1. CASE UNCHANGED <<shown, remote, listedFor, readFor>>
  BY <1>1 DEF ShownIInv, Destination, DestOf
<1>2. ASSUME NEW r, Switch(r) PROVE ShownIInv'
  BY <1>1, <1>2, ApplyShown DEF Switch, loaded
<1>3. ASSUME NEW c, UNCHANGED <<shown, remote, listedFor>>,
             readFor' = Drawn(readFor, c, Destination)
      PROVE  ShownIInv'
  <2>1. readFor' \in [Conversations -> {Unread, Destination}]
    <3> HIDE DEF Destination
    <3> QED BY <1>3, DrawnOf DEF ShownIInv
  <2>2. Destination' = Destination BY <1>3 DEF Destination, DestOf
  <2> QED BY <1>3, <2>1, <2>2 DEF ShownIInv
<1>4. CASE UNCHANGED vars BY <1>1, <1>4 DEF vars, loaded, screen
<1>5. CASE FlowSteps
  <2>1. CASE Reload BY <1>2, <2>1 DEF Reload
  <2> QED
    BY <1>1, <1>5, <2>1 DEF FlowSteps, Resolve, CheckConversation, CheckSettings, TakeLock,
       Ask, Answer, loaded, screen
<1>6. CASE Keys
  <2>1. ASSUME NEW row, MoveTo(row) PROVE ShownIInv'
    BY <1>3, <2>1 DEF MoveTo, loaded
  <2>2. CASE Fold BY <1>3, <2>2 DEF Fold, loaded
  <2>3. ASSUME NEW r, Choose(r) PROVE ShownIInv' BY <1>2, <2>3 DEF Choose
  <2> QED
    BY <1>1, <1>6, <2>1, <2>2, <2>3 DEF Keys, OpenMode, Close, Resize, Quit, Start,
       loaded, screen
<1>7. CASE Others
  <2>1. ViewUnchanged
    BY <1>7 DEF Others, Capture, Delete, ShareElsewhere, EditUrl, SetConsent, Damage,
       OthersLock, OthersDone
  <2> QED BY <1>1, <2>1 DEF ViewUnchanged, loaded, screen
<1> QED BY <1>4, <1>5, <1>6, <1>7 DEF Next

\* The header, the share state and the details of the rows are of one
\* destination: a load that fails leaves all of Model::apply undone.
THEOREM OneDestinationShown == Spec => []ShownForRemote
<1>1. Init => ShownIInv
  <2> SUFFICES ASSUME Init PROVE ShownIInv OBVIOUS
  <2>1. listedFor = Destination BY DEF Init, Destination
  <2>2. readFor \in [Conversations -> {Unread, listedFor}]
    <3> HIDE DEF Selected
    <3> QED BY DrawnOf DEF Init
  <2> QED BY <2>1, <2>2 DEF ShownIInv
<1>2. ShownIInv => ShownForRemote BY DEF ShownIInv, ShownForRemote
<1> QED BY <1>1, <1>2, NextShown, PTL DEF Spec
=============================================================================
