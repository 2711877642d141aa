-------------------------- MODULE ConversationsView --------------------------
(***************************************************************************)
(* The interactive view of `cvc conversations` (cvc-cli/src/tui), and the  *)
(* flows it runs on what it shows: share, unshare, publish and authorize.  *)
(*                                                                         *)
(* The view lists what it loaded for one remote: the conversations, their  *)
(* agents under them, and what each remote's destination allows.  A key    *)
(* opens a bar about the selected conversation, the bar's key starts a     *)
(* flow, and a flow asks for a typed phrase before it writes.  Meanwhile   *)
(* other terminals capture, share, publish and edit remotes and consents,  *)
(* so each flow looks again at what the screen was drawn from.             *)
(*                                                                         *)
(* A thought is represented by the time it was captured at.  Consents and  *)
(* locks are those of privacy.rs; what a publication does beyond recording *)
(* what the destination may hold is in Publication.                        *)
(***************************************************************************)
EXTENDS Naturals, Sequences, FiniteSets, FiniteSetsExt, SequencesExt

CONSTANTS
    Remotes,        \* names of the repository's remotes
    Destinations,   \* destination fingerprints
    Conversations,  \* conversation ids
    None,           \* no remote, destination or conversation
    Unread,         \* nothing was read about a row
    ParentOf,       \* ParentOf[c]: the conversation c is an agent of
    Imported,       \* the conversations pulled from a remote
    FirstUrls,      \* the destinations of the remotes at first
    FirstConsents,  \* consents the destinations may have at first
    FirstThoughts,  \* FirstThoughts[c]: the thoughts of c at first
    FirstTime,      \* when the view is started
    FirstShared,    \* FirstShared[d]: the thoughts shared for d at first
    Requested,      \* initial_remote: --remote, or origin
    MaxEdits,       \* bound: what other terminals do
    MaxFlows        \* bound: the flows the view runs

ASSUME ConstantsOK ==
    /\ None \notin Remotes \cup Destinations \cup Conversations
    /\ Unread \notin Destinations \cup {None}
    /\ ParentOf \in [Conversations -> Conversations \cup {None}]
    /\ Imported \subseteq Conversations
    /\ FirstUrls \in [Remotes -> Destinations \cup {None}]
    /\ FirstConsents \subseteq [Destinations -> {"none", "manual", "auto"}]
    /\ FirstTime \in Nat
    /\ FirstThoughts \in [Conversations -> SUBSET (0 .. FirstTime)]
    /\ FirstShared \in [Destinations -> SUBSET (0 .. FirstTime)]
    /\ Requested \in Remotes \cup {None}
    /\ MaxEdits \in Nat /\ MaxFlows \in Nat

VARIABLES
    url,        \* url[r]: the destination remote r resolves to, None if to none
    consent,    \* consent[d]: privacy.json, none, manual or auto(-push)
    readable,   \* whether privacy.json can be read
    thoughts,   \* thoughts[c]: the thoughts of c in the store
    shared,     \* shared[d]: interaction_shares
    future,     \* future[d]: the conversations that share what they capture
    held,       \* held[d]: publications, pending, published or unknown
    lock,       \* lock[d]: who has the operation lock of d
    shown,      \* shown[r]: the overview of remote r, as loaded
    remote,     \* the selected remote
    listed,     \* listed[c]: the thoughts of c as loaded
    listedFor,  \* the destination the share state was loaded for
    expanded,   \* the conversations whose agents are shown
    cursor,     \* the selected row
    readFor,    \* readFor[c]: the destination the details of c were read for
    mode,       \* the list, a page, the picker, or a bar and what it is about
    small,      \* whether the terminal is too small
    stage,      \* "screen", or where a flow stands
    flow,       \* the flow that runs
    edits,      \* how much other terminals did
    flows,      \* how many flows were started
    interim     \* history: the consent changed since the flow looked at it

settings == <<url, consent, readable>>
store == <<thoughts, shared, future, held>>
loaded == <<shown, remote, listed, listedFor>>
screen == <<expanded, cursor, readFor, mode, small>>
vars == <<settings, store, lock, loaded, screen, stage, flow, edits, flows, interim>>
-----------------------------------------------------------------------------
(* The tree of a listing l, a function from conversations to their thoughts *)

IsListed(l, c) == c \in Conversations /\ l[c] # {}

\* Two levels: an agent of an agent is listed on its own.
Candidate(l, c) == IsListed(l, ParentOf[c])
Under(l, c) == Candidate(l, c) /\ ~Candidate(l, ParentOf[c])
Agents(l, c) == {x \in Conversations : IsListed(l, x) /\ Under(l, x) /\ ParentOf[x] = c}
Tops(l) == {c \in Conversations : IsListed(l, c) /\ ~Under(l, c)}
Newest(l, c) == Max(UNION {l[x] : x \in Agents(l, c) \cup {c}})

\* Groups by their newest activity, agents as they were spawned.
Order(l) == SetToSortSeq(Tops(l), LAMBDA x, y : Newest(l, x) > Newest(l, y))
Group(l, c, open) ==
    <<c>> \o IF c \in open
             THEN SetToSortSeq(Agents(l, c), LAMBDA x, y : Min(l[x]) < Min(l[y]))
             ELSE <<>>
Visible(l, open) ==
    LET order == Order(l) IN FlattenSeq([i \in DOMAIN order |-> Group(l, order[i], open)])

SelectedAt(l, open, row) ==
    LET v == Visible(l, open) IN IF row \in DOMAIN v THEN v[row] ELSE None
Selected == SelectedAt(listed, expanded, cursor)

\* The row a conversation has, or its parent's where it is hidden.
RowOf(l, c, open) == IF Under(l, c) /\ ParentOf[c] \notin open THEN ParentOf[c] ELSE c

\* The cursor follows the conversation it was on.
Restored(l, keep, open) ==
    LET v == Visible(l, open)
        rows == {i \in DOMAIN v : IsListed(l, keep) /\ v[i] = RowOf(l, keep, open)}
    IN  IF rows # {} THEN CHOOSE i \in rows : TRUE
        ELSE Max({1, Min({cursor, Len(v)})})
-----------------------------------------------------------------------------
(* Loading                                                                 *)

Consent == {"none", "manual", "auto"}
Overview ==
    [r \in Remotes |->
        [dest |-> url[r],
         consent |-> IF url[r] = None THEN "none"
                     ELSE IF readable THEN consent[url[r]] ELSE "unreadable"]]
DestOf(overview, r) == IF r = None THEN None ELSE overview[r].dest
Destination == DestOf(shown, remote)

\* What is missing about the selected row is read before it is drawn.
Drawn(read, c, d) == IF c # None /\ read[c] = Unread THEN [read EXCEPT ![c] = d] ELSE read

\* Model::apply: the listing is replaced, what was read about rows is dropped.
Apply(r) ==
    LET at == Restored(thoughts, Selected, expanded) IN
    /\ shown' = Overview
    /\ remote' = r
    /\ listed' = thoughts
    /\ listedFor' = DestOf(Overview, r)
    /\ cursor' = at
    /\ readFor' = Drawn([c \in Conversations |-> Unread],
                        SelectedAt(thoughts, expanded, at), DestOf(Overview, r))

\* (Mutant) The remote is selected before its data are loaded.
SwitchFirst(r) ==
    \/ Apply(r)
    \/ remote' = r /\ UNCHANGED <<shown, listed, listedFor, cursor, readFor>>

\* switch_remote, and reload for the same remote: all or nothing.
Switch(r) == Apply(r) \/ UNCHANGED <<loaded, cursor, readFor>>
-----------------------------------------------------------------------------
(* Bars                                                                    *)

List == [at |-> "list", about |-> None, enter |-> FALSE]
Bar(kind, c, enter) == [at |-> kind, about |-> c, enter |-> enter]
Blocked == Bar("blocked", None, FALSE)
Bars == {"share", "unshare", "publish", "authorize", "blocked"}

\* action_remote and selected_for_action, on what the store says at the key.
Actionable == Destination # None /\ shown[remote].consent # "unreadable"
Details(c) == IsListed(thoughts, c) /\ c \notin Imported
Authorized == shown[remote].consent \in {"manual", "auto"}
Unshared(c, d) == thoughts[c] \ shared[d]
CanUnshare(c, d) == thoughts[c] \cap held[d] = {}

ShareBar ==
    LET c == Selected
        d == Destination
    IN  IF ~Actionable \/ ~Details(c) \/ (Unshared(c, d) = {} /\ c \in future[d])
        THEN Blocked
        ELSE IF ~Authorized THEN Bar("authorize", None, TRUE)
        ELSE Bar("share", c, Unshared(c, d) # {})

UnshareBar ==
    LET c == Selected
        d == Destination
    IN  IF \/ ~Actionable \/ ~Details(c)
           \/ thoughts[c] \cap shared[d] = {}
           \/ ~CanUnshare(c, d)
        THEN Blocked
        ELSE Bar("unshare", c, TRUE)

PublishBar ==
    IF ~Actionable THEN Blocked
    ELSE IF ~Authorized THEN Bar("authorize", None, TRUE)
    ELSE Bar("publish", None, TRUE)
-----------------------------------------------------------------------------
NoFlow == [kind |-> "none", id |-> None, all |-> FALSE, dest |-> None, ids |-> {}]

Init ==
    /\ url = FirstUrls
    /\ consent \in FirstConsents
    /\ readable = TRUE
    /\ thoughts = FirstThoughts
    /\ shared = FirstShared
    /\ future = [d \in Destinations |-> {}]
    /\ held = [d \in Destinations |-> {}]
    /\ lock = [d \in Destinations |-> "free"]
    /\ shown = Overview
    /\ remote = Requested
    /\ listed = thoughts
    /\ listedFor = DestOf(shown, remote)
    /\ expanded = {}
    /\ cursor = 1
    /\ readFor = Drawn([c \in Conversations |-> Unread], Selected, listedFor)
    /\ mode = List
    /\ small = FALSE
    /\ stage = "screen"
    /\ flow = NoFlow
    /\ edits = 0
    /\ flows = 0
    /\ interim = FALSE
-----------------------------------------------------------------------------
(* Other terminals                                                         *)

Edit == edits < MaxEdits /\ edits' = edits + 1
ViewUnchanged == UNCHANGED <<loaded, screen, stage, flow, flows>>

Capture(c) ==
    LET t == FirstTime + edits + 1 IN
    /\ Edit
    /\ thoughts' = [thoughts EXCEPT ![c] = @ \cup {t}]
    /\ shared' = [d \in Destinations |->
                    IF c \in future[d] THEN shared[d] \cup {t} ELSE shared[d]]
    /\ UNCHANGED <<settings, future, held, lock, interim>>
    /\ ViewUnchanged

Delete(c, t) ==
    /\ Edit
    /\ t \in thoughts[c]
    /\ thoughts' = [thoughts EXCEPT ![c] = @ \ {t}]
    /\ shared' = [d \in Destinations |-> shared[d] \ {t}]
    /\ held' = [d \in Destinations |-> held[d] \ {t}]
    /\ UNCHANGED <<settings, future, lock, interim>>
    /\ ViewUnchanged

ShareElsewhere(c, d, all) ==
    /\ Edit
    /\ thoughts[c] # {}
    /\ shared' = [shared EXCEPT ![d] = @ \cup thoughts[c]]
    /\ future' = [future EXCEPT ![d] = IF all THEN @ \cup {c} ELSE @ \ {c}]
    /\ UNCHANGED <<settings, thoughts, held, lock, interim>>
    /\ ViewUnchanged

EditUrl(r, d) ==
    /\ Edit
    /\ url' = [url EXCEPT ![r] = d]
    /\ UNCHANGED <<consent, readable, store, lock, interim>>
    /\ ViewUnchanged

\* acknowledge-sharing, which takes auto-push back, and set_auto_push.
SetConsent(d, kind) ==
    /\ Edit
    /\ readable
    /\ kind = "auto" => consent[d] # "none"
    /\ consent' = [consent EXCEPT ![d] = kind]
    /\ interim' = (interim \/ flow.dest = d)
    /\ UNCHANGED <<url, readable, store, lock>>
    /\ ViewUnchanged

Damage ==
    /\ Edit
    /\ readable' = ~readable
    /\ UNCHANGED <<url, consent, store, lock, interim>>
    /\ ViewUnchanged

\* A push or an unshare in another terminal, under the operation lock.
OthersLock(d) ==
    /\ Edit
    /\ lock[d] = "free"
    /\ lock' = [lock EXCEPT ![d] = "others"]
    /\ UNCHANGED <<settings, store, interim>>
    /\ ViewUnchanged

OthersDone(d) ==
    /\ lock[d] = "others"
    /\ lock' = [lock EXCEPT ![d] = "free"]
    /\ \/ /\ consent[d] # "none"
          /\ held' = [held EXCEPT ![d] = @ \cup shared[d]]
          /\ UNCHANGED <<shared, future>>
       \/ \E c \in Conversations :
          /\ CanUnshare(c, d)
          /\ shared' = [shared EXCEPT ![d] = @ \ thoughts[c]]
          /\ future' = [future EXCEPT ![d] = @ \ {c}]
          /\ UNCHANGED held
       \/ UNCHANGED <<shared, future, held>>
    /\ UNCHANGED <<settings, thoughts, edits, interim>>
    /\ ViewUnchanged
-----------------------------------------------------------------------------
(* Keys                                                                    *)

Key(at) == stage = "screen" /\ ~small /\ mode.at = at
WorldUnchanged == UNCHANGED <<settings, store, lock, edits, interim>>
FlowUnchanged == UNCHANGED <<stage, flow, flows>>

\* The arrows, paging and Left on an agent, which goes to its parent.
MoveTo(row) ==
    /\ Key("list")
    /\ row \in DOMAIN Visible(listed, expanded) \ {cursor}
    /\ cursor' = row
    /\ readFor' = Drawn(readFor, SelectedAt(listed, expanded, row), Destination)
    /\ UNCHANGED <<loaded, expanded, mode, small>>
    /\ WorldUnchanged /\ FlowUnchanged

\* Right, and Left on a parent.
Fold ==
    /\ Key("list")
    /\ Selected # None
    /\ Agents(listed, Selected) # {}
    /\ expanded' = IF Selected \in expanded THEN expanded \ {Selected}
                   ELSE expanded \cup {Selected}
    /\ cursor' = Restored(listed, Selected, expanded')
    /\ readFor' = Drawn(readFor, SelectedAt(listed, expanded', cursor'), Destination)
    /\ UNCHANGED <<loaded, mode, small>>
    /\ WorldUnchanged /\ FlowUnchanged

OpenMode ==
    /\ Key("list")
    /\ \/ mode' \in {ShareBar, UnshareBar, PublishBar}
       \/ mode' = Bar("help", None, FALSE)
       \/ Selected # None /\ mode' = Bar("details", None, FALSE)
    /\ UNCHANGED <<loaded, expanded, cursor, readFor, small>>
    /\ WorldUnchanged /\ FlowUnchanged

Close ==
    /\ stage = "screen" /\ ~small /\ mode.at # "list"
    /\ mode' = List
    /\ UNCHANGED <<loaded, expanded, cursor, readFor, small>>
    /\ WorldUnchanged /\ FlowUnchanged

\* The picker and the remote chosen there, one that can be a destination.
Choose(r) ==
    /\ Key("list")
    /\ shown[r].dest # None /\ r # remote
    /\ Switch(r)
    /\ UNCHANGED <<expanded, mode, small>>
    /\ WorldUnchanged /\ FlowUnchanged

\* The key a bar lists: Enter, and `f` for the future thoughts too.
Start(all) ==
    /\ stage = "screen" /\ ~small /\ mode.at \in Bars \ {"blocked"}
    /\ IF all THEN mode.at = "share" ELSE mode.enter
    /\ flows < MaxFlows /\ flows' = flows + 1
    /\ flow' = [NoFlow EXCEPT !.kind = mode.at, !.id = mode.about, !.all = all]
    /\ stage' = "resolve"
    /\ mode' = List
    /\ UNCHANGED <<loaded, expanded, cursor, readFor, small>>
    /\ WorldUnchanged

\* A terminal that gets too small cancels the bar.
Resize ==
    /\ stage = "screen"
    /\ small' = ~small
    /\ mode' = IF small' /\ mode.at \in Bars THEN List ELSE mode
    /\ UNCHANGED <<loaded, expanded, cursor, readFor>>
    /\ WorldUnchanged /\ FlowUnchanged

Quit ==
    /\ stage = "screen"
    /\ stage' = "ended"
    /\ UNCHANGED <<loaded, screen, flow, flows>>
    /\ WorldUnchanged
-----------------------------------------------------------------------------
(* Flows                                                                   *)

Goes(next) == stage' = next
Run(kinds) == flow.kind \in kinds

\* (Mutant) The remote is resolved, whatever the list said.
SameDestinationUnchecked == url[remote] # None
SameDestination == Destination # None /\ url[remote] = Destination

Resolve ==
    /\ stage = "resolve"
    /\ \/ SameDestination /\ Goes("conversation") /\ flow' = [flow EXCEPT !.dest = url[remote]]
       \/ ~SameDestination /\ Goes("reload") /\ UNCHANGED flow
    /\ UNCHANGED <<loaded, screen, flows>>
    /\ WorldUnchanged

\* An imported conversation has no actions, one that is gone is not asked about.
CheckConversation ==
    /\ stage = "conversation"
    /\ \/ /\ Run({"share", "unshare"}) /\ thoughts[flow.id] # {} /\ flow.id \in Imported
          /\ Goes("screen") /\ mode' = Blocked /\ flow' = NoFlow
       \/ /\ Run({"share", "unshare"}) /\ thoughts[flow.id] = {}
          /\ Goes("reload") /\ UNCHANGED <<mode, flow>>
       \/ /\ Run({"share", "unshare"}) => Details(flow.id)
          /\ Goes("settings") /\ UNCHANGED <<mode, flow>>
    /\ UNCHANGED <<loaded, expanded, cursor, readFor, small, flows>>
    /\ WorldUnchanged

AsShown == readable /\ consent[flow.dest] = shown[remote].consent

\* publishing_settings_match for a share and a publish, and for an authorize
\* that nothing is authorized yet.  A file that cannot be read ends the flow.
CheckSettings ==
    /\ stage = "settings"
    /\ \/ /\ Run({"unshare"}) \/ AsShown
          /\ Goes(IF Run({"unshare", "publish"}) THEN "lock" ELSE "ask")
          /\ UNCHANGED flow
       \/ ~Run({"unshare"}) /\ readable /\ ~AsShown /\ Goes("reload") /\ UNCHANGED flow
       \/ ~Run({"unshare"}) /\ ~readable /\ Goes("screen") /\ flow' = NoFlow
    /\ interim' = FALSE
    /\ UNCHANGED <<settings, store, lock, loaded, screen, edits, flows>>

\* (Mutant) The lock is left to whoever has it.
NoOperationLock(d) == UNCHANGED lock
OperationLock(d) == lock[d] = "free" /\ lock' = [lock EXCEPT ![d] = "view"]

TakeLock ==
    /\ stage = "lock"
    /\ OperationLock(flow.dest)
    /\ Goes("ask")
    /\ UNCHANGED <<settings, store, loaded, screen, flow, edits, flows, interim>>

\* The lock goes with the flow.
Released == [d \in Destinations |-> IF lock[d] = "view" THEN "free" ELSE lock[d]]

\* What a flow asks a phrase for, and whether it asks at all.
Covered ==
    CASE Run({"share"}) -> thoughts[flow.id]
      [] Run({"publish"}) -> shared[flow.dest] \ held[flow.dest]
      [] OTHER -> {}
Asks ==
    \/ Run({"share"})
    \/ Run({"unshare"}) /\ CanUnshare(flow.id, flow.dest)
    \/ Run({"publish"}) /\ readable /\ consent[flow.dest] # "none" /\ Covered # {}
    \/ Run({"authorize"}) /\ readable

Ask ==
    /\ stage = "ask"
    /\ \/ /\ Asks
          /\ flow' = [flow EXCEPT !.ids = Covered]
          /\ Goes("answer")
          /\ UNCHANGED lock
       \/ ~Asks /\ Goes("reload") /\ lock' = Released /\ UNCHANGED flow
    /\ UNCHANGED <<settings, store, loaded, screen, edits, flows, interim>>

\* share_exact_snapshot
ShareExact ==
    /\ thoughts[flow.id] = flow.ids
    /\ shared' = [shared EXCEPT ![flow.dest] = @ \cup flow.ids]
    /\ future' = [future EXCEPT ![flow.dest] = IF flow.all THEN @ \cup {flow.id} ELSE @ \ {flow.id}]
    /\ UNCHANGED <<consent, held>>

Unshare ==
    /\ CanUnshare(flow.id, flow.dest)
    /\ shared' = [shared EXCEPT ![flow.dest] = @ \ thoughts[flow.id]]
    /\ future' = [future EXCEPT ![flow.dest] = @ \ {flow.id}]
    /\ UNCHANGED <<consent, held>>

Publish ==
    /\ held' = [held EXCEPT ![flow.dest] = @ \cup (flow.ids \cap UNION {thoughts[c] : c \in Conversations})]
    /\ UNCHANGED <<consent, shared, future>>

Authorize ==
    /\ readable
    /\ consent' = [consent EXCEPT ![flow.dest] = "manual"]
    /\ UNCHANGED <<shared, future, held>>

\* The phrase is typed, or it is not, or what it allows cannot be done.
Answer ==
    /\ stage = "answer"
    /\ \/ Run({"share"}) /\ ShareExact
       \/ Run({"unshare"}) /\ Unshare
       \/ Run({"publish"}) /\ Publish
       \/ Run({"authorize"}) /\ Authorize
       \/ UNCHANGED <<consent, shared, future, held>>
    /\ Goes("reload")
    /\ lock' = Released
    /\ UNCHANGED <<url, readable, thoughts, loaded, screen, flow, edits, flows, interim>>

\* The list again, or not, and the notice; or the screen does not come back.
Reload ==
    /\ stage = "reload"
    /\ Switch(remote)
    /\ stage' \in {"screen", "ended"}
    /\ flow' = NoFlow
    /\ UNCHANGED <<expanded, mode, small, flows>>
    /\ WorldUnchanged
-----------------------------------------------------------------------------
FlowSteps ==
    \/ Resolve \/ CheckConversation \/ CheckSettings \/ TakeLock
    \/ Ask \/ Answer \/ Reload

Keys ==
    \/ \E row \in 1 .. Cardinality(Conversations) : MoveTo(row)
    \/ Fold \/ OpenMode \/ Close \/ Resize \/ Quit
    \/ \E r \in Remotes : Choose(r)
    \/ \E all \in BOOLEAN : Start(all)

Others ==
    \/ Damage
    \/ \E c \in Conversations : Capture(c) \/ \E t \in thoughts[c] : Delete(c, t)
    \/ \E c \in Conversations, d \in Destinations, all \in BOOLEAN : ShareElsewhere(c, d, all)
    \/ \E r \in Remotes, d \in Destinations \cup {None} : EditUrl(r, d)
    \/ \E d \in Destinations : OthersLock(d) \/ OthersDone(d)
    \/ \E d \in Destinations, kind \in {"manual", "auto"} : SetConsent(d, kind)

Next == FlowSteps \/ Keys \/ Others

Spec == Init /\ [][Next]_vars
-----------------------------------------------------------------------------
(* What must hold                                                          *)

\* Every variable stays within its type.
TypeOK ==
    /\ url \in [Remotes -> Destinations \cup {None}]
    /\ consent \in [Destinations -> Consent]
    /\ readable \in BOOLEAN /\ small \in BOOLEAN /\ interim \in BOOLEAN
    /\ thoughts \in [Conversations -> SUBSET Nat]
    /\ listed \in [Conversations -> SUBSET Nat]
    /\ shared \in [Destinations -> SUBSET Nat]
    /\ future \in [Destinations -> SUBSET Conversations]
    /\ held \in [Destinations -> SUBSET Nat]
    /\ lock \in [Destinations -> {"free", "view", "others"}]
    /\ shown \in [Remotes -> [dest : Destinations \cup {None},
                              consent : Consent \cup {"unreadable"}]]
    /\ remote \in Remotes \cup {None}
    /\ listedFor \in Destinations \cup {None}
    /\ expanded \subseteq Conversations
    /\ cursor \in 1 .. Max({1, Len(Visible(listed, expanded))})
    /\ readFor \in [Conversations -> Destinations \cup {None, Unread}]
    /\ mode \in [at : Bars \cup {"list", "help", "details"},
                 about : Conversations \cup {None}, enter : BOOLEAN]
    /\ stage \in {"screen", "resolve", "conversation", "settings", "lock", "ask",
                  "answer", "reload", "ended"}
    /\ flow \in [kind : Bars \cup {"none"}, id : Conversations \cup {None},
                 all : BOOLEAN, dest : Destinations \cup {None}, ids : SUBSET Nat]
    /\ edits \in 0 .. MaxEdits
    /\ flows \in 0 .. MaxFlows

\* The remote in the header, the share state in the list and the details of
\* the rows are of one destination, whichever loads failed in between.
ShownForRemote ==
    /\ listedFor = Destination
    /\ \A c \in Conversations : readFor[c] \in {Unread, Destination}

\* A phrase is asked for the destination that was on the screen, on the settings
\* that were on it, although other terminals edit both; only what they change
\* while the phrase is being asked for goes unseen.
AskedOnShown ==
    stage = "answer" =>
        /\ flow.dest = Destination
        /\ \/ Run({"unshare"}) \/ interim
           \/ consent[flow.dest] = shown[remote].consent

\* No phrase is asked for an unshare that cannot happen: from the check to the
\* answer nothing of the conversation gets published.
UnshareCanHappen ==
    stage = "answer" /\ Run({"unshare"}) => CanUnshare(flow.id, flow.dest)

\* A share covers the thoughts its phrase was asked for, not one captured while
\* it was typed, and all of them or none.
SharedAsAsked ==
    [][stage = "answer" /\ stage' = "reload" /\ Run({"share"}) /\ shared' # shared =>
          /\ \A d \in Destinations : shared'[d] \ shared[d] \subseteq flow.ids
          /\ flow.ids \subseteq shared'[flow.dest]]_vars
=============================================================================
