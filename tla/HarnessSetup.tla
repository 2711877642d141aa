---------------------------- MODULE HarnessSetup ----------------------------
(***************************************************************************)
(* What cvc writes outside its own directory, so that a repository's       *)
(* worktrees are captured: Claude Code's settings in each worktree         *)
(* (cvc-core/src/claude_code/settings.rs), the line in info/exclude, the   *)
(* record that the harness is wanted (harness_record.rs), and the blocks   *)
(* in Git's hook files (cvc-core/src/hooks.rs).  The commands are `cvc     *)
(* harness install` and `uninstall`, `cvc init`, the start of a server,    *)
(* and the post-checkout hook that `git worktree add` runs in the new      *)
(* worktree (cvc-cli/src/commands: harness.rs, init.rs, hook.rs).          *)
(*                                                                         *)
(* None of these takes a lock.  A settings file and the record are         *)
(* replaced by a rename; a hook file is appended to, or cut to nothing and *)
(* written again.                                                          *)
(***************************************************************************)
EXTENDS Naturals, Sequences, FiniteSets, SequencesExt

CONSTANTS
    Commands,    \* processes a person or an editor starts
    Worktrees,   \* every worktree the repository may get
    Main,        \* the one it has
    Branch,      \* Branch[w]: what the branch checked out in w does to the
                 \* settings file: "plain", "tracked", "linked" (.claude is a
                 \* symlink), "unignored" (a .gitignore rule brings it back)
    Binaries,    \* paths of cvc binaries
    Cached,      \* those in the launcher's cache
    CoreHooks,   \* the hooks that observe commits, pushes, merges, rewrites
    FirstFile,   \* FirstFile[h]: the hook file before cvc, a sequence of parts
    None,        \* no binary, no file
    MaxStarts,   \* bound: commands started
    MaxUpsets    \* bound: processes killed, calls that fail

PostCheckout == "post-checkout"
Hooks == CoreHooks \cup {PostCheckout}
\* Of a hook file: the #! line cvc writes, the user's shell text, a program
\* that is not shell, the block of today, one of an earlier release.
Parts == {"sh", "user", "script", "block", "older"}
Runners == Commands \cup Worktrees

ASSUME SetupOK ==
    /\ Commands \cap Worktrees = {}
    /\ Main \in Worktrees
    /\ Branch \in [Worktrees -> {"plain", "tracked", "linked", "unignored"}]
    /\ Branch[Main] = "plain"
    /\ Cached \subseteq Binaries /\ None \notin Binaries
    /\ IsFiniteSet(CoreHooks) /\ PostCheckout \notin CoreHooks
    /\ FirstFile \in [Hooks -> Seq(Parts) \cup {None}] /\ None \notin Seq(Parts)
    /\ MaxStarts \in Nat /\ MaxUpsets \in Nat

VARIABLES
    made,         \* the worktrees there are
    settings,     \* settings[w]: whose hook entries it has, and whether it has
                  \* anything of the user's own; no file is neither
    excluded,     \* info/exclude has the line
    record,       \* claude-code.path
    acknowledged, \* the capture acknowledgement of this checkout and user
    file,         \* file[h]: the hook file
    run,          \* run[x]: where a command, or the hook of a worktree, stands
    starts, upsets,
    \* History, for the properties
    torn,         \* hook files whose writer was killed between cut and written
    misread,      \* hook files a command set out to rewrite from what it read
                  \* while another was between cut and written
    served,       \* hook files some command has finished with
    unattended,   \* worktrees whose settings the post-checkout hook wrote
    promised,     \* an install said that new worktrees are captured too, and
                  \* no uninstall cleared the record since
    owed,         \* worktrees added under that promise
    quiet         \* the uninstalls that no install ran beside

history == <<torn, misread, served, unattended, promised, owed, quiet>>
vars == <<made, settings, excluded, record, acknowledged, file, run, starts, upsets, history>>
-----------------------------------------------------------------------------
NoSettings == [ours |-> None, own |-> FALSE]
Carries(w) == settings[w].ours # None

Idle == [pc |-> "idle", tree |-> Main, bin |-> None, kept |-> FALSE, whole |-> FALSE,
         seen |-> NoSettings, hooks |-> <<>>, text |-> <<>>,
         left |-> {}, named |-> {}, amid |-> {}]
Ended == [Idle EXCEPT !.pc = "ended"]
At(x, pc) == run[x].pc = pc
Go(x, pc) == run' = [run EXCEPT ![x].pc = pc]
Tree(x) == run[x].tree
IsCommand(x) == x \in Commands

\* The commands that install: they have a binary.
Installing(x) == IsCommand(x) /\ run[x].bin # None
\* Worktrees whose hook has run, and hook runs that will write what they read from the record.
Through == {w \in Worktrees : run[w].pc \in {"idle", "ended"}}
Propagating == {w \in Worktrees : run[w].pc \in {"exclude", "ask", "read", "write"}}

Init ==
    /\ made = {Main}
    /\ settings = [w \in Worktrees |-> NoSettings]
    /\ excluded = FALSE /\ record = None /\ acknowledged = FALSE
    /\ file = FirstFile
    /\ run = [x \in Runners |-> Idle]
    /\ starts = 0 /\ upsets = 0
    /\ torn = {} /\ misread = {} /\ served = {} /\ unattended = {}
    /\ promised = FALSE /\ owed = {} /\ quiet = {}
-----------------------------------------------------------------------------
(* Hook files                                                              *)

Ours(s) == {i \in DOMAIN s : s[i] \in {"block", "older"}}
FirstOurs(s) == CHOOSE i \in Ours(s) : \A j \in Ours(s) : i <= j
HasBlock(h) == file[h] # None /\ Ours(file[h]) # {}
RunsUnderShell(s) == ~Contains(s, "script")

\* The marked block of post-checkout is replaced where it stands, further ones
\* are dropped; in the others each line of an earlier release is replaced.
\* (Mutant) What stands above the block is not copied.
HeadLost(h, s) == <<"block">> \o SubSeq(s, FirstOurs(s) + 1, Len(s))
WithoutOurs(s) ==
    LET others[n \in 0 .. Len(s)] ==
            IF n = 0 THEN <<>>
            ELSE IF n \in Ours(s) THEN others[n - 1]
            ELSE Append(others[n - 1], s[n])
    IN  others[Len(s)]
WithBlock(h, s) ==
    IF h = PostCheckout
    THEN SubSeq(s, 1, FirstOurs(s) - 1) \o <<"block">>
         \o WithoutOurs(SubSeq(s, FirstOurs(s) + 1, Len(s)))
    ELSE [i \in DOMAIN s |-> IF s[i] = "older" THEN "block" ELSE s[i]]

\* What is written at a position goes over what is there.
Over(s, from, text) ==
    SubSeq(s, 1, IF from <= Len(s) THEN from ELSE Len(s)) \o text \o
    SubSeq(s, from + Len(text) + 1, Len(s))

Hook(x) == Head(run[x].hooks)
Writing(h) == \E x \in Commands : run[x].pc \in {"fill", "rewrite"} /\ Hook(x) = h
NextHook(x, whole) ==
    run' = [run EXCEPT ![x].pc = "hooks", ![x].hooks = Tail(@), ![x].text = <<>>, ![x].whole = @ /\ whole]
KeepSettings == UNCHANGED <<made, settings, excluded, record, acknowledged, starts, upsets>>
KeepRest == UNCHANGED <<torn, unattended, promised, owed, quiet>>

\* install_hook reads the file and makes up its mind.
Undecided(x) == At(x, "hooks") /\ run[x].hooks # <<>>
Absent(x) ==
    /\ Undecided(x) /\ file[Hook(x)] = None
    /\ Go(x, "create")
    /\ UNCHANGED <<file, served>>
Present(x) ==
    /\ Undecided(x) /\ HasBlock(Hook(x))
    /\ WithBlock(Hook(x), file[Hook(x)]) = file[Hook(x)]
    /\ NextHook(x, TRUE)
    /\ served' = served \cup {Hook(x)}
    /\ UNCHANGED file
Outdated(x) ==
    /\ Undecided(x) /\ HasBlock(Hook(x))
    /\ WithBlock(Hook(x), file[Hook(x)]) # file[Hook(x)]
    /\ run' = [run EXCEPT ![x].pc = "cut", ![x].text = WithBlock(Hook(x), file[Hook(x)])]
    /\ misread' = IF Writing(Hook(x)) THEN misread \cup {Hook(x)} ELSE misread
    /\ UNCHANGED <<file, served>>
Lacking(x) ==
    /\ Undecided(x) /\ file[Hook(x)] # None /\ ~HasBlock(Hook(x))
    /\ RunsUnderShell(file[Hook(x)])
    /\ Go(x, "append")
    /\ UNCHANGED <<file, served>>
NotShell(x) ==
    /\ Undecided(x) /\ file[Hook(x)] # None /\ ~HasBlock(Hook(x))
    /\ ~RunsUnderShell(file[Hook(x)])
    /\ NextHook(x, FALSE)
    /\ UNCHANGED <<file, served>>

HookAppend(x) ==
    /\ At(x, "append")
    /\ file' = [file EXCEPT ![Hook(x)] = Append(@, "block")]
    /\ NextHook(x, TRUE)
    /\ served' = served \cup {Hook(x)}
HookCreate(x) ==
    /\ At(x, "create")
    /\ file' = [file EXCEPT ![Hook(x)] = <<"sh">>]
    /\ Go(x, "fill")
    /\ UNCHANGED served
HookFill(x) ==
    /\ At(x, "fill")
    /\ file' = [file EXCEPT ![Hook(x)] = Over(@, 1, <<"block">>)]
    /\ NextHook(x, TRUE)
    /\ served' = served \cup {Hook(x)}
HookCut(x) ==
    /\ At(x, "cut")
    /\ file' = [file EXCEPT ![Hook(x)] = <<>>]
    /\ Go(x, "rewrite")
    /\ UNCHANGED served
HookRewrite(x) ==
    /\ At(x, "rewrite")
    /\ file' = [file EXCEPT ![Hook(x)] = Over(@, 0, run[x].text)]
    /\ NextHook(x, TRUE)
    /\ served' = served \cup {Hook(x)}

\* All done: an install that came this far says so.
HooksDone(x) ==
    /\ At(x, "hooks") /\ run[x].hooks = <<>>
    /\ run' = [run EXCEPT ![x] = Idle]
    /\ promised' = (promised \/ (run[x].bin # None /\ run[x].whole))
    /\ UNCHANGED <<made, settings, excluded, record, acknowledged, file, starts, upsets>>
    /\ UNCHANGED <<torn, misread, served, unattended, owed, quiet>>

InstallHook(x) ==
    /\ \/ Outdated(x)
       \/ /\ \/ Absent(x) \/ Present(x) \/ Lacking(x) \/ NotShell(x) \/ HookAppend(x)
             \/ HookCreate(x) \/ HookFill(x) \/ HookCut(x) \/ HookRewrite(x)
          /\ UNCHANGED misread
    /\ KeepSettings /\ KeepRest
-----------------------------------------------------------------------------
(* Commands that start                                                     *)

\* discover_initialized and the checks before anything is written: a capture
\* acknowledgement, a binary, a real .claude, a file Git does not track.  A
\* binary of the launcher's cache is taken when there is no current one, and
\* then not recorded.
Start(x) == IsCommand(x) /\ At(x, "idle") /\ starts < MaxStarts /\ starts' = starts + 1

StartInstall(x) ==
    /\ Start(x) /\ acknowledged
    /\ \E w \in made, b \in Binaries, kept \in BOOLEAN :
         /\ Branch[w] \in {"plain", "unignored"}
         /\ ~kept => b \in Cached
         /\ run' = [run EXCEPT ![x] = [Idle EXCEPT
                !.pc = "exclude", !.tree = w, !.bin = b, !.kept = kept, !.whole = TRUE]]
    /\ quiet' = {}
    /\ UNCHANGED <<made, settings, excluded, record, acknowledged, file, upsets>>
    /\ UNCHANGED <<torn, misread, served, unattended, promised, owed>>
StartUninstall(x) ==
    /\ Start(x)
    /\ \E w \in made :
         run' = [run EXCEPT ![x] = [Idle EXCEPT
            !.pc = IF Branch[w] = "linked" THEN "clear" ELSE "take", !.tree = w]]
    /\ quiet' = IF \E y \in Commands : Installing(y) THEN quiet ELSE quiet \cup {x}
    /\ UNCHANGED <<made, settings, excluded, record, acknowledged, file, upsets>>
    /\ UNCHANGED <<torn, misread, served, unattended, promised, owed>>
\* `cvc init` installs every hook, a server only those that observe.
StartHooks(x) ==
    /\ Start(x)
    /\ \E hs \in {SetToSeq(CoreHooks), Append(SetToSeq(CoreHooks), PostCheckout)} :
         run' = [run EXCEPT ![x] = [Idle EXCEPT !.pc = "hooks", !.hooks = hs]]
    /\ UNCHANGED <<made, settings, excluded, record, acknowledged, file, upsets, history>>
Acknowledge ==
    /\ ~acknowledged /\ acknowledged' = TRUE
    /\ UNCHANGED <<made, settings, excluded, record, file, run, starts, upsets, history>>
-----------------------------------------------------------------------------
(* A worktree is added: Git runs the hook file in it, if there is one       *)

Owed(w) ==
    promised /\ Branch[w] = "plain" /\ PostCheckout \notin torn /\ ~Writing(PostCheckout)
AddWorktree(w) ==
    /\ w \notin made
    /\ made' = made \cup {w}
    /\ settings' = [settings EXCEPT ![w].own = Branch[w] = "tracked"]
    /\ run' = [run EXCEPT ![w] = IF HasBlock(PostCheckout) THEN [Idle EXCEPT !.pc = "shell", !.tree = w]
                                ELSE Ended]
    /\ owed' = IF Owed(w) THEN owed \cup {w} ELSE owed
    /\ UNCHANGED <<excluded, record, acknowledged, file, starts, upsets>>
    /\ UNCHANGED <<torn, misread, served, unattended, promised, quiet>>

\* The shell block looks for the record and starts the binary it names.
ShellReads(w) ==
    /\ At(w, "shell")
    /\ run' = [run EXCEPT ![w] = IF record = None THEN Ended ELSE [@ EXCEPT !.pc = "propagate"]]
    /\ UNCHANGED <<made, settings, excluded, record, acknowledged, file, starts, upsets, history>>
\* propagate_claude_code_harness reads it again, and create() looks whether
\* anything is there already.
Propagate(w) ==
    /\ At(w, "propagate")
    /\ run' = [run EXCEPT ![w] =
         IF /\ record # None /\ acknowledged
            /\ Branch[w] \notin {"linked", "tracked"} /\ settings[w] = NoSettings
         THEN [@ EXCEPT !.pc = "exclude", !.bin = record] ELSE Ended]
    /\ UNCHANGED <<made, settings, excluded, record, acknowledged, file, starts, upsets, history>>
-----------------------------------------------------------------------------
(* install_with: of a command and of the hook                               *)

Exclude(x) ==
    /\ At(x, "exclude")
    /\ excluded' = TRUE
    /\ Go(x, "ask")
    /\ UNCHANGED <<made, settings, record, acknowledged, file, starts, upsets, history>>

Ignored(w) == excluded /\ Branch[w] # "unignored"
\* git check-ignore: the hook goes on only if it says yes, a command in any case.
\* (Mutant) The line in info/exclude is taken for the answer.
AskNobody(x) ==
    /\ At(x, "ask")
    /\ Go(x, "read")
    /\ UNCHANGED <<made, settings, excluded, record, acknowledged, file, starts, upsets, history>>
Ask(x) ==
    /\ At(x, "ask")
    /\ run' = [run EXCEPT ![x] = IF IsCommand(x) \/ Ignored(Tree(x)) THEN [@ EXCEPT !.pc = "read"] ELSE Ended]
    /\ UNCHANGED <<made, settings, excluded, record, acknowledged, file, starts, upsets, history>>
ReadSettings(x) ==
    /\ At(x, "read")
    /\ run' = [run EXCEPT ![x].pc = "write", ![x].seen = settings[Tree(x)]]
    /\ UNCHANGED <<made, settings, excluded, record, acknowledged, file, starts, upsets, history>>
\* The whole file, as it was read, with the entries; then the record.
WriteSettings(x) ==
    /\ At(x, "write")
    /\ settings' = IF run[x].seen.ours = run[x].bin THEN settings
                   ELSE [settings EXCEPT ![Tree(x)] = [run[x].seen EXCEPT !.ours = run[x].bin]]
    /\ run' = [run EXCEPT ![x] = IF ~IsCommand(x) THEN Ended
                                 ELSE IF run[x].kept
                                      THEN [@ EXCEPT !.pc = "record", !.seen = NoSettings] ELSE Idle]
    /\ unattended' = IF IsCommand(x) \/ run[x].seen.ours = run[x].bin THEN unattended
                      ELSE unattended \cup {x}
    /\ UNCHANGED <<made, excluded, record, acknowledged, file, starts, upsets>>
    /\ UNCHANGED <<torn, misread, served, promised, owed, quiet>>
\* enable_worktree_propagation: the record first, then the hook.
WriteRecord(x) ==
    /\ At(x, "record")
    /\ record' = run[x].bin
    /\ run' = [run EXCEPT ![x].pc = "hooks", ![x].hooks = <<PostCheckout>>]
    /\ UNCHANGED <<made, settings, excluded, acknowledged, file, starts, upsets, history>>
-----------------------------------------------------------------------------
(* uninstall_claude_code                                                    *)

\* (Mutant) With no entries here there is nothing to do.
TakeOrGiveUp(x) ==
    /\ At(x, "take")
    /\ run' = [run EXCEPT ![x].seen = settings[Tree(x)], ![x].amid = {Tree(x)} \ Through,
                          ![x].pc = IF Carries(Tree(x)) THEN "drop" ELSE "list"]
    /\ UNCHANGED <<made, settings, excluded, record, acknowledged, file, starts, upsets, history>>
TakeSettings(x) ==
    /\ At(x, "take")
    /\ run' = [run EXCEPT ![x].seen = settings[Tree(x)], ![x].amid = {Tree(x)} \ Through,
                          ![x].pc = IF Carries(Tree(x)) THEN "drop" ELSE "clear"]
    /\ UNCHANGED <<made, settings, excluded, record, acknowledged, file, starts, upsets, history>>
DropEntries(x) ==
    /\ At(x, "drop")
    /\ settings' = [settings EXCEPT ![Tree(x)] = [run[x].seen EXCEPT !.ours = None]]
    /\ Go(x, "clear")
    /\ owed' = owed \ {Tree(x)}
    /\ UNCHANGED <<made, excluded, record, acknowledged, file, starts, upsets>>
    /\ UNCHANGED <<torn, misread, served, unattended, promised, quiet>>
\* What may be left behind: hook runs under way that have read the record, and
\* that of this worktree.
ClearRecord(x) ==
    /\ At(x, "clear")
    /\ record' = None
    /\ run' = [y \in Runners |->
         CASE y = x -> [run[x] EXCEPT !.pc = "list", !.seen = NoSettings, !.amid = @ \cup Propagating]
           [] y # x /\ y \in Commands -> [run[y] EXCEPT !.whole = FALSE]
           [] OTHER -> run[y]]
    /\ promised' = FALSE /\ owed' = {}
    /\ UNCHANGED <<made, settings, excluded, acknowledged, file, starts, upsets>>
    /\ UNCHANGED <<torn, misread, served, unattended, quiet>>
\* other_worktrees lists them and looks into one after the other.
ListWorktrees(x) ==
    /\ At(x, "list")
    /\ run' = [run EXCEPT ![x].pc = "look", ![x].left = made \ {Tree(x)}]
    /\ UNCHANGED <<made, settings, excluded, record, acknowledged, file, starts, upsets, history>>
LookInto(x) ==
    /\ At(x, "look")
    /\ \E w \in run[x].left :
         run' = [run EXCEPT ![x].left = @ \ {w}, ![x].named = IF Carries(w) THEN @ \cup {w} ELSE @]
    /\ UNCHANGED <<made, settings, excluded, record, acknowledged, file, starts, upsets, history>>
Told(x) ==
    /\ At(x, "look") /\ run[x].left = {}
    /\ run' = [run EXCEPT ![x] = Idle]
    /\ quiet' = quiet \ {x}
    /\ UNCHANGED <<made, settings, excluded, record, acknowledged, file, starts, upsets>>
    /\ UNCHANGED <<torn, misread, served, unattended, promised, owed>>
-----------------------------------------------------------------------------
(* What others do, and what fails                                           *)

\* Claude Code or the user changes the settings of a worktree.
EditSettings(w) ==
    /\ w \in made /\ ~settings[w].own /\ Branch[w] # "linked"
    /\ settings' = [settings EXCEPT ![w].own = TRUE]
    /\ owed' = owed \ {w}
    /\ UNCHANGED <<made, excluded, record, acknowledged, file, run, starts, upsets>>
    /\ UNCHANGED <<torn, misread, served, unattended, promised, quiet>>

Upset(x) == run[x].pc \notin {"idle", "ended"} /\ upsets < MaxUpsets /\ upsets' = upsets + 1
\* Killed, or a call fails that ends it: what it leaves is as it was, but for
\* a hook file it had cut.
Die(x) ==
    /\ Upset(x)
    /\ run' = [run EXCEPT ![x] = IF IsCommand(x) THEN Idle ELSE Ended]
    /\ torn' = IF run[x].pc \in {"fill", "rewrite"} THEN torn \cup {Hook(x)} ELSE torn
    /\ owed' = owed \ {x}
    /\ quiet' = quiet \ {x}
    /\ UNCHANGED <<made, settings, excluded, record, acknowledged, file, starts>>
    /\ UNCHANGED <<misread, served, unattended, promised>>
\* (Mutant) A record that could not be written is not counted.
GoOnRegardless(x) ==
    /\ Upset(x) /\ At(x, "record")
    /\ run' = [run EXCEPT ![x].pc = "hooks", ![x].hooks = <<PostCheckout>>]
    /\ UNCHANGED <<made, settings, excluded, record, acknowledged, file, starts, history>>
\* An uninstall goes on when one of its halves fails, an install when the
\* record or the hook does; each says so.
GoOn(x) ==
    /\ Upset(x)
    /\ \/ run[x].pc \in {"take", "drop"} /\ Go(x, "clear")
       \/ At(x, "clear") /\ Go(x, "list")
       \/ At(x, "list") /\ Go(x, "look")
       \/ /\ At(x, "record")
          /\ run' = [run EXCEPT ![x].pc = "hooks", ![x].hooks = <<PostCheckout>>, ![x].whole = FALSE]
    /\ quiet' = quiet \ {x}
    /\ UNCHANGED <<made, settings, excluded, record, acknowledged, file, starts>>
    /\ UNCHANGED <<torn, misread, served, unattended, promised, owed>>
-----------------------------------------------------------------------------
Command(x) ==
    \/ StartInstall(x) \/ StartUninstall(x) \/ StartHooks(x)
    \/ WriteRecord(x) \/ InstallHook(x) \/ HooksDone(x)
    \/ TakeSettings(x) \/ DropEntries(x) \/ ClearRecord(x)
    \/ ListWorktrees(x) \/ LookInto(x) \/ Told(x)
    \/ GoOn(x)
Install(x) ==
    Exclude(x) \/ Ask(x) \/ ReadSettings(x) \/ WriteSettings(x) \/ Die(x)
Next ==
    \/ \E x \in Commands : Command(x)
    \/ \E x \in Runners : Install(x)
    \/ \E w \in Worktrees : AddWorktree(w) \/ ShellReads(w) \/ Propagate(w) \/ EditSettings(w)
    \/ Acknowledge
Spec == Init /\ [][Next]_vars
-----------------------------------------------------------------------------
(* Properties                                                               *)

\* Every variable stays within its type.
Settings == [ours : Binaries \cup {None}, own : BOOLEAN]
Position == {"idle", "exclude", "ask", "read", "write", "record", "take", "drop", "clear",
             "list", "look", "hooks", "create", "fill", "cut", "rewrite", "append",
             "shell", "propagate", "ended"}
Run == [pc : Position, tree : Worktrees, bin : Binaries \cup {None}, kept : BOOLEAN,
        whole : BOOLEAN, seen : Settings, hooks : Seq(Hooks), text : Seq(Parts),
        left : SUBSET Worktrees, named : SUBSET Worktrees, amid : SUBSET Worktrees]
TypeOK ==
    /\ made \subseteq Worktrees /\ Main \in made
    /\ settings \in [Worktrees -> Settings]
    /\ excluded \in BOOLEAN /\ acknowledged \in BOOLEAN
    /\ record \in Binaries \cup {None}
    /\ file \in [Hooks -> Seq(Parts) \cup {None}]
    /\ run \in [Runners -> Run]
    /\ starts \in 0 .. MaxStarts /\ upsets \in 0 .. MaxUpsets
    /\ torn \cup misread \cup served \subseteq Hooks
    /\ unattended \cup owed \subseteq Worktrees
    /\ promised \in BOOLEAN /\ quiet \subseteq Commands

\* An uninstall that ran beside no install, and of which nothing failed, has
\* named every worktree that goes on capturing, but for those that were being
\* added as it cleared the record (harness.rs, uninstall_claude_code).
UninstallTells ==
    \A x \in Commands : (At(x, "look") /\ run[x].left = {} /\ x \in quiet) =>
        \A w \in made : Carries(w) => w \in run[x].named \cup run[x].amid

\* A worktree added after an install said that new ones are captured has the
\* entries when its hook is through, whatever installs, servers and worktrees
\* came between, unless an uninstall did (harness.rs, hook.rs).
PromiseKept ==
    [][\A w \in owed' : (~At(w, "ended") /\ run'[w].pc = "ended") => settings'[w].ours # None]_vars

\* No writer loses what the user has in a hook file, and once a command was
\* through with it the block is there, though commands write at the same time;
\* but a writer that is killed between cutting and writing leaves neither, and
\* one that reads what another has cut writes back only that (hooks.rs,
\* install_hook).
ContentKept(h) ==
    FirstFile[h] # None =>
        \A part \in {"user", "script"} : Contains(FirstFile[h], part) => Contains(file[h], part)
HooksKept ==
    \A h \in Hooks \ torn : Writing(h) \/
        /\ h \notin misread => ContentKept(h)
        /\ h \in served => HasBlock(h)

\* What was written into a worktree with nobody looking can not be committed:
\* Git ignores it, and does not track it (settings.rs, create).
Uncommittable ==
    \A w \in unattended : excluded /\ Branch[w] = "plain"
=============================================================================
