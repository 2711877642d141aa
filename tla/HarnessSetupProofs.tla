------------------------- MODULE HarnessSetupProofs -------------------------
(***************************************************************************)
(* Safety of HarnessSetup for any commands, worktrees and hook files: what *)
(* is written unattended stays out of commits, the user's part of a hook   *)
(* file outlives every writer, a promise to capture new worktrees is kept, *)
(* and an uninstall names what goes on capturing.                          *)
(***************************************************************************)
EXTENDS HarnessSetup, FiniteSetTheorems, WellFoundedInduction, TLAPS

-----------------------------------------------------------------------------
(* Parts of a hook file                                                    *)

\* Of some natural numbers one is the least.
LEMMA Least ==
    ASSUME NEW S \in SUBSET Nat, S # {}
    PROVE  \E m \in S : \A n \in S : m <= n
<1> DEFINE R == OpToRel(<, Nat)
<1>1. IsWellFoundedOn(R, Nat) BY Zenon, NatLessThanWellFounded
<1>2. \A i, j \in Nat : i < j => <<i, j>> \in R BY DEF OpToRel
<1> HIDE DEF R
<1>3. PICK m \in S : \A n \in S : ~(<<n, m>> \in R)
  BY <1>1, WFMin
<1>4. ASSUME NEW n \in S PROVE m <= n
  <2>1. m \in Nat /\ n \in Nat /\ ~(n < m) BY <1>2, <1>3
  <2> QED BY <2>1
<1> QED BY <1>4

\* The parts of two sequences are those of the one, then those of the other.
LEMMA Concatenation ==
    ASSUME NEW S, NEW s \in Seq(S), NEW t \in Seq(S)
    PROVE  /\ s \o t \in Seq(S) /\ Len(s \o t) = Len(s) + Len(t)
           /\ \A i \in 1 .. Len(s) : (s \o t)[i] = s[i]
           /\ \A i \in 1 .. Len(t) : (s \o t)[Len(s) + i] = t[i]
OBVIOUS

\* The first of cvc's parts, where there is one.
LEMMA FirstOursIsFirst ==
    ASSUME NEW s \in Seq(Parts), Ours(s) # {}
    PROVE  FirstOurs(s) \in Ours(s) /\ \A j \in Ours(s) : FirstOurs(s) <= j
<1>1. Ours(s) \in SUBSET Nat BY DEF Ours
<1> QED BY <1>1, Least DEF FirstOurs

\* What is left without them has all other parts.
LEMMA OthersStay ==
    ASSUME NEW s \in Seq(Parts)
    PROVE  /\ WithoutOurs(s) \in Seq(Parts)
           /\ \A i \in DOMAIN s \ Ours(s) : Contains(WithoutOurs(s), s[i])
<1> DEFINE step(n, before) == IF n \in Ours(s) THEN before ELSE Append(before, s[n])
           Takes(f, n) == f = [i \in 0 .. n |-> IF i = 0 THEN <<>> ELSE step(i, f[i - 1])]
           Missing == {n \in 0 .. Len(s) : ~\E f : Takes(f, n)}
<1>1. Missing = {}
  <2> SUFFICES ASSUME Missing # {} PROVE FALSE OBVIOUS
  <2>0. Missing \in SUBSET Nat OBVIOUS
  <2>1. PICK m \in 0 .. Len(s) : m \in Missing /\ \A n \in Missing : m <= n
    <3> HIDE DEF Missing
    <3>1. PICK m \in Missing : \A n \in Missing : m <= n BY <2>0, Least
    <3> QED BY <3>1 DEF Missing
  <2>2. m # 0
    <3>1. Takes([i \in 0 .. 0 |-> <<>>], 0) OBVIOUS
    <3> QED BY <2>1, <3>1
  <2>3. m - 1 \in 0 .. Len(s) /\ m - 1 \notin Missing
    <3> HIDE DEF Missing
    <3> QED BY <2>1, <2>2
  <2>4. PICK f : Takes(f, m - 1)
    <3> HIDE DEF Takes
    <3> QED BY <2>3
  <2> DEFINE g == [i \in 0 .. m |-> IF i < m THEN f[i] ELSE step(m, f[m - 1])]
  <2>5. Takes(g, m)
    <3> HIDE DEF step
    <3>1. \A i \in 0 .. (m - 1) : f[i] = IF i = 0 THEN <<>> ELSE step(i, f[i - 1])
      BY <2>4
    <3>2. \A i \in 0 .. m : g[i] = IF i = 0 THEN <<>> ELSE step(i, g[i - 1])
      BY <2>1, <2>2, <3>1
    <3> QED BY <3>2
  <2> HIDE DEF Takes, g
  <2> QED BY <2>1, <2>5
<1>2. PICK f : Takes(f, Len(s))
  <2>1. Len(s) \in 0 .. Len(s) OBVIOUS
  <2> HIDE DEF Takes
  <2> QED BY <1>1, <2>1
<1> DEFINE others == CHOOSE g : Takes(g, Len(s))
<1>3. WithoutOurs(s) = others[Len(s)]
  BY DEF WithoutOurs
<1>4. Takes(others, Len(s))
  <2> HIDE DEF Takes
  <2> QED BY <1>2
<1> HIDE DEF others
<1> DEFINE Holds(n) == /\ others[n] \in Seq(Parts)
                       /\ \A i \in 1 .. n : i \notin Ours(s) => Contains(others[n], s[i])
           Failing == {n \in 0 .. Len(s) : ~Holds(n)}
<1>5. others[0] = <<>> /\ \A n \in 1 .. Len(s) : others[n] = step(n, others[n - 1])
  <2> HIDE DEF step
  <2>1. Len(s) \in Nat OBVIOUS
  <2> QED BY <1>4, <2>1
<1>6. Failing = {}
  <2> SUFFICES ASSUME Failing # {} PROVE FALSE OBVIOUS
  <2>0. Failing \in SUBSET Nat OBVIOUS
  <2>1. PICK m \in 0 .. Len(s) : m \in Failing /\ \A n \in Failing : m <= n
    <3> HIDE DEF Failing
    <3>1. PICK m \in Failing : \A n \in Failing : m <= n BY <2>0, Least
    <3> QED BY <3>1 DEF Failing
  <2>2. m # 0
    <3>1. Holds(0) BY <1>5
    <3> HIDE DEF Holds
    <3> QED BY <2>1, <3>1
  <2>3. m - 1 \in 0 .. Len(s) /\ m - 1 \notin Failing
    <3> HIDE DEF Failing
    <3> QED BY <2>1, <2>2
  <2>4. Holds(m - 1)
    <3> HIDE DEF Holds
    <3> QED BY <2>3
  <2>5. m \in 1 .. Len(s) /\ others[m] = step(m, others[m - 1]) BY <1>5, <2>1, <2>2
  <2>6. CASE m \in Ours(s) BY <2>4, <2>5, <2>6, <2>1
  <2>7. CASE m \notin Ours(s)
    <3>1. others[m] = Append(others[m - 1], s[m]) /\ s[m] \in Parts BY <2>5, <2>7
    <3>2. others[m] \in Seq(Parts) BY <2>4, <3>1
    <3>3. Contains(others[m], s[m]) BY <2>4, <3>1 DEF Contains
    <3>4. \A i \in 1 .. (m - 1) : i \notin Ours(s) => Contains(others[m], s[i])
      BY <2>4, <3>1 DEF Contains
    <3>5. \A i \in 1 .. m : i = m \/ i \in 1 .. (m - 1) BY <2>5
    <3>6. Holds(m) BY <3>2, <3>3, <3>4, <3>5
    <3> HIDE DEF Holds
    <3> QED BY <2>1, <3>6
  <2> QED BY <2>6, <2>7
<1>7. Holds(Len(s)) BY <1>6
<1>8. DOMAIN s = 1 .. Len(s) OBVIOUS
<1> QED BY <1>3, <1>7, <1>8

\* Upgrading a file that has cvc's part keeps the user's and has the block.
LEMMA UpgradeKeeps ==
    ASSUME NEW h \in Hooks, NEW s \in Seq(Parts), Ours(s) # {}
    PROVE  /\ WithBlock(h, s) \in Seq(Parts) /\ Contains(WithBlock(h, s), "block")
           /\ \A part \in {"user", "script"} :
                 Contains(s, part) => Contains(WithBlock(h, s), part)
<1>1. CASE h = PostCheckout
  <2> DEFINE n == FirstOurs(s)
             above == SubSeq(s, 1, n - 1)
             below == SubSeq(s, n + 1, Len(s))
             rest == WithoutOurs(below)
             all == above \o <<"block">> \o rest
  <2>1. n \in Ours(s) /\ n \in 1 .. Len(s) /\ \A j \in Ours(s) : n <= j
    BY FirstOursIsFirst DEF Ours
  <2>2. WithBlock(h, s) = all BY <1>1 DEF WithBlock
  <2> HIDE DEF n
  <2>3. /\ above \in Seq(Parts) /\ Len(above) = n - 1
        /\ \A i \in 1 .. (n - 1) : above[i] = s[i]
    BY <2>1
  <2>4. /\ below \in Seq(Parts) /\ Len(below) = Len(s) - n
        /\ \A i \in 1 .. (Len(s) - n) : below[i] = s[n + i]
    BY <2>1
  <2>5. rest \in Seq(Parts) /\ \A i \in DOMAIN below \ Ours(below) : Contains(rest, below[i])
    BY <2>4, OthersStay
  <2> HIDE DEF above, below, rest
  <2>6. <<"block">> \in Seq(Parts) /\ Len(<<"block">>) = 1 BY DEF Parts
  <2> DEFINE most == above \o <<"block">>
  <2>9. /\ most \in Seq(Parts) /\ Len(most) = n
        /\ \A i \in 1 .. (n - 1) : most[i] = above[i]
        /\ most[n] = "block"
    BY <2>1, <2>3, <2>6, Concatenation
  <2> HIDE DEF most
  <2>10. /\ all \in Seq(Parts) /\ Len(all) = n + Len(rest)
         /\ \A i \in 1 .. n : all[i] = most[i]
         /\ \A i \in 1 .. Len(rest) : all[n + i] = rest[i]
    <3>1. all = most \o rest BY <2>5, <2>3, <2>6 DEF most
    <3>2. /\ all \in Seq(Parts) /\ Len(all) = Len(most) + Len(rest)
          /\ \A i \in 1 .. Len(most) : all[i] = most[i]
          /\ \A i \in 1 .. Len(rest) : all[Len(most) + i] = rest[i]
      <4>1. most \in Seq(Parts) /\ rest \in Seq(Parts) BY <2>5, <2>9
      <4> HIDE DEF all
      <4> QED BY <3>1, <4>1, Concatenation
    <3> HIDE DEF all
    <3> QED BY <2>1, <2>5, <2>9, <3>2
  <2> HIDE DEF all
  <2>11. \A i \in 1 .. (n - 1) : all[i] = above[i] BY <2>1, <2>9, <2>10
  <2>7. Contains(all, "block") BY <2>1, <2>5, <2>9, <2>10 DEF Contains
  <2>8. ASSUME NEW part \in {"user", "script"}, NEW i \in 1 .. Len(s), s[i] = part
        PROVE  Contains(all, part)
    <3>1. i \notin Ours(s) BY <2>8 DEF Ours
    <3>2. CASE i < n BY <2>1, <2>3, <2>5, <2>10, <2>11, <2>8, <3>2 DEF Contains
    <3>3. CASE i > n
      <4>1. i - n \in DOMAIN below /\ below[i - n] = part BY <2>1, <2>4, <2>8, <3>3
      <4>2. i - n \notin Ours(below) BY <2>8, <4>1 DEF Ours
      <4>3. Contains(rest, part) BY <2>5, <4>1, <4>2
      <4>4. PICK j \in 1 .. Len(rest) : rest[j] = part BY <4>3 DEF Contains
      <4>5. n + j \in 1 .. Len(all) /\ all[n + j] = part BY <2>1, <2>5, <2>10, <4>4
      <4> QED BY <4>5 DEF Contains
    <3> QED BY <2>1, <3>1, <3>2, <3>3
  <2> QED BY <2>2, <2>10, <2>7, <2>8 DEF Contains
<1>2. CASE h # PostCheckout
  <2>1. WithBlock(h, s) = [i \in DOMAIN s |-> IF s[i] = "older" THEN "block" ELSE s[i]]
    BY <1>2 DEF WithBlock
  <2>2. PICK i \in DOMAIN s : s[i] \in {"block", "older"} BY DEF Ours
  <2>3. WithBlock(h, s) \in Seq(Parts) /\ Len(WithBlock(h, s)) = Len(s) BY <2>1 DEF Parts
  <2> QED BY <2>1, <2>2, <2>3 DEF Contains
<1> QED BY <1>1, <1>2

\* A text that is written at a position is there then.
LEMMA OverHas ==
    ASSUME NEW s \in Seq(Parts), NEW new \in Seq(Parts), NEW from \in Nat
    PROVE  /\ Over(s, from, new) \in Seq(Parts)
           /\ \A part : Contains(new, part) => Contains(Over(s, from, new), part)
<1> DEFINE n == IF from <= Len(s) THEN from ELSE Len(s)
           above == SubSeq(s, 1, n)
           below == SubSeq(s, from + Len(new) + 1, Len(s))
           all == above \o new \o below
<1>1. Over(s, from, new) = all BY DEF Over
<1>2. n \in 0 .. Len(s) OBVIOUS
<1>3. above \in Seq(Parts) /\ Len(above) = n BY <1>2
<1>4. below \in Seq(Parts) OBVIOUS
<1> HIDE DEF above, below, n
<1>5. /\ all \in Seq(Parts) /\ Len(all) = n + Len(new) + Len(below)
      /\ \A i \in 1 .. Len(new) : all[n + i] = new[i]
  <2> DEFINE most == above \o new
  <2>1. /\ most \in Seq(Parts) /\ Len(most) = n + Len(new)
        /\ \A i \in 1 .. Len(new) : most[n + i] = new[i]
    <3>1. /\ most \in Seq(Parts) /\ Len(most) = Len(above) + Len(new)
          /\ \A i \in 1 .. Len(new) : most[Len(above) + i] = new[i]
      <4>1. above \in Seq(Parts) /\ new \in Seq(Parts) BY <1>3
      <4>2. above \o new \in Seq(Parts) BY <4>1, Concatenation
      <4>3. Len(above \o new) = Len(above) + Len(new) BY <4>1, Concatenation
      <4>4. \A i \in 1 .. Len(new) : (above \o new)[Len(above) + i] = new[i] BY <4>1, Concatenation
      <4> QED BY <4>2, <4>3, <4>4
    <3> HIDE DEF most
    <3> QED BY <1>2, <1>3, <3>1
  <2>2. \A i \in 1 .. Len(new) : n + i \in 1 .. Len(most) BY <1>2, <2>1
  <2> HIDE DEF most
  <2>3. /\ all \in Seq(Parts) /\ Len(all) = Len(most) + Len(below)
        /\ \A i \in 1 .. Len(most) : all[i] = most[i]
    BY <1>4, <2>1, Concatenation DEF most
  <2> HIDE DEF all
  <2> QED BY <2>1, <2>2, <2>3
<1>6. ASSUME NEW i \in 1 .. Len(new) PROVE n + i \in 1 .. Len(all)
  BY <1>2, <1>4, <1>5
<1> HIDE DEF all
<1> QED BY <1>1, <1>5, <1>6 DEF Contains

\* The hooks a command installs are hooks.
LEMMA CoreHooksInSeq == SetToSeq(CoreHooks) \in Seq(Hooks)
<1>1. IsFiniteSet(CoreHooks) BY SetupOK
<1>2. \E f \in [1 .. Cardinality(CoreHooks) -> CoreHooks] : IsInjective(f)
  <2>1. PICK n \in Nat : ExistsBijection(1 .. n, CoreHooks) BY <1>1, FS_NatBijection
  <2>2. n = Cardinality(CoreHooks) BY <2>1, FS_CountingElements
  <2> QED BY <2>1, <2>2 DEF ExistsBijection, Bijection, Injection, IsInjective
<1>3. SetToSeq(CoreHooks) \in [1 .. Cardinality(CoreHooks) -> CoreHooks]
  BY <1>2 DEF SetToSeq
<1>4. Cardinality(CoreHooks) \in Nat BY <1>1, FS_CardinalityType
<1> QED BY <1>3, <1>4 DEF Hooks
-----------------------------------------------------------------------------
(* How a command or a hook moves                                           *)

LEMMA RunnersApart ==
    /\ Commands \subseteq Runners /\ Worktrees \subseteq Runners
    /\ Runners \subseteq Commands \cup Worktrees
BY DEF Runners

LEMMA IdleIsRun == Idle \in Run /\ Ended \in Run
<1>1. Idle \in Run BY SetupOK DEF Idle, Run, NoSettings, Settings, Position
<1>2. Ended \in Run BY <1>1 DEF Ended, Run, Position
<1> QED BY <1>1, <1>2

\* Runner x comes to be at r and no other moves.
Becomes(x, r) ==
    /\ run' \in [Runners -> Run] /\ run'[x] = r
    /\ \A y \in Runners \ {x} : run'[y] = run[y]
LEMMA Moves ==
    ASSUME TypeOK, NEW x \in Runners, NEW r \in Run, run' = [run EXCEPT ![x] = r]
    PROVE  Becomes(x, r)
BY DEF TypeOK, Becomes

LEMMA GoMoves ==
    ASSUME TypeOK, NEW x \in Runners, NEW pc \in Position, Go(x, pc)
    PROVE  Becomes(x, [run[x] EXCEPT !.pc = pc])
<1>1. [run[x] EXCEPT !.pc = pc] \in Run BY ZenonT(40) DEF TypeOK, Run
<1>2. run' = [run EXCEPT ![x] = [run[x] EXCEPT !.pc = pc]] BY DEF Go, TypeOK
<1> QED BY <1>1, <1>2, Moves

LEMMA NextHookMoves ==
    ASSUME TypeOK, NEW x \in Runners, NEW whole \in BOOLEAN, NextHook(x, whole),
           run[x].hooks # <<>>
    PROVE  Becomes(x, [run[x] EXCEPT !.pc = "hooks", !.hooks = Tail(@), !.text = <<>>,
                                     !.whole = @ /\ whole])
<1>1. [run[x] EXCEPT !.pc = "hooks", !.hooks = Tail(@), !.text = <<>>,
                     !.whole = @ /\ whole] \in Run
  <2>1. run[x] \in Run BY DEF TypeOK
  <2>2. /\ Tail(run[x].hooks) \in Seq(Hooks) /\ <<>> \in Seq(Parts)
        /\ (run[x].whole /\ whole) \in BOOLEAN
    BY <2>1 DEF Run
  <2>3. ASSUME NEW hooks \in Seq(Hooks), NEW text \in Seq(Parts), NEW on \in BOOLEAN
        PROVE  [run[x] EXCEPT !.pc = "hooks", !.hooks = hooks, !.text = text, !.whole = on] \in Run
    BY <2>1 DEF Run, Position
  <2> QED BY Zenon, <2>2, <2>3
<1>2. run' = [run EXCEPT ![x] = [run[x] EXCEPT !.pc = "hooks", !.hooks = Tail(@), !.text = <<>>,
                                               !.whole = @ /\ whole]]
  BY DEF NextHook, TypeOK
<1> QED BY <1>1, <1>2, Moves

LEMMA StartMoves ==
    ASSUME TypeOK, NEW x \in Commands
    PROVE  /\ StartInstall(x) => \E w \in made, b \in Binaries, kept \in BOOLEAN :
                /\ Branch[w] \in {"plain", "unignored"}
                /\ Becomes(x, [Idle EXCEPT !.pc = "exclude", !.tree = w, !.bin = b,
                                           !.kept = kept, !.whole = TRUE])
           /\ StartUninstall(x) => \E w \in made :
                Becomes(x, [Idle EXCEPT !.pc = IF Branch[w] = "linked" THEN "clear" ELSE "take",
                                        !.tree = w])
           /\ StartHooks(x) => \E hs \in Seq(Hooks) :
                Becomes(x, [Idle EXCEPT !.pc = "hooks", !.hooks = hs])
<1> USE RunnersApart
<1>1. ASSUME StartInstall(x)
      PROVE  \E w \in made, b \in Binaries, kept \in BOOLEAN :
                /\ Branch[w] \in {"plain", "unignored"}
                /\ Becomes(x, [Idle EXCEPT !.pc = "exclude", !.tree = w, !.bin = b,
                                           !.kept = kept, !.whole = TRUE])
  <2>1. PICK w \in made, b \in Binaries, kept \in BOOLEAN :
          /\ Branch[w] \in {"plain", "unignored"}
          /\ run' = [run EXCEPT ![x] = [Idle EXCEPT !.pc = "exclude", !.tree = w, !.bin = b,
                                                    !.kept = kept, !.whole = TRUE]]
    BY Zenon, <1>1 DEF StartInstall
  <2>2. [Idle EXCEPT !.pc = "exclude", !.tree = w, !.bin = b, !.kept = kept, !.whole = TRUE] \in Run
    BY IdleIsRun DEF TypeOK, Run, Position
  <2>3. Becomes(x, [Idle EXCEPT !.pc = "exclude", !.tree = w, !.bin = b, !.kept = kept, !.whole = TRUE])
    BY <2>1, <2>2, Moves
  <2> QED BY Zenon, <2>1, <2>3
<1>2. ASSUME StartUninstall(x)
      PROVE  \E w \in made :
                Becomes(x, [Idle EXCEPT !.pc = IF Branch[w] = "linked" THEN "clear" ELSE "take",
                                        !.tree = w])
  <2>1. PICK w \in made :
          run' = [run EXCEPT ![x] =
                    [Idle EXCEPT !.pc = IF Branch[w] = "linked" THEN "clear" ELSE "take", !.tree = w]]
    BY Zenon, <1>2 DEF StartUninstall
  <2>2. [Idle EXCEPT !.pc = IF Branch[w] = "linked" THEN "clear" ELSE "take", !.tree = w] \in Run
    BY IdleIsRun DEF TypeOK, Run, Position
  <2>3. Becomes(x, [Idle EXCEPT !.pc = IF Branch[w] = "linked" THEN "clear" ELSE "take", !.tree = w])
    BY <2>1, <2>2, Moves
  <2> QED BY Zenon, <2>3
<1>3. ASSUME StartHooks(x)
      PROVE  \E hs \in Seq(Hooks) : Becomes(x, [Idle EXCEPT !.pc = "hooks", !.hooks = hs])
  <2>1. PICK hs \in {SetToSeq(CoreHooks), Append(SetToSeq(CoreHooks), PostCheckout)} :
          run' = [run EXCEPT ![x] = [Idle EXCEPT !.pc = "hooks", !.hooks = hs]]
    BY <1>3 DEF StartHooks
  <2>2. PostCheckout \in Hooks BY DEF Hooks
  <2>3. hs \in Seq(Hooks) BY <2>1, <2>2, CoreHooksInSeq
  <2>4. [Idle EXCEPT !.pc = "hooks", !.hooks = hs] \in Run
    BY <2>3, IdleIsRun DEF Run, Position
  <2>5. Becomes(x, [Idle EXCEPT !.pc = "hooks", !.hooks = hs])
    BY <2>1, <2>4, Moves
  <2> QED BY Zenon, <2>3, <2>5
<1> QED BY Zenon, <1>1, <1>2, <1>3

LEMMA InstallMoves ==
    ASSUME TypeOK, NEW x \in Runners
    PROVE  /\ Exclude(x) => Becomes(x, [run[x] EXCEPT !.pc = "ask"])
           /\ Ask(x) => Becomes(x, IF IsCommand(x) \/ Ignored(Tree(x))
                                   THEN [run[x] EXCEPT !.pc = "read"] ELSE Ended)
           /\ ReadSettings(x) => Becomes(x, [run[x] EXCEPT !.pc = "write", !.seen = settings[Tree(x)]])
           /\ WriteSettings(x) =>
                Becomes(x, IF ~IsCommand(x) THEN Ended
                           ELSE IF run[x].kept
                                THEN [run[x] EXCEPT !.pc = "record", !.seen = NoSettings] ELSE Idle)
           /\ Die(x) => Becomes(x, IF IsCommand(x) THEN Idle ELSE Ended)
<1> USE IdleIsRun
<1>1. Exclude(x) => Becomes(x, [run[x] EXCEPT !.pc = "ask"])
  BY GoMoves DEF Exclude, Position
<1>2. ASSUME Ask(x)
      PROVE  Becomes(x, IF IsCommand(x) \/ Ignored(Tree(x))
                        THEN [run[x] EXCEPT !.pc = "read"] ELSE Ended)
  <2>1. [run[x] EXCEPT !.pc = "read"] \in Run BY ZenonT(40) DEF TypeOK, Run, Position
  <2> QED BY <1>2, <2>1, Moves DEF Ask, TypeOK
<1>3. ASSUME ReadSettings(x)
      PROVE  Becomes(x, [run[x] EXCEPT !.pc = "write", !.seen = settings[Tree(x)]])
  <2>1. [run[x] EXCEPT !.pc = "write", !.seen = settings[Tree(x)]] \in Run
    BY ZenonT(40) DEF TypeOK, Run, Position, Tree
  <2>2. run' = [run EXCEPT ![x] = [run[x] EXCEPT !.pc = "write", !.seen = settings[Tree(x)]]]
    BY <1>3 DEF ReadSettings, TypeOK
  <2> QED BY <2>1, <2>2, Moves
<1>4. ASSUME WriteSettings(x)
      PROVE  Becomes(x, IF ~IsCommand(x) THEN Ended
                        ELSE IF run[x].kept
                             THEN [run[x] EXCEPT !.pc = "record", !.seen = NoSettings] ELSE Idle)
  <2>1. [run[x] EXCEPT !.pc = "record", !.seen = NoSettings] \in Run
    BY ZenonT(40) DEF TypeOK, Run, Position, NoSettings, Settings
  <2>2. CASE ~IsCommand(x)
    <3>1. run' = [run EXCEPT ![x] = Ended] BY <1>4, <2>2 DEF WriteSettings, TypeOK
    <3>2. Becomes(x, Ended) BY <3>1, Moves
    <3> QED BY <2>2, <3>2
  <2>3. CASE IsCommand(x) /\ run[x].kept
    <3>1. run' = [run EXCEPT ![x] = [run[x] EXCEPT !.pc = "record", !.seen = NoSettings]]
      BY <1>4, <2>3 DEF WriteSettings, TypeOK
    <3>2. Becomes(x, [run[x] EXCEPT !.pc = "record", !.seen = NoSettings])
      BY <2>1, <3>1, Moves
    <3> QED BY <2>3, <3>2
  <2>4. CASE IsCommand(x) /\ ~run[x].kept
    <3>1. run' = [run EXCEPT ![x] = Idle] BY <1>4, <2>4 DEF WriteSettings
    <3> QED BY <2>4, <3>1, Moves
  <2> QED BY <2>2, <2>3, <2>4
<1>5. Die(x) => Becomes(x, IF IsCommand(x) THEN Idle ELSE Ended)
  BY Moves DEF Die
<1> QED BY <1>1, <1>2, <1>3, <1>4, <1>5

LEMMA UninstallMoves ==
    ASSUME TypeOK, NEW x \in Runners
    PROVE  /\ TakeSettings(x) => Becomes(x,
                [run[x] EXCEPT !.seen = settings[Tree(x)], !.amid = {Tree(x)} \ Through,
                               !.pc = IF Carries(Tree(x)) THEN "drop" ELSE "clear"])
           /\ DropEntries(x) => Becomes(x, [run[x] EXCEPT !.pc = "clear"])
           /\ ListWorktrees(x) => Becomes(x, [run[x] EXCEPT !.pc = "look", !.left = made \ {Tree(x)}])
           /\ LookInto(x) => \E w \in run[x].left :
                Becomes(x, [run[x] EXCEPT !.left = @ \ {w},
                                          !.named = IF Carries(w) THEN @ \cup {w} ELSE @])
           /\ Told(x) \/ HooksDone(x) => Becomes(x, Idle)
           /\ WriteRecord(x) => Becomes(x, [run[x] EXCEPT !.pc = "hooks", !.hooks = <<PostCheckout>>])
<1> USE IdleIsRun
<1>1. ASSUME TakeSettings(x)
      PROVE  Becomes(x, [run[x] EXCEPT !.seen = settings[Tree(x)], !.amid = {Tree(x)} \ Through,
                                       !.pc = IF Carries(Tree(x)) THEN "drop" ELSE "clear"])
  <2>1. [run[x] EXCEPT !.seen = settings[Tree(x)], !.amid = {Tree(x)} \ Through,
                       !.pc = IF Carries(Tree(x)) THEN "drop" ELSE "clear"] \in Run
    <3>1. run[x] \in Run /\ Tree(x) \in Worktrees BY DEF TypeOK, Run, Tree
    <3>2. settings[Tree(x)] \in Settings /\ {Tree(x)} \ Through \in SUBSET Worktrees
      BY <3>1 DEF TypeOK
    <3>3. ASSUME NEW seen \in Settings, NEW amid \in SUBSET Worktrees, NEW pc \in Position
          PROVE  [run[x] EXCEPT !.seen = seen, !.amid = amid, !.pc = pc] \in Run
      BY <3>1 DEF Run
    <3> QED BY Zenon, <3>2, <3>3 DEF Position
  <2>2. run' = [run EXCEPT ![x] =
          [run[x] EXCEPT !.seen = settings[Tree(x)], !.amid = {Tree(x)} \ Through,
                         !.pc = IF Carries(Tree(x)) THEN "drop" ELSE "clear"]]
    BY <1>1 DEF TakeSettings, TypeOK
  <2> QED BY Zenon, <2>1, <2>2, Moves
<1>2. DropEntries(x) => Becomes(x, [run[x] EXCEPT !.pc = "clear"])
  BY GoMoves DEF DropEntries, Position
<1>3. ASSUME ListWorktrees(x)
      PROVE  Becomes(x, [run[x] EXCEPT !.pc = "look", !.left = made \ {Tree(x)}])
  <2>1. [run[x] EXCEPT !.pc = "look", !.left = made \ {Tree(x)}] \in Run
    BY DEF TypeOK, Run, Position
  <2>2. run' = [run EXCEPT ![x] = [run[x] EXCEPT !.pc = "look", !.left = made \ {Tree(x)}]]
    BY <1>3 DEF ListWorktrees, TypeOK
  <2> QED BY <2>1, <2>2, Moves
<1>4. ASSUME LookInto(x)
      PROVE  \E w \in run[x].left :
                Becomes(x, [run[x] EXCEPT !.left = @ \ {w},
                                          !.named = IF Carries(w) THEN @ \cup {w} ELSE @])
  <2>1. PICK w \in run[x].left :
          run' = [run EXCEPT ![x].left = @ \ {w},
                             ![x].named = IF Carries(w) THEN @ \cup {w} ELSE @]
    BY <1>4 DEF LookInto
  <2>2. [run[x] EXCEPT !.left = @ \ {w}, !.named = IF Carries(w) THEN @ \cup {w} ELSE @] \in Run
    <3>1. run[x] \in Run BY DEF TypeOK
    <3>2. /\ run[x].left \ {w} \in SUBSET Worktrees
          /\ (IF Carries(w) THEN run[x].named \cup {w} ELSE run[x].named) \in SUBSET Worktrees
      BY <3>1 DEF Run
    <3>3. ASSUME NEW left \in SUBSET Worktrees, NEW named \in SUBSET Worktrees
          PROVE  [run[x] EXCEPT !.left = left, !.named = named] \in Run
      BY <3>1 DEF Run
    <3> QED BY Zenon, <3>2, <3>3
  <2>3. run' = [run EXCEPT ![x] =
          [run[x] EXCEPT !.left = @ \ {w}, !.named = IF Carries(w) THEN @ \cup {w} ELSE @]]
    BY <2>1 DEF TypeOK
  <2> QED BY Zenon, <2>2, <2>3, Moves
<1>5. Told(x) \/ HooksDone(x) => Becomes(x, Idle)
  BY Moves DEF Told, HooksDone
<1>6. ASSUME WriteRecord(x)
      PROVE  Becomes(x, [run[x] EXCEPT !.pc = "hooks", !.hooks = <<PostCheckout>>])
  <2>1. PostCheckout \in Hooks BY DEF Hooks
  <2>2. [run[x] EXCEPT !.pc = "hooks", !.hooks = <<PostCheckout>>] \in Run
    <3>1. run[x] \in Run /\ <<PostCheckout>> \in Seq(Hooks) BY <2>1 DEF TypeOK
    <3>2. ASSUME NEW hooks \in Seq(Hooks)
          PROVE  [run[x] EXCEPT !.pc = "hooks", !.hooks = hooks] \in Run
      BY <3>1 DEF Run, Position
    <3> QED BY Zenon, <3>1, <3>2
  <2>3. run' = [run EXCEPT ![x] = [run[x] EXCEPT !.pc = "hooks", !.hooks = <<PostCheckout>>]]
    BY <1>6 DEF WriteRecord, TypeOK
  <2> QED BY <2>2, <2>3, Moves
<1> QED BY Zenon, <1>1, <1>2, <1>3, <1>4, <1>5, <1>6

\* The hook file a command is at, and what it leaves of itself when it is through with it.
Amid == {"create", "fill", "cut", "rewrite", "append"}
Passed(r, whole) ==
    [r EXCEPT !.pc = "hooks", !.hooks = Tail(@), !.text = <<>>, !.whole = @ /\ whole]

LEMMA HookMoves ==
    ASSUME TypeOK, NEW x \in Commands, run[x].pc \in Amid => run[x].hooks # <<>>
    PROVE  /\ Absent(x) => Becomes(x, [run[x] EXCEPT !.pc = "create"])
           /\ Present(x) => Becomes(x, Passed(run[x], TRUE))
           /\ Outdated(x) => Becomes(x, [run[x] EXCEPT !.pc = "cut", !.text = WithBlock(Hook(x), file[Hook(x)])])
           /\ Lacking(x) => Becomes(x, [run[x] EXCEPT !.pc = "append"])
           /\ NotShell(x) => Becomes(x, Passed(run[x], FALSE))
           /\ HookAppend(x) \/ HookFill(x) \/ HookRewrite(x) => Becomes(x, Passed(run[x], TRUE))
           /\ HookCreate(x) => Becomes(x, [run[x] EXCEPT !.pc = "fill"])
           /\ HookCut(x) => Becomes(x, [run[x] EXCEPT !.pc = "rewrite"])
<1> USE RunnersApart
<1>1. Absent(x) => Becomes(x, [run[x] EXCEPT !.pc = "create"])
  BY GoMoves DEF Absent, Position
<1>2. Lacking(x) => Becomes(x, [run[x] EXCEPT !.pc = "append"])
  BY GoMoves DEF Lacking, Position
<1>3. HookCreate(x) => Becomes(x, [run[x] EXCEPT !.pc = "fill"])
  BY GoMoves DEF HookCreate, Position
<1>4. HookCut(x) => Becomes(x, [run[x] EXCEPT !.pc = "rewrite"])
  BY GoMoves DEF HookCut, Position
<1>5. Present(x) => Becomes(x, Passed(run[x], TRUE))
  BY Zenon, NextHookMoves DEF Present, Undecided, Passed
<1>6. NotShell(x) => Becomes(x, Passed(run[x], FALSE))
  BY Zenon, NextHookMoves DEF NotShell, Undecided, Passed
<1>7. HookAppend(x) \/ HookFill(x) \/ HookRewrite(x) => Becomes(x, Passed(run[x], TRUE))
  BY Zenon, NextHookMoves DEF HookAppend, HookFill, HookRewrite, At, Passed, Amid
<1>8. ASSUME Outdated(x)
      PROVE  Becomes(x, [run[x] EXCEPT !.pc = "cut", !.text = WithBlock(Hook(x), file[Hook(x)])])
  <2>1. run[x] \in Run /\ run[x].hooks \in Seq(Hooks) /\ run[x].hooks # <<>>
    BY <1>8 DEF TypeOK, Run, Outdated, Undecided
  <2>2. Hook(x) \in Hooks BY <2>1 DEF Hook
  <2>3. file[Hook(x)] \in Seq(Parts) /\ Ours(file[Hook(x)]) # {}
    BY <1>8, <2>2 DEF Outdated, HasBlock, TypeOK
  <2>4. WithBlock(Hook(x), file[Hook(x)]) \in Seq(Parts) BY <2>2, <2>3, UpgradeKeeps
  <2>5. ASSUME NEW text \in Seq(Parts)
        PROVE  [run[x] EXCEPT !.pc = "cut", !.text = text] \in Run
    BY <2>1 DEF Run, Position
  <2>6. run' = [run EXCEPT ![x] =
                  [run[x] EXCEPT !.pc = "cut", !.text = WithBlock(Hook(x), file[Hook(x)])]]
    BY <1>8 DEF Outdated, TypeOK
  <2> QED BY Zenon, <2>4, <2>5, <2>6, Moves
<1> QED BY <1>1, <1>2, <1>3, <1>4, <1>5, <1>6, <1>7, <1>8

LEMMA GoOnMoves ==
    ASSUME TypeOK, NEW x \in Commands, GoOn(x)
    PROVE  \/ run[x].pc \in {"take", "drop"} /\ Becomes(x, [run[x] EXCEPT !.pc = "clear"])
           \/ At(x, "clear") /\ Becomes(x, [run[x] EXCEPT !.pc = "list"])
           \/ At(x, "list") /\ Becomes(x, [run[x] EXCEPT !.pc = "look"])
           \/ At(x, "record") /\ Becomes(x, [run[x] EXCEPT !.pc = "hooks", !.hooks = <<PostCheckout>>,
                                                           !.whole = FALSE])
<1> USE RunnersApart
<1>1. CASE run[x].pc \in {"take", "drop"} /\ Go(x, "clear") BY <1>1, GoMoves DEF Position
<1>2. CASE At(x, "clear") /\ Go(x, "list") BY <1>2, GoMoves DEF Position
<1>3. CASE At(x, "list") /\ Go(x, "look") BY <1>3, GoMoves DEF Position
<1>4. CASE /\ At(x, "record")
           /\ run' = [run EXCEPT ![x].pc = "hooks", ![x].hooks = <<PostCheckout>>, ![x].whole = FALSE]
  <2>1. run[x] \in Run /\ <<PostCheckout>> \in Seq(Hooks) BY DEF TypeOK, Hooks
  <2>2. ASSUME NEW hooks \in Seq(Hooks)
        PROVE  [run[x] EXCEPT !.pc = "hooks", !.hooks = hooks, !.whole = FALSE] \in Run
    BY <2>1 DEF Run, Position
  <2>3. run' = [run EXCEPT ![x] =
                  [run[x] EXCEPT !.pc = "hooks", !.hooks = <<PostCheckout>>, !.whole = FALSE]]
    BY <1>4 DEF TypeOK
  <2>4. Becomes(x, [run[x] EXCEPT !.pc = "hooks", !.hooks = <<PostCheckout>>, !.whole = FALSE])
    BY Zenon, <2>1, <2>2, <2>3, Moves
  <2> QED BY <1>4, <2>4
<1> QED BY <1>1, <1>2, <1>3, <1>4 DEF GoOn

LEMMA AddedMoves ==
    ASSUME TypeOK, NEW w \in Worktrees
    PROVE  /\ AddWorktree(w) =>
                Becomes(w, IF HasBlock(PostCheckout) THEN [Idle EXCEPT !.pc = "shell", !.tree = w] ELSE Ended)
           /\ ShellReads(w) =>
                Becomes(w, IF record = None THEN Ended ELSE [run[w] EXCEPT !.pc = "propagate"])
           /\ Propagate(w) =>
                Becomes(w, IF /\ record # None /\ acknowledged
                              /\ Branch[w] \notin {"linked", "tracked"} /\ settings[w] = NoSettings
                           THEN [run[w] EXCEPT !.pc = "exclude", !.bin = record] ELSE Ended)
<1> USE RunnersApart, IdleIsRun
<1>1. ASSUME AddWorktree(w)
      PROVE  Becomes(w, IF HasBlock(PostCheckout) THEN [Idle EXCEPT !.pc = "shell", !.tree = w] ELSE Ended)
  <2>1. [Idle EXCEPT !.pc = "shell", !.tree = w] \in Run BY DEF Run, Position
  <2> QED BY <1>1, <2>1, Moves DEF AddWorktree
<1>2. ASSUME ShellReads(w)
      PROVE  Becomes(w, IF record = None THEN Ended ELSE [run[w] EXCEPT !.pc = "propagate"])
  <2>1. [run[w] EXCEPT !.pc = "propagate"] \in Run BY ZenonT(40) DEF TypeOK, Run, Position
  <2>2. run' = [run EXCEPT ![w] = IF record = None THEN Ended ELSE [run[w] EXCEPT !.pc = "propagate"]]
    BY <1>2 DEF ShellReads, TypeOK
  <2> QED BY <2>1, <2>2, Moves
<1>3. ASSUME Propagate(w)
      PROVE  Becomes(w, IF /\ record # None /\ acknowledged
                           /\ Branch[w] \notin {"linked", "tracked"} /\ settings[w] = NoSettings
                        THEN [run[w] EXCEPT !.pc = "exclude", !.bin = record] ELSE Ended)
  <2>1. [run[w] EXCEPT !.pc = "exclude", !.bin = record] \in Run BY ZenonT(40) DEF TypeOK, Run, Position
  <2>2. run' = [run EXCEPT ![w] =
                  IF /\ record # None /\ acknowledged
                     /\ Branch[w] \notin {"linked", "tracked"} /\ settings[w] = NoSettings
                  THEN [run[w] EXCEPT !.pc = "exclude", !.bin = record] ELSE Ended]
    BY <1>3 DEF Propagate, TypeOK
  <2> QED BY <2>1, <2>2, Moves
<1> QED BY <1>1, <1>2, <1>3

\* An uninstall that clears the record moves itself; of the other commands an
\* install no longer counts as whole.
LEMMA ClearMoves ==
    ASSUME TypeOK, NEW x \in Commands, ClearRecord(x)
    PROVE  /\ run' \in [Runners -> Run]
           /\ run'[x] = [run[x] EXCEPT !.pc = "list", !.seen = NoSettings, !.amid = @ \cup Propagating]
           /\ \A y \in Commands \ {x} : run'[y] = [run[y] EXCEPT !.whole = FALSE]
           /\ \A w \in Worktrees : run'[w] = run[w]
<1> DEFINE at == [run[x] EXCEPT !.pc = "list", !.seen = NoSettings, !.amid = @ \cup Propagating]
<1>0. \A w \in Worktrees : w \notin Commands BY SetupOK
<1>1. /\ \A y \in Runners : y \notin Commands => y \in Worktrees
      /\ Commands \subseteq Runners /\ Worktrees \subseteq Runners
  BY DEF Runners
<1>2. run' = [y \in Runners |-> IF y = x THEN at
                                ELSE IF y \in Commands THEN [run[y] EXCEPT !.whole = FALSE] ELSE run[y]]
  <2> DEFINE moved(y) == CASE y = x -> at
                           [] y # x /\ y \in Commands -> [run[y] EXCEPT !.whole = FALSE]
                           [] OTHER -> run[y]
  <2>1. run' = [y \in Runners |-> moved(y)] BY DEF ClearRecord
  <2>2. ASSUME NEW y \in Runners
        PROVE  moved(y) = IF y = x THEN at
                          ELSE IF y \in Commands THEN [run[y] EXCEPT !.whole = FALSE] ELSE run[y]
    <3> HIDE DEF at
    <3> QED OBVIOUS
  <2> HIDE DEF moved, at
  <2> QED BY <2>1, <2>2
<1>3. at \in Run
  <2>1. run[x] \in Run /\ NoSettings \in Settings BY <1>1, IdleIsRun DEF TypeOK, Idle, Run
  <2>2. run[x].amid \cup Propagating \in SUBSET Worktrees BY <2>1 DEF Run, Propagating
  <2>3. ASSUME NEW seen \in Settings, NEW amid \in SUBSET Worktrees
        PROVE  [run[x] EXCEPT !.pc = "list", !.seen = seen, !.amid = amid] \in Run
    BY <2>1 DEF Run, Position
  <2> QED BY Zenon, <2>1, <2>2, <2>3
<1> HIDE DEF at
<1>4. \A y \in Runners : run[y] \in Run /\ [run[y] EXCEPT !.whole = FALSE] \in Run
  BY ZenonT(40) DEF TypeOK, Run
<1>5. run' \in [Runners -> Run] BY <1>2, <1>3, <1>4
<1>6. run'[x] = at BY <1>1, <1>2
<1>7. \A y \in Commands \ {x} : run'[y] = [run[y] EXCEPT !.whole = FALSE] BY <1>1, <1>2
<1>8. \A w \in Worktrees : run'[w] = run[w] BY <1>0, <1>1, <1>2
<1> QED BY <1>5, <1>6, <1>7, <1>8 DEF at
-----------------------------------------------------------------------------
(* Every variable stays within its type, and every runner in its part      *)

\* Where r, of runner x, may stand with these worktrees and hook files: the hook
\* of a worktree works on that worktree, once it is made; a command that is in
\* the middle of a hook file has that file before it.
Fits(x, r, trees, hookFiles) ==
    /\ x \in Commands => r.pc \notin {"shell", "propagate", "ended"}
    /\ x \in Worktrees =>
         /\ r.pc \in {"idle", "shell", "propagate", "exclude", "ask", "read", "write", "ended"}
         /\ r.pc \notin {"idle", "ended"} => r.tree = x
         /\ x \notin trees => r.pc = "idle"
    /\ r.tree \in trees
    /\ r.pc \in Amid =>
         r.hooks # <<>> /\ (r.pc # "create" => hookFiles[Head(r.hooks)] # None)
Shape ==
    /\ \A x \in Runners : Fits(x, run[x], made, file)
    /\ \A w \in Worktrees \ made : ~Carries(w)
Sound == TypeOK /\ Shape

LEMMA InitSound == Init => Sound
<1> SUFFICES ASSUME Init PROVE Sound OBVIOUS
<1> USE SetupOK DEF Init
<1>1. TypeOK
  <2>1. run \in [Runners -> Run] BY IdleIsRun
  <2>2. settings \in [Worktrees -> Settings] BY DEF NoSettings, Settings
  <2>3. file \in [Hooks -> Seq(Parts) \cup {None}] OBVIOUS
  <2>4. starts \in 0 .. MaxStarts /\ upsets \in 0 .. MaxUpsets OBVIOUS
  <2>5. torn \cup misread \cup served \subseteq Hooks /\ unattended \cup owed \subseteq Worktrees
    OBVIOUS
  <2>6. made \subseteq Worktrees /\ Main \in made OBVIOUS
  <2> QED
    <3> HIDE SetupOK DEF Init
    <3>1. excluded = FALSE /\ record = None /\ acknowledged = FALSE /\ promised = FALSE /\ quiet = {}
      BY DEF Init
    <3> QED BY <2>1, <2>2, <2>3, <2>4, <2>5, <2>6, <3>1 DEF TypeOK
<1>2. \A x \in Runners : Fits(x, run[x], made, file)
  BY DEF Fits, Idle, Runners, Amid
<1>3. \A w \in Worktrees \ made : ~Carries(w) BY DEF Carries, NoSettings
<1> QED BY <1>1, <1>2, <1>3 DEF Sound, Shape

\* What a runner that does not move needs is still there.
LEMMA FitsStill ==
    ASSUME Sound, NEW x \in Runners, run'[x] = run[x], made \subseteq made',
           \A h \in Hooks : file[h] # None => file'[h] # None
    PROVE  Fits(x, run'[x], made', file')
<1>1. Fits(x, run[x], made, file) BY DEF Sound, Shape
<1>2. run[x].pc \in Amid => Head(run[x].hooks) \in Hooks
  <2>1. run[x].hooks \in Seq(Hooks) BY DEF Sound, TypeOK, Run
  <2> QED BY <1>1, <2>1 DEF Fits
<1> QED BY <1>1, <1>2 DEF Fits

LEMMA ShapeMoves ==
    ASSUME Sound, NEW x \in Runners, NEW r, Becomes(x, r), made \subseteq made',
           \A h \in Hooks : file[h] # None => file'[h] # None,
           Fits(x, r, made', file'),
           \A w \in Worktrees \ made' : settings'[w].ours = None
    PROVE  Shape'
<1>1. \A y \in Runners \ {x} : Fits(y, run'[y], made', file')
  BY FitsStill DEF Becomes
<1>2. Fits(x, run'[x], made', file') BY DEF Becomes
<1> QED BY <1>1, <1>2 DEF Shape, Carries

\* The hook a command is at is a hook, and in the middle of it the file is there.
LEMMA HookIsHook ==
    ASSUME Sound, NEW x \in Commands, run[x].hooks # <<>>
    PROVE  Hook(x) \in Hooks /\ Tail(run[x].hooks) \in Seq(Hooks)
<1>1. run[x].hooks \in Seq(Hooks) BY RunnersApart DEF Sound, TypeOK, Run
<1> QED BY <1>1 DEF Hook

LEMMA AmidHook ==
    ASSUME Sound, NEW x \in Commands, run[x].pc \in Amid
    PROVE  /\ run[x].hooks # <<>> /\ Hook(x) \in Hooks
           /\ run[x].pc # "create" => file[Hook(x)] \in Seq(Parts)
<1>1. run[x].hooks # <<>> /\ (run[x].pc # "create" => file[Hook(x)] # None)
  BY RunnersApart DEF Sound, Shape, Fits, Hook
<1> QED BY <1>1, HookIsHook DEF Sound, TypeOK

\* What the writers leave in the hook file is a sequence of parts.
LEMMA FileStaysFile ==
    ASSUME Sound, NEW x \in Commands,
           HookAppend(x) \/ HookCreate(x) \/ HookFill(x) \/ HookCut(x) \/ HookRewrite(x)
    PROVE  \E new \in Seq(Parts) :
               Hook(x) \in Hooks /\ file' = [file EXCEPT ![Hook(x)] = new]
<1>0. run[x] \in Run /\ file \in [Hooks -> Seq(Parts) \cup {None}]
  BY RunnersApart DEF Sound, TypeOK
<1>1. Hook(x) \in Hooks /\ (run[x].pc # "create" => file[Hook(x)] \in Seq(Parts))
  BY AmidHook DEF HookAppend, HookCreate, HookFill, HookCut, HookRewrite, At, Amid
<1>2. CASE HookAppend(x)
  <2>1. "block" \in Parts /\ file[Hook(x)] \in Seq(Parts) BY <1>1, <1>2 DEF Parts, HookAppend, At
  <2>2. Append(file[Hook(x)], "block") \in Seq(Parts) BY <2>1
  <2>3. file' = [file EXCEPT ![Hook(x)] = Append(file[Hook(x)], "block")]
    BY <1>2 DEF HookAppend
  <2> QED BY <1>1, <2>2, <2>3
<1>3. CASE HookCreate(x)
  <2>1. <<"sh">> \in Seq(Parts) BY DEF Parts
  <2> QED BY <1>1, <1>3, <2>1 DEF HookCreate
<1>4. CASE HookFill(x)
  <2>1. <<"block">> \in Seq(Parts) /\ file[Hook(x)] \in Seq(Parts)
    BY <1>1, <1>4 DEF Parts, HookFill, At
  <2>2. Over(file[Hook(x)], 1, <<"block">>) \in Seq(Parts) BY <2>1, OverHas
  <2>3. file' = [file EXCEPT ![Hook(x)] = Over(file[Hook(x)], 1, <<"block">>)]
    BY <1>4 DEF HookFill
  <2> QED BY <1>1, <2>2, <2>3
<1>5. CASE HookCut(x)
  <2>1. <<>> \in Seq(Parts) OBVIOUS
  <2> QED BY <1>1, <1>5, <2>1 DEF HookCut
<1>6. CASE HookRewrite(x)
  <2>1. run[x].text \in Seq(Parts) /\ file[Hook(x)] \in Seq(Parts)
    BY <1>0, <1>1, <1>6 DEF HookRewrite, At, Run
  <2>2. Over(file[Hook(x)], 0, run[x].text) \in Seq(Parts) BY <2>1, OverHas
  <2>3. file' = [file EXCEPT ![Hook(x)] = Over(file[Hook(x)], 0, run[x].text)]
    BY <1>6 DEF HookRewrite
  <2> QED BY <1>1, <2>2, <2>3
<1> QED BY <1>2, <1>3, <1>4, <1>5, <1>6

LEMMA StartSound ==
    ASSUME Sound, NEW x \in Commands, StartInstall(x) \/ StartUninstall(x) \/ StartHooks(x)
    PROVE  Sound'
<1> USE RunnersApart
<1>0. TypeOK /\ x \notin Worktrees BY SetupOK DEF Sound
<1>1. starts' \in 0 .. MaxStarts /\ UNCHANGED <<made, settings, file>>
  <2>1. starts \in 0 .. MaxStarts /\ MaxStarts \in Nat BY <1>0, SetupOK DEF TypeOK
  <2>2. starts < MaxStarts /\ starts' = starts + 1
    BY Zenon DEF StartInstall, StartUninstall, StartHooks, Start
  <2>3. UNCHANGED <<made, settings, file>> BY Zenon DEF StartInstall, StartUninstall, StartHooks
  <2> QED BY <2>1, <2>2, <2>3
<1>2. PICK r \in Run : /\ Becomes(x, r) /\ r.tree \in made
                       /\ r.pc \in {"exclude", "take", "clear", "hooks"}
  <2>1. CASE StartInstall(x)
    <3>1. PICK w \in made, b \in Binaries, kept \in BOOLEAN :
             Becomes(x, [Idle EXCEPT !.pc = "exclude", !.tree = w, !.bin = b, !.kept = kept, !.whole = TRUE])
      BY Zenon, <1>0, <2>1, StartMoves
    <3>2. run'[x] \in Run BY <3>1 DEF Becomes
    <3> QED BY <3>1, <3>2 DEF Becomes, Idle
  <2>2. CASE StartUninstall(x)
    <3>1. PICK w \in made :
             Becomes(x, [Idle EXCEPT !.pc = IF Branch[w] = "linked" THEN "clear" ELSE "take", !.tree = w])
      BY Zenon, <1>0, <2>2, StartMoves
    <3>2. run'[x] \in Run BY <3>1 DEF Becomes
    <3> QED BY <3>1, <3>2 DEF Becomes, Idle
  <2>3. CASE StartHooks(x)
    <3>1. PICK hs \in Seq(Hooks) : Becomes(x, [Idle EXCEPT !.pc = "hooks", !.hooks = hs])
      BY Zenon, <1>0, <2>3, StartMoves
    <3>2. run'[x] \in Run BY <3>1 DEF Becomes
    <3> QED BY <1>0, <3>1, <3>2 DEF Becomes, Idle, TypeOK
  <2> QED BY <2>1, <2>2, <2>3
<1>3. TypeOK'
  <2>1. run' \in [Runners -> Run] BY <1>2 DEF Becomes
  <2>2. quiet' \subseteq Commands
    BY ZenonT(40), <1>0 DEF StartInstall, StartUninstall, StartHooks, history, TypeOK
  <2> QED BY Zenon, <1>0, <1>1, <2>1, <2>2
       DEF StartInstall, StartUninstall, StartHooks, history, TypeOK
<1>4. Fits(x, r, made', file') BY <1>0, <1>1, <1>2 DEF Fits, Amid
<1>5. Shape'
  <2>1. \A w \in Worktrees \ made' : settings'[w].ours = None BY <1>1 DEF Sound, Shape, Carries
  <2> QED BY <1>1, <1>2, <1>4, <2>1, ShapeMoves
<1> QED BY <1>3, <1>5 DEF Sound

\* When only where x stands changes, of what the invariant speaks about.
LEMMA MoveSound ==
    ASSUME Sound, NEW x \in Runners, NEW r, Becomes(x, r),
           UNCHANGED <<made, settings, file, starts>>,
           excluded' \in BOOLEAN, acknowledged' \in BOOLEAN, record' \in Binaries \cup {None},
           upsets' \in 0 .. MaxUpsets, torn' \cup misread' \cup served' \subseteq Hooks,
           unattended' \cup owed' \subseteq Worktrees, promised' \in BOOLEAN, quiet' \subseteq Commands,
           Fits(x, r, made, file)
    PROVE  Sound'
<1>1. TypeOK' BY DEF Sound, TypeOK, Becomes
<1>2. \A w \in Worktrees \ made' : settings'[w].ours = None BY DEF Sound, Shape, Carries
<1>3. Shape' BY <1>2, ShapeMoves
<1> QED BY <1>1, <1>3 DEF Sound

LEMMA InstallSound ==
    ASSUME Sound, NEW x \in Runners, Install(x)
    PROVE  Sound'
<1> USE RunnersApart
<1>0. /\ TypeOK /\ run[x] \in Run /\ Fits(x, run[x], made, file)
      /\ (x \in Commands <=> x \notin Worktrees)
  BY SetupOK DEF Sound, TypeOK, Shape
<1>1. CASE Exclude(x)
  <2>1. Becomes(x, [run[x] EXCEPT !.pc = "ask"]) BY Zenon, <1>0, <1>1, InstallMoves
  <2>2. Fits(x, [run[x] EXCEPT !.pc = "ask"], made, file)
    BY <1>0, <1>1 DEF Exclude, At, Fits, Run, Amid
  <2> QED BY <1>0, <1>1, <2>1, <2>2, MoveSound DEF Exclude, history, TypeOK
<1>2. CASE Ask(x)
  <2>1. Becomes(x, IF IsCommand(x) \/ Ignored(Tree(x)) THEN [run[x] EXCEPT !.pc = "read"] ELSE Ended)
    BY Zenon, <1>0, <1>2, InstallMoves
  <2>2. Fits(x, IF IsCommand(x) \/ Ignored(Tree(x)) THEN [run[x] EXCEPT !.pc = "read"] ELSE Ended,
             made, file)
    BY <1>0, <1>2 DEF Ask, At, Fits, Run, Amid, IsCommand, Ended, Idle, TypeOK
  <2> QED BY <1>0, <1>2, <2>1, <2>2, MoveSound DEF Ask, history, TypeOK
<1>3. CASE ReadSettings(x)
  <2>1. Becomes(x, [run[x] EXCEPT !.pc = "write", !.seen = settings[Tree(x)]])
    BY Zenon, <1>0, <1>3, InstallMoves
  <2>2. Fits(x, [run[x] EXCEPT !.pc = "write", !.seen = settings[Tree(x)]], made, file)
    BY <1>0, <1>3 DEF ReadSettings, At, Fits, Run, Amid
  <2> QED BY <1>0, <1>3, <2>1, <2>2, MoveSound DEF ReadSettings, history, TypeOK
<1>4. CASE WriteSettings(x)
  <2> DEFINE r == IF ~IsCommand(x) THEN Ended
                  ELSE IF run[x].kept THEN [run[x] EXCEPT !.pc = "record", !.seen = NoSettings] ELSE Idle
  <2>1. Becomes(x, r) BY Zenon, <1>0, <1>4, InstallMoves
  <2>2. Fits(x, r, made, file)
    BY <1>0, <1>4 DEF WriteSettings, At, Fits, Run, Amid, IsCommand, Ended, Idle, TypeOK
  <2> HIDE DEF r
  <2>3. run[x].tree \in made /\ run[x].seen \in Settings /\ run[x].bin \in Binaries \cup {None}
    BY <1>0 DEF Fits, Run
  <2>4. [run[x].seen EXCEPT !.ours = run[x].bin] \in Settings BY <2>3 DEF Settings
  <2>5. settings' \in [Worktrees -> Settings]
    BY <1>0, <1>4, <2>4 DEF WriteSettings, TypeOK
  <2>6. \A w \in Worktrees \ made : settings'[w].ours = None
    BY <1>0, <1>4, <2>3 DEF WriteSettings, Tree, TypeOK, Sound, Shape, Carries
  <2>7. unattended' \subseteq Worktrees
    BY <1>0, <1>4 DEF WriteSettings, IsCommand, TypeOK
  <2>8. run' \in [Runners -> Run] BY <2>1 DEF Becomes
  <2>9. TypeOK' BY <1>0, <1>4, <2>5, <2>7, <2>8 DEF WriteSettings, TypeOK
  <2>10. Shape'
    <3>1. UNCHANGED <<made, file>> BY <1>4 DEF WriteSettings
    <3> QED BY <2>1, <2>2, <2>6, <3>1, ShapeMoves
  <2> QED BY <2>9, <2>10 DEF Sound
<1>5. CASE Die(x)
  <2>1. Becomes(x, IF IsCommand(x) THEN Idle ELSE Ended) BY Zenon, <1>0, <1>5, InstallMoves
  <2>2. Fits(x, IF IsCommand(x) THEN Idle ELSE Ended, made, file)
    BY <1>0, <1>5 DEF Die, Upset, Fits, Run, Amid, IsCommand, Ended, Idle, TypeOK
  <2>3. upsets' \in 0 .. MaxUpsets
    <3>1. upsets \in 0 .. MaxUpsets /\ upsets < MaxUpsets /\ upsets' = upsets + 1 /\ MaxUpsets \in Nat
      BY <1>0, <1>5, SetupOK DEF Die, Upset, TypeOK
    <3> QED BY <3>1
  <2>4. torn' \subseteq Hooks
    <3>1. run[x].pc \in {"fill", "rewrite"} => Hook(x) \in Hooks
      BY <1>0, AmidHook DEF Fits, Amid
    <3> QED BY <1>0, <1>5, <3>1 DEF Die, TypeOK
  <2> QED BY <1>0, <1>5, <2>1, <2>2, <2>3, <2>4, MoveSound DEF Die, TypeOK
<1> QED BY <1>1, <1>2, <1>3, <1>4, <1>5 DEF Install

LEMMA ClearSound ==
    ASSUME Sound, NEW x \in Commands, ClearRecord(x)
    PROVE  Sound'
<1> USE RunnersApart
<1>0. TypeOK /\ Shape BY DEF Sound
<1>1. /\ run' \in [Runners -> Run]
      /\ run'[x] = [run[x] EXCEPT !.pc = "list", !.seen = NoSettings, !.amid = @ \cup Propagating]
      /\ \A y \in Commands \ {x} : run'[y] = [run[y] EXCEPT !.whole = FALSE]
      /\ \A w \in Worktrees : run'[w] = run[w]
  BY Zenon, <1>0, ClearMoves
<1>2. TypeOK'
  <2>1. record' = None /\ promised' = FALSE /\ owed' = {}
        /\ UNCHANGED <<made, settings, excluded, acknowledged, file, starts, upsets>>
        /\ UNCHANGED <<torn, misread, served, unattended, quiet>>
    BY DEF ClearRecord
  <2>2. run' \in [Runners -> Run] BY <1>1
  <2> QED BY <1>0, <2>1, <2>2 DEF TypeOK
<1>3. ASSUME NEW y \in Runners PROVE Fits(y, run'[y], made, file)
  <2>1. run[y] \in Run /\ run[x] \in Run /\ Fits(y, run[y], made, file) /\ Fits(x, run[x], made, file)
    BY <1>0 DEF TypeOK, Shape
  <2>2. x \notin Worktrees BY SetupOK
  <2>3. CASE y = x BY <1>1, <2>1, <2>2, <2>3 DEF Fits, Run, Amid
  <2>4. CASE y \in Commands \ {x}
    <3>1. run'[y] = [run[y] EXCEPT !.whole = FALSE] BY <1>1, <2>4
    <3>2. /\ run'[y].pc = run[y].pc /\ run'[y].tree = run[y].tree
          /\ run'[y].hooks = run[y].hooks
      BY <2>1, <3>1 DEF Run
    <3> QED BY <2>1, <3>2 DEF Fits
  <2>5. CASE y \in Worktrees BY <1>1, <2>1, <2>5
  <2> QED BY <2>3, <2>4, <2>5
<1>4. Shape' BY <1>0, <1>3 DEF Shape, ClearRecord, Carries
<1> QED BY <1>2, <1>4 DEF Sound

LEMMA UninstallSound ==
    ASSUME Sound, NEW x \in Commands,
           \/ WriteRecord(x) \/ HooksDone(x) \/ TakeSettings(x) \/ DropEntries(x)
           \/ ListWorktrees(x) \/ LookInto(x) \/ Told(x) \/ GoOn(x)
    PROVE  Sound'
<1> USE RunnersApart
<1>0. TypeOK /\ run[x] \in Run /\ Fits(x, run[x], made, file) /\ x \notin Worktrees
  BY SetupOK DEF Sound, TypeOK, Shape
<1>1. CASE WriteRecord(x)
  <2>1. Becomes(x, [run[x] EXCEPT !.pc = "hooks", !.hooks = <<PostCheckout>>])
    BY Zenon, <1>0, <1>1, UninstallMoves
  <2>2. Fits(x, [run[x] EXCEPT !.pc = "hooks", !.hooks = <<PostCheckout>>], made, file)
    BY <1>0 DEF Fits, Run, Amid
  <2>3. run[x].bin \in Binaries \cup {None} BY <1>0 DEF Run
  <2> QED BY <1>0, <1>1, <2>1, <2>2, <2>3, MoveSound DEF WriteRecord, history, TypeOK
<1>2. CASE HooksDone(x) \/ Told(x)
  <2>1. Becomes(x, Idle) BY Zenon, <1>0, <1>2, UninstallMoves
  <2>2. Fits(x, Idle, made, file) BY <1>0 DEF Fits, Idle, Amid, TypeOK
  <2>3. promised' \in BOOLEAN BY Zenon, <1>0, <1>2 DEF HooksDone, Told, TypeOK
  <2> QED BY <1>0, <1>2, <2>1, <2>2, <2>3, MoveSound DEF HooksDone, Told, TypeOK
<1>3. CASE TakeSettings(x)
  <2> DEFINE r == [run[x] EXCEPT !.seen = settings[Tree(x)], !.amid = {Tree(x)} \ Through,
                                 !.pc = IF Carries(Tree(x)) THEN "drop" ELSE "clear"]
  <2>1. Becomes(x, r) BY Zenon, <1>0, <1>3, UninstallMoves
  <2>2. r.pc \in {"drop", "clear"} /\ r.tree = run[x].tree BY <1>0 DEF Run
  <2>3. Fits(x, r, made, file)
    <3> HIDE DEF r
    <3> QED BY <1>0, <2>2 DEF Fits, Amid
  <2> HIDE DEF r
  <2> QED BY <1>0, <1>3, <2>1, <2>3, MoveSound DEF TakeSettings, history, TypeOK
<1>4. CASE DropEntries(x)
  <2>1. Becomes(x, [run[x] EXCEPT !.pc = "clear"]) BY Zenon, <1>0, <1>4, UninstallMoves
  <2>2. Fits(x, [run[x] EXCEPT !.pc = "clear"], made, file) BY <1>0 DEF Fits, Run, Amid
  <2>3. run[x].tree \in made /\ [run[x].seen EXCEPT !.ours = None] \in Settings
    BY <1>0 DEF Fits, Run, Settings
  <2>4. settings' \in [Worktrees -> Settings] BY <1>0, <1>4, <2>3 DEF DropEntries, TypeOK
  <2>5. \A w \in Worktrees \ made : settings'[w].ours = None
    BY <1>0, <1>4, <2>3 DEF DropEntries, Tree, TypeOK, Sound, Shape, Carries
  <2>6. TypeOK'
    <3>1. run' \in [Runners -> Run] BY <2>1 DEF Becomes
    <3> QED BY <1>0, <1>4, <2>4, <3>1 DEF DropEntries, TypeOK
  <2>7. Shape'
    <3>1. UNCHANGED <<made, file>> BY <1>4 DEF DropEntries
    <3> QED BY <2>1, <2>2, <2>5, <3>1, ShapeMoves
  <2> QED BY <2>6, <2>7 DEF Sound
<1>5. CASE ListWorktrees(x)
  <2>1. Becomes(x, [run[x] EXCEPT !.pc = "look", !.left = made \ {Tree(x)}])
    BY Zenon, <1>0, <1>5, UninstallMoves
  <2>2. Fits(x, [run[x] EXCEPT !.pc = "look", !.left = made \ {Tree(x)}], made, file)
    BY <1>0 DEF Fits, Run, Amid
  <2> QED BY <1>0, <1>5, <2>1, <2>2, MoveSound DEF ListWorktrees, history, TypeOK
<1>6. CASE LookInto(x)
  <2>1. PICK w \in run[x].left :
          Becomes(x, [run[x] EXCEPT !.left = @ \ {w}, !.named = IF Carries(w) THEN @ \cup {w} ELSE @])
    BY Zenon, <1>0, <1>6, UninstallMoves
  <2> DEFINE r == [run[x] EXCEPT !.left = @ \ {w}, !.named = IF Carries(w) THEN @ \cup {w} ELSE @]
  <2>2. Becomes(x, r) BY <2>1
  <2>3. r.pc = "look" /\ r.tree = run[x].tree BY <1>0, <1>6 DEF Run, LookInto, At
  <2>4. Fits(x, r, made, file)
    <3> HIDE DEF r
    <3> QED BY <1>0, <2>3 DEF Fits, Amid
  <2> HIDE DEF r
  <2> QED BY <1>0, <1>6, <2>2, <2>4, MoveSound DEF LookInto, history, TypeOK
<1>7. CASE GoOn(x)
  <2>1. PICK r : /\ Becomes(x, r) /\ r.tree = run[x].tree
                 /\ r.pc \in {"clear", "list", "look", "hooks"}
    <3>1. \A pc \in {"clear", "list", "look"} :
             [run[x] EXCEPT !.pc = pc].tree = run[x].tree /\ [run[x] EXCEPT !.pc = pc].pc = pc
      BY <1>0 DEF Run
    <3>2. [run[x] EXCEPT !.pc = "hooks", !.hooks = <<PostCheckout>>, !.whole = FALSE].tree = run[x].tree
      BY <1>0 DEF Run
    <3>3. [run[x] EXCEPT !.pc = "hooks", !.hooks = <<PostCheckout>>, !.whole = FALSE].pc = "hooks"
      BY <1>0 DEF Run
    <3>4. \/ \E pc \in {"clear", "list", "look"} : Becomes(x, [run[x] EXCEPT !.pc = pc])
          \/ Becomes(x, [run[x] EXCEPT !.pc = "hooks", !.hooks = <<PostCheckout>>, !.whole = FALSE])
      BY Zenon, <1>0, <1>7, GoOnMoves
    <3> QED BY <3>1, <3>2, <3>3, <3>4
  <2>2. Fits(x, r, made, file) BY <1>0, <2>1 DEF Fits, Amid
  <2>3. upsets' \in 0 .. MaxUpsets
    <3>1. upsets \in 0 .. MaxUpsets /\ upsets < MaxUpsets /\ upsets' = upsets + 1 /\ MaxUpsets \in Nat
      BY <1>0, <1>7, SetupOK DEF GoOn, Upset, TypeOK
    <3> QED BY <3>1
  <2> QED BY <1>0, <1>7, <2>1, <2>2, <2>3, MoveSound DEF GoOn, TypeOK
<1> QED BY <1>1, <1>2, <1>3, <1>4, <1>5, <1>6, <1>7

LEMMA HookSound ==
    ASSUME Sound, NEW x \in Commands, InstallHook(x)
    PROVE  Sound'
<1> USE RunnersApart
<1>0. /\ TypeOK /\ run[x] \in Run /\ Fits(x, run[x], made, file) /\ x \notin Worktrees
      /\ file \in [Hooks -> Seq(Parts) \cup {None}]
  BY SetupOK DEF Sound, TypeOK, Shape
<1>1. run[x].pc \in Amid => run[x].hooks # <<>> BY <1>0 DEF Fits
<1>2. UNCHANGED <<made, settings, excluded, record, acknowledged, starts, upsets>>
      /\ UNCHANGED <<torn, unattended, promised, owed, quiet>>
  BY DEF InstallHook, KeepSettings, KeepRest
<1>3. run[x].pc \in Amid \/ Undecided(x) => Hook(x) \in Hooks
  BY AmidHook, HookIsHook DEF Undecided
<1>4. misread' \subseteq Hooks /\ served' \subseteq Hooks
  BY <1>0, <1>3 DEF InstallHook, Outdated, Absent, Present, Lacking, NotShell, HookAppend, HookCreate,
       HookFill, HookCut, HookRewrite, At, TypeOK, Amid
<1>5. /\ file' \in [Hooks -> Seq(Parts) \cup {None}]
      /\ \A h \in Hooks : file[h] # None => file'[h] # None
  <2>1. CASE UNCHANGED file BY <1>0, <2>1
  <2>2. CASE HookAppend(x) \/ HookCreate(x) \/ HookFill(x) \/ HookCut(x) \/ HookRewrite(x)
    <3>1. PICK new \in Seq(Parts) : Hook(x) \in Hooks /\ file' = [file EXCEPT ![Hook(x)] = new]
      BY <2>2, FileStaysFile
    <3>2. new # None BY SetupOK
    <3> QED BY <1>0, <3>1, <3>2
  <2> QED BY <2>1, <2>2 DEF InstallHook, Outdated, Absent, Present, Lacking, NotShell
<1>6. ASSUME NEW r, Becomes(x, r), Fits(x, r, made', file')
      PROVE  Sound'
  <2>1. TypeOK'
    <3>1. run' \in [Runners -> Run] BY <1>6 DEF Becomes
    <3> QED BY <1>0, <1>2, <1>4, <1>5, <3>1 DEF TypeOK
  <2>2. Shape'
    <3>1. \A w \in Worktrees \ made' : settings'[w].ours = None BY <1>2 DEF Sound, Shape, Carries
    <3> QED BY <1>2, <1>5, <1>6, <3>1, ShapeMoves
  <2> QED BY <2>1, <2>2 DEF Sound
<1>7. CASE Absent(x) \/ Lacking(x) \/ Outdated(x) \/ HookCreate(x) \/ HookCut(x)
  <2>1. PICK r : /\ Becomes(x, r) /\ r.tree = run[x].tree /\ r.hooks = run[x].hooks /\ r.pc \in Amid
                 /\ r.pc = "create" \/ file'[Hook(x)] # None
    <3>1. \A pc \in {"create", "append", "fill", "rewrite"} :
            /\ [run[x] EXCEPT !.pc = pc].tree = run[x].tree /\ [run[x] EXCEPT !.pc = pc].pc = pc
            /\ [run[x] EXCEPT !.pc = pc].hooks = run[x].hooks
      BY <1>0 DEF Run
    <3>2. CASE Absent(x)
      <4>1. Becomes(x, [run[x] EXCEPT !.pc = "create"]) BY Zenon, <1>0, <1>1, <3>2, HookMoves
      <4> QED BY <3>1, <4>1 DEF Amid
    <3>3. CASE Lacking(x)
      <4>1. Becomes(x, [run[x] EXCEPT !.pc = "append"]) BY Zenon, <1>0, <1>1, <3>3, HookMoves
      <4>2. file'[Hook(x)] # None BY <3>3 DEF Lacking
      <4> QED BY <3>1, <4>1, <4>2 DEF Amid
    <3>4. CASE Outdated(x)
      <4>1. Becomes(x, [run[x] EXCEPT !.pc = "cut", !.text = WithBlock(Hook(x), file[Hook(x)])])
        BY Zenon, <1>0, <1>1, <3>4, HookMoves
      <4>2. file'[Hook(x)] # None BY <3>4 DEF Outdated, HasBlock
      <4>3. ASSUME NEW text
            PROVE  LET r == [run[x] EXCEPT !.pc = "cut", !.text = text]
                   IN  r.tree = run[x].tree /\ r.hooks = run[x].hooks /\ r.pc = "cut"
        BY <1>0 DEF Run
      <4> QED BY <4>1, <4>2, <4>3 DEF Amid
    <3>5. CASE HookCreate(x)
      <4>1. Becomes(x, [run[x] EXCEPT !.pc = "fill"]) BY Zenon, <1>0, <1>1, <3>5, HookMoves
      <4>2. file'[Hook(x)] # None
        <5>1. <<"sh">> \in Seq(Parts) BY DEF Parts
        <5> QED BY <1>0, <1>3, <3>5, <5>1, SetupOK DEF HookCreate, At, Amid
      <4> QED BY <3>1, <4>1, <4>2 DEF Amid
    <3>6. CASE HookCut(x)
      <4>1. Becomes(x, [run[x] EXCEPT !.pc = "rewrite"]) BY Zenon, <1>0, <1>1, <3>6, HookMoves
      <4>2. file'[Hook(x)] # None
        <5>1. <<>> \in Seq(Parts) OBVIOUS
        <5> QED BY <1>0, <1>3, <3>6, <5>1, SetupOK DEF HookCut, At, Amid
      <4> QED BY <3>1, <4>1, <4>2 DEF Amid
    <3> QED BY <1>7, <3>2, <3>3, <3>4, <3>5, <3>6
  <2>2. run[x].hooks # <<>> /\ made' = made
    BY <1>1, <1>2, <1>7 DEF Absent, Lacking, Outdated, Undecided, HookCreate, HookCut, At, Amid
  <2>3. Fits(x, r, made', file') BY <1>0, <2>1, <2>2 DEF Fits, Amid, Hook
  <2> QED BY <1>6, <2>1, <2>3
<1>8. CASE Present(x) \/ NotShell(x) \/ HookAppend(x) \/ HookFill(x) \/ HookRewrite(x)
  <2>1. PICK whole \in BOOLEAN : Becomes(x, Passed(run[x], whole)) BY Zenon, <1>0, <1>1, <1>8, HookMoves
  <2>2. Passed(run[x], whole).tree = run[x].tree /\ Passed(run[x], whole).pc = "hooks"
    BY <1>0 DEF Run, Passed
  <2>3. Fits(x, Passed(run[x], whole), made', file') BY <1>0, <1>2, <2>2 DEF Fits, Amid
  <2> QED BY <1>6, <2>1, <2>3
<1> QED BY <1>7, <1>8 DEF InstallHook

LEMMA AddedSound ==
    ASSUME Sound, NEW w \in Worktrees,
           AddWorktree(w) \/ ShellReads(w) \/ Propagate(w) \/ EditSettings(w)
    PROVE  Sound'
<1> USE RunnersApart
<1>0. TypeOK /\ run[w] \in Run /\ Fits(w, run[w], made, file) /\ w \notin Commands
  BY SetupOK DEF Sound, TypeOK, Shape
<1>1. CASE AddWorktree(w)
  <2> DEFINE r == IF HasBlock(PostCheckout) THEN [Idle EXCEPT !.pc = "shell", !.tree = w] ELSE Ended
  <2>1. Becomes(w, r) BY Zenon, <1>0, <1>1, AddedMoves
  <2>2. Fits(w, r, made', file')
    <3>1. made' = made \cup {w} /\ Main \in made BY <1>0, <1>1 DEF AddWorktree, TypeOK
    <3>2. CASE HasBlock(PostCheckout)
      <4>1. r = [Idle EXCEPT !.pc = "shell", !.tree = w] BY <3>2
      <4>2. r.pc = "shell" /\ r.tree = w BY <4>1 DEF Idle
      <4> HIDE DEF r
      <4> QED BY <1>0, <3>1, <4>2 DEF Fits, Amid
    <3>3. CASE ~HasBlock(PostCheckout)
      <4>1. r = Ended BY <3>3
      <4>2. r.pc = "ended" /\ r.tree = Main BY <4>1 DEF Ended, Idle
      <4> HIDE DEF r
      <4> QED BY <1>0, <3>1, <4>2 DEF Fits, Amid
    <3> QED BY <3>2, <3>3
  <2> HIDE DEF r
  <2>3. settings' \in [Worktrees -> Settings]
    <3>1. PICK own \in BOOLEAN : settings' = [settings EXCEPT ![w].own = own]
      BY <1>1 DEF AddWorktree
    <3> QED BY <1>0, <3>1 DEF TypeOK, Settings
  <2>4. \A v \in Worktrees \ made' : settings'[v].ours = None
    <3>1. \A v \in Worktrees \ {w} : settings'[v] = settings[v] BY <1>0, <1>1 DEF AddWorktree, TypeOK
    <3> QED BY <1>1, <3>1 DEF AddWorktree, Sound, Shape, Carries
  <2>5. TypeOK'
    <3>1. run' \in [Runners -> Run] BY <2>1 DEF Becomes
    <3> QED BY <1>0, <1>1, <2>3, <3>1 DEF AddWorktree, TypeOK
  <2>6. Shape'
    <3>1. made \subseteq made' /\ UNCHANGED file BY <1>1 DEF AddWorktree
    <3> QED BY <2>1, <2>2, <2>4, <3>1, ShapeMoves
  <2> QED BY <2>5, <2>6 DEF Sound
<1>2. CASE ShellReads(w)
  <2>1. Becomes(w, IF record = None THEN Ended ELSE [run[w] EXCEPT !.pc = "propagate"])
    BY Zenon, <1>0, <1>2, AddedMoves
  <2>2. Fits(w, IF record = None THEN Ended ELSE [run[w] EXCEPT !.pc = "propagate"], made, file)
    BY <1>0, <1>2 DEF ShellReads, At, Fits, Ended, Idle, Run, Amid, TypeOK
  <2> QED BY <1>0, <1>2, <2>1, <2>2, MoveSound DEF ShellReads, history, TypeOK
<1>3. CASE Propagate(w)
  <2> DEFINE r == IF /\ record # None /\ acknowledged
                     /\ Branch[w] \notin {"linked", "tracked"} /\ settings[w] = NoSettings
                  THEN [run[w] EXCEPT !.pc = "exclude", !.bin = record] ELSE Ended
  <2>1. Becomes(w, r) BY Zenon, <1>0, <1>3, AddedMoves
  <2>2. Fits(w, r, made, file)
    BY <1>0, <1>3 DEF Propagate, At, Fits, Ended, Idle, Run, Amid, TypeOK
  <2> HIDE DEF r
  <2> QED BY <1>0, <1>3, <2>1, <2>2, MoveSound DEF Propagate, history, TypeOK
<1>4. CASE EditSettings(w)
  <2>1. w \in made /\ settings' = [settings EXCEPT ![w].own = TRUE] /\ owed' = owed \ {w}
        /\ UNCHANGED <<made, file, run>>
    BY <1>4 DEF EditSettings
  <2>2. settings' \in [Worktrees -> Settings] BY <1>0, <2>1 DEF TypeOK, Settings
  <2>3. \A v \in Worktrees : settings'[v].ours = settings[v].ours
    BY <1>0, <2>1 DEF TypeOK, Settings
  <2>4. TypeOK' BY <1>0, <1>4, <2>1, <2>2 DEF EditSettings, TypeOK
  <2>5. Shape' BY <2>1, <2>3 DEF Sound, Shape, Carries
  <2> QED BY <2>4, <2>5 DEF Sound
<1> QED BY <1>1, <1>2, <1>3, <1>4

LEMMA StepSound == Sound /\ [Next]_vars => Sound'
<1> SUFFICES ASSUME Sound, [Next]_vars PROVE Sound' OBVIOUS
<1>1. ASSUME NEW x \in Commands, Command(x) PROVE Sound'
  BY <1>1, StartSound, UninstallSound, ClearSound, HookSound DEF Command
<1>2. ASSUME NEW x \in Runners, Install(x) PROVE Sound'
  BY <1>2, InstallSound
<1>3. ASSUME NEW w \in Worktrees, AddWorktree(w) \/ ShellReads(w) \/ Propagate(w) \/ EditSettings(w)
      PROVE  Sound'
  BY <1>3, AddedSound
<1>4. CASE Acknowledge
  <2>1. TypeOK' BY <1>4 DEF Acknowledge, history, Sound, TypeOK
  <2>2. Shape' BY <1>4 DEF Acknowledge, Sound, Shape, Carries
  <2> QED BY <2>1, <2>2 DEF Sound
<1>5. CASE UNCHANGED vars
  <2>1. TypeOK' BY <1>5 DEF vars, history, Sound, TypeOK
  <2>2. Shape' BY <1>5 DEF vars, Sound, Shape, Carries
  <2> QED BY <2>1, <2>2 DEF Sound
<1> QED BY <1>1, <1>2, <1>3, <1>4, <1>5 DEF Next

LEMMA AlwaysSound == Spec => []Sound
BY InitSound, StepSound, PTL DEF Spec
-----------------------------------------------------------------------------
(* What nobody looked at can not be committed                              *)

\* y stands where it stood, and holds what it held.
Stays(y) ==
    /\ run'[y].pc = run[y].pc /\ run'[y].tree = run[y].tree /\ run'[y].bin = run[y].bin
    /\ run'[y].kept = run[y].kept /\ run'[y].seen = run[y].seen /\ run'[y].hooks = run[y].hooks
    /\ run'[y].text = run[y].text /\ run'[y].left = run[y].left
    /\ run'[y].named = run[y].named /\ run'[y].amid = run[y].amid

\* Where a command is after an action of its own, and where the others are.
LEMMA CommandStays ==
    ASSUME Sound, NEW x \in Commands, Command(x)
    PROVE  /\ run'[x].pc \notin {"ask", "read", "write"}
           /\ run[x].pc \in Amid \/ run'[x].pc \in Amid => InstallHook(x)
           /\ \A y \in Runners \ {x} : Stays(y)
           /\ \A w \in Worktrees : run'[w] = run[w]
           /\ UNCHANGED <<made, excluded, acknowledged, unattended>>
<1> USE RunnersApart
<1>0. TypeOK /\ run[x] \in Run /\ Fits(x, run[x], made, file) /\ x \notin Worktrees
  BY SetupOK DEF Sound, TypeOK, Shape
<1>1. run[x].pc \in Amid => run[x].hooks # <<>> BY <1>0 DEF Fits
<1>2. UNCHANGED <<made, excluded, acknowledged, unattended>>
  BY Zenon DEF Command, StartInstall, StartUninstall, StartHooks, WriteRecord, InstallHook, KeepSettings,
         KeepRest, HooksDone, TakeSettings, DropEntries, ClearRecord, ListWorktrees, LookInto, Told,
         GoOn, history
<1>3. ASSUME NEW r, Becomes(x, r), r.pc \notin {"ask", "read", "write"},
             r.pc \in Amid => InstallHook(x)
      PROVE  /\ run'[x].pc \notin {"ask", "read", "write"}
             /\ run[x].pc \in Amid \/ run'[x].pc \in Amid => InstallHook(x)
             /\ \A y \in Runners \ {x} : Stays(y)
             /\ \A w \in Worktrees : run'[w] = run[w]
  <2>1. run[x].pc \in Amid => InstallHook(x)
    BY Zenon DEF Command, StartInstall, StartUninstall, StartHooks, Start, WriteRecord, HooksDone,
           TakeSettings, DropEntries, ClearRecord, ListWorktrees, LookInto, Told, GoOn, At, Amid
  <2> QED BY <1>0, <1>3, <2>1 DEF Becomes, Stays
<1>15. \A pc \in {"idle", "exclude", "take", "drop", "clear", "list", "look", "hooks"} : pc \notin Amid
  BY DEF Amid
<1>4. CASE StartInstall(x) \/ StartUninstall(x) \/ StartHooks(x)
  <2>1. CASE StartInstall(x)
    <3>1. PICK w \in made, b \in Binaries, kept \in BOOLEAN :
            Becomes(x, [Idle EXCEPT !.pc = "exclude", !.tree = w, !.bin = b, !.kept = kept, !.whole = TRUE])
      BY Zenon, <1>0, <2>1, StartMoves
    <3>2. [Idle EXCEPT !.pc = "exclude", !.tree = w, !.bin = b, !.kept = kept, !.whole = TRUE].pc = "exclude"
      BY DEF Idle
    <3> QED BY <1>2, <1>3, <1>15, <3>1, <3>2
  <2>2. CASE StartUninstall(x)
    <3>1. PICK w \in made :
            Becomes(x, [Idle EXCEPT !.pc = IF Branch[w] = "linked" THEN "clear" ELSE "take", !.tree = w])
      BY Zenon, <1>0, <2>2, StartMoves
    <3>2. [Idle EXCEPT !.pc = IF Branch[w] = "linked" THEN "clear" ELSE "take", !.tree = w].pc
            \in {"clear", "take"}
      BY DEF Idle
    <3> DEFINE r == [Idle EXCEPT !.pc = IF Branch[w] = "linked" THEN "clear" ELSE "take", !.tree = w]
    <3>3. Becomes(x, r) /\ r.pc \in {"clear", "take"} BY <3>1, <3>2
    <3> HIDE DEF r
    <3> QED BY <1>2, <1>3, <1>15, <3>3
  <2>3. CASE StartHooks(x)
    <3>1. PICK hs \in Seq(Hooks) : Becomes(x, [Idle EXCEPT !.pc = "hooks", !.hooks = hs])
      BY Zenon, <1>0, <2>3, StartMoves
    <3>2. [Idle EXCEPT !.pc = "hooks", !.hooks = hs].pc = "hooks" BY DEF Idle
    <3> QED BY <1>2, <1>3, <1>15, <3>1, <3>2
  <2> QED BY <1>4, <2>1, <2>2, <2>3
<1>5. \A pc : [run[x] EXCEPT !.pc = pc].pc = pc BY <1>0 DEF Run
<1>6. CASE WriteRecord(x)
  <2>1. Becomes(x, [run[x] EXCEPT !.pc = "hooks", !.hooks = <<PostCheckout>>])
    BY Zenon, <1>0, <1>6, UninstallMoves
  <2>2. [run[x] EXCEPT !.pc = "hooks", !.hooks = <<PostCheckout>>].pc = "hooks" BY <1>0 DEF Run
  <2> QED BY Zenon, <1>2, <1>3, <1>15, <2>1, <2>2
<1>7. CASE HooksDone(x) \/ Told(x)
  <2>1. Becomes(x, Idle) /\ Idle.pc = "idle" BY Zenon, <1>0, <1>7, UninstallMoves DEF Idle
  <2> QED BY <1>2, <1>3, <1>15, <2>1
<1>8. CASE TakeSettings(x)
  <2> DEFINE r == [run[x] EXCEPT !.seen = settings[Tree(x)], !.amid = {Tree(x)} \ Through,
                                 !.pc = IF Carries(Tree(x)) THEN "drop" ELSE "clear"]
  <2>1. Becomes(x, r) BY Zenon, <1>0, <1>8, UninstallMoves
  <2>2. r.pc \in {"drop", "clear"} BY <1>0 DEF Run
  <2> HIDE DEF r
  <2> QED BY <1>2, <1>3, <1>15, <2>1, <2>2
<1>9. CASE DropEntries(x)
  <2>1. Becomes(x, [run[x] EXCEPT !.pc = "clear"]) BY Zenon, <1>0, <1>9, UninstallMoves
  <2> QED BY Zenon, <1>2, <1>3, <1>15, <1>5, <2>1
<1>10. CASE ListWorktrees(x)
  <2>1. Becomes(x, [run[x] EXCEPT !.pc = "look", !.left = made \ {Tree(x)}])
    BY Zenon, <1>0, <1>10, UninstallMoves
  <2>2. [run[x] EXCEPT !.pc = "look", !.left = made \ {Tree(x)}].pc = "look" BY <1>0 DEF Run
  <2> QED BY Zenon, <1>2, <1>3, <1>15, <2>1, <2>2
<1>11. CASE LookInto(x)
  <2>1. PICK w \in run[x].left :
          Becomes(x, [run[x] EXCEPT !.left = @ \ {w}, !.named = IF Carries(w) THEN @ \cup {w} ELSE @])
    BY Zenon, <1>0, <1>11, UninstallMoves
  <2>2. [run[x] EXCEPT !.left = @ \ {w}, !.named = IF Carries(w) THEN @ \cup {w} ELSE @].pc = "look"
    BY <1>0, <1>11 DEF Run, LookInto, At
  <2> QED BY <1>2, <1>3, <1>15, <2>1, <2>2
<1>12. CASE GoOn(x)
  <2>1. [run[x] EXCEPT !.pc = "hooks", !.hooks = <<PostCheckout>>, !.whole = FALSE].pc = "hooks"
    BY <1>0 DEF Run
  <2>2. \/ \E pc \in {"clear", "list", "look"} : Becomes(x, [run[x] EXCEPT !.pc = pc])
        \/ Becomes(x, [run[x] EXCEPT !.pc = "hooks", !.hooks = <<PostCheckout>>, !.whole = FALSE])
    BY Zenon, <1>0, <1>12, GoOnMoves
  <2> QED BY <1>2, <1>3, <1>15, <1>5, <2>1, <2>2
<1>13. CASE ClearRecord(x)
  <2>1. /\ run'[x] = [run[x] EXCEPT !.pc = "list", !.seen = NoSettings, !.amid = @ \cup Propagating]
        /\ \A y \in Commands \ {x} : run'[y] = [run[y] EXCEPT !.whole = FALSE]
        /\ \A w \in Worktrees : run'[w] = run[w]
    BY Zenon, <1>0, <1>13, ClearMoves
  <2>2. run'[x].pc = "list" BY <1>0, <2>1 DEF Run
  <2>3. ASSUME NEW y \in Commands \ {x} PROVE Stays(y)
    <3>1. run[y] \in Run /\ run'[y] = [run[y] EXCEPT !.whole = FALSE] BY <2>1 DEF Sound, TypeOK
    <3> QED BY <3>1 DEF Run, Stays
  <2>4. \A y \in Runners \ {x} : Stays(y) BY <2>1, <2>3 DEF Stays
  <2>5. run[x].pc \notin Amid /\ run'[x].pc \notin Amid
    BY <1>13, <2>2 DEF ClearRecord, At, Amid
  <2> QED BY <1>2, <2>1, <2>2, <2>4, <2>5
<1>14. CASE InstallHook(x)
  <2>1. PICK r : Becomes(x, r) /\ r.pc \in {"create", "cut", "append", "fill", "rewrite", "hooks"}
    <3>1. CASE Absent(x) \/ Lacking(x) \/ HookCreate(x) \/ HookCut(x)
      <4>1. \E pc \in {"create", "append", "fill", "rewrite"} : Becomes(x, [run[x] EXCEPT !.pc = pc])
        BY Zenon, <1>0, <1>1, <3>1, HookMoves
      <4> QED BY <1>5, <4>1
    <3>2. CASE Outdated(x)
      <4>1. \E text : Becomes(x, [run[x] EXCEPT !.pc = "cut", !.text = text])
        BY Zenon, <1>0, <1>1, <3>2, HookMoves
      <4>2. \A text : [run[x] EXCEPT !.pc = "cut", !.text = text].pc = "cut" BY <1>0 DEF Run
      <4> QED BY <4>1, <4>2
    <3>3. CASE Present(x) \/ NotShell(x) \/ HookAppend(x) \/ HookFill(x) \/ HookRewrite(x)
      <4>1. \E whole \in BOOLEAN : Becomes(x, Passed(run[x], whole)) BY Zenon, <1>0, <1>1, <3>3, HookMoves
      <4>2. \A whole \in BOOLEAN : Passed(run[x], whole).pc = "hooks" BY <1>0 DEF Run, Passed
      <4> QED BY <4>1, <4>2
    <3> QED BY <1>14, <3>1, <3>2, <3>3 DEF InstallHook
  <2> QED BY <1>2, <1>3, <1>14, <2>1
<1> QED BY <1>4, <1>6, <1>7, <1>8, <1>9, <1>10, <1>11, <1>12, <1>13, <1>14 DEF Command

\* A writer is past the line in info/exclude; the hook of a worktree is past the
\* looks at its branch, and at the answer of Git.
Watched(x, pc, line) ==
    /\ pc \in {"ask", "read", "write"} => line
    /\ x \in Worktrees =>
         /\ pc \in {"exclude", "ask", "read", "write"} => Branch[x] \notin {"linked", "tracked"}
         /\ pc \in {"read", "write"} => Branch[x] # "unignored"
Unseen ==
    /\ \A x \in Runners : Watched(x, run[x].pc, excluded)
    /\ Uncommittable

LEMMA InitUnseen == Init => Unseen
BY DEF Init, Unseen, Watched, Uncommittable, Idle

LEMMA InstallUnseen ==
    ASSUME Sound, Unseen, NEW x \in Runners, Install(x)
    PROVE  Unseen'
<1> USE RunnersApart
<1>0. /\ TypeOK /\ run[x] \in Run /\ Watched(x, run[x].pc, excluded) /\ Fits(x, run[x], made, file)
      /\ \A y \in Runners : Watched(y, run[y].pc, excluded)
      /\ (x \in Commands <=> x \notin Worktrees)
  BY SetupOK DEF Sound, TypeOK, Unseen, Shape
<1>1. ASSUME NEW r, Becomes(x, r), Watched(x, r.pc, excluded'), excluded => excluded',
             excluded' \in BOOLEAN,
             \A w \in unattended' : w \in unattended \/ (excluded' /\ Branch[w] = "plain")
      PROVE  Unseen'
  <2>1. \A y \in Runners : Watched(y, run'[y].pc, excluded')
    <3>1. \A y \in Runners \ {x} : Watched(y, run'[y].pc, excluded')
      BY <1>0, <1>1 DEF Becomes, Watched
    <3> QED BY <1>1, <3>1 DEF Becomes
  <2>2. Uncommittable' BY <1>1 DEF Unseen, Uncommittable
  <2> QED BY <2>1, <2>2 DEF Unseen
<1>2. \A pc : [run[x] EXCEPT !.pc = pc].pc = pc BY <1>0 DEF Run
<1>3. excluded \in BOOLEAN BY <1>0 DEF TypeOK
<1>4. CASE Exclude(x)
  <2>1. Becomes(x, [run[x] EXCEPT !.pc = "ask"]) BY Zenon, <1>0, <1>4, InstallMoves
  <2>2. Watched(x, [run[x] EXCEPT !.pc = "ask"].pc, excluded')
    BY <1>0, <1>2, <1>4 DEF Exclude, At, Watched
  <2> QED BY <1>1, <1>4, <2>1, <2>2 DEF Exclude, history
<1>5. CASE Ask(x)
  <2> DEFINE r == IF IsCommand(x) \/ Ignored(Tree(x)) THEN [run[x] EXCEPT !.pc = "read"] ELSE Ended
  <2>1. Becomes(x, r) BY Zenon, <1>0, <1>5, InstallMoves
  <2>2. Watched(x, r.pc, excluded)
    <3>1. CASE IsCommand(x) BY <1>0, <1>2, <1>5, <3>1 DEF Ask, At, Watched, IsCommand
    <3>2. CASE ~IsCommand(x) /\ Ignored(Tree(x))
      <4>1. Tree(x) = x /\ Branch[x] # "unignored" /\ x \in Worktrees
        BY <1>0, <1>5, <3>2 DEF Ask, At, IsCommand, Fits, Tree, Ignored
      <4> QED BY <1>0, <1>2, <1>5, <3>2, <4>1 DEF Ask, At, Watched
    <3>3. CASE ~IsCommand(x) /\ ~Ignored(Tree(x)) BY <3>3 DEF Ended, Idle, Watched
    <3> QED BY <3>1, <3>2, <3>3
  <2> HIDE DEF r
  <2> QED BY <1>1, <1>3, <1>5, <2>1, <2>2 DEF Ask, history
<1>6. CASE ReadSettings(x)
  <2>1. Becomes(x, [run[x] EXCEPT !.pc = "write", !.seen = settings[Tree(x)]])
    BY Zenon, <1>0, <1>6, InstallMoves
  <2>2. [run[x] EXCEPT !.pc = "write", !.seen = settings[Tree(x)]].pc = "write" BY <1>0 DEF Run
  <2>3. Watched(x, [run[x] EXCEPT !.pc = "write", !.seen = settings[Tree(x)]].pc, excluded)
    BY <1>0, <1>6, <2>2 DEF ReadSettings, At, Watched
  <2> QED BY <1>1, <1>3, <1>6, <2>1, <2>3 DEF ReadSettings, history
<1>7. CASE WriteSettings(x)
  <2> DEFINE r == IF ~IsCommand(x) THEN Ended
                  ELSE IF run[x].kept THEN [run[x] EXCEPT !.pc = "record", !.seen = NoSettings] ELSE Idle
  <2>1. Becomes(x, r) BY Zenon, <1>0, <1>7, InstallMoves
  <2>2. r.pc \in {"ended", "record", "idle"} BY <1>0 DEF Run, Ended, Idle
  <2>3. Watched(x, r.pc, excluded)
    <3> HIDE DEF r
    <3> QED BY <2>2 DEF Watched
  <2> HIDE DEF r
  <2>4. \A w \in unattended' : w \in unattended \/ (excluded /\ Branch[w] = "plain")
    <3>1. x \in Worktrees => excluded /\ Branch[x] = "plain"
      BY <1>0, <1>7, SetupOK DEF WriteSettings, At, Watched
    <3> QED BY <1>0, <1>7, <3>1 DEF WriteSettings, IsCommand
  <2>5. excluded' = excluded BY <1>7 DEF WriteSettings
  <2> QED BY <1>1, <1>3, <2>1, <2>3, <2>4, <2>5
<1>8. CASE Die(x)
  <2>1. Becomes(x, IF IsCommand(x) THEN Idle ELSE Ended) BY Zenon, <1>0, <1>8, InstallMoves
  <2>2. Watched(x, (IF IsCommand(x) THEN Idle ELSE Ended).pc, excluded)
    BY DEF Ended, Idle, Watched
  <2> QED BY <1>1, <1>3, <1>8, <2>1, <2>2 DEF Die
<1> QED BY <1>4, <1>5, <1>6, <1>7, <1>8 DEF Install

LEMMA StepUnseen == Sound /\ Unseen /\ [Next]_vars => Unseen'
<1> SUFFICES ASSUME Sound, Unseen, [Next]_vars PROVE Unseen' OBVIOUS
<1> USE RunnersApart
<1>1. ASSUME NEW x \in Commands, Command(x) PROVE Unseen'
  <2>1. /\ run'[x].pc \notin {"ask", "read", "write"}
        /\ \A y \in Runners \ {x} : run'[y].pc = run[y].pc
        /\ UNCHANGED <<made, excluded, acknowledged, unattended>>
    BY <1>1, CommandStays DEF Stays
  <2>2. \A y \in Runners : Watched(y, run'[y].pc, excluded')
    <3>1. Watched(x, run'[x].pc, excluded') BY <2>1, SetupOK DEF Watched
    <3>2. \A y \in Runners \ {x} : Watched(y, run'[y].pc, excluded') BY <2>1 DEF Unseen, Watched
    <3> QED BY <3>1, <3>2
  <2> QED BY <2>1, <2>2 DEF Unseen, Uncommittable
<1>2. ASSUME NEW x \in Runners, Install(x) PROVE Unseen'
  BY <1>2, InstallUnseen
<1>3. ASSUME NEW w \in Worktrees, AddWorktree(w) \/ ShellReads(w) \/ Propagate(w) PROVE Unseen'
  <2>0. TypeOK /\ run[w] \in Run BY DEF Sound, TypeOK
  <2>1. UNCHANGED <<excluded, unattended>> BY <1>3 DEF AddWorktree, ShellReads, Propagate, history
  <2>2. PICK r : /\ Becomes(w, r) /\ r.pc \in {"shell", "ended", "propagate", "exclude"}
                 /\ r.pc = "exclude" => Branch[w] \notin {"linked", "tracked"}
    <3>1. CASE AddWorktree(w)
      <4>1. Becomes(w, IF HasBlock(PostCheckout) THEN [Idle EXCEPT !.pc = "shell", !.tree = w] ELSE Ended)
        BY Zenon, <2>0, <3>1, AddedMoves
      <4>2. [Idle EXCEPT !.pc = "shell", !.tree = w].pc = "shell" /\ Ended.pc = "ended" BY DEF Idle, Ended
      <4> QED BY <4>1, <4>2
    <3>2. CASE ShellReads(w)
      <4>1. Becomes(w, IF record = None THEN Ended ELSE [run[w] EXCEPT !.pc = "propagate"])
        BY Zenon, <2>0, <3>2, AddedMoves
      <4>2. [run[w] EXCEPT !.pc = "propagate"].pc = "propagate" /\ Ended.pc = "ended"
        BY <2>0 DEF Idle, Ended, Run
      <4> QED BY <4>1, <4>2
    <3>3. CASE Propagate(w)
      <4>1. Becomes(w, IF /\ record # None /\ acknowledged
                          /\ Branch[w] \notin {"linked", "tracked"} /\ settings[w] = NoSettings
                       THEN [run[w] EXCEPT !.pc = "exclude", !.bin = record] ELSE Ended)
        BY Zenon, <2>0, <3>3, AddedMoves
      <4>2. [run[w] EXCEPT !.pc = "exclude", !.bin = record].pc = "exclude" /\ Ended.pc = "ended"
        BY <2>0 DEF Idle, Ended, Run
      <4> QED BY <4>1, <4>2
    <3> QED BY <1>3, <3>1, <3>2, <3>3
  <2>3. Watched(w, r.pc, excluded) BY <2>2, SetupOK DEF Watched
  <2>4. \A y \in Runners : Watched(y, run'[y].pc, excluded')
    BY <2>1, <2>2, <2>3 DEF Becomes, Unseen
  <2> QED BY <2>1, <2>4 DEF Unseen, Uncommittable
<1>4. CASE \/ \E w \in Worktrees : EditSettings(w)
           \/ Acknowledge
           \/ UNCHANGED vars
  <2>1. UNCHANGED <<run, excluded, unattended>> BY <1>4 DEF EditSettings, Acknowledge, vars, history
  <2> QED BY <2>1 DEF Unseen, Uncommittable
<1> QED BY <1>1, <1>2, <1>3, <1>4 DEF Next

\* What was written into a worktree with nobody looking can not be committed:
\* the line in info/exclude comes before, and the branch was seen not to track
\* the file, nor to bring it back (settings.rs, create).
THEOREM WrittenStaysOut == Spec => []Uncommittable
<1>1. Unseen => Uncommittable BY DEF Unseen
<1> QED BY <1>1, InitUnseen, StepUnseen, AlwaysSound, PTL DEF Spec
-----------------------------------------------------------------------------
(* Hook files keep what is the user's, and have the block                  *)

\* s has what the user had in hook file h.
Keeps(h, s) ==
    FirstFile[h] # None =>
        \A part \in {"user", "script"} : Contains(FirstFile[h], part) => Contains(s, part)
\* The content s is as it should be, in view of who misread h and who has served it.
Rightly(h, s, wrong, done) ==
    /\ h \notin wrong => Keeps(h, s)
    /\ h \in done => s # None /\ Ours(s) # {}
\* What a command holds at a hook file: a text with the block and with all that
\* is the user's; and only a file that was not there is created.
Holds(r, spoilt) ==
    /\ r.pc \in {"cut", "rewrite"} =>
         /\ Contains(r.text, "block")
         /\ Head(r.hooks) \notin spoilt => Keeps(Head(r.hooks), r.text)
    /\ r.pc \in {"create", "fill"} => FirstFile[Head(r.hooks)] = None
Filed ==
    /\ \A h \in Hooks \ torn : Writing(h) \/ Rightly(h, file[h], misread, served)
    /\ \A x \in Commands : Holds(run[x], torn \cup misread)
    /\ \A h \in Hooks : FirstFile[h] # None => file[h] # None

LEMMA FiledKept == Filed => HooksKept
BY DEF Filed, HooksKept, Rightly, Keeps, ContentKept, HasBlock

LEMMA InitFiled == Init => Filed
<1> SUFFICES ASSUME Init PROVE Filed OBVIOUS
<1>1. \A h \in Hooks : Rightly(h, file[h], misread, served) BY DEF Init, Rightly, Keeps
<1>2. \A x \in Commands : Holds(run[x], torn \cup misread)
  BY RunnersApart DEF Init, Idle, Holds
<1> QED BY <1>1, <1>2 DEF Init, Filed

\* A text with the block is cvc's.
LEMMA BlockIsOurs ==
    ASSUME NEW s \in Seq(Parts), Contains(s, "block")
    PROVE  Ours(s) # {}
BY DEF Contains, Ours

\* No hook file is touched, and nobody in the middle of one moves.
LEMMA FiledElsewhere ==
    ASSUME Sound, Filed, UNCHANGED <<file, torn, misread, served>>,
           \A x \in Commands : Stays(x) \/ (run[x].pc \notin Amid /\ run'[x].pc \notin Amid)
    PROVE  Filed'
<1>1. \A h \in Hooks : Writing(h)' <=> Writing(h) BY DEF Writing, Hook, Stays, Amid
<1>2. \A x \in Commands : Holds(run[x], torn \cup misread)' BY DEF Filed, Holds, Stays, Amid
<1> QED BY <1>1, <1>2 DEF Filed

\* Command x is at hook file h; it moves, and others may have gone wrong there.
LEMMA FiledMoves ==
    ASSUME Sound, Filed, NEW x \in Commands, NEW h \in Hooks, Hook(x) = h, NEW r, Becomes(x, r),
           r.pc \in Amid => Head(r.hooks) = h,
           torn' = torn, misread \subseteq misread', misread' \subseteq misread \cup {h},
           served' \subseteq served \cup {h},
           \A g \in Hooks \ {h} : file'[g] = file[g],
           \/ r.pc \in {"fill", "rewrite"}
           \/ \E y \in Commands \ {x} : run[y].pc \in {"fill", "rewrite"} /\ Hook(y) = h
           \/ h \in torn
           \/ Rightly(h, file'[h], misread', served'),
           Holds(r, torn \cup misread'),
           FirstFile[h] # None => file'[h] # None
    PROVE  Filed'
<1> USE RunnersApart
<1>1. \A y \in Commands \ {x} : run'[y] = run[y] BY DEF Becomes
<1>2. run'[x] = r BY DEF Becomes
<1>3. ASSUME NEW g \in Hooks \ torn' PROVE Writing(g)' \/ Rightly(g, file'[g], misread', served')
  <2>1. CASE g = h
    <3>1. CASE r.pc \in {"fill", "rewrite"} BY <1>2, <2>1, <3>1 DEF Writing, Hook, Amid
    <3>2. CASE \E y \in Commands \ {x} : run[y].pc \in {"fill", "rewrite"} /\ Hook(y) = h
      BY <1>1, <2>1, <3>2 DEF Writing, Hook
    <3> QED BY <2>1, <3>1, <3>2
  <2>2. CASE g # h
    <3>1. Writing(g) \/ Rightly(g, file[g], misread, served) BY DEF Filed
    <3>2. Writing(g) => Writing(g)' BY <1>1, <2>2 DEF Writing, Hook
    <3>3. (g \in misread' <=> g \in misread) /\ (g \in served' => g \in served) BY <2>2
    <3> QED BY <2>2, <3>1, <3>2, <3>3 DEF Rightly
  <2> QED BY <2>1, <2>2
<1>4. \A y \in Commands : Holds(run'[y], torn' \cup misread')
  <2>1. \A y \in Commands \ {x} : Holds(run'[y], torn' \cup misread')
    BY <1>1 DEF Filed, Holds
  <2> QED BY <1>2, <2>1
<1>5. \A g \in Hooks : FirstFile[g] # None => file'[g] # None BY DEF Filed
<1> QED BY <1>3, <1>4, <1>5 DEF Filed

LEMMA HookFiled ==
    ASSUME Sound, Filed, NEW x \in Commands, InstallHook(x)
    PROVE  Filed'
<1> USE RunnersApart
<1> DEFINE h == Hook(x)
<1>0. /\ TypeOK /\ run[x] \in Run /\ Fits(x, run[x], made, file)
      /\ file \in [Hooks -> Seq(Parts) \cup {None}]
      /\ Holds(run[x], torn \cup misread)
  BY DEF Sound, TypeOK, Shape, Filed
<1>1. /\ run[x].hooks # <<>> /\ h \in Hooks
      /\ run[x].pc \in Amid => run[x].hooks # <<>>
      /\ run[x].pc \in Amid \ {"create"} => file[h] \in Seq(Parts)
  BY AmidHook, HookIsHook DEF InstallHook, Outdated, Absent, Present, Lacking, NotShell, HookAppend,
       HookCreate, HookFill, HookCut, HookRewrite, Undecided, At, Amid
<1>2. torn' = torn BY DEF InstallHook, KeepRest
<1>3. h = Head(run[x].hooks) BY DEF Hook
<1> DEFINE others == \E y \in Commands \ {x} : run[y].pc \in {"fill", "rewrite"} /\ Hook(y) = h
<1>4. h \in torn \/ run[x].pc \in {"fill", "rewrite"} \/ others
      \/ Rightly(h, file[h], misread, served)
  BY <1>1 DEF Filed, Writing
<1>5. FirstFile[h] # None => file[h] # None BY <1>1 DEF Filed
<1> HIDE DEF h
<1>6. \A pc : /\ [run[x] EXCEPT !.pc = pc].pc = pc /\ [run[x] EXCEPT !.pc = pc].hooks = run[x].hooks
              /\ [run[x] EXCEPT !.pc = pc].text = run[x].text
  BY <1>0 DEF Run
<1>7. ASSUME NEW whole \in BOOLEAN
      PROVE  Passed(run[x], whole).pc = "hooks" /\ Holds(Passed(run[x], whole), torn \cup misread)
  <2>1. Passed(run[x], whole).pc = "hooks" BY <1>0 DEF Run, Passed
  <2> QED BY <2>1 DEF Holds
<1>8. CASE Absent(x)
  <2> DEFINE r == [run[x] EXCEPT !.pc = "create"]
  <2>1. Becomes(x, r) BY Zenon, <1>0, <1>1, <1>8, HookMoves
  <2>2. At(x, "hooks") /\ file[h] = None /\ UNCHANGED <<file, served>>
    BY <1>8 DEF Absent, Undecided, h
  <2>3. UNCHANGED misread BY <1>8, <2>2 DEF InstallHook, Outdated, HasBlock, h, Present, Lacking,
          NotShell, HookAppend, HookCreate, HookFill, HookCut, HookRewrite, At
  <2>4. Holds(r, torn \cup misread)
    BY <1>3, <1>5, <1>6, <2>2 DEF Holds
  <2>5. others \/ h \in torn \/ Rightly(h, file[h], misread, served) BY <1>4, <2>2 DEF At
  <2> HIDE DEF others
  <2>0. r.pc = "create" /\ r.hooks = run[x].hooks BY <1>6
  <2> HIDE DEF r
  <2> QED BY <1>1, <1>2, <1>3, <1>5, <2>0, <2>1, <2>2, <2>3, <2>4, <2>5, FiledMoves DEF h, others
<1>9. CASE Lacking(x)
  <2> DEFINE r == [run[x] EXCEPT !.pc = "append"]
  <2>1. Becomes(x, r) BY Zenon, <1>0, <1>1, <1>9, HookMoves
  <2>2. At(x, "hooks") /\ UNCHANGED <<file, served>> BY <1>9 DEF Lacking, Undecided
  <2>3. UNCHANGED misread
    BY <1>9, <2>2 DEF InstallHook, Outdated, Lacking, HookAppend, HookCreate, HookFill, HookCut,
       HookRewrite, At
  <2>4. Holds(r, torn \cup misread) BY <1>6 DEF Holds
  <2>5. others \/ h \in torn \/ Rightly(h, file[h], misread, served) BY <1>4, <2>2 DEF At
  <2> HIDE DEF others
  <2>0. r.pc = "append" /\ r.hooks = run[x].hooks BY <1>6
  <2> HIDE DEF r
  <2> QED BY <1>1, <1>2, <1>3, <1>5, <2>0, <2>1, <2>2, <2>3, <2>4, <2>5, FiledMoves DEF h, others
<1>10. CASE NotShell(x)
  <2>1. Becomes(x, Passed(run[x], FALSE)) BY Zenon, <1>0, <1>1, <1>10, HookMoves
  <2>2. At(x, "hooks") /\ UNCHANGED <<file, served>> BY <1>10 DEF NotShell, Undecided
  <2>3. UNCHANGED misread
    BY <1>10, <2>2 DEF InstallHook, Outdated, NotShell, HookAppend, HookCreate, HookFill, HookCut,
       HookRewrite, At
  <2>4. others \/ h \in torn \/ Rightly(h, file[h], misread, served) BY <1>4, <2>2 DEF At
  <2> HIDE DEF others
  <2> QED BY <1>1, <1>2, <1>3, <1>5, <1>7, <2>1, <2>2, <2>3, <2>4, FiledMoves DEF h, others, Amid
<1>11. CASE Present(x)
  <2>1. Becomes(x, Passed(run[x], TRUE)) BY Zenon, <1>0, <1>1, <1>11, HookMoves
  <2>2. At(x, "hooks") /\ UNCHANGED file /\ served' = served \cup {h} /\ file[h] # None
        /\ Ours(file[h]) # {}
    BY <1>11 DEF Present, Undecided, HasBlock, h
  <2>3. UNCHANGED misread
    BY <1>11, <2>2 DEF InstallHook, Outdated, Present, HookAppend, HookCreate, HookFill, HookCut,
       HookRewrite, At
  <2>4. others \/ h \in torn \/ Rightly(h, file[h], misread, served') 
    BY <1>4, <2>2 DEF At, Rightly
  <2> HIDE DEF others
  <2> QED BY <1>1, <1>2, <1>3, <1>5, <1>7, <2>1, <2>2, <2>3, <2>4, FiledMoves DEF h, others, Amid
<1>12. CASE Outdated(x)
  <2> DEFINE text == WithBlock(h, file[h])
             r == [run[x] EXCEPT !.pc = "cut", !.text = text]
  <2>1. Becomes(x, r) BY Zenon, <1>0, <1>1, <1>12, HookMoves DEF h
  <2>2. /\ At(x, "hooks") /\ UNCHANGED <<file, served>> /\ file[h] # None /\ Ours(file[h]) # {}
        /\ misread' = IF Writing(h) THEN misread \cup {h} ELSE misread
    BY <1>12 DEF Outdated, Undecided, HasBlock, h
  <2>3. file[h] \in Seq(Parts) BY <1>0, <1>1, <2>2
  <2>4. /\ Contains(text, "block")
        /\ \A part \in {"user", "script"} : Contains(file[h], part) => Contains(text, part)
    BY <1>1, <2>2, <2>3, UpgradeKeeps
  <2> HIDE DEF text
  <2>5. h \notin torn \cup misread' => Keeps(h, text)
    <3>1. h \notin torn \cup misread' => Rightly(h, file[h], misread, served) /\ h \notin misread
      BY <1>1, <2>2 DEF Filed
    <3> QED BY <2>4, <3>1 DEF Rightly, Keeps
  <2>6. r.pc = "cut" /\ r.text = text /\ r.hooks = run[x].hooks BY <1>0 DEF Run
  <2> HIDE DEF r
  <2>7. Holds(r, torn \cup misread') BY <1>3, <2>4, <2>5, <2>6 DEF Holds
  <2>8. others \/ h \in torn \/ Rightly(h, file[h], misread', served')
    BY <1>4, <2>2 DEF At, Rightly
  <2> HIDE DEF others
  <2>9. misread \subseteq misread' /\ misread' \subseteq misread \cup {h} BY <2>2
  <2> QED BY <1>1, <1>2, <1>3, <1>5, <2>1, <2>2, <2>6, <2>7, <2>8, <2>9, FiledMoves DEF h, others
<1>13. CASE HookCreate(x)
  <2> DEFINE r == [run[x] EXCEPT !.pc = "fill"]
  <2>1. Becomes(x, r) BY Zenon, <1>0, <1>1, <1>13, HookMoves
  <2>2. At(x, "create") /\ file' = [file EXCEPT ![h] = <<"sh">>] /\ UNCHANGED served
    BY <1>13 DEF HookCreate, h
  <2>3. UNCHANGED misread
    BY <2>2 DEF InstallHook, Outdated, Undecided, At
  <2>4. Holds(r, torn \cup misread)
    BY <1>0, <1>6, <2>2 DEF Holds, At
  <2>5. file'[h] # None
    <3>1. <<"sh">> \in Seq(Parts) BY DEF Parts
    <3> QED BY <1>0, <1>1, <2>2, <3>1, SetupOK
  <2>6. \A g \in Hooks \ {h} : file'[g] = file[g] BY <1>0, <2>2
  <2>0. r.pc = "fill" /\ r.hooks = run[x].hooks BY <1>6
  <2> HIDE DEF r
  <2> QED BY <1>1, <1>2, <1>3, <2>0, <2>1, <2>2, <2>3, <2>4, <2>5, <2>6, FiledMoves DEF h
<1>14. CASE HookCut(x)
  <2> DEFINE r == [run[x] EXCEPT !.pc = "rewrite"]
  <2>1. Becomes(x, r) BY Zenon, <1>0, <1>1, <1>14, HookMoves
  <2>2. At(x, "cut") /\ file' = [file EXCEPT ![h] = <<>>] /\ UNCHANGED served
    BY <1>14 DEF HookCut, h
  <2>3. UNCHANGED misread
    BY <2>2 DEF InstallHook, Outdated, Undecided, At
  <2>4. Holds(r, torn \cup misread)
    BY <1>0, <1>6, <2>2 DEF Holds, At
  <2>5. file'[h] # None
    <3>1. <<>> \in Seq(Parts) OBVIOUS
    <3> QED BY <1>0, <1>1, <2>2, <3>1, SetupOK
  <2>6. \A g \in Hooks \ {h} : file'[g] = file[g] BY <1>0, <2>2
  <2>0. r.pc = "rewrite" /\ r.hooks = run[x].hooks BY <1>6
  <2> HIDE DEF r
  <2> QED BY <1>1, <1>2, <1>3, <2>0, <2>1, <2>2, <2>3, <2>4, <2>5, <2>6, FiledMoves DEF h
<1>15. ASSUME HookAppend(x) \/ HookFill(x) \/ HookRewrite(x),
              NEW new \in Seq(Parts), file' = [file EXCEPT ![h] = new], served' = served \cup {h},
              Contains(new, "block"),
              h \in torn \/ others \/ h \in misread \/ Keeps(h, new)
       PROVE  Filed'
  <2>1. Becomes(x, Passed(run[x], TRUE)) BY Zenon, <1>0, <1>1, <1>15, HookMoves
  <2>2. UNCHANGED misread
    BY <1>15 DEF InstallHook, Outdated, Undecided, HookAppend, HookFill, HookRewrite, At
  <2>3. new # None /\ Ours(new) # {} BY <1>15, BlockIsOurs, SetupOK
  <2>4. file'[h] = new /\ \A g \in Hooks \ {h} : file'[g] = file[g] BY <1>0, <1>1, <1>15
  <2>5. h \in torn \/ others \/ Rightly(h, file'[h], misread', served')
    BY <1>15, <2>2, <2>3, <2>4 DEF Rightly
  <2> HIDE DEF others
  <2> QED BY <1>1, <1>2, <1>3, <1>7, <1>15, <2>1, <2>2, <2>3, <2>4, <2>5, FiledMoves DEF h, others, Amid
<1>16. CASE HookAppend(x)
  <2> DEFINE new == Append(file[h], "block")
  <2>1. /\ At(x, "append") /\ file' = [file EXCEPT ![h] = new] /\ served' = served \cup {h}
    BY <1>16 DEF HookAppend, h
  <2>2. file[h] \in Seq(Parts) /\ "block" \in Parts BY <1>1, <2>1 DEF At, Amid, Parts
  <2>3. new \in Seq(Parts) /\ Contains(new, "block") BY <2>2 DEF Contains
  <2>4. \A part : Contains(file[h], part) => Contains(new, part) BY <2>2 DEF Contains
  <2> HIDE DEF new
  <2>5. h \in torn \/ others \/ h \in misread \/ Keeps(h, new)
    BY <1>4, <2>1, <2>4 DEF At, Rightly, Keeps
  <2> HIDE DEF others
  <2> QED BY <1>15, <1>16, <2>1, <2>3, <2>5
<1>17. CASE HookFill(x)
  <2> DEFINE new == Over(file[h], 1, <<"block">>)
  <2>1. /\ At(x, "fill") /\ file' = [file EXCEPT ![h] = new] /\ served' = served \cup {h}
    BY <1>17 DEF HookFill, h
  <2>2. file[h] \in Seq(Parts) /\ <<"block">> \in Seq(Parts) BY <1>1, <2>1 DEF At, Amid, Parts
  <2>3. Contains(<<"block">>, "block") BY DEF Contains
  <2>4. new \in Seq(Parts) /\ Contains(new, "block") BY <2>2, <2>3, OverHas
  <2> HIDE DEF new
  <2>5. Keeps(h, new) BY <1>0, <1>3, <2>1 DEF Holds, At, Keeps
  <2> HIDE DEF others
  <2> QED BY <1>15, <1>17, <2>1, <2>4, <2>5
<1>18. CASE HookRewrite(x)
  <2> DEFINE new == Over(file[h], 0, run[x].text)
  <2>1. /\ At(x, "rewrite") /\ file' = [file EXCEPT ![h] = new] /\ served' = served \cup {h}
    BY <1>18 DEF HookRewrite, h
  <2>2. file[h] \in Seq(Parts) /\ run[x].text \in Seq(Parts) BY <1>0, <1>1, <2>1 DEF At, Amid, Run
  <2>3. /\ new \in Seq(Parts)
        /\ \A part : Contains(run[x].text, part) => Contains(new, part)
    BY <2>2, OverHas
  <2> HIDE DEF new
  <2>4. Contains(run[x].text, "block") /\ (h \notin torn \cup misread => Keeps(h, run[x].text))
    BY <1>0, <1>3, <2>1 DEF Holds, At
  <2>5. h \in torn \/ others \/ h \in misread \/ Keeps(h, new) BY <2>3, <2>4 DEF Keeps
  <2> HIDE DEF others
  <2> QED BY <1>15, <1>18, <2>1, <2>3, <2>4, <2>5
<1> QED BY <1>8, <1>9, <1>10, <1>11, <1>12, <1>13, <1>14, <1>16, <1>17, <1>18 DEF InstallHook

\* A process that installs moves alone, and is in the middle of a hook file
\* only if it is killed there.
LEMMA InstallStays ==
    ASSUME Sound, NEW x \in Runners, Install(x)
    PROVE  /\ run'[x].pc \notin Amid /\ (run[x].pc \in Amid => Die(x))
           /\ \A y \in Runners \ {x} : run'[y] = run[y]
           /\ UNCHANGED <<made, record, acknowledged, file, misread, served, promised>>
<1>0. TypeOK /\ run[x] \in Run BY DEF Sound, TypeOK
<1>1. UNCHANGED <<made, record, acknowledged, file, misread, served, promised>>
  BY DEF Install, Exclude, Ask, ReadSettings, WriteSettings, Die, history
<1>2. run[x].pc \in Amid => Die(x)
  BY DEF Install, Exclude, Ask, ReadSettings, WriteSettings, At, Amid
<1>3. \A pc : [run[x] EXCEPT !.pc = pc].pc = pc BY <1>0 DEF Run
<1>4. Idle.pc = "idle" /\ Ended.pc = "ended" BY DEF Idle, Ended
<1>5. PICK r : Becomes(x, r) /\ r.pc \in {"ask", "read", "ended", "write", "record", "idle"}
  <2>1. CASE Exclude(x)
    <3>1. Becomes(x, [run[x] EXCEPT !.pc = "ask"]) BY Zenon, <1>0, <2>1, InstallMoves
    <3> QED BY <1>3, <3>1
  <2>2. CASE Ask(x)
    <3>1. Becomes(x, IF IsCommand(x) \/ Ignored(Tree(x)) THEN [run[x] EXCEPT !.pc = "read"] ELSE Ended)
      BY Zenon, <1>0, <2>2, InstallMoves
    <3> QED BY <1>3, <1>4, <3>1
  <2>3. CASE ReadSettings(x)
    <3>1. Becomes(x, [run[x] EXCEPT !.pc = "write", !.seen = settings[Tree(x)]])
      BY Zenon, <1>0, <2>3, InstallMoves
    <3>2. [run[x] EXCEPT !.pc = "write", !.seen = settings[Tree(x)]].pc = "write" BY <1>0 DEF Run
    <3> QED BY <3>1, <3>2
  <2>4. CASE WriteSettings(x)
    <3>1. Becomes(x, IF ~IsCommand(x) THEN Ended
                     ELSE IF run[x].kept
                          THEN [run[x] EXCEPT !.pc = "record", !.seen = NoSettings] ELSE Idle)
      BY Zenon, <1>0, <2>4, InstallMoves
    <3>2. [run[x] EXCEPT !.pc = "record", !.seen = NoSettings].pc = "record" BY <1>0 DEF Run
    <3> QED BY <1>4, <3>1, <3>2
  <2>5. CASE Die(x)
    <3>1. Becomes(x, IF IsCommand(x) THEN Idle ELSE Ended) BY Zenon, <1>0, <2>5, InstallMoves
    <3> QED BY <1>4, <3>1
  <2> QED BY <2>1, <2>2, <2>3, <2>4, <2>5 DEF Install
<1> QED BY <1>1, <1>2, <1>5 DEF Becomes, Amid

\* Whoever is killed in the middle of writing leaves a hook file that nobody answers for.
LEMMA DieFiled ==
    ASSUME Sound, Filed, NEW x \in Runners, Die(x)
    PROVE  Filed'
<1> USE RunnersApart
<1>0. TypeOK BY DEF Sound
<1>1. Becomes(x, IF IsCommand(x) THEN Idle ELSE Ended) BY Zenon, <1>0, InstallMoves
<1>2. run'[x].pc \in {"idle", "ended"} /\ \A y \in Runners \ {x} : run'[y] = run[y]
  BY <1>1 DEF Becomes, Idle, Ended
<1>3. /\ torn' = IF run[x].pc \in {"fill", "rewrite"} THEN torn \cup {Hook(x)} ELSE torn
      /\ UNCHANGED <<file, misread, served>>
  BY DEF Die
<1>4. ASSUME NEW h \in Hooks \ torn', Writing(h) PROVE Writing(h)'
  <2>1. PICK y \in Commands : run[y].pc \in {"fill", "rewrite"} /\ Hook(y) = h
    BY <1>4 DEF Writing
  <2>2. CASE y = x BY <1>3, <2>1, <2>2
  <2>3. CASE y # x BY <1>2, <2>1, <2>3 DEF Writing, Hook
  <2> QED BY <2>2, <2>3
<1>5. ASSUME NEW y \in Commands PROVE Holds(run'[y], torn' \cup misread')
  <2>1. CASE y = x BY <1>2, <2>1 DEF Holds
  <2>2. CASE y # x
    <3>1. run'[y] = run[y] /\ Holds(run[y], torn \cup misread) BY <1>2, <2>2 DEF Filed
    <3>2. torn \cup misread \subseteq torn' \cup misread' BY <1>3
    <3> QED BY <3>1, <3>2 DEF Holds
  <2> QED BY <2>1, <2>2
<1>6. \A h \in Hooks \ torn' : Writing(h)' \/ Rightly(h, file'[h], misread', served')
  <2>1. \A h \in Hooks \ torn' : h \in Hooks \ torn BY <1>3
  <2> QED BY <1>3, <1>4, <2>1 DEF Filed
<1>7. \A h \in Hooks : FirstFile[h] # None => file'[h] # None BY <1>3 DEF Filed
<1> QED BY <1>5, <1>6, <1>7 DEF Filed

LEMMA StepFiled == Sound /\ Filed /\ [Next]_vars => Filed'
<1> SUFFICES ASSUME Sound, Filed, [Next]_vars PROVE Filed' OBVIOUS
<1> USE RunnersApart
<1>1. ASSUME NEW x \in Commands, Command(x) PROVE Filed'
  <2>1. CASE InstallHook(x) BY <2>1, HookFiled
  <2>2. CASE ~InstallHook(x)
    <3>1. \A y \in Commands : Stays(y) \/ (run[y].pc \notin Amid /\ run'[y].pc \notin Amid)
      BY <1>1, <2>2, CommandStays
    <3>2. UNCHANGED <<file, torn, misread, served>>
      BY Zenon, <1>1, <2>2
      DEF Command, StartInstall, StartUninstall, StartHooks, WriteRecord, HooksDone, TakeSettings,
          DropEntries, ClearRecord, ListWorktrees, LookInto, Told, GoOn, history
    <3> QED BY <3>1, <3>2, FiledElsewhere
  <2> QED BY <2>1, <2>2
<1>2. ASSUME NEW x \in Runners, Install(x) PROVE Filed'
  <2>1. CASE Die(x) BY <2>1, DieFiled
  <2>2. CASE ~Die(x)
    <3>1. \A y \in Commands : Stays(y) \/ (run[y].pc \notin Amid /\ run'[y].pc \notin Amid)
      BY <1>2, <2>2, InstallStays DEF Stays
    <3>2. UNCHANGED <<file, torn, misread, served>>
      BY <1>2, <2>2 DEF Install, Exclude, Ask, ReadSettings, WriteSettings, history
    <3> QED BY <3>1, <3>2, FiledElsewhere
  <2> QED BY <2>1, <2>2
<1>3. ASSUME NEW w \in Worktrees, AddWorktree(w) \/ ShellReads(w) \/ Propagate(w) PROVE Filed'
  <2>1. \A y \in Commands : Stays(y)
    <3>1. w \notin Commands /\ TypeOK BY SetupOK DEF Sound
    <3>2. PICK r : Becomes(w, r) BY Zenon, <1>3, <3>1, AddedMoves
    <3>3. \A y \in Commands : run'[y] = run[y] BY <3>1, <3>2 DEF Becomes
    <3> QED BY <3>3 DEF Stays
  <2>2. UNCHANGED <<file, torn, misread, served>>
    BY <1>3 DEF AddWorktree, ShellReads, Propagate, history
  <2> QED BY <2>1, <2>2, FiledElsewhere
<1>4. CASE \/ \E w \in Worktrees : EditSettings(w)
           \/ Acknowledge
           \/ UNCHANGED vars
  <2>1. UNCHANGED <<run, file, torn, misread, served>>
    BY <1>4 DEF EditSettings, Acknowledge, vars, history
  <2>2. \A y \in Commands : Stays(y) BY <2>1 DEF Stays
  <2> QED BY <2>1, <2>2, FiledElsewhere
<1> QED BY <1>1, <1>2, <1>3, <1>4 DEF Next

\* What the user has in a hook file outlives every writer, and what a command
\* was through with has the block, however many write at the same time: until
\* one is killed between cutting and writing, or reads what another has cut
\* (hooks.rs, install_hook).
THEOREM UserTextOutlives == Spec => []HooksKept
BY FiledKept, InitFiled, StepFiled, AlwaysSound, PTL DEF Spec
-----------------------------------------------------------------------------
(* A promise made of new worktrees is kept                                 *)

\* What an install has behind it where r, of runner x, stands: the capture was
\* acknowledged; it has a binary; and whole and at the hook, the record is
\* there, and the hook is the one thing left.
Pledged(x, r, kept, yes, done) ==
    /\ r.pc \in {"exclude", "ask", "read", "write", "record"} => r.bin # None
    /\ x \in Commands /\ r.bin # None => yes
    /\ x \in Commands /\ r.bin # None /\ r.whole /\ r.pc \in Amid \cup {"hooks"} =>
         /\ kept # None
         /\ r.hooks = <<PostCheckout>> \/ (r.hooks = <<>> /\ PostCheckout \in done)
Promise ==
    /\ \A x \in Runners : Pledged(x, run[x], record, acknowledged, served)
    /\ promised => record # None /\ acknowledged /\ PostCheckout \in served
    /\ owed # {} => promised
    \* A worktree that is owed the entries has nothing of its own, whoever looks.
    /\ \A w \in owed : w \in made /\ Branch[w] = "plain" /\ settings[w].own = FALSE
    /\ \A w \in owed : run[w].pc = "write" /\ run[w].seen.ours # None => settings[w].ours # None
    /\ \A w \in owed, x \in Runners : run[x].tree = w => run[x].seen.own = FALSE

LEMMA InitPromise == Init => Promise
<1> SUFFICES ASSUME Init PROVE Promise OBVIOUS
<1>1. \A x \in Runners : run[x] = Idle BY DEF Init
<1>2. \A x \in Runners : Pledged(x, run[x], record, acknowledged, served)
  BY <1>1 DEF Pledged, Idle, Amid
<1> QED BY <1>2 DEF Init, Promise

\* x moves alone, and clears no record.
LEMMA PromiseMoves ==
    ASSUME Sound, Promise, NEW x \in Runners, NEW r, Becomes(x, r),
           record' # None \/ record' = record,
           acknowledged' = acknowledged, served \subseteq served', made' = made,
           Pledged(x, r, record', acknowledged', served'),
           promised' => promised \/ (record' # None /\ acknowledged' /\ PostCheckout \in served'),
           promised => promised', owed' \subseteq owed,
           \A w \in owed' : /\ settings'[w].own = FALSE
                            /\ settings[w].ours # None => settings'[w].ours # None,
           r.tree \in owed' => r.seen.own = FALSE,
           x \in owed' /\ r.pc = "write" /\ r.seen.ours # None => settings'[x].ours # None
    PROVE  Promise'
<1>1. \A y \in Runners \ {x} : run'[y] = run[y] BY DEF Becomes
<1>2. run'[x] = r BY DEF Becomes
<1>3. \A y \in Runners : Pledged(y, run'[y], record', acknowledged', served')
  <2>1. \A y \in Runners \ {x} : Pledged(y, run[y], record', acknowledged', served')
    BY DEF Promise, Pledged
  <2> QED BY <1>1, <1>2, <2>1
<1>4. promised' => record' # None /\ acknowledged' /\ PostCheckout \in served' BY DEF Promise
<1>5. owed' # {} => promised' BY DEF Promise
<1>6. \A w \in owed' : w \in made' /\ Branch[w] = "plain" /\ settings'[w].own = FALSE
  BY DEF Promise
<1>7. \A w \in owed' : run'[w].pc = "write" /\ run'[w].seen.ours # None => settings'[w].ours # None
  <2>1. \A w \in owed' : w \in Runners BY RunnersApart DEF Sound, TypeOK
  <2> QED BY <1>1, <1>2, <2>1 DEF Promise
<1>8. \A w \in owed', y \in Runners : run'[y].tree = w => run'[y].seen.own = FALSE
  BY <1>1, <1>2 DEF Promise
<1> QED BY <1>3, <1>4, <1>5, <1>6, <1>7, <1>8 DEF Promise

\* What x can rely on where it stands.
LEMMA PromiseHere ==
    ASSUME Sound, Promise, NEW x \in Runners
    PROVE  /\ TypeOK /\ run[x] \in Run /\ Fits(x, run[x], made, file)
           /\ Pledged(x, run[x], record, acknowledged, served)
           /\ run[x].tree \in owed => run[x].seen.own = FALSE
           /\ \A w \in owed : settings[w].own = FALSE
           /\ x \in owed /\ run[x].pc = "write" /\ run[x].seen.ours # None => settings[x].ours # None
BY DEF Sound, TypeOK, Shape, Promise

LEMMA StartPromise ==
    ASSUME Sound, Promise, NEW x \in Commands, StartInstall(x) \/ StartUninstall(x) \/ StartHooks(x)
    PROVE  Promise'
<1> USE RunnersApart
<1>0. TypeOK /\ \A w \in owed : settings[w].own = FALSE BY DEF Sound, Promise
<1>1. UNCHANGED <<made, settings, record, acknowledged, served, promised, owed>>
  BY Zenon DEF StartInstall, StartUninstall, StartHooks, history
<1>2. PICK r : Becomes(x, r) /\ r.seen = NoSettings /\ r.pc # "write"
               /\ Pledged(x, r, record, acknowledged, served)
  <2>1. CASE StartInstall(x)
    <3>1. PICK w \in made, b \in Binaries, kept \in BOOLEAN :
            Becomes(x, [Idle EXCEPT !.pc = "exclude", !.tree = w, !.bin = b, !.kept = kept, !.whole = TRUE])
      BY Zenon, <1>0, <2>1, StartMoves
    <3> DEFINE r == [Idle EXCEPT !.pc = "exclude", !.tree = w, !.bin = b, !.kept = kept, !.whole = TRUE]
    <3>2. Becomes(x, r) /\ r.seen = NoSettings /\ r.pc = "exclude" /\ r.bin = b BY <3>1 DEF Idle
    <3> HIDE DEF r
    <3>3. acknowledged /\ b # None BY Zenon, <2>1, SetupOK DEF StartInstall
    <3>4. Pledged(x, r, record, acknowledged, served) BY <3>2, <3>3 DEF Pledged, Amid
    <3> QED BY <3>2, <3>4
  <2>2. CASE StartUninstall(x)
    <3>1. PICK w \in made :
            Becomes(x, [Idle EXCEPT !.pc = IF Branch[w] = "linked" THEN "clear" ELSE "take", !.tree = w])
      BY Zenon, <1>0, <2>2, StartMoves
    <3> DEFINE r == [Idle EXCEPT !.pc = IF Branch[w] = "linked" THEN "clear" ELSE "take", !.tree = w]
    <3>2. Becomes(x, r) /\ r.seen = NoSettings /\ r.pc \in {"clear", "take"} /\ r.bin = None
      BY <3>1 DEF Idle
    <3> HIDE DEF r
    <3>3. Pledged(x, r, record, acknowledged, served) BY <3>2 DEF Pledged
    <3> QED BY <3>2, <3>3
  <2>3. CASE StartHooks(x)
    <3>1. PICK hs \in Seq(Hooks) : Becomes(x, [Idle EXCEPT !.pc = "hooks", !.hooks = hs])
      BY Zenon, <1>0, <2>3, StartMoves
    <3> DEFINE r == [Idle EXCEPT !.pc = "hooks", !.hooks = hs]
    <3>2. Becomes(x, r) /\ r.seen = NoSettings /\ r.pc = "hooks" /\ r.bin = None
      BY <3>1 DEF Idle
    <3> HIDE DEF r
    <3>3. Pledged(x, r, record, acknowledged, served) BY <3>2 DEF Pledged
    <3> QED BY <3>2, <3>3
  <2> QED BY <2>1, <2>2, <2>3
<1>3. r.seen.own = FALSE BY <1>2 DEF NoSettings
<1> QED BY <1>0, <1>1, <1>2, <1>3, PromiseMoves

LEMMA InstallPromise ==
    ASSUME Sound, Promise, NEW x \in Runners, Install(x)
    PROVE  Promise'
<1> USE RunnersApart
<1>0. /\ TypeOK /\ run[x] \in Run /\ Fits(x, run[x], made, file)
      /\ Pledged(x, run[x], record, acknowledged, served)
      /\ run[x].tree \in owed => run[x].seen.own = FALSE
      /\ \A w \in owed : settings[w].own = FALSE
      /\ x \in owed /\ run[x].pc = "write" /\ run[x].seen.ours # None => settings[x].ours # None
      /\ (x \in Commands <=> x \notin Worktrees)
  BY PromiseHere, SetupOK
<1>1. UNCHANGED <<made, record, acknowledged, file, served, promised>> BY InstallStays
<1>2. \A pc : LET r == [run[x] EXCEPT !.pc = pc]
              IN  /\ r.pc = pc /\ r.tree = run[x].tree /\ r.seen = run[x].seen
                  /\ r.bin = run[x].bin /\ r.whole = run[x].whole /\ r.hooks = run[x].hooks
  BY <1>0 DEF Run
<1>3. \A r : r = Idle \/ r = Ended =>
               r.seen.own = FALSE /\ r.pc \in {"idle", "ended"} /\ r.bin = None
  BY DEF Idle, Ended, NoSettings
<1>4. \A r : r = Idle \/ r = Ended => Pledged(x, r, record, acknowledged, served)
  BY <1>3 DEF Pledged
<1>5. CASE Exclude(x) \/ Ask(x)
  <2>1. PICK r : /\ Becomes(x, r)
                 /\ \/ \E pc \in {"ask", "read"} : r = [run[x] EXCEPT !.pc = pc]
                    \/ r = Ended
    <3>1. CASE Exclude(x)
      <4>1. Becomes(x, [run[x] EXCEPT !.pc = "ask"]) BY Zenon, <1>0, <3>1, InstallMoves
      <4> QED BY <4>1
    <3>2. CASE Ask(x)
      <4>1. Becomes(x, IF IsCommand(x) \/ Ignored(Tree(x)) THEN [run[x] EXCEPT !.pc = "read"] ELSE Ended)
        BY Zenon, <1>0, <3>2, InstallMoves
      <4> QED BY <4>1
    <3> QED BY <1>5, <3>1, <3>2
  <2>2. /\ r.pc # "write" /\ Pledged(x, r, record, acknowledged, served)
        /\ r.tree \in owed => r.seen.own = FALSE
    <3>1. CASE r = Ended BY <1>3, <1>4, <3>1
    <3>2. CASE \E pc \in {"ask", "read"} : r = [run[x] EXCEPT !.pc = pc]
      <4>1. /\ r.pc \in {"ask", "read"} /\ r.tree = run[x].tree /\ r.seen = run[x].seen
            /\ r.bin = run[x].bin
        BY <1>2, <3>2
      <4>2. run[x].pc \in {"exclude", "ask"} BY <1>5 DEF Exclude, Ask, At
      <4> QED BY <1>0, <4>1, <4>2 DEF Pledged, Amid
    <3> QED BY <2>1, <3>1, <3>2
  <2>3. UNCHANGED <<settings, owed>> BY <1>5 DEF Exclude, Ask, history
  <2> QED BY <1>0, <1>1, <2>1, <2>2, <2>3, PromiseMoves
<1>6. CASE ReadSettings(x)
  <2> DEFINE r == [run[x] EXCEPT !.pc = "write", !.seen = settings[Tree(x)]]
  <2>1. Becomes(x, r) BY Zenon, <1>0, <1>6, InstallMoves
  <2>2. r.pc = "write" /\ r.tree = run[x].tree /\ r.bin = run[x].bin /\ r.seen = settings[r.tree]
    BY <1>0 DEF Run, Tree
  <2> HIDE DEF r
  <2>3. Pledged(x, r, record, acknowledged, served)
    BY <1>0, <1>6, <2>2 DEF Pledged, Amid, ReadSettings, At
  <2>4. UNCHANGED <<settings, owed>> BY <1>6 DEF ReadSettings, history
  <2>5. x \in owed /\ r.seen.ours # None => settings'[x].ours # None
    <3>1. x \in owed => x \in Worktrees BY <1>0 DEF TypeOK
    <3>2. x \in Worktrees => run[x].tree = x BY <1>0, <1>6 DEF Fits, ReadSettings, At
    <3> QED BY <2>2, <2>4, <3>1, <3>2
  <2> QED BY <1>0, <1>1, <2>1, <2>2, <2>3, <2>4, <2>5, PromiseMoves
<1>7. CASE WriteSettings(x)
  <2> DEFINE r == IF ~IsCommand(x) THEN Ended
                  ELSE IF run[x].kept THEN [run[x] EXCEPT !.pc = "record", !.seen = NoSettings] ELSE Idle
  <2>1. Becomes(x, r) BY Zenon, <1>0, <1>7, InstallMoves
  <2>2. r.seen.own = FALSE /\ r.pc \in {"ended", "record", "idle"} /\ (r.pc = "record" => r.bin = run[x].bin)
    BY <1>0 DEF Run, Ended, Idle, NoSettings
  <2>3. Pledged(x, r, record, acknowledged, served)
    <3>1. CASE r = Idle \/ r = Ended BY <1>4, <3>1
    <3>2. CASE r = [run[x] EXCEPT !.pc = "record", !.seen = NoSettings]
      <4>1. r.pc = "record" /\ r.bin = run[x].bin BY <1>0, <3>2 DEF Run
      <4> HIDE DEF r
      <4> QED BY <1>0, <1>7, <4>1 DEF Pledged, WriteSettings, At, Amid
    <3> QED BY <3>1, <3>2
  <2> HIDE DEF r
  <2>4. UNCHANGED owed BY <1>7 DEF WriteSettings
  <2>5. run[x].bin # None /\ Tree(x) = run[x].tree BY <1>0, <1>7 DEF Pledged, WriteSettings, At, Tree
  <2>6. ASSUME NEW w \in owed'
        PROVE  settings'[w].own = FALSE /\ (settings[w].ours # None => settings'[w].ours # None)
    <3>1. settings[w].own = FALSE /\ w \in Worktrees BY <1>0, <2>4 DEF TypeOK
    <3>2. CASE run[x].seen.ours = run[x].bin \/ w # Tree(x)
      BY <1>0, <1>7, <3>1, <3>2 DEF WriteSettings, TypeOK
    <3>3. CASE run[x].seen.ours # run[x].bin /\ w = Tree(x)
      <4>1. settings'[w] = [run[x].seen EXCEPT !.ours = run[x].bin]
        BY <1>0, <1>7, <3>1, <3>3 DEF WriteSettings, TypeOK
      <4>2. run[x].seen \in Settings /\ run[x].seen.own = FALSE
        BY <1>0, <2>4, <2>5, <3>3 DEF Run
      <4> QED BY <2>5, <4>1, <4>2 DEF Settings
    <3> QED BY <3>2, <3>3
  <2> QED BY <1>1, <2>1, <2>2, <2>3, <2>4, <2>6, PromiseMoves
<1>8. CASE Die(x)
  <2>1. PICK r : Becomes(x, r) /\ (r = Idle \/ r = Ended)
    <3>1. Becomes(x, IF IsCommand(x) THEN Idle ELSE Ended) BY Zenon, <1>0, <1>8, InstallMoves
    <3> QED BY <3>1
  <2>2. UNCHANGED settings /\ owed' \subseteq owed BY <1>8 DEF Die
  <2>3. r.pc # "write" /\ r.seen.own = FALSE BY <1>3, <2>1
  <2>4. Pledged(x, r, record, acknowledged, served) BY <1>4, <2>1
  <2> QED BY <1>0, <1>1, <2>1, <2>2, <2>3, <2>4, PromiseMoves
<1> QED BY <1>5, <1>6, <1>7, <1>8 DEF Install

LEMMA UninstallPromise ==
    ASSUME Sound, Promise, NEW x \in Commands,
           \/ WriteRecord(x) \/ HooksDone(x) \/ TakeSettings(x) \/ DropEntries(x)
           \/ ListWorktrees(x) \/ LookInto(x) \/ Told(x) \/ GoOn(x)
    PROVE  Promise'
<1> USE RunnersApart
<1>0. /\ TypeOK /\ run[x] \in Run /\ Fits(x, run[x], made, file)
      /\ Pledged(x, run[x], record, acknowledged, served)
      /\ run[x].tree \in owed => run[x].seen.own = FALSE
      /\ \A w \in owed : settings[w].own = FALSE
      /\ x \notin owed
  <2>1. x \notin Worktrees BY SetupOK
  <2> QED BY <2>1, PromiseHere DEF TypeOK
<1>1. UNCHANGED <<made, acknowledged, served>>
  BY DEF WriteRecord, HooksDone, TakeSettings, DropEntries, ListWorktrees, LookInto, Told, GoOn, history
<1>2. Idle.seen.own = FALSE /\ Idle.pc = "idle" /\ Idle.bin = None /\ Pledged(x, Idle, record, acknowledged, served)
  BY DEF Idle, NoSettings, Pledged, Amid
<1>3. CASE WriteRecord(x)
  <2> DEFINE r == [run[x] EXCEPT !.pc = "hooks", !.hooks = <<PostCheckout>>]
  <2>1. Becomes(x, r) BY Zenon, <1>0, <1>3, UninstallMoves
  <2>2. /\ r.pc = "hooks" /\ r.tree = run[x].tree /\ r.bin = run[x].bin /\ r.seen = run[x].seen
        /\ r.hooks = <<PostCheckout>>
    BY <1>0 DEF Run
  <2> HIDE DEF r
  <2>3. record' = run[x].bin /\ run[x].bin # None BY <1>0, <1>3 DEF WriteRecord, At, Pledged
  <2>4. Pledged(x, r, record', acknowledged, served) BY <1>0, <2>2, <2>3 DEF Pledged
  <2>5. UNCHANGED <<settings, owed, promised>> BY <1>3 DEF WriteRecord, history
  <2> QED BY Zenon, <1>0, <1>1, <2>1, <2>2, <2>3, <2>4, <2>5, PromiseMoves
<1>4. CASE HooksDone(x)
  <2>1. Becomes(x, Idle) BY Zenon, <1>0, <1>4, UninstallMoves
  <2>2. UNCHANGED <<settings, owed, record>> BY <1>4 DEF HooksDone
  <2>3. (promised => promised')
        /\ (promised' => promised \/ (record' # None /\ acknowledged' /\ PostCheckout \in served'))
    <3>1. promised' = (promised \/ (run[x].bin # None /\ run[x].whole)) BY <1>4 DEF HooksDone
    <3>2. run[x].bin # None /\ run[x].whole => record # None /\ acknowledged /\ PostCheckout \in served
      BY <1>0, <1>4 DEF HooksDone, At, Pledged
    <3> QED BY <1>1, <2>2, <3>1, <3>2
  <2> QED BY Zenon, <1>0, <1>1, <1>2, <2>1, <2>2, <2>3, PromiseMoves
<1>5. CASE Told(x)
  <2>1. Becomes(x, Idle) BY Zenon, <1>0, <1>5, UninstallMoves
  <2>2. UNCHANGED <<settings, owed, record, promised>> BY <1>5 DEF Told
  <2> QED BY Zenon, <1>0, <1>1, <1>2, <2>1, <2>2, PromiseMoves
<1>6. CASE TakeSettings(x)
  <2> DEFINE r == [run[x] EXCEPT !.seen = settings[Tree(x)], !.amid = {Tree(x)} \ Through,
                                 !.pc = IF Carries(Tree(x)) THEN "drop" ELSE "clear"]
  <2>1. Becomes(x, r) BY Zenon, <1>0, <1>6, UninstallMoves
  <2>2. /\ r.pc \in {"drop", "clear"} /\ r.tree = run[x].tree /\ r.bin = run[x].bin
        /\ r.seen = settings[r.tree]
    BY <1>0 DEF Run, Tree
  <2> HIDE DEF r
  <2>3. Pledged(x, r, record, acknowledged, served) BY <1>0, <2>2 DEF Pledged, Amid
  <2>4. UNCHANGED <<settings, owed, record, promised>> BY <1>6 DEF TakeSettings, history
  <2> QED BY Zenon, <1>0, <1>1, <2>1, <2>2, <2>3, <2>4, PromiseMoves
<1>7. CASE DropEntries(x)
  <2> DEFINE r == [run[x] EXCEPT !.pc = "clear"]
  <2>1. Becomes(x, r) BY Zenon, <1>0, <1>7, UninstallMoves
  <2>2. r.pc = "clear" /\ r.tree = run[x].tree /\ r.bin = run[x].bin /\ r.seen = run[x].seen
    BY <1>0 DEF Run
  <2> HIDE DEF r
  <2>3. Pledged(x, r, record, acknowledged, served) BY <1>0, <2>2 DEF Pledged, Amid
  <2>4. UNCHANGED <<record, promised>> /\ owed' = owed \ {Tree(x)} BY <1>7 DEF DropEntries
  <2>5. \A w \in owed' : settings'[w] = settings[w]
    BY <1>0, <1>7, <2>4 DEF DropEntries, TypeOK
  <2> QED BY Zenon, <1>0, <1>1, <2>1, <2>2, <2>3, <2>4, <2>5, PromiseMoves
<1>8. CASE ListWorktrees(x)
  <2> DEFINE r == [run[x] EXCEPT !.pc = "look", !.left = made \ {Tree(x)}]
  <2>1. Becomes(x, r) BY Zenon, <1>0, <1>8, UninstallMoves
  <2>2. r.pc = "look" /\ r.tree = run[x].tree /\ r.bin = run[x].bin /\ r.seen = run[x].seen
    BY <1>0 DEF Run
  <2> HIDE DEF r
  <2>3. Pledged(x, r, record, acknowledged, served) BY <1>0, <2>2 DEF Pledged, Amid
  <2>4. UNCHANGED <<settings, owed, record, promised>> BY <1>8 DEF ListWorktrees, history
  <2> QED BY Zenon, <1>0, <1>1, <2>1, <2>2, <2>3, <2>4, PromiseMoves
<1>9. CASE LookInto(x)
  <2>1. PICK w \in run[x].left :
          Becomes(x, [run[x] EXCEPT !.left = @ \ {w}, !.named = IF Carries(w) THEN @ \cup {w} ELSE @])
    BY Zenon, <1>0, <1>9, UninstallMoves
  <2> DEFINE r == [run[x] EXCEPT !.left = @ \ {w}, !.named = IF Carries(w) THEN @ \cup {w} ELSE @]
  <2>2. Becomes(x, r) BY <2>1
  <2>3. r.pc = "look" /\ r.tree = run[x].tree /\ r.bin = run[x].bin /\ r.seen = run[x].seen
    BY <1>0, <1>9 DEF Run, LookInto, At
  <2> HIDE DEF r
  <2>4. Pledged(x, r, record, acknowledged, served) BY <1>0, <2>3 DEF Pledged, Amid
  <2>5. UNCHANGED <<settings, owed, record, promised>> BY <1>9 DEF LookInto, history
  <2> QED BY Zenon, <1>0, <1>1, <2>2, <2>3, <2>4, <2>5, PromiseMoves
<1>10. CASE GoOn(x)
  <2>1. PICK r : /\ Becomes(x, r)
                 /\ \/ \E pc \in {"clear", "list", "look"} : r = [run[x] EXCEPT !.pc = pc]
                    \/ r = [run[x] EXCEPT !.pc = "hooks", !.hooks = <<PostCheckout>>, !.whole = FALSE]
    BY Zenon, <1>0, <1>10, GoOnMoves
  <2>2. /\ r.tree = run[x].tree /\ r.bin = run[x].bin /\ r.seen = run[x].seen
        /\ r.pc \in {"clear", "list", "look"} \/ (r.pc = "hooks" /\ r.whole = FALSE)
    BY <1>0, <2>1 DEF Run
  <2>3. Pledged(x, r, record, acknowledged, served) BY <1>0, <2>2 DEF Pledged, Amid
  <2>4. UNCHANGED <<settings, owed, record, promised>> BY <1>10 DEF GoOn
  <2> QED BY <1>0, <1>1, <2>1, <2>2, <2>3, <2>4, PromiseMoves
<1> QED BY <1>3, <1>4, <1>5, <1>6, <1>7, <1>8, <1>9, <1>10

LEMMA ClearPromise ==
    ASSUME Sound, Promise, NEW x \in Commands, ClearRecord(x)
    PROVE  Promise'
<1> USE RunnersApart
<1>0. TypeOK BY DEF Sound
<1>1. /\ run'[x] = [run[x] EXCEPT !.pc = "list", !.seen = NoSettings, !.amid = @ \cup Propagating]
      /\ \A y \in Commands \ {x} : run'[y] = [run[y] EXCEPT !.whole = FALSE]
      /\ \A w \in Worktrees : run'[w] = run[w]
  BY Zenon, <1>0, ClearMoves
<1>2. promised' = FALSE /\ owed' = {} /\ UNCHANGED <<acknowledged, served>>
  BY DEF ClearRecord
<1>3. ASSUME NEW y \in Runners PROVE Pledged(y, run'[y], record', acknowledged', served')
  <2>1. run[y] \in Run /\ Pledged(y, run[y], record, acknowledged, served)
    BY DEF Sound, TypeOK, Promise
  <2>2. CASE y = x
    <3>1. run'[y].pc = "list" /\ run'[y].bin = run[y].bin BY <1>1, <2>1, <2>2 DEF Run
    <3> QED BY <1>2, <2>1, <3>1 DEF Pledged, Amid
  <2>3. CASE y \in Commands \ {x}
    <3>1. run'[y].pc = run[y].pc /\ run'[y].bin = run[y].bin /\ run'[y].whole = FALSE
      BY <1>1, <2>1, <2>3 DEF Run
    <3> QED BY <1>2, <2>1, <3>1 DEF Pledged
  <2>4. CASE y \in Worktrees
    <3>1. y \notin Commands BY <2>4, SetupOK
    <3> QED BY <1>1, <2>1, <2>4, <3>1 DEF Pledged
  <2> QED BY <2>2, <2>3, <2>4
<1> QED BY <1>2, <1>3 DEF Promise

LEMMA HookPromise ==
    ASSUME Sound, Promise, NEW x \in Commands, InstallHook(x)
    PROVE  Promise'
<1> USE RunnersApart
<1>0. /\ TypeOK /\ run[x] \in Run /\ Fits(x, run[x], made, file)
      /\ Pledged(x, run[x], record, acknowledged, served)
      /\ run[x].tree \in owed => run[x].seen.own = FALSE
      /\ \A w \in owed : settings[w].own = FALSE
      /\ x \notin owed
  <2>1. x \notin Worktrees BY SetupOK
  <2> QED BY <2>1, PromiseHere DEF TypeOK
<1>1. UNCHANGED <<made, settings, record, acknowledged, promised, owed>>
  BY DEF InstallHook, KeepSettings, KeepRest
<1>2. run[x].pc \in Amid => run[x].hooks # <<>> BY <1>0 DEF Fits
<1>3. /\ served \subseteq served'
      /\ run[x].hooks # <<>> /\ run[x].pc \in Amid \cup {"hooks"}
      /\ Present(x) \/ HookAppend(x) \/ HookFill(x) \/ HookRewrite(x) => Hook(x) \in served'
  BY <1>2 DEF InstallHook, Outdated, Absent, Present, Lacking, NotShell, HookAppend, HookCreate, HookFill,
       HookCut, HookRewrite, Undecided, At, Amid
<1>4. CASE Absent(x) \/ Lacking(x) \/ Outdated(x) \/ HookCreate(x) \/ HookCut(x)
  <2>1. PICK r : /\ Becomes(x, r) /\ r.pc \in Amid /\ r.tree = run[x].tree /\ r.seen = run[x].seen
                 /\ r.bin = run[x].bin /\ r.whole = run[x].whole /\ r.hooks = run[x].hooks
    <3>1. CASE Outdated(x)
      <4>1. PICK text : Becomes(x, [run[x] EXCEPT !.pc = "cut", !.text = text])
        BY Zenon, <1>0, <1>2, <3>1, HookMoves
      <4> DEFINE r == [run[x] EXCEPT !.pc = "cut", !.text = text]
      <4>2. Becomes(x, r) BY <4>1
      <4>3. /\ r.pc = "cut" /\ r.tree = run[x].tree /\ r.seen = run[x].seen /\ r.bin = run[x].bin
            /\ r.whole = run[x].whole /\ r.hooks = run[x].hooks
        BY <1>0 DEF Run
      <4> HIDE DEF r
      <4> QED BY <4>2, <4>3 DEF Amid
    <3>2. CASE ~Outdated(x)
      <4>1. PICK pc \in {"create", "append", "fill", "rewrite"} : Becomes(x, [run[x] EXCEPT !.pc = pc])
        BY Zenon, <1>0, <1>2, <1>4, <3>2, HookMoves
      <4> DEFINE r == [run[x] EXCEPT !.pc = pc]
      <4>2. Becomes(x, r) BY <4>1
      <4>3. /\ r.pc = pc /\ r.tree = run[x].tree /\ r.seen = run[x].seen /\ r.bin = run[x].bin
            /\ r.whole = run[x].whole /\ r.hooks = run[x].hooks
        BY <1>0 DEF Run
      <4> HIDE DEF r
      <4> QED BY <4>1, <4>2, <4>3 DEF Amid
    <3> QED BY <3>1, <3>2
  <2>2. Pledged(x, r, record, acknowledged, served') BY <1>0, <1>3, <2>1 DEF Pledged, Amid
  <2>3. r.pc # "write" BY <2>1 DEF Amid
  <2> QED BY <1>0, <1>1, <1>3, <2>1, <2>2, <2>3, PromiseMoves
<1>5. CASE Present(x) \/ NotShell(x) \/ HookAppend(x) \/ HookFill(x) \/ HookRewrite(x)
  <2>1. PICK whole \in BOOLEAN : Becomes(x, Passed(run[x], whole)) /\ (whole => Hook(x) \in served')
    <3>1. CASE NotShell(x)
      <4>1. Becomes(x, Passed(run[x], FALSE)) BY Zenon, <1>0, <1>2, <3>1, HookMoves
      <4> QED BY <4>1
    <3>2. CASE Present(x) \/ HookAppend(x) \/ HookFill(x) \/ HookRewrite(x)
      <4>1. Becomes(x, Passed(run[x], TRUE)) BY Zenon, <1>0, <1>2, <3>2, HookMoves
      <4> QED BY <1>3, <3>2, <4>1
    <3> QED BY <1>5, <3>1, <3>2
  <2> DEFINE r == Passed(run[x], whole)
  <2>2. /\ r.pc = "hooks" /\ r.tree = run[x].tree /\ r.seen = run[x].seen /\ r.bin = run[x].bin
        /\ r.whole = (run[x].whole /\ whole) /\ r.hooks = Tail(run[x].hooks)
    BY <1>0 DEF Run, Passed
  <2>3. Becomes(x, r) BY <2>1
  <2> HIDE DEF r
  <2>4. ASSUME r.bin # None, r.whole
        PROVE  record # None /\ r.hooks = <<>> /\ PostCheckout \in served'
    <3>1. whole /\ run[x].whole BY <2>2, <2>4
    <3>2. record # None /\ run[x].hooks = <<PostCheckout>>
      BY <1>0, <1>3, <2>2, <2>4, <3>1 DEF Pledged
    <3>3. Hook(x) = PostCheckout /\ r.hooks = <<>> BY <2>2, <3>2 DEF Hook
    <3> QED BY <2>1, <3>1, <3>2, <3>3
  <2>5. Pledged(x, r, record, acknowledged, served')
    BY <1>0, <2>2, <2>4 DEF Pledged
  <2> QED BY <1>0, <1>1, <1>3, <2>2, <2>3, <2>5, PromiseMoves
<1> QED BY <1>4, <1>5 DEF InstallHook

LEMMA AddedPromise ==
    ASSUME Sound, Promise, NEW w \in Worktrees,
           AddWorktree(w) \/ ShellReads(w) \/ Propagate(w) \/ EditSettings(w)
    PROVE  Promise'
<1> USE RunnersApart
<1>0. /\ TypeOK /\ run[w] \in Run /\ Fits(w, run[w], made, file) /\ w \notin Commands
      /\ Pledged(w, run[w], record, acknowledged, served)
      /\ run[w].tree \in owed => run[w].seen.own = FALSE
      /\ \A v \in owed : settings[v].own = FALSE
  BY PromiseHere, SetupOK
<1>1. UNCHANGED <<record, acknowledged, served, promised>>
  BY DEF AddWorktree, ShellReads, Propagate, EditSettings, history
<1>2. Ended.seen.own = FALSE /\ Ended.pc = "ended" /\ Pledged(w, Ended, record, acknowledged, served)
  BY DEF Idle, Ended, NoSettings, Pledged, Amid
<1>3. CASE AddWorktree(w)
  <2>1. Becomes(w, IF HasBlock(PostCheckout) THEN [Idle EXCEPT !.pc = "shell", !.tree = w] ELSE Ended)
    BY Zenon, <1>0, <1>3, AddedMoves
  <2>2. PICK r : Becomes(w, r) /\ r.pc \in {"shell", "ended"} /\ r.bin = None /\ r.seen.own = FALSE
    <3>1. /\ [Idle EXCEPT !.pc = "shell", !.tree = w].pc = "shell"
          /\ [Idle EXCEPT !.pc = "shell", !.tree = w].bin = None
          /\ [Idle EXCEPT !.pc = "shell", !.tree = w].seen.own = FALSE
          /\ Ended.bin = None
      BY DEF Idle, Ended, NoSettings
    <3> QED BY <1>2, <2>1, <3>1
  <2>3. \A y \in Runners : y # w => run'[y] = run[y] BY <2>2 DEF Becomes
  <2>4. run'[w] = r BY <2>2 DEF Becomes
  <2>5. \A y \in Runners : Pledged(y, run'[y], record', acknowledged', served')
    <3>1. Pledged(w, r, record, acknowledged, served) BY <1>0, <2>2 DEF Pledged
    <3> QED BY <1>1, <2>3, <2>4, <3>1 DEF Promise
  <2>6. /\ w \notin made /\ made' = made \cup {w}
        /\ settings' = [settings EXCEPT ![w].own = Branch[w] = "tracked"]
        /\ owed' = IF Owed(w) THEN owed \cup {w} ELSE owed
    BY <1>3 DEF AddWorktree
  <2>7. \A v \in Worktrees \ {w} : settings'[v] = settings[v] BY <1>0, <2>6 DEF TypeOK
  <2>8. w \in owed' => Owed(w) /\ settings'[w].own = FALSE
    <3>1. w \in owed' => Owed(w) BY <2>6 DEF Promise
    <3>2. Owed(w) => Branch[w] = "plain" BY DEF Owed
    <3>3. settings[w] \in Settings BY <1>0 DEF TypeOK
    <3>4. settings'[w] = [settings[w] EXCEPT !.own = Branch[w] = "tracked"] BY <1>0, <2>6 DEF TypeOK
    <3>5. Branch[w] = "plain" => settings'[w].own = FALSE BY <3>3, <3>4 DEF Settings
    <3> QED BY <3>1, <3>2, <3>5
  <2>9. owed \subseteq Worktrees \ {w} /\ owed' \subseteq owed \cup {w}
    BY <1>0, <2>6 DEF TypeOK, Promise
  <2>10. \A v \in owed' : v \in made' /\ Branch[v] = "plain" /\ settings'[v].own = FALSE
    BY <2>6, <2>7, <2>8, <2>9 DEF Promise, Owed
  <2>11. \A v \in owed' : run'[v].pc = "write" /\ run'[v].seen.ours # None => settings'[v].ours # None
    BY <2>2, <2>3, <2>4, <2>7, <2>9 DEF Promise
  <2>12. \A v \in owed', y \in Runners : run'[y].tree = v => run'[y].seen.own = FALSE
    <3>1. ASSUME NEW y \in Runners, y # w PROVE run[y].tree # w
      BY <2>6 DEF Sound, Shape, Fits
    <3> QED BY <2>2, <2>3, <2>4, <2>9, <3>1 DEF Promise
  <2>13. owed' # {} => promised'
    BY <1>1, <2>8, <2>9 DEF Promise, Owed
  <2>14. promised' => record' # None /\ acknowledged' /\ PostCheckout \in served' BY <1>1 DEF Promise
  <2> QED BY <2>5, <2>10, <2>11, <2>12, <2>13, <2>14 DEF Promise
<1>4. CASE ShellReads(w)
  <2>1. PICK r : Becomes(w, r) /\ (r = Ended \/ r = [run[w] EXCEPT !.pc = "propagate"])
    <3>1. Becomes(w, IF record = None THEN Ended ELSE [run[w] EXCEPT !.pc = "propagate"])
      BY Zenon, <1>0, <1>4, AddedMoves
    <3> QED BY <3>1
  <2>2. /\ r.pc # "write" /\ Pledged(w, r, record, acknowledged, served)
        /\ r.tree \in owed => r.seen.own = FALSE
    <3>1. CASE r = Ended BY <1>2, <3>1
    <3>2. CASE r = [run[w] EXCEPT !.pc = "propagate"]
      <4>1. r.pc = "propagate" /\ r.tree = run[w].tree /\ r.seen = run[w].seen BY <1>0, <3>2 DEF Run
      <4> QED BY <1>0, <4>1 DEF Pledged
    <3> QED BY <2>1, <3>1, <3>2
  <2>3. UNCHANGED <<made, settings, owed>> BY <1>4 DEF ShellReads, history
  <2> QED BY <1>0, <1>1, <2>1, <2>2, <2>3, PromiseMoves
<1>5. CASE Propagate(w)
  <2>1. PICK r : /\ Becomes(w, r)
                 /\ r = Ended \/ (record # None /\ r = [run[w] EXCEPT !.pc = "exclude", !.bin = record])
    <3>1. Becomes(w, IF /\ record # None /\ acknowledged
                        /\ Branch[w] \notin {"linked", "tracked"} /\ settings[w] = NoSettings
                     THEN [run[w] EXCEPT !.pc = "exclude", !.bin = record] ELSE Ended)
      BY Zenon, <1>0, <1>5, AddedMoves
    <3> QED BY <3>1
  <2>2. /\ r.pc # "write" /\ Pledged(w, r, record, acknowledged, served)
        /\ r.tree \in owed => r.seen.own = FALSE
    <3>1. CASE r = Ended BY <1>2, <3>1
    <3>2. CASE record # None /\ r = [run[w] EXCEPT !.pc = "exclude", !.bin = record]
      <4>1. r.pc = "exclude" /\ r.tree = run[w].tree /\ r.seen = run[w].seen /\ r.bin = record
        BY <1>0, <3>2 DEF Run
      <4> QED BY <1>0, <3>2, <4>1 DEF Pledged
    <3> QED BY <2>1, <3>1, <3>2
  <2>3. UNCHANGED <<made, settings, owed>> BY <1>5 DEF Propagate, history
  <2> QED BY <1>0, <1>1, <2>1, <2>2, <2>3, PromiseMoves
<1>6. CASE EditSettings(w)
  <2>1. settings' = [settings EXCEPT ![w].own = TRUE] /\ owed' = owed \ {w} /\ UNCHANGED <<made, run>>
    BY <1>6 DEF EditSettings
  <2>2. \A v \in owed' : settings'[v] = settings[v] BY <1>0, <2>1 DEF TypeOK
  <2> QED BY <1>1, <2>1, <2>2 DEF Promise
<1> QED BY <1>3, <1>4, <1>5, <1>6

LEMMA StepPromise == Sound /\ Promise /\ [Next]_vars => Promise'
<1> SUFFICES ASSUME Sound, Promise, [Next]_vars PROVE Promise' OBVIOUS
<1>1. ASSUME NEW x \in Commands, Command(x) PROVE Promise'
  BY <1>1, StartPromise, UninstallPromise, ClearPromise, HookPromise DEF Command
<1>2. ASSUME NEW x \in Runners, Install(x) PROVE Promise'
  BY <1>2, InstallPromise
<1>3. ASSUME NEW w \in Worktrees, AddWorktree(w) \/ ShellReads(w) \/ Propagate(w) \/ EditSettings(w)
      PROVE  Promise'
  BY <1>3, AddedPromise
<1>4. CASE Acknowledge \/ UNCHANGED vars
  <2>1. UNCHANGED <<made, settings, record, run, served, promised, owed>>
        /\ (acknowledged => acknowledged')
    BY <1>4 DEF Acknowledge, vars, history
  <2> QED BY <2>1 DEF Promise, Pledged
<1> QED BY <1>1, <1>2, <1>3, <1>4 DEF Next

\* When the hook of a worktree that is owed the entries is through, they are there.
LEMMA EndsWithEntries ==
    ASSUME Sound, Unseen, Filed, Promise, [Next]_vars,
           NEW w \in owed', run[w].pc # "ended", run'[w].pc = "ended"
    PROVE  settings'[w].ours # None
<1> USE RunnersApart
<1>0. /\ TypeOK /\ TypeOK' /\ w \in Worktrees /\ w \notin Commands /\ run[w] \in Run
      /\ Fits(w, run[w], made, file) /\ Pledged(w, run[w], record, acknowledged, served)
  BY StepSound, SetupOK DEF Sound, TypeOK, Shape, Promise
<1>1. w \in owed => /\ record # None /\ acknowledged /\ Branch[w] = "plain" /\ settings[w].own = FALSE
                    /\ run[w].pc = "write" /\ run[w].seen.ours # None => settings[w].ours # None
  BY DEF Promise
<1>2. CASE AddWorktree(w)
  <2>1. w \notin owed BY <1>2 DEF AddWorktree, Promise
  <2>2. Owed(w) BY <1>2, <2>1 DEF AddWorktree
  <2>3. PostCheckout \in Hooks \ torn /\ PostCheckout \in served /\ ~Writing(PostCheckout)
    BY <2>2 DEF Owed, Promise, Hooks
  <2>4. HasBlock(PostCheckout) BY <2>3, FiledKept DEF HooksKept
  <2>5. run'[w].pc = "shell"
    BY ZenonT(40), <1>0, <1>2, <2>4, AddedMoves DEF Becomes, Idle
  <2> QED BY <2>5
<1>3. CASE ShellReads(w)
  <2>1. w \in owed BY <1>3 DEF ShellReads, history
  <2>2. Becomes(w, [run[w] EXCEPT !.pc = "propagate"]) BY Zenon, <1>0, <1>1, <1>3, <2>1, AddedMoves
  <2>3. run'[w].pc = "propagate" BY <1>0, <2>2 DEF Becomes, Run
  <2> QED BY <2>3
<1>4. CASE Propagate(w)
  <2>1. w \in owed /\ settings' = settings BY <1>4 DEF Propagate, history
  <2>2. CASE settings[w] = NoSettings
    <3>1. Becomes(w, [run[w] EXCEPT !.pc = "exclude", !.bin = record])
      BY Zenon, <1>0, <1>1, <1>4, <2>1, <2>2, AddedMoves
    <3>2. run'[w].pc = "exclude" BY <1>0, <3>1 DEF Becomes, Run
    <3> QED BY <3>2
  <2>3. CASE settings[w] # NoSettings
    <3>1. settings[w] \in Settings BY <1>0 DEF TypeOK
    <3>2. settings[w].own = FALSE BY <1>1, <2>1
    <3> QED BY <2>1, <2>3, <3>1, <3>2 DEF Settings, NoSettings
  <2> QED BY <2>2, <2>3
<1>5. CASE Exclude(w) \/ ReadSettings(w)
  <2>1. run'[w].pc \in {"ask", "write"}
    <3>1. CASE Exclude(w)
      <4>1. Becomes(w, [run[w] EXCEPT !.pc = "ask"]) BY Zenon, <1>0, <3>1, InstallMoves
      <4> QED BY <1>0, <4>1 DEF Becomes, Run
    <3>2. CASE ReadSettings(w)
      <4>1. Becomes(w, [run[w] EXCEPT !.pc = "write", !.seen = settings[Tree(w)]])
        BY Zenon, <1>0, <3>2, InstallMoves
      <4> QED BY <1>0, <4>1 DEF Becomes, Run
    <3> QED BY <1>5, <3>1, <3>2
  <2> QED BY <2>1
<1>6. CASE Ask(w)
  <2>1. w \in owed BY <1>6 DEF Ask, history
  <2>2. excluded /\ Tree(w) = w
    BY <1>0, <1>6 DEF Ask, At, Fits, Tree, Unseen, Watched
  <2>3. Ignored(Tree(w)) BY <1>1, <2>1, <2>2 DEF Ignored
  <2>4. Becomes(w, [run[w] EXCEPT !.pc = "read"]) BY Zenon, <1>0, <1>6, <2>3, InstallMoves
  <2>5. run'[w].pc = "read" BY <1>0, <2>4 DEF Becomes, Run
  <2> QED BY <2>5
<1>7. CASE WriteSettings(w)
  <2>1. w \in owed BY <1>7 DEF WriteSettings
  <2>2. At(w, "write") /\ Tree(w) = w BY <1>0, <1>7 DEF WriteSettings, At, Fits, Tree
  <2>3. run[w].bin # None BY <1>0, <2>2 DEF Pledged, At
  <2>4. CASE run[w].seen.ours = run[w].bin
    BY <1>1, <1>7, <2>1, <2>2, <2>3, <2>4 DEF WriteSettings, At
  <2>5. CASE run[w].seen.ours # run[w].bin
    <3>1. settings'[w] = [run[w].seen EXCEPT !.ours = run[w].bin]
      BY <1>0, <1>7, <2>2, <2>5 DEF WriteSettings, TypeOK
    <3> QED BY <1>0, <2>3, <3>1 DEF Run, Settings
  <2> QED BY <2>4, <2>5
<1>8. CASE Die(w) BY <1>8 DEF Die
<1>9. CASE run'[w] = run[w] BY <1>9
<1>10. ASSUME NEW x \in Commands, Command(x) PROVE run'[w] = run[w]
  BY <1>0, <1>10, CommandStays
<1>11. ASSUME NEW x \in Runners, x # w, Install(x) PROVE run'[w] = run[w]
  BY <1>0, <1>11, InstallStays
<1>12. ASSUME NEW v \in Worktrees, v # w, AddWorktree(v) \/ ShellReads(v) \/ Propagate(v)
       PROVE  run'[w] = run[w]
  <2>1. PICK r : Becomes(v, r) BY Zenon, <1>0, <1>12, AddedMoves
  <2> QED BY <1>0, <1>12, <2>1 DEF Becomes
<1>13. CASE (\E v \in Worktrees : EditSettings(v)) \/ Acknowledge \/ UNCHANGED vars
  <2>1. run' = run BY <1>13 DEF EditSettings, Acknowledge, vars
  <2> QED BY <2>1
<1> QED
  BY <1>0, <1>2, <1>3, <1>4, <1>5, <1>6, <1>7, <1>8, <1>9, <1>10, <1>11, <1>12, <1>13 DEF Next, Install

\* A worktree added after an install said that new ones are captured has the
\* entries when its hook is through (harness.rs, hook.rs): the record and the
\* hook were there before the promise was made, and only an uninstall takes the
\* record, which takes back the promise.
THEOREM NewWorktreesCaptured == Spec => PromiseKept
<1>1. Sound /\ Unseen /\ Filed /\ Promise /\ [Next]_vars =>
        [\A w \in owed' : (~At(w, "ended") /\ run'[w].pc = "ended") => settings'[w].ours # None]_vars
  BY EndsWithEntries DEF At
<1>2. Spec => [](Sound /\ Unseen /\ Filed /\ Promise)
  BY InitUnseen, StepUnseen, InitFiled, StepFiled, InitPromise, StepPromise, AlwaysSound, PTL DEF Spec
<1> QED BY <1>1, <1>2, PTL DEF Spec, PromiseKept
-----------------------------------------------------------------------------
(* An uninstall names what it leaves                                       *)

Carrying == {w \in made : Carries(w)}
\* What an uninstall that stands at r knows of the worktrees that carry entries,
\* of those whose hook is through, and of the hooks that have read the record.
Knows(r, carry, through, reading, kept) ==
    /\ r.pc = "drop" => r.tree \in through \/ r.tree \in r.amid
    /\ r.pc = "clear" /\ Branch[r.tree] # "linked" =>
         (r.tree \in carry \/ r.tree \notin through => r.tree \in r.amid)
    /\ r.pc \in {"list", "look"} =>
         kept = None /\ reading \subseteq r.amid /\ (r.tree \in carry => r.tree \in r.amid)
    /\ r.pc = "look" => carry \subseteq r.left \cup r.named \cup r.amid
Alone ==
    /\ quiet # {} => \A y \in Commands : run[y].bin = None
    /\ \A w \in Worktrees : Branch[w] = "linked" => ~Carries(w)
    /\ \A y \in Commands : run[y].bin # None => Branch[run[y].tree] # "linked"
Telling ==
    /\ Alone
    /\ \A x \in quiet : /\ run[x].pc \in {"take", "drop", "clear", "list", "look"}
                        /\ Knows(run[x], Carrying, Through, Propagating, record)

LEMMA TellingTells == Telling => UninstallTells
BY DEF Telling, Knows, Carrying, UninstallTells, At

LEMMA InitTelling == Init => Telling
BY RunnersApart DEF Init, Telling, Alone, Idle, Carries, NoSettings

\* A command keeps the binary it has started with, or has none.
LEMMA BinStays ==
    ASSUME Sound, NEW x \in Commands, Command(x) \/ Install(x), ~StartInstall(x),
           run'[x].bin # None
    PROVE  run'[x].bin = run[x].bin /\ run'[x].tree = run[x].tree
<1> USE RunnersApart
<1>0. TypeOK /\ run[x] \in Run /\ Fits(x, run[x], made, file) BY DEF Sound, TypeOK, Shape
<1>1. run[x].pc \in Amid => run[x].hooks # <<>> BY <1>0 DEF Fits
<1>2. Idle.bin = None /\ Ended.bin = None BY DEF Idle, Ended
<1>3. ASSUME NEW r, Becomes(x, r), r.bin = None \/ (r.bin = run[x].bin /\ r.tree = run[x].tree)
      PROVE  run'[x].bin = run[x].bin /\ run'[x].tree = run[x].tree
  BY <1>3 DEF Becomes
<1>4. \A pc : [run[x] EXCEPT !.pc = pc].bin = run[x].bin /\ [run[x] EXCEPT !.pc = pc].tree = run[x].tree
  BY <1>0 DEF Run
<1>5. CASE Exclude(x) \/ Ask(x) \/ DropEntries(x) \/ Absent(x) \/ Lacking(x) \/ HookCreate(x) \/ HookCut(x)
  <2>1. \/ \E pc : Becomes(x, [run[x] EXCEPT !.pc = pc])
        \/ Becomes(x, Ended)
    BY Zenon, <1>0, <1>1, <1>5, InstallMoves, UninstallMoves, HookMoves
  <2> QED BY Zenon, <1>2, <1>3, <1>4, <2>1
<1>6. CASE Die(x) \/ Told(x) \/ HooksDone(x)
  <2>1. Becomes(x, Idle) \/ Becomes(x, Ended)
    BY Zenon, <1>0, <1>6, InstallMoves, UninstallMoves
  <2> QED BY <1>2, <1>3, <2>1
<1>7. CASE ReadSettings(x) \/ WriteSettings(x)
  <2>1. \/ \E pc, seen : Becomes(x, [run[x] EXCEPT !.pc = pc, !.seen = seen])
        \/ Becomes(x, Ended) \/ Becomes(x, Idle)
    BY Zenon, <1>0, <1>7, InstallMoves
  <2>2. \A pc, seen : /\ [run[x] EXCEPT !.pc = pc, !.seen = seen].bin = run[x].bin
                      /\ [run[x] EXCEPT !.pc = pc, !.seen = seen].tree = run[x].tree
    BY <1>0 DEF Run
  <2> QED BY ZenonT(40), <1>2, <1>3, <2>1, <2>2
<1>8. CASE StartUninstall(x)
  <2>1. \E w, pc : Becomes(x, [Idle EXCEPT !.pc = pc, !.tree = w])
    <3>1. PICK w \in made :
            Becomes(x, [Idle EXCEPT !.pc = IF Branch[w] = "linked" THEN "clear" ELSE "take", !.tree = w])
      BY Zenon, <1>0, <1>8, StartMoves
    <3> QED BY Zenon, <3>1
  <2>2. \A w, pc : [Idle EXCEPT !.pc = pc, !.tree = w].bin = None BY DEF Idle
  <2> QED BY <1>3, <2>1, <2>2
<1>9. CASE StartHooks(x)
  <2>1. \E hs : Becomes(x, [Idle EXCEPT !.pc = "hooks", !.hooks = hs]) BY Zenon, <1>0, <1>9, StartMoves
  <2>2. \A hs : [Idle EXCEPT !.pc = "hooks", !.hooks = hs].bin = None BY DEF Idle
  <2> QED BY <1>3, <2>1, <2>2
<1>10. CASE WriteRecord(x)
  <2>1. Becomes(x, [run[x] EXCEPT !.pc = "hooks", !.hooks = <<PostCheckout>>])
    BY Zenon, <1>0, <1>10, UninstallMoves
  <2>2. /\ [run[x] EXCEPT !.pc = "hooks", !.hooks = <<PostCheckout>>].bin = run[x].bin
        /\ [run[x] EXCEPT !.pc = "hooks", !.hooks = <<PostCheckout>>].tree = run[x].tree
    BY <1>0 DEF Run
  <2> QED BY Zenon, <1>3, <2>1, <2>2
<1>11. CASE TakeSettings(x)
  <2> DEFINE r == [run[x] EXCEPT !.seen = settings[Tree(x)], !.amid = {Tree(x)} \ Through,
                                 !.pc = IF Carries(Tree(x)) THEN "drop" ELSE "clear"]
  <2>1. Becomes(x, r) BY Zenon, <1>0, <1>11, UninstallMoves
  <2>2. r.bin = run[x].bin /\ r.tree = run[x].tree BY <1>0 DEF Run
  <2> HIDE DEF r
  <2> QED BY <1>3, <2>1, <2>2
<1>12. CASE ListWorktrees(x)
  <2>1. \E left : Becomes(x, [run[x] EXCEPT !.pc = "look", !.left = left])
    BY Zenon, <1>0, <1>12, UninstallMoves
  <2>2. \A left : /\ [run[x] EXCEPT !.pc = "look", !.left = left].bin = run[x].bin
                  /\ [run[x] EXCEPT !.pc = "look", !.left = left].tree = run[x].tree
    BY <1>0 DEF Run
  <2> QED BY Zenon, <1>3, <2>1, <2>2
<1>13. CASE LookInto(x)
  <2>1. \E left, named : Becomes(x, [run[x] EXCEPT !.left = left, !.named = named])
    <3>1. PICK w \in run[x].left :
            Becomes(x, [run[x] EXCEPT !.left = @ \ {w}, !.named = IF Carries(w) THEN @ \cup {w} ELSE @])
      BY Zenon, <1>0, <1>13, UninstallMoves
    <3> QED BY Zenon, <3>1
  <2>2. \A left, named : /\ [run[x] EXCEPT !.left = left, !.named = named].bin = run[x].bin
                         /\ [run[x] EXCEPT !.left = left, !.named = named].tree = run[x].tree
    BY <1>0 DEF Run
  <2> QED BY Zenon, <1>3, <2>1, <2>2
<1>14. CASE GoOn(x)
  <2>1. \/ \E pc : Becomes(x, [run[x] EXCEPT !.pc = pc])
        \/ Becomes(x, [run[x] EXCEPT !.pc = "hooks", !.hooks = <<PostCheckout>>, !.whole = FALSE])
    BY Zenon, <1>0, <1>14, GoOnMoves
  <2>2. /\ [run[x] EXCEPT !.pc = "hooks", !.hooks = <<PostCheckout>>, !.whole = FALSE].bin = run[x].bin
        /\ [run[x] EXCEPT !.pc = "hooks", !.hooks = <<PostCheckout>>, !.whole = FALSE].tree = run[x].tree
    BY <1>0 DEF Run
  <2> QED BY <1>3, <1>4, <2>1, <2>2
<1>15. CASE Outdated(x)
  <2>1. \E text : Becomes(x, [run[x] EXCEPT !.pc = "cut", !.text = text])
    BY Zenon, <1>0, <1>1, <1>15, HookMoves
  <2>2. \A text : /\ [run[x] EXCEPT !.pc = "cut", !.text = text].bin = run[x].bin
                  /\ [run[x] EXCEPT !.pc = "cut", !.text = text].tree = run[x].tree
    BY <1>0 DEF Run
  <2> QED BY <1>3, <2>1, <2>2
<1>16. CASE Present(x) \/ NotShell(x) \/ HookAppend(x) \/ HookFill(x) \/ HookRewrite(x)
  <2>1. \E whole \in BOOLEAN : Becomes(x, Passed(run[x], whole)) BY Zenon, <1>0, <1>1, <1>16, HookMoves
  <2>2. \A whole \in BOOLEAN : /\ Passed(run[x], whole).bin = run[x].bin
                               /\ Passed(run[x], whole).tree = run[x].tree
    BY <1>0 DEF Run, Passed
  <2> QED BY <1>3, <2>1, <2>2
<1>17. CASE ClearRecord(x)
  <2>1. run'[x] = [run[x] EXCEPT !.pc = "list", !.seen = NoSettings, !.amid = @ \cup Propagating]
    BY Zenon, <1>0, <1>17, ClearMoves
  <2> QED BY <1>0, <2>1 DEF Run
<1> QED BY <1>5, <1>6, <1>7, <1>8, <1>9, <1>10, <1>11, <1>12, <1>13, <1>14, <1>15, <1>16, <1>17
        DEF Command, Install, InstallHook

\* A runner writes entries into the worktree it works on; commands write into
\* none that has no place for them.
LEMMA WhoWrites ==
    ASSUME Sound, Unseen, Promise, Alone, NEW x \in Runners, WriteSettings(x)
    PROVE  /\ Branch[Tree(x)] # "linked"
           /\ \A w \in Worktrees \ {Tree(x)} : settings'[w] = settings[w]
           /\ quiet # {} => x \in Propagating /\ Tree(x) = x
<1> USE RunnersApart
<1>0. /\ TypeOK /\ run[x] \in Run /\ Fits(x, run[x], made, file) /\ At(x, "write")
      /\ Pledged(x, run[x], record, acknowledged, served) /\ Watched(x, run[x].pc, excluded)
  BY DEF Sound, TypeOK, Shape, Promise, Unseen, WriteSettings
<1>1. \A w \in Worktrees \ {Tree(x)} : settings'[w] = settings[w]
  BY <1>0 DEF WriteSettings, TypeOK
<1>2. run[x].bin # None BY <1>0 DEF Pledged, At
<1>3. CASE x \in Commands BY <1>1, <1>2, <1>3 DEF Alone, Tree
<1>4. CASE x \in Worktrees
  <2>1. Tree(x) = x /\ Branch[x] # "linked" BY <1>0, <1>4 DEF Fits, At, Tree, Watched
  <2> QED BY <1>0, <1>1, <1>4, <2>1 DEF Propagating, At
<1> QED BY <1>3, <1>4

\* While an uninstall runs beside no install, entries come only from hooks that
\* have read the record, and once it is cleared no further hook reads it.
LEMMA Meanwhile ==
    ASSUME Sound, Unseen, Promise, Alone, quiet # {}, [Next]_vars
    PROVE  /\ Carrying' \subseteq Carrying \cup Propagating
           /\ made \cap Through \subseteq Through'
           /\ record = None => record' = None /\ Propagating' \subseteq Propagating
<1> USE RunnersApart
<1>0. TypeOK /\ \A x \in Commands : x \notin Worktrees BY SetupOK DEF Sound
<1> DEFINE Goal == /\ Carrying' \subseteq Carrying \cup Propagating
                   /\ made \cap Through \subseteq Through'
                   /\ record = None => record' = None /\ Propagating' \subseteq Propagating
<1>1. ASSUME UNCHANGED made, \A w \in Worktrees : settings'[w].ours # None => settings[w].ours # None,
             \A w \in Worktrees : run'[w].pc = run[w].pc, record = None => record' = None
      PROVE  Goal
  <2>1. Carrying' \subseteq Carrying BY <1>1 DEF Carrying, Carries, Sound, TypeOK
  <2>2. Through' = Through /\ Propagating' = Propagating BY <1>1 DEF Through, Propagating
  <2> QED BY <1>1, <2>1, <2>2
<1>2. ASSUME NEW x \in Commands, Command(x) PROVE Goal
  <2>1. \A w \in Worktrees : run'[w].pc = run[w].pc BY <1>2, CommandStays
  <2>2. UNCHANGED made BY <1>2, CommandStays
  <2>3. record = None => record' = None
    <3>1. CASE WriteRecord(x)
      <4>1. run[x].bin # None BY <3>1 DEF WriteRecord, At, Promise, Pledged
      <4> QED BY <4>1 DEF Alone
    <3>2. CASE ~WriteRecord(x)
      BY Zenon, <1>2, <3>2
      DEF Command, StartInstall, StartUninstall, StartHooks, InstallHook, KeepSettings, HooksDone,
          TakeSettings, DropEntries, ClearRecord, ListWorktrees, LookInto, Told, GoOn, history
    <3> QED BY <3>1, <3>2
  <2>4. \A w \in Worktrees : settings'[w].ours # None => settings[w].ours # None
    <3>1. CASE DropEntries(x)
      <4>1. run[x].seen \in Settings BY <1>0 DEF TypeOK, Run
      <4>2. [run[x].seen EXCEPT !.ours = None].ours = None BY <4>1 DEF Settings
      <4> QED BY <1>0, <3>1, <4>2 DEF DropEntries, TypeOK
    <3>2. CASE ~DropEntries(x)
      <4>1. UNCHANGED settings
        BY Zenon, <1>2, <3>2
        DEF Command, StartInstall, StartUninstall, StartHooks, InstallHook, KeepSettings, HooksDone,
            TakeSettings, WriteRecord, ClearRecord, ListWorktrees, LookInto, Told, GoOn, history
      <4> QED BY <4>1
    <3> QED BY <3>1, <3>2
  <2> QED BY <1>1, <2>1, <2>2, <2>3, <2>4
<1>3. ASSUME NEW x \in Runners, Install(x) PROVE Goal
  <2>0. run[x] \in Run /\ Fits(x, run[x], made, file) BY <1>0 DEF TypeOK, Sound, Shape
  <2>1. UNCHANGED <<made, record>> /\ \A y \in Runners \ {x} : run'[y] = run[y]
    BY <1>3, InstallStays
  <2>2. Carrying' \subseteq Carrying \cup Propagating
    <3>1. CASE WriteSettings(x) BY <2>1, <3>1, WhoWrites DEF Carrying, Carries, TypeOK, Sound
    <3>2. CASE ~WriteSettings(x)
      <4>1. UNCHANGED settings BY <1>3, <3>2 DEF Install, Exclude, Ask, ReadSettings, Die, history
      <4> QED BY <2>1, <4>1 DEF Carrying, Carries
    <3> QED BY <3>1, <3>2
  <2>3. run[x].pc \notin {"idle", "ended"}
    BY <1>3 DEF Install, Exclude, Ask, ReadSettings, WriteSettings, Die, Upset, At
  <2>4. made \cap Through \subseteq Through' BY <2>1, <2>3 DEF Through
  <2>5. x \in Worktrees /\ x \notin Propagating => run'[x].pc \in {"idle", "ended"}
    <3>1. x \in Worktrees /\ x \notin Propagating => Die(x)
      BY <1>3 DEF Install, Exclude, Ask, ReadSettings, WriteSettings, At, Propagating
    <3>2. ASSUME Die(x) PROVE run'[x].pc \in {"idle", "ended"}
      <4>1. Becomes(x, IF IsCommand(x) THEN Idle ELSE Ended) BY Zenon, <1>0, <3>2, InstallMoves
      <4> QED BY <4>1 DEF Becomes, Idle, Ended
    <3> QED BY <3>1, <3>2
  <2>6. Propagating' \subseteq Propagating BY <2>1, <2>5 DEF Propagating
  <2> QED BY <2>1, <2>2, <2>4, <2>6
<1>4. ASSUME NEW w \in Worktrees, AddWorktree(w) PROVE Goal
  <2>1. /\ w \notin made /\ made' = made \cup {w} /\ UNCHANGED record
        /\ settings' = [settings EXCEPT ![w].own = Branch[w] = "tracked"]
    BY <1>4 DEF AddWorktree
  <2>2. Becomes(w, IF HasBlock(PostCheckout) THEN [Idle EXCEPT !.pc = "shell", !.tree = w] ELSE Ended)
    BY Zenon, <1>0, <1>4, AddedMoves
  <2>3. run'[w].pc \in {"shell", "ended"} /\ \A y \in Runners : y # w => run'[y] = run[y]
    BY <2>2 DEF Becomes, Idle, Ended
  <2>4. \A v \in Worktrees : settings'[v].ours = settings[v].ours
    <3>1. PICK own : settings' = [settings EXCEPT ![w].own = own] BY <2>1
    <3> QED BY <1>0, <3>1 DEF TypeOK, Settings
  <2>5. Carrying' \subseteq Carrying BY <2>1, <2>4 DEF Carrying, Carries, Sound, Shape, TypeOK
  <2>6. made \cap Through \subseteq Through' BY <2>1, <2>3 DEF Through
  <2>7. Propagating' \subseteq Propagating BY <2>3 DEF Propagating
  <2> QED BY <2>1, <2>5, <2>6, <2>7
<1>5. ASSUME NEW w \in Worktrees, ShellReads(w) \/ Propagate(w) PROVE Goal
  <2>0. run[w] \in Run BY <1>0 DEF TypeOK
  <2>1. UNCHANGED <<made, settings, record>> BY <1>5 DEF ShellReads, Propagate, history
  <2>2. /\ run[w].pc \in {"shell", "propagate"}
        /\ record = None => run'[w].pc = "ended"
        /\ \A y \in Runners : y # w => run'[y] = run[y]
    <3>1. CASE ShellReads(w)
      <4>1. Becomes(w, IF record = None THEN Ended ELSE [run[w] EXCEPT !.pc = "propagate"])
        BY Zenon, <1>0, <3>1, AddedMoves
      <4> QED BY <3>1, <4>1 DEF ShellReads, At, Becomes, Ended, Idle
    <3>2. CASE Propagate(w)
      <4>1. Becomes(w, IF /\ record # None /\ acknowledged
                          /\ Branch[w] \notin {"linked", "tracked"} /\ settings[w] = NoSettings
                       THEN [run[w] EXCEPT !.pc = "exclude", !.bin = record] ELSE Ended)
        BY Zenon, <1>0, <3>2, AddedMoves
      <4> QED BY <3>2, <4>1 DEF Propagate, At, Becomes, Ended, Idle
    <3> QED BY <1>5, <3>1, <3>2
  <2>3. Carrying' = Carrying BY <2>1 DEF Carrying, Carries
  <2>4. made \cap Through \subseteq Through' BY <2>2 DEF Through
  <2>5. record = None => Propagating' \subseteq Propagating BY <2>2 DEF Propagating
  <2> QED BY <2>1, <2>3, <2>4, <2>5
<1>6. ASSUME NEW w \in Worktrees, EditSettings(w) PROVE Goal
  <2>1. settings' = [settings EXCEPT ![w].own = TRUE] /\ UNCHANGED <<made, run, record>>
    BY <1>6 DEF EditSettings
  <2>2. \A v \in Worktrees : settings'[v].ours = settings[v].ours
    BY <1>0, <2>1 DEF TypeOK, Settings
  <2> QED BY <1>1, <2>1, <2>2
<1>7. CASE Acknowledge \/ UNCHANGED vars
  <2>1. UNCHANGED <<made, settings, run, record>> BY <1>7 DEF Acknowledge, vars
  <2> QED BY <1>1, <2>1
<1> QED BY <1>2, <1>3, <1>4, <1>5, <1>6, <1>7 DEF Next

LEMMA KnowsStill ==
    ASSUME Sound, Unseen, Promise, Alone, quiet # {}, [Next]_vars, NEW x \in Commands,
           Knows(run[x], Carrying, Through, Propagating, record), Stays(x)
    PROVE  Knows(run'[x], Carrying', Through', Propagating', record')
<1>1. /\ Carrying' \subseteq Carrying \cup Propagating
      /\ made \cap Through \subseteq Through'
      /\ record = None => record' = None /\ Propagating' \subseteq Propagating
  BY Meanwhile
<1>2. run[x].tree \in made BY RunnersApart DEF Sound, Shape, Fits
<1>3. Propagating \cap Through = {} BY DEF Propagating, Through
<1>4. made \subseteq Worktrees BY DEF Sound, TypeOK
<1>5. run'[x].pc = "drop" => run'[x].tree \in Through' \/ run'[x].tree \in run'[x].amid
  BY <1>1, <1>2 DEF Knows, Stays
<1>6. run'[x].pc = "clear" /\ Branch[run'[x].tree] # "linked" =>
         (run'[x].tree \in Carrying' \/ run'[x].tree \notin Through' => run'[x].tree \in run'[x].amid)
  <2>1. run[x].tree \in Carrying' \/ run[x].tree \notin Through' =>
           run[x].tree \in Carrying \/ run[x].tree \notin Through
    BY <1>1, <1>2, <1>3
  <2> QED BY <2>1 DEF Knows, Stays
<1>7. run'[x].pc \in {"list", "look"} =>
         record' = None /\ Propagating' \subseteq run'[x].amid
         /\ (run'[x].tree \in Carrying' => run'[x].tree \in run'[x].amid)
  BY <1>1 DEF Knows, Stays
<1>8. run'[x].pc = "look" => Carrying' \subseteq run'[x].left \cup run'[x].named \cup run'[x].amid
  BY <1>1 DEF Knows, Stays
<1> QED BY <1>5, <1>6, <1>7, <1>8 DEF Knows

\* Only an install that starts brings in a binary, and it ends all quiet.
LEMMA BinsStay ==
    ASSUME Sound, [Next]_vars, NEW y \in Commands, run'[y].bin # None
    PROVE  \/ run'[y].bin = run[y].bin /\ run'[y].tree = run[y].tree
           \/ quiet' = {} /\ Branch[run'[y].tree] # "linked"
<1> USE RunnersApart
<1>0. TypeOK /\ y \notin Worktrees BY SetupOK DEF Sound
<1>1. CASE Stays(y) BY <1>1 DEF Stays
<1>2. ASSUME NEW x \in Commands, Command(x), ~Stays(y)
      PROVE  \/ run'[y].bin = run[y].bin /\ run'[y].tree = run[y].tree
             \/ quiet' = {} /\ Branch[run'[y].tree] # "linked"
  <2>1. x = y BY <1>2, CommandStays
  <2>2. CASE StartInstall(x)
    <3>1. PICK w \in made, b \in Binaries, kept \in BOOLEAN :
            /\ Branch[w] \in {"plain", "unignored"}
            /\ Becomes(x, [Idle EXCEPT !.pc = "exclude", !.tree = w, !.bin = b, !.kept = kept, !.whole = TRUE])
      BY Zenon, <1>0, <2>2, StartMoves
    <3>2. run'[x].tree = w BY <3>1 DEF Becomes, Idle
    <3> QED BY <2>1, <2>2, <3>1, <3>2 DEF StartInstall
  <2> QED BY <1>2, <2>1, <2>2, BinStays
<1>3. ASSUME NEW x \in Runners, Install(x), ~Stays(y)
      PROVE  run'[y].bin = run[y].bin /\ run'[y].tree = run[y].tree
  <2>1. x = y BY <1>3, InstallStays DEF Stays
  <2>2. ~StartInstall(y)
    BY Zenon, <1>3, <2>1 DEF Install, Exclude, Ask, ReadSettings, WriteSettings, Die, Upset, StartInstall, Start, At
  <2> QED BY <1>3, <2>1, <2>2, BinStays
<1>4. ASSUME NEW w \in Worktrees, AddWorktree(w) \/ ShellReads(w) \/ Propagate(w) PROVE Stays(y)
  <2>1. PICK r : Becomes(w, r) BY Zenon, <1>0, <1>4, AddedMoves
  <2>2. run'[y] = run[y] BY <1>0, <2>1 DEF Becomes
  <2> QED BY <2>2 DEF Stays
<1>5. CASE (\E w \in Worktrees : EditSettings(w)) \/ Acknowledge \/ UNCHANGED vars
  <2>1. run' = run BY <1>5 DEF EditSettings, Acknowledge, vars
  <2> QED BY <2>1
<1> QED BY <1>1, <1>2, <1>3, <1>4, <1>5 DEF Next

\* A step makes no uninstall quiet but one that starts beside no install.
LEMMA QuietSteps ==
    ASSUME [Next]_vars
    PROVE  \/ quiet' \subseteq quiet
           \/ \E x \in Commands : /\ StartUninstall(x) /\ quiet' = quiet \cup {x}
                                  /\ \A y \in Commands : run[y].bin = None
<1>1. ASSUME NEW x \in Commands, Command(x)
      PROVE  quiet' \subseteq quiet \/ (/\ StartUninstall(x) /\ quiet' = quiet \cup {x}
                                        /\ \A y \in Commands : run[y].bin = None)
  <2>1. CASE StartUninstall(x) BY ZenonT(40), <2>1 DEF StartUninstall, Installing, IsCommand
  <2>2. CASE ~StartUninstall(x)
    BY Zenon, <1>1, <2>2
    DEF Command, StartInstall, StartHooks, WriteRecord, InstallHook, KeepRest, HooksDone, TakeSettings,
        DropEntries, ClearRecord, ListWorktrees, LookInto, Told, GoOn, history
  <2> QED BY <2>1, <2>2
<1>2. ASSUME NEW x \in Runners, Install(x) PROVE quiet' \subseteq quiet
  BY <1>2 DEF Install, Exclude, Ask, ReadSettings, WriteSettings, Die, history
<1>3. ASSUME NEW w \in Worktrees, AddWorktree(w) \/ ShellReads(w) \/ Propagate(w) \/ EditSettings(w)
      PROVE  quiet' \subseteq quiet
  BY <1>3 DEF AddWorktree, ShellReads, Propagate, EditSettings, history
<1>4. CASE Acknowledge \/ UNCHANGED vars BY <1>4 DEF Acknowledge, vars, history
<1> QED BY <1>1, <1>2, <1>3, <1>4 DEF Next

LEMMA StepAlone == Sound /\ Unseen /\ Promise /\ Alone /\ [Next]_vars => Alone'
<1> SUFFICES ASSUME Sound, Unseen, Promise, Alone, [Next]_vars PROVE Alone' OBVIOUS
<1> USE RunnersApart
<1>0. TypeOK BY DEF Sound
<1>1. ASSUME quiet' # {}, NEW y \in Commands PROVE run'[y].bin = None
  <2>1. run[y].bin = None BY <1>1, QuietSteps DEF Alone
  <2> QED BY <1>1, <2>1, BinsStay
<1>2. ASSUME NEW y \in Commands, run'[y].bin # None PROVE Branch[run'[y].tree] # "linked"
  BY <1>2, BinsStay DEF Alone
<1>3. ASSUME NEW w \in Worktrees, Branch[w] = "linked" PROVE settings'[w].ours = None
  <2>1. settings[w].ours = None BY <1>3 DEF Alone, Carries
  <2>2. CASE \E x \in Runners : WriteSettings(x) BY <1>3, <2>1, <2>2, WhoWrites
  <2>3. CASE \E x \in Commands : DropEntries(x)
    <3>1. PICK x \in Commands : DropEntries(x) BY <2>3
    <3>2. run[x].seen \in Settings BY <1>0 DEF TypeOK, Run
    <3>3. [run[x].seen EXCEPT !.ours = None].ours = None BY <3>2 DEF Settings
    <3> QED BY <1>0, <2>1, <3>1, <3>3 DEF DropEntries, TypeOK
  <2>4. CASE \E v \in Worktrees : AddWorktree(v) \/ EditSettings(v)
    <3>1. PICK v \in Worktrees : \E own : settings' = [settings EXCEPT ![v].own = own]
      BY <2>4 DEF AddWorktree, EditSettings
    <3> QED BY <1>0, <2>1, <3>1 DEF TypeOK, Settings
  <2>5. \/ UNCHANGED settings
        \/ \E x \in Runners : WriteSettings(x)
        \/ \E x \in Commands : DropEntries(x)
        \/ \E v \in Worktrees : AddWorktree(v) \/ EditSettings(v)
    <3>1. ASSUME NEW x \in Commands, Command(x) PROVE UNCHANGED settings \/ DropEntries(x)
      BY Zenon, <3>1 DEF Command, StartInstall, StartUninstall, StartHooks, WriteRecord, InstallHook, KeepSettings,
        HooksDone, TakeSettings, ClearRecord, ListWorktrees, LookInto, Told, GoOn, history
    <3>2. ASSUME NEW x \in Runners, Install(x) PROVE UNCHANGED settings \/ WriteSettings(x)
      BY <3>2 DEF Install, Exclude, Ask, ReadSettings, Die, history
    <3>3. ASSUME NEW v \in Worktrees, ShellReads(v) \/ Propagate(v) PROVE UNCHANGED settings
      BY <3>3 DEF ShellReads, Propagate, history
    <3>4. CASE Acknowledge \/ UNCHANGED vars BY <3>4 DEF Acknowledge, vars
    <3> QED BY <3>1, <3>2, <3>3, <3>4 DEF Next
  <2> QED BY <2>1, <2>2, <2>3, <2>4, <2>5
<1> QED BY <1>1, <1>2, <1>3 DEF Alone, Carries

\* An uninstall that goes on by itself knows the more for it.
LEMMA KnowsMore ==
    ASSUME Sound, Alone, NEW x \in Commands, Knows(run[x], Carrying, Through, Propagating, record),
           TakeSettings(x) \/ DropEntries(x) \/ ClearRecord(x) \/ ListWorktrees(x) \/ LookInto(x)
    PROVE  /\ run'[x].pc \in {"drop", "clear", "list", "look"}
           /\ Knows(run'[x], Carrying', Through', Propagating', record')
<1> USE RunnersApart
<1>0. /\ TypeOK /\ run[x] \in Run /\ run[x].tree \in made /\ Tree(x) = run[x].tree
      /\ made \subseteq Worktrees
  BY DEF Sound, TypeOK, Shape, Fits, Tree
<1>1. UNCHANGED made
  BY DEF TakeSettings, DropEntries, ClearRecord, ListWorktrees, LookInto
<1>2. \A w \in Worktrees : run'[w] = run[w]
  <2>1. Command(x) BY DEF Command
  <2> QED BY <2>1, CommandStays
<1>3. Through' = Through /\ Propagating' = Propagating BY <1>2 DEF Through, Propagating
<1>4. ASSUME UNCHANGED settings PROVE Carrying' = Carrying BY <1>1, <1>4 DEF Carrying, Carries
<1>5. Branch[run[x].tree] = "linked" => run[x].tree \notin Carrying
  BY <1>0 DEF Alone, Carrying
<1>6. CASE TakeSettings(x)
  <2> DEFINE r == [run[x] EXCEPT !.seen = settings[Tree(x)], !.amid = {Tree(x)} \ Through,
                                 !.pc = IF Carries(Tree(x)) THEN "drop" ELSE "clear"]
  <2>1. Becomes(x, r) BY Zenon, <1>0, <1>6, UninstallMoves
  <2>2. /\ r.pc = IF Carries(Tree(x)) THEN "drop" ELSE "clear"
        /\ r.tree = run[x].tree /\ r.amid = {Tree(x)} \ Through
    BY <1>0 DEF Run
  <2> HIDE DEF r
  <2>3. run'[x] = r /\ UNCHANGED settings BY <1>6, <2>1 DEF Becomes, TakeSettings
  <2>4. r.pc = "drop" => r.tree \in Through \/ r.tree \in r.amid BY <1>0, <2>2
  <2>5. r.pc = "clear" => r.tree \notin Carrying /\ (r.tree \notin Through => r.tree \in r.amid)
    BY <1>0, <2>2 DEF Carrying
  <2> QED BY <1>3, <1>4, <2>2, <2>3, <2>4, <2>5 DEF Knows
<1>7. CASE DropEntries(x)
  <2> DEFINE r == [run[x] EXCEPT !.pc = "clear"]
  <2>1. Becomes(x, r) BY Zenon, <1>0, <1>7, UninstallMoves
  <2>2. r.pc = "clear" /\ r.tree = run[x].tree /\ r.amid = run[x].amid BY <1>0 DEF Run
  <2> HIDE DEF r
  <2>3. run'[x] = r BY <2>1 DEF Becomes
  <2>4. settings'[Tree(x)].ours = None
    <3>1. [run[x].seen EXCEPT !.ours = None].ours = None BY <1>0 DEF Run, Settings
    <3> QED BY <1>0, <1>7, <3>1 DEF DropEntries, TypeOK
  <2>5. r.tree \notin Carrying' BY <1>0, <2>2, <2>4 DEF Carrying, Carries
  <2>6. r.tree \in Through \/ r.tree \in r.amid BY <1>7, <2>2 DEF DropEntries, At, Knows
  <2> QED BY <1>3, <2>2, <2>3, <2>5, <2>6 DEF Knows
<1>8. CASE ClearRecord(x)
  <2>1. run'[x] = [run[x] EXCEPT !.pc = "list", !.seen = NoSettings, !.amid = @ \cup Propagating]
    BY Zenon, <1>0, <1>8, ClearMoves
  <2>2. run'[x].pc = "list" /\ run'[x].tree = run[x].tree /\ run'[x].amid = run[x].amid \cup Propagating
    BY <1>0, <2>1 DEF Run
  <2>3. record' = None /\ UNCHANGED settings BY <1>8 DEF ClearRecord
  <2>4. run[x].tree \in Carrying => run[x].tree \in run[x].amid
    BY <1>5, <1>8 DEF ClearRecord, At, Knows
  <2> QED BY <1>3, <1>4, <2>2, <2>3, <2>4 DEF Knows
<1>9. CASE ListWorktrees(x)
  <2> DEFINE r == [run[x] EXCEPT !.pc = "look", !.left = made \ {Tree(x)}]
  <2>1. Becomes(x, r) BY Zenon, <1>0, <1>9, UninstallMoves
  <2>2. /\ r.pc = "look" /\ r.tree = run[x].tree /\ r.amid = run[x].amid
        /\ r.left = made \ {run[x].tree}
    BY <1>0 DEF Run
  <2> HIDE DEF r
  <2>3. run'[x] = r /\ UNCHANGED <<settings, record>> BY <1>9, <2>1 DEF Becomes, ListWorktrees
  <2>4. record = None /\ Propagating \subseteq r.amid /\ (r.tree \in Carrying => r.tree \in r.amid)
    BY <1>9, <2>2 DEF ListWorktrees, At, Knows
  <2>5. Carrying \subseteq r.left \cup r.amid BY <2>2, <2>4 DEF Carrying
  <2> QED BY <1>3, <1>4, <2>2, <2>3, <2>4, <2>5 DEF Knows
<1>10. CASE LookInto(x)
  <2>1. PICK w \in run[x].left :
          Becomes(x, [run[x] EXCEPT !.left = @ \ {w}, !.named = IF Carries(w) THEN @ \cup {w} ELSE @])
    BY Zenon, <1>0, <1>10, UninstallMoves
  <2> DEFINE r == [run[x] EXCEPT !.left = @ \ {w}, !.named = IF Carries(w) THEN @ \cup {w} ELSE @]
  <2>2. Becomes(x, r) BY <2>1
  <2>3. /\ r.pc = "look" /\ r.tree = run[x].tree /\ r.amid = run[x].amid /\ r.left = run[x].left \ {w}
        /\ r.named = IF Carries(w) THEN run[x].named \cup {w} ELSE run[x].named
    BY <1>0, <1>10 DEF Run, LookInto, At
  <2> HIDE DEF r
  <2>4. run'[x] = r /\ UNCHANGED <<settings, record>> BY Zenon, <1>10, <2>2 DEF Becomes, LookInto
  <2>5. /\ record = None /\ Propagating \subseteq r.amid /\ (r.tree \in Carrying => r.tree \in r.amid)
        /\ Carrying \subseteq run[x].left \cup run[x].named \cup run[x].amid
    BY <1>10, <2>3 DEF LookInto, At, Knows
  <2>6. Carrying \subseteq r.left \cup r.named \cup r.amid BY <2>3, <2>5 DEF Carrying
  <2> QED BY <1>3, <1>4, <2>3, <2>4, <2>5, <2>6 DEF Knows
<1> QED BY <1>6, <1>7, <1>8, <1>9, <1>10

LEMMA StepTelling == Sound /\ Unseen /\ Promise /\ Telling /\ [Next]_vars => Telling'
<1> SUFFICES ASSUME Sound, Unseen, Promise, Telling, [Next]_vars PROVE Telling' OBVIOUS
<1> USE RunnersApart
<1>0. TypeOK /\ TypeOK' /\ quiet \subseteq Commands /\ quiet' \subseteq Commands
  BY StepSound DEF Sound, TypeOK
<1>1. Alone' BY StepAlone DEF Telling
<1> DEFINE Well(x) == /\ run'[x].pc \in {"take", "drop", "clear", "list", "look"}
                      /\ Knows(run'[x], Carrying', Through', Propagating', record')
<1>2. ASSUME NEW x \in quiet, x \in quiet' PROVE Well(x)
  <2>1. /\ x \in Commands /\ run[x].pc \in {"take", "drop", "clear", "list", "look"}
        /\ Knows(run[x], Carrying, Through, Propagating, record) /\ Alone /\ x \notin Worktrees
    BY <1>0, SetupOK DEF Telling
  <2>2. CASE Stays(x)
    <3>1. Knows(run'[x], Carrying', Through', Propagating', record')
      BY <2>1, <2>2, KnowsStill
    <3> QED BY <2>1, <2>2, <3>1 DEF Stays
  <2>3. CASE TakeSettings(x) \/ DropEntries(x) \/ ClearRecord(x) \/ ListWorktrees(x) \/ LookInto(x)
    BY <2>1, <2>3, KnowsMore
  <2>4. ASSUME NEW y \in Commands, Command(y), ~Stays(x)
        PROVE  TakeSettings(x) \/ DropEntries(x) \/ ClearRecord(x) \/ ListWorktrees(x) \/ LookInto(x)
    <3>1. y = x BY <2>1, <2>4, CommandStays
    <3>2. ~InstallHook(x)
      BY <2>1 DEF InstallHook, Outdated, Absent, Present, Lacking, NotShell, HookAppend, HookCreate,
         HookFill, HookCut, HookRewrite, Undecided, At
    <3>3. ~GoOn(x) /\ ~Told(x) BY <1>2 DEF GoOn, Told
    <3>4. ~StartInstall(x) /\ ~StartUninstall(x) /\ ~StartHooks(x) /\ ~WriteRecord(x) /\ ~HooksDone(x)
      BY Zenon, <2>1 DEF StartInstall, StartUninstall, StartHooks, Start, WriteRecord, HooksDone, At
    <3> QED BY <2>4, <3>1, <3>2, <3>3, <3>4 DEF Command
  <2>5. ASSUME NEW y \in Runners, Install(y) PROVE Stays(x)
    <3>1. y # x
      BY <1>2, <2>1, <2>5 DEF Install, Exclude, Ask, ReadSettings, WriteSettings, Die, At
    <3>2. run'[x] = run[x] BY <2>1, <2>5, <3>1, InstallStays
    <3> QED BY <3>2 DEF Stays
  <2>6. ASSUME NEW w \in Worktrees, AddWorktree(w) \/ ShellReads(w) \/ Propagate(w) PROVE Stays(x)
    <3>1. PICK r : Becomes(w, r) BY Zenon, <1>0, <2>6, AddedMoves
    <3>2. run'[x] = run[x] BY <2>1, <3>1 DEF Becomes
    <3> QED BY <3>2 DEF Stays
  <2>7. CASE (\E w \in Worktrees : EditSettings(w)) \/ Acknowledge \/ UNCHANGED vars
    <3>1. run' = run BY <2>7 DEF EditSettings, Acknowledge, vars
    <3>2. Stays(x) BY <3>1 DEF Stays
    <3> QED BY <2>2, <3>2
  <2> HIDE DEF Well
  <2> QED BY <2>2, <2>3, <2>4, <2>5, <2>6, <2>7 DEF Next
<1>3. ASSUME NEW x \in quiet', x \notin quiet PROVE Well(x)
  <2>1. StartUninstall(x) /\ x \in Commands BY <1>3, QuietSteps
  <2>2. PICK w \in made :
          Becomes(x, [Idle EXCEPT !.pc = IF Branch[w] = "linked" THEN "clear" ELSE "take", !.tree = w])
    BY Zenon, <1>0, <2>1, StartMoves
  <2>3. /\ run'[x].tree = w
        /\ run'[x].pc = IF Branch[w] = "linked" THEN "clear" ELSE "take"
    BY <2>2 DEF Becomes, Idle
  <2> QED BY <2>3 DEF Knows
<1> HIDE DEF Well
<1>4. \A x \in quiet' : Well(x) BY <1>2, <1>3
<1> QED BY <1>1, <1>4 DEF Telling, Well

\* An uninstall that ran beside no install, and of which nothing failed, has
\* named every worktree that goes on capturing, but for those that were being
\* added as it cleared the record (harness.rs, uninstall_claude_code): after
\* that no hook reads the record, so nothing comes to carry entries unseen.
THEOREM UninstallIsFrank == Spec => []UninstallTells
BY TellingTells, InitTelling, StepTelling, InitUnseen, StepUnseen, InitPromise, StepPromise,
   AlwaysSound, PTL DEF Spec

\* Every variable stays within its type.
THEOREM HarnessTyped == Spec => []TypeOK
<1>1. Sound => TypeOK BY DEF Sound
<1> QED BY <1>1, AlwaysSound, PTL
=============================================================================
