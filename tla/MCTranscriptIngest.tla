------------------------ MODULE MCTranscriptIngest -------------------------
(***************************************************************************)
(* A small session for TranscriptIngest: a prompt, a response that commits *)
(* in its only call, one in two entries that commits again, and a last one *)
(* whose call nobody answers any more.                                     *)
(***************************************************************************)
EXTENDS TranscriptIngest, TLC

CONSTANTS r1, r2, r3, none, k1, k2, k3, c1, c2

Entry(kind, of, calls, answers) ==
    [kind |-> kind, of |-> of, calls |-> calls, answers |-> answers]
Session == <<
    Entry("prompt", none, {}, {}),
    Entry("response", r1, {k1}, {}),
    Entry("result", none, {}, {k1}),
    Entry("response", r2, {}, {}),
    Entry("response", r2, {k2}, {}),
    Entry("result", none, {}, {k2}),
    Entry("response", r3, {k3}, {}) >>
ResultOf == [c \in Commits |-> IF c = c1 THEN 3 ELSE 6]
\* Two upsets where runs are ordered, none where they overlap.
Upsets == [canLock \in BOOLEAN |-> IF canLock THEN 2 ELSE 0]

\* Runs are alike, and so are inodes.
Alike == Permutations(Runs) \cup Permutations(Inodes)
=============================================================================
