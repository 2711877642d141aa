--------------------------- MODULE ConsentLedger ---------------------------
(***************************************************************************)
(* What the records about one destination promise, whoever writes them:    *)
(* each change is one decision, or one step of a publication, applied to   *)
(* the records as they are at that moment.                                 *)
(*                                                                         *)
(* Records are kept under the fingerprint of the destination's location,   *)
(* and by an earlier version under a fingerprint of the whole push URL.    *)
(***************************************************************************)
CONSTANTS
    Fp,             \* the fingerprint of the location
    Legacies,       \* fingerprints of its URLs with user information
    Conversations

Keys == {Fp} \cup Legacies
\* How a conversation stands with a destination; "none" is no row at all.
Standing == {"none", "private", "shared", "pending", "published"}
\* A consent is its auto-push setting.
Consent == {"none", "manual", "auto"}
Books == [capture : {"unasked", "acknowledged"}, sharing : [Keys -> Consent]]

VARIABLES
    book,   \* privacy.json: capture, and sharing[k]
    rows    \* rows[k][c], in the database

ledger == <<book, rows>>
-----------------------------------------------------------------------------
LedgerTypeOK ==
    /\ book \in Books
    /\ rows \in [Keys -> [Conversations -> Standing]]

\* Nothing is kept under the location before the version that computes it.
LedgerInit ==
    /\ book \in Books /\ book.capture = "unasked" /\ book.sharing[Fp] = "none"
    /\ rows \in [Keys -> [Conversations -> {"none", "shared", "pending"}]]
    /\ \A c \in Conversations : rows[Fp][c] = "none"

HasRows(k) == \E c \in Conversations : rows[k][c] # "none"
RowsAwait(l) == HasRows(l) /\ ~HasRows(Fp)
ConsentAwaits(b, l) == b.sharing[l] # "none" /\ b.sharing[Fp] = "none"

\* What the decisions make of a file.
WithCapture(b) == [b EXCEPT !.capture = "acknowledged"]
WithConsent(b, k, value) == [b EXCEPT !.sharing[k] = value]
WithAdopted(b, l) == [b EXCEPT !.sharing[Fp] = b.sharing[l], !.sharing[l] = "none"]

Decide ==
    /\ \/ book' = WithCapture(book)
       \/ \E k \in Keys : book' = WithConsent(book, k, "manual")
       \/ \E k \in Keys, auto \in Consent \ {"none"} :
              book.sharing[k] # "none" /\ book' = WithConsent(book, k, auto)
    /\ UNCHANGED rows

AdoptConsent(l) ==
    /\ ConsentAwaits(book, l)
    /\ book' = WithAdopted(book, l)
    /\ UNCHANGED rows

AdoptRows(l) ==
    /\ RowsAwait(l)
    /\ rows' = [rows EXCEPT ![Fp] = rows[l], ![l] = [c \in Conversations |-> "none"]]
    /\ UNCHANGED book

Share(k, c) ==
    /\ rows[k][c] \in {"none", "private"}
    /\ rows' = [rows EXCEPT ![k][c] = "shared"]
    /\ UNCHANGED book

Unshare(k, c) ==
    /\ rows[k][c] \in {"none", "shared"}
    /\ rows' = [rows EXCEPT ![k][c] = "private"]
    /\ UNCHANGED book

\* What a publication makes of the rows under its key.
Marked(k, cs) ==
    [rows EXCEPT ![k] = [c \in Conversations |-> IF c \in cs THEN "pending" ELSE rows[k][c]]]
Settled(k, there, absent) ==
    [rows EXCEPT ![k] = [c \in Conversations |-> IF c \in there THEN "published"
                                                 ELSE IF c \in absent THEN "shared"
                                                 ELSE rows[k][c]]]

\* It carries what is shared, where there is consent.
Mark(k, cs) ==
    /\ book.sharing[k] # "none"
    /\ \A c \in cs : rows[k][c] = "shared"
    /\ rows' = Marked(k, cs)
    /\ UNCHANGED book

\* What is pending is found to be there, or not.
Settle(k, there, absent) ==
    /\ \A c \in there \cup absent : rows[k][c] = "pending"
    /\ rows' = Settled(k, there, absent)
    /\ UNCHANGED book

LedgerNext ==
    \/ Decide
    \/ \E l \in Legacies : AdoptConsent(l) \/ AdoptRows(l)
    \/ \E k \in Keys, c \in Conversations : Share(k, c) \/ Unshare(k, c)
    \/ \E k \in Keys, cs \in SUBSET Conversations : Mark(k, cs)
    \/ \E k \in Keys, there, absent \in SUBSET Conversations : Settle(k, there, absent)

LedgerSpec == LedgerInit /\ [][LedgerNext]_ledger
=============================================================================
