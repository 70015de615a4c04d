--------------------------- MODULE AppendOnlyLog ---------------------------
(***************************************************************************)
(* What a log promises its readers (logbook.py:3-6, docs/log.md, and       *)
(* receipts.py of the log of receipts): a sequence that only grows, by a   *)
(* transaction's entries at a time, and signed heads, at most one per      *)
(* size, each committing to exactly the first treeSize entries.            *)
(***************************************************************************)
EXTENDS Integers, Sequences

CONSTANTS Labels, AtOnce  \* what may be logged, and how much of it in one transaction

VARIABLES entries, heads

vars == <<entries, heads>>

CurrentHead == [treeSize |-> Len(entries), rootHash |-> entries]

Init == entries = <<>> /\ heads = {}

Add(more) ==
    /\ entries' = entries \o more
    /\ UNCHANGED heads

Sign ==
    /\ entries # <<>>
    /\ heads' = heads \union {CurrentHead}
    /\ UNCHANGED entries

Next == Sign \/ \E n \in 1..AtOnce : \E more \in [1..n -> Labels] : Add(more)

Spec == Init /\ [][Next]_vars
=============================================================================
