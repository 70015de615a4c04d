---------------------------- MODULE MCLabelChain ----------------------------
(* An instance of LabelChain: the service, and histor reobserve beside it.  *)
(* The lists differ in names, in content and in why they have no digest.    *)
(* And one of Advice, over the two lanes of that service: the classifier's  *)
(* columns and tables are its own, so a behaviour is of one of the two.     *)
EXTENDS LabelChain, Advice, TLC

CONSTANTS service, reobserve, d1, d2

List(names, content, refusal) == [names |-> names, content |-> content, refusal |-> refusal]

Plain == List("n", "c1", None)
Renamed == List("m", "c2", None)
Numbers == List("n", "c3", "MTL-NUM-001")
Undigestible == List("n", "c4", "MTL-SUBJ-001")

OneOfEachKind == {Plain, Renamed, Numbers, Undigestible}

\* Two targets of one lane, and one that the other lane judges at the same time.
TwoLanes == [remote |-> <<"r1", "r2">>, packages |-> <<"p1">>]

VARIABLE about  \* "chain" or "advice"

Step == about = "chain" /\ Next /\ UNCHANGED <<advice, about>>
Advised == about = "advice" /\ Advising /\ UNCHANGED <<vars, about>>

MCInit == Init /\ AdviceInit /\ about \in {"chain", "advice"}
MCSpec == MCInit /\ [][Step \/ Advised]_<<vars, advice, about>>

Symmetry == Permutations({service, reobserve}) \cup Permutations({d1, d2})
=============================================================================
