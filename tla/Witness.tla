------------------------------ MODULE Witness ------------------------------
(***************************************************************************)
(* HISTOR as a witness for a transparency log: histor/witness.py.          *)
(*                                                                         *)
(* A witness keeps the newest checkpoint it co-signed and co-signs another *)
(* only if the log proves it grew from that one.  Requests are handled by  *)
(* a pool of threads: a handler reads the row, verifies, and only then     *)
(* persists under a compare-and-set on the size, so that anything can      *)
(* happen between its two halves.                                          *)
(*                                                                         *)
(* A root is the sequence of leaves it commits to and a consistency proof  *)
(* is the pair of trees it was made for (MerkleTree.tla checks that        *)
(* verify_consistency accepts exactly these).  One origin: rows of         *)
(* different origins never meet.                                           *)
(***************************************************************************)
EXTENDS Integers, Sequences

CONSTANTS
    Leaves,      \* leaf hashes of the log
    Witnesses,   \* witness instances, each with its key and its database
    Handlers,    \* request threads
    None

VARIABLES
    signed,      \* trees the log's key has ever signed, of whatever history
    row,         \* witness -> the checkpoint in its witness_logs row
    handler,     \* thread -> the request it has verified and not yet persisted
    cosigned     \* every checkpoint ever co-signed, and by whom

witnessVars == <<signed, row, handler, cosigned>>

Tree == Seq(Leaves)

\* A checkpoint note: the tree, and the witnesses whose lines it carries.
Note == [tree : Tree, carried : SUBSET Witnesses]

Proof == [first : Tree, second : Tree]

Request == [old : Nat, note : Note, proof : Proof \union {None}]

Verified == [witness : Witnesses, old : Nat, note : Note]

ASSUME WitnessAssumption == None \notin Note /\ None \notin Verified

TypeOK ==
    /\ signed \in SUBSET Tree
    /\ row \in [Witnesses -> Note \union {None}]
    /\ handler \in [Handlers -> Verified \union {None}]
    /\ cosigned \in SUBSET [witness : Witnesses, tree : Tree]

Init ==
    /\ signed = {}
    /\ row = [w \in Witnesses |-> None]
    /\ handler = [t \in Handlers |-> None]
    /\ cosigned = {}

-----------------------------------------------------------------------------

GrownFrom(old, new) == Len(old) <= Len(new) /\ SubSeq(new, 1, Len(old)) = old

\* Witness.state: 0 when the witness has no row for the log.
SizeOf(w) == IF row[w] = None THEN 0 ELSE Len(row[w].tree)

\* merkle.verify_consistency.
VerifyConsistency(proof, old, new) ==
    proof = [first |-> old, second |-> new] /\ GrownFrom(old, new)

\* Mutant: an unchanged size is accepted without comparing the roots.
AnyRootOfThatSize(w, request) ==
    LET tree == request.note.tree IN
    \/ request.old = 0 /\ request.proof = None
    \/ 0 < request.old /\ request.old = Len(tree) /\ request.proof = None
    \/ 0 < request.old /\ request.old < Len(tree)
       /\ VerifyConsistency(request.proof, row[w].tree, tree)

(***************************************************************************)
(* What goes with the old size: nothing to prove from an empty tree, the   *)
(* same root for an unchanged size, a proof from the row's root otherwise. *)
(***************************************************************************)
Proves(w, request) ==
    LET tree == request.note.tree IN
    \/ request.old = 0 /\ request.proof = None
    \/ 0 < request.old /\ request.old = Len(tree) /\ request.proof = None /\ tree = row[w].tree
    \/ 0 < request.old /\ request.old < Len(tree)
       /\ VerifyConsistency(request.proof, row[w].tree, tree)

\* Signed by a key trusted for this origin, and not shrinking: else 404, 403 or 400.
WellFormed(request) == request.note.tree \in signed /\ request.old <= Len(request.note.tree)

\* 409: the body tells the client the witness's size.
Conflicts(w, request) == WellFormed(request) /\ request.old # SizeOf(w)

Accepts(w, request) ==
    WellFormed(request) /\ request.old = SizeOf(w) /\ Proves(w, request)

\* add_checkpoint up to the signature, which stays in the handler until the row is written.
Verify(t, w, request) ==
    /\ handler[t] = None /\ Accepts(w, request)
    /\ handler' = [handler EXCEPT ![t] =
                      [witness |-> w, old |-> request.old, note |-> request.note]]
    /\ UNCHANGED <<signed, row, cosigned>>

\* Mutant: the row is written whatever its size has become.
Unconditional(t) == handler[t] # None

\* _persist: the row's size is still the old size of the request.
Current(t) == handler[t] # None /\ SizeOf(handler[t].witness) = handler[t].old

\* _persist commits; only then the cosignature line is returned.
Persist(t) ==
    /\ Current(t)
    /\ row' = [row EXCEPT ![handler[t].witness] = handler[t].note]
    /\ cosigned' = cosigned \union {[witness |-> handler[t].witness, tree |-> handler[t].note.tree]}
    /\ handler' = [handler EXCEPT ![t] = None]
    /\ UNCHANGED signed

\* _persist found another size: 409, and the signature is dropped.
Outrun(t) ==
    /\ handler[t] # None /\ ~ Current(t)
    /\ handler' = [handler EXCEPT ![t] = None]
    /\ UNCHANGED <<signed, row, cosigned>>

\* The witness process ends: what its handlers had not persisted is gone.
Restart(w) ==
    /\ \E t \in Handlers : handler[t] # None /\ handler[t].witness = w
    /\ handler' = [t \in Handlers |->
                      IF handler[t] # None /\ handler[t].witness = w THEN None ELSE handler[t]]
    /\ UNCHANGED <<signed, row, cosigned>>

\* The log signs a head, of the history it has shown so far or of another one.
Sign(tree) ==
    /\ signed' = signed \union {tree}
    /\ UNCHANGED <<row, handler, cosigned>>

Next ==
    \/ \E tree \in Tree : Sign(tree)
    \/ \E t \in Handlers, w \in Witnesses, request \in Request : Verify(t, w, request)
    \/ \E t \in Handlers : Persist(t) \/ Outrun(t)
    \/ \E w \in Witnesses : Restart(w)

Spec == Init /\ [][Next]_witnessVars

-----------------------------------------------------------------------------
(* What must hold.                                                          *)

(***************************************************************************)
(* A witness never co-signs two histories (witness.py:3-5): of any two     *)
(* checkpoints it ever co-signed one grew from the other, even when the    *)
(* log signs split views and they arrive at the same time.                 *)
(***************************************************************************)
CosignedIsOneHistory ==
    \A a, b \in cosigned : a.witness = b.witness =>
        GrownFrom(a.tree, b.tree) \/ GrownFrom(b.tree, a.tree)

(***************************************************************************)
(* The checkpoint a witness serves for monitoring (witness.py:155) is      *)
(* never replaced by one that did not grow from it.                        *)
(***************************************************************************)
ServedOnlyGrows ==
    [][\A w \in Witnesses : row[w] # None =>
           row'[w] # None /\ GrownFrom(row[w].tree, row'[w].tree)]_witnessVars
=============================================================================
