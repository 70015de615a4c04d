------------------------------ MODULE Receipts ------------------------------
(***************************************************************************)
(* The receipts log (receipts.py) behind its HTTP routes (app.py): issuers *)
(* submit batches of signed anchors, a batch is admitted, logged anchor by *)
(* anchor in one transaction under the log's lock, and a head is signed in *)
(* the next; a service may stop in between.  Anyone asks for proofs        *)
(* meanwhile.                                                              *)
(***************************************************************************)
EXTENDS Integers, SequencesExt

CONSTANTS Requests,   \* submissions under way at a time
          Issuers,    \* did:keys the operator lists
          Digests,    \* receipt digests
          MaxBatch,   \* MAX_BATCH
          MaxAnchors  \* bound: leaves of the log

Nothing == "nothing"

ASSUME ReceiptsAssumption == MaxBatch \in Nat \ {0} /\ MaxAnchors \in Nat /\ Nothing \notin Issuers

VARIABLES
    anchors,   \* receipt_anchors and receipt_log_nodes: the anchors by leaf
    draft,     \* the same, as the transaction that holds the log's lock sees it
    heads,     \* receipt_sths: the anchors each signed head covers
    request,   \* per submission: its stage, its batch, a result per anchor
    told       \* history: <<issuer, digest, leaf>> that a client was told of

receipts == <<anchors, draft, heads, request, told>>

\* What may arrive: an anchor of a listed issuer, or one whose form, issuer, window or signature
\* is not accepted.
Acceptable == [issuer : Issuers, digest : Digests]
Anchor == Acceptable \cup {[issuer |-> Nothing, digest |-> Nothing]}

NoRequest == [at |-> "idle", batch |-> << >>, results |-> << >>]

ReceiptsInit ==
    /\ anchors = << >> /\ draft = << >> /\ heads = {} /\ told = {}
    /\ request = [r \in Requests |-> NoRequest]

Stage(r, stage) == request' = [request EXCEPT ![r].at = stage]

-----------------------------------------------------------------------------
\* Mutant: the issuer is not looked up among those the operator lists.
AnyIssuer(a) == TRUE

Admitted(a) == a.issuer \in Issuers

Result(status, leaf) == [status |-> status, leaf |-> leaf]

\* _check of each; a batch with nothing admitted is answered without a transaction.
Submit(r, batch) ==
    /\ request[r].at = "idle"
    /\ request' = [request EXCEPT ![r] =
            IF \E i \in DOMAIN batch : Admitted(batch[i])
            THEN [at |-> "log", batch |-> batch, results |-> << >>]
            ELSE [at |-> "answer", batch |-> batch, results |-> [i \in DOMAIN batch |-> Result("refused", 0)]]]
    /\ UNCHANGED <<anchors, draft, heads, told>>

\* RECEIPT_LOG_LOCK is free.
Unlocked == \A r \in Requests : request[r].at # "logging"

Lock(r) ==
    /\ request[r].at = "log" /\ Unlocked
    /\ Stage(r, "logging")
    /\ UNCHANGED <<anchors, draft, heads, told>>

LeavesOf(log, digest) == {leaf \in DOMAIN log : log[leaf].digest = digest}

\* Mutant: the batch is compared with the log as it was before it.
HeldBefore(digest) == LeavesOf(anchors, digest)

\* SELECT issuer, leaf_index ... WHERE receipt_digest=?
Held(digest) == LeavesOf(draft, digest)

\* The next anchor of the batch, against the log as the anchors before it left it.
LogOne(r) ==
    LET a == request[r].batch[Len(request[r].results) + 1]
        Reply(status, leaf) == request' = [request EXCEPT ![r].results = Append(@, Result(status, leaf))]
    IN  /\ request[r].at = "logging" /\ Len(request[r].results) < Len(request[r].batch)
        /\ \/ ~Admitted(a) /\ Reply("refused", 0) /\ UNCHANGED draft
           \/ /\ Admitted(a) /\ Held(a.digest) = {} /\ Len(draft) < MaxAnchors
              /\ draft' = Append(draft, a) /\ Reply("logged", Len(draft) + 1)
           \/ /\ Admitted(a) /\ UNCHANGED draft
              /\ \E leaf \in Held(a.digest) : Reply(IF draft[leaf].issuer = a.issuer THEN "duplicate" ELSE "refused", leaf)
        /\ UNCHANGED <<anchors, heads, told>>

\* The transaction commits.
LogBatch(r) ==
    /\ request[r].at = "logging" /\ Len(request[r].results) = Len(request[r].batch)
    /\ anchors' = draft
    /\ Stage(r, "publish")
    /\ UNCHANGED <<draft, heads, told>>

\* publish_sth: over the whole log as it is now, unless its last head is.
Publish(r) ==
    /\ request[r].at = "publish" /\ Unlocked
    /\ heads' = heads \cup {anchors}
    /\ Stage(r, "answer")
    /\ UNCHANGED <<anchors, draft, told>>

\* The results, and the newest head with them.
Answered(r) ==
    /\ request[r].at = "answer"
    /\ told' = told \cup {<<request[r].batch[i].issuer, request[r].batch[i].digest, request[r].results[i].leaf>> :
                            i \in {j \in DOMAIN request[r].batch : request[r].results[j].status # "refused"}}
    /\ request' = [request EXCEPT ![r] = NoRequest]
    /\ UNCHANGED <<anchors, draft, heads>>

\* The process ends: nobody is answered, and an open transaction is rolled back.
Stop ==
    /\ request' = [r \in Requests |-> NoRequest] /\ draft' = anchors
    /\ UNCHANGED <<anchors, heads, told>>

Newest == IF heads = {} THEN Len(anchors) ELSE CHOOSE n \in {Len(h) : h \in heads} : \A h \in heads : Len(h) <= n

\* proof(): at a size the caller names, or (0) at the newest head's; the head of that size, if there
\* is one, goes with it.
Proof(digest, size) ==
    LET n == IF size = 0 THEN Newest ELSE size
    IN  {[leaf |-> leaf, size |-> n, head |-> {h \in heads : Len(h) = n}] :
            leaf \in {l \in LeavesOf(anchors, digest) : l <= n /\ n <= Len(anchors)}}

Anchoring ==
    \/ \E r \in Requests :
          \/ \E n \in 1..MaxBatch : \E batch \in [1..n -> Anchor] : Submit(r, batch)
          \/ Lock(r) \/ LogOne(r) \/ LogBatch(r) \/ Publish(r) \/ Answered(r)
    \/ Stop

ReceiptsSpec == ReceiptsInit /\ [][Anchoring]_receipts

-----------------------------------------------------------------------------
\* "The issuer cannot quietly deny, backdate or replace a receipt once anchored": a digest has one
\* leaf, every signed head covers a beginning of the log, and each anchor a client was told of is
\* where it was told, under a head that covers it -- although the service stopped between a batch
\* and its head, and the client sent the batch again.
AnchorsStand ==
    /\ \A i, j \in DOMAIN anchors : anchors[i].digest = anchors[j].digest => i = j
    /\ \A h \in heads : IsPrefix(h, anchors)
    /\ \A t \in told : \E h \in heads :
          t[3] \in DOMAIN h /\ h[t[3]].issuer = t[1] /\ h[t[3]].digest = t[2]

\* "Anyone holding a receipt can get an inclusion proof that it was logged before a signed tree
\* head": whatever is proved is proved under a signed head.
ProofsHaveHeads ==
    \A digest \in Digests, size \in 0..MaxAnchors :
        \A p \in Proof(digest, size) : p.head # {}

\* This log promises its readers what the other does: whatever is submitted and wherever the service
\* stops, acceptable anchors are added, a batch's together, and a head signs the log as it stands.
Promise == INSTANCE AppendOnlyLog WITH
    Labels <- Acceptable,
    AtOnce <- MaxBatch,
    entries <- anchors,
    heads <- {[treeSize |-> Len(h), rootHash |-> h] : h \in heads}

ReceiptsKeepThePromise == Promise!Spec

=============================================================================
