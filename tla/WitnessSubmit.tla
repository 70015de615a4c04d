--------------------------- MODULE WitnessSubmit ---------------------------
(***************************************************************************)
(* A log that gets its checkpoints co-signed: the log's HTTP endpoints     *)
(* (histor/app.py), the witness-submit command (histor/cosign_cli.py) as   *)
(* a timer runs it (deploy/witness_push.sh), and the witnesses.            *)
(*                                                                         *)
(* The command keeps in a file the size each witness last co-signed.  Its  *)
(* calls can time out in either direction, while the witness goes on with  *)
(* them; it can be killed anywhere; anyone else may submit a checkpoint of *)
(* the log too; and the log's database can be restored from a backup.      *)
(***************************************************************************)
EXTENDS Witness

CONSTANTS
    Clients,      \* witness-submit installations, each with its state file
    MaxSize,      \* bound: leaves of the log
    MaxRestores   \* bound: restores of the log's database

ASSUME SubmitAssumption ==
    /\ MaxSize \in Nat \ {0} /\ MaxRestores \in Nat
    /\ 0..MaxRestores \subseteq Leaves

VARIABLES
    tree,        \* log: its leaves
    heads,       \* log: the sizes in its sths table
    lines,       \* log: its cosignatures table
    restores,    \* times the log was restored
    saved,       \* state file: client -> witness -> the size it last co-signed
    run,         \* client -> the run in progress
    calm         \* ghost: from here on nothing is lost any more

logVars == <<tree, heads, lines, restores>>
clientVars == <<saved, run>>
systemVars == <<witnessVars, logVars, clientVars>>
vars == <<systemVars, calm>>

Line == [size : 1..MaxSize, witness : Witnesses, tree : Tree]

\* Where the command is, what it fetched, what it holds in memory, and the call it is in.
Run == [at     : {"fetched", "sent", "waiting", "cosigned", "conflict", "saved"},
        note   : Note,
        todo   : SUBSET Witnesses,
        state  : [Witnesses -> 0..MaxSize],
        kept   : SUBSET Witnesses,
        to     : Witnesses \union {None},
        old    : 0..MaxSize,
        proof  : Proof \union {None},
        again  : BOOLEAN,
        thread : Handlers \union {None}]

SubmitTypeOK ==
    /\ TypeOK
    /\ tree \in Tree /\ Len(tree) <= MaxSize
    /\ heads \in SUBSET (1..Len(tree))
    /\ lines \in SUBSET Line
    /\ restores \in 0..MaxRestores
    /\ saved \in [Clients -> [Witnesses -> 0..MaxSize]]
    /\ run \in [Clients -> Run \union {None}]
    /\ calm \in BOOLEAN

SubmitInit ==
    /\ Init
    /\ tree = <<>> /\ heads = {} /\ lines = {} /\ restores = 0
    /\ saved = [c \in Clients |-> [w \in Witnesses |-> 0]]
    /\ run = [c \in Clients |-> None]
    /\ calm = FALSE

-----------------------------------------------------------------------------
(* The log.                                                                 *)

TreeAt(n) == SubSeq(tree, 1, n)

\* Store.latest_sth.
IsNewest(n) == n \in heads /\ \A m \in heads : m <= n

\* A leaf is a document with its own id and time: after a restore it is never what was there.
LogAppend ==
    /\ Len(tree) < MaxSize
    /\ tree' = Append(tree, restores)
    /\ UNCHANGED <<witnessVars, heads, lines, restores, clientVars>>

LogPublish ==
    /\ tree # <<>> /\ Len(tree) \notin heads
    /\ heads' = heads \union {Len(tree)}
    /\ Sign(tree)
    /\ UNCHANGED <<tree, lines, restores, clientVars>>

\* The database of an earlier head comes back; what was signed since then stays signed.
LogRestore ==
    /\ restores < MaxRestores
    /\ \E n \in heads \union {0} :
        /\ n < Len(tree)
        /\ tree' = TreeAt(n)
        /\ heads' = heads \intersect (1..n)
        /\ lines' = {l \in lines : l.size <= n}
    /\ restores' = restores + 1
    /\ UNCHANGED <<witnessVars, clientVars>>

-----------------------------------------------------------------------------
(* witness-submit.                                                          *)

At(c, place) == run[c] # None /\ run[c].at = place

Carried(n) == {l.witness : l \in {k \in lines : k.size = n}}

\* main reads the state file and the log's newest checkpoint, with the lines stored for it.
Fetch(c) ==
    /\ run[c] = None
    /\ \E n \in heads :
        /\ IsNewest(n)
        /\ run' = [run EXCEPT ![c] =
             [at |-> "fetched", note |-> [tree |-> TreeAt(n), carried |-> Carried(n)],
              todo |-> Witnesses, state |-> saved[c], kept |-> {},
              to |-> None, old |-> 0, proof |-> None, again |-> FALSE, thread |-> None]]
    /\ UNCHANGED <<witnessVars, logVars, saved>>

\* A target is done with, by an answer or by an error; the call is over.
Over(r) == [r EXCEPT !.at = "fetched", !.todo = @ \ {r.to}, !.to = None, !.old = 0,
                     !.proof = None, !.again = FALSE, !.thread = None]

Done(c, state, kept) ==
    run' = [run EXCEPT ![c] = Over([@ EXCEPT !.state = state, !.kept = kept])]

\* The consistency proof the log serves between two sizes of its tree.
ProofServed(first, second) == [first |-> TreeAt(first), second |-> TreeAt(second)]

(***************************************************************************)
(* The loop of submit_one: fetch the proof the old size calls for and post *)
(* the checkpoint.  A log that no longer has this size refuses the proof,  *)
(* which ends the target.                                                  *)
(***************************************************************************)
Post(c, w, old, again) ==
    LET size == Len(run[c].note.tree)
        needed == 0 < old /\ old < size IN
    IF needed /\ size > Len(tree)
    THEN run' = [run EXCEPT ![c] = Over([@ EXCEPT !.to = w])]
    ELSE run' = [run EXCEPT ![c] =
                   [@ EXCEPT !.at = "sent", !.to = w, !.old = old, !.again = again,
                             !.proof = IF needed THEN ProofServed(old, size) ELSE None]]

\* The next target, unless its witness is ahead of the checkpoint: nothing to sign.
Submit(c) ==
    /\ At(c, "fetched")
    /\ \E w \in run[c].todo :
        IF run[c].state[w] > Len(run[c].note.tree)
        THEN run' = [run EXCEPT ![c].todo = @ \ {w}]
        ELSE Post(c, w, run[c].state[w], FALSE)
    /\ UNCHANGED <<witnessVars, logVars, saved>>

RequestOf(c) == [old |-> run[c].old, note |-> run[c].note, proof |-> run[c].proof]

\* The witness takes the request and verifies it ...
Serve(c, t) ==
    /\ At(c, "sent")
    /\ Verify(t, run[c].to, RequestOf(c))
    /\ run' = [run EXCEPT ![c].at = "waiting", ![c].proof = None, ![c].thread = t]
    /\ UNCHANGED <<logVars, saved>>

\* ... or answers at once: 409 with its size, or a refusal, which ends the target.
Refuse(c) ==
    /\ At(c, "sent") /\ ~ Accepts(run[c].to, RequestOf(c))
    /\ IF Conflicts(run[c].to, RequestOf(c))
       THEN run' = [run EXCEPT ![c].at = "conflict", ![c].proof = None, ![c].old = SizeOf(run[c].to)]
       ELSE Done(c, run[c].state, run[c].kept)
    /\ UNCHANGED <<witnessVars, logVars, saved>>

\* The answer to the client that still waits for this handler, if one does.
Answer(t, at, size) ==
    run' = [c \in Clients |->
              IF At(c, "waiting") /\ run[c].thread = t
              THEN [run[c] EXCEPT !.at = at, !.old = size, !.thread = None] ELSE run[c]]

Cosign(t) ==
    /\ Persist(t)
    /\ Answer(t, "cosigned", Len(handler[t].note.tree))
    /\ UNCHANGED <<logVars, saved>>

Overtaken(t) ==
    /\ Outrun(t)
    /\ Answer(t, "conflict", SizeOf(handler[t].witness))
    /\ UNCHANGED <<logVars, saved>>

\* Mutant: a call that timed out is taken for co-signed.
GiveUpAsCosigned(c) ==
    /\ run[c] # None /\ run[c].at \in {"sent", "waiting", "cosigned", "conflict"}
    /\ Done(c, [run[c].state EXCEPT ![run[c].to] = Len(run[c].note.tree)], run[c].kept)
    /\ UNCHANGED <<witnessVars, logVars, saved>>

\* The client times out: the request was lost, or its answer, or it is still being handled.
GiveUp(c) ==
    /\ run[c] # None /\ run[c].at \in {"sent", "waiting", "cosigned", "conflict"}
    /\ Done(c, run[c].state, run[c].kept)
    /\ UNCHANGED <<witnessVars, logVars, saved>>

\* 200: the lines are kept and the state remembers this size.
ReceiveCosignature(c) ==
    /\ At(c, "cosigned")
    /\ Done(c, [run[c].state EXCEPT ![run[c].to] = Len(run[c].note.tree)], run[c].kept \union {run[c].to})
    /\ UNCHANGED <<witnessVars, logVars, saved>>

\* Mutant: a conflict is reported, not retried.
ReceiveConflictOnly(c) ==
    /\ At(c, "conflict")
    /\ Done(c, run[c].state, run[c].kept)
    /\ UNCHANGED <<witnessVars, logVars, saved>>

Larger(m, n) == IF m < n THEN n ELSE m

\* 409: once more from the size the witness told, unless it is ahead of the checkpoint.
ReceiveConflict(c) ==
    /\ At(c, "conflict")
    /\ IF run[c].again THEN Done(c, run[c].state, run[c].kept)
       ELSE IF run[c].old > Len(run[c].note.tree)
            THEN Done(c, [run[c].state EXCEPT ![run[c].to] = Larger(@, run[c].old)], run[c].kept)
            ELSE Post(c, run[c].to, run[c].old, TRUE)
    /\ UNCHANGED <<witnessVars, logVars, saved>>

\* Every target is done: the state file is replaced; without lines the command ends.
Save(c) ==
    /\ At(c, "fetched") /\ run[c].todo = {}
    /\ saved' = [saved EXCEPT ![c] = run[c].state]
    /\ run' = [run EXCEPT ![c] = IF run[c].kept = {} THEN None ELSE [@ EXCEPT !.at = "saved"]]
    /\ UNCHANGED <<witnessVars, logVars>>

\* POST /api/v1/log/cosignatures: one line per size and witness, refused for a size never signed.
Store(c) ==
    LET size == Len(run[c].note.tree)
        new == {[size |-> size, witness |-> w, tree |-> run[c].note.tree] : w \in run[c].kept} IN
    /\ At(c, "saved")
    /\ lines' = IF size \in heads
                THEN {l \in lines : l.size # size \/ l.witness \notin run[c].kept} \union new
                ELSE lines
    /\ run' = [run EXCEPT ![c] = None]
    /\ UNCHANGED <<witnessVars, tree, heads, restores, saved>>

\* The command is killed, or its POST to the log fails: only the state file survives.
Crash(c) ==
    /\ run[c] # None
    /\ run' = [run EXCEPT ![c] = None]
    /\ UNCHANGED <<witnessVars, logVars, saved>>

-----------------------------------------------------------------------------
(* Others, and the witnesses' own restarts.                                 *)

\* Anyone else submits a checkpoint the log has signed, with the proof it takes or without.
SomeoneSubmits(t) ==
    /\ \E w \in Witnesses, s \in signed : \E old \in 0..Len(s) :
        \E proof \in {None, [first |-> SubSeq(s, 1, old), second |-> s]} :
            Verify(t, w, [old |-> old, note |-> [tree |-> s, carried |-> {}], proof |-> proof])
    /\ UNCHANGED <<logVars, clientVars>>

WitnessRestart(w) ==
    /\ Restart(w)
    /\ run' = [c \in Clients |->
                 IF At(c, "waiting") /\ run[c].to = w THEN Over(run[c]) ELSE run[c]]
    /\ UNCHANGED <<logVars, saved>>

\* The command by itself: everything but what waits for the witness.
Advance(c) ==
    \/ Fetch(c) \/ Submit(c) \/ Refuse(c) \/ ReceiveCosignature(c) \/ ReceiveConflict(c)
    \/ Save(c) \/ Store(c)

\* A call, a run of the command or what a witness was doing is lost.
Lose ==
    \/ \E c \in Clients : GiveUp(c) \/ Crash(c)
    \/ \E w \in Witnesses : WitnessRestart(w)

Proceed ==
    \/ LogAppend \/ LogPublish \/ LogRestore
    \/ \E c \in Clients : Advance(c) \/ \E t \in Handlers : Serve(c, t)
    \/ \E t \in Handlers : Cosign(t) \/ Overtaken(t) \/ SomeoneSubmits(t)

\* After any number of losses, the last one.
CalmDown == ~ calm /\ calm' = TRUE /\ UNCHANGED systemVars

SubmitNext ==
    \/ Proceed /\ UNCHANGED calm
    \/ ~ calm /\ Lose /\ UNCHANGED calm
    \/ CalmDown

SubmitSpec == SubmitInit /\ [][SubmitNext]_vars

(***************************************************************************)
(* The log publishes what it appended (crawler.py:451, 517), the timer     *)
(* starts the command every ten minutes (deploy/histor-witness-push.timer) *)
(* and the command goes on, a handler finishes what it started and serves  *)
(* a request that waits, and losses end at some time.  Appends, restores   *)
(* and other submitters are not owed.                                      *)
(***************************************************************************)
LiveSpec ==
    /\ SubmitSpec
    /\ WF_systemVars(LogPublish) /\ WF_vars(CalmDown)
    /\ \A t \in Handlers : WF_systemVars(Cosign(t) \/ Overtaken(t))
    /\ \A c \in Clients : WF_systemVars(Advance(c)) /\ SF_systemVars(\E t \in Handlers : Serve(c, t))

-----------------------------------------------------------------------------
(* What must hold.                                                          *)

(***************************************************************************)
(* The command skips a witness it believes to be ahead of the checkpoint   *)
(* as having nothing to sign (cosign_cli.py:77-78).  What its state file   *)
(* says is never ahead of what the witness has co-signed, whatever was     *)
(* lost, killed or raced.                                                  *)
(***************************************************************************)
SavedIsCosigned == \A c \in Clients, w \in Witnesses : saved[c][w] <= SizeOf(w)

(***************************************************************************)
(* The checkpoint a witness serves for monitoring carries "log signature   *)
(* and its own cosignature on it" (docs/spec/transparency-log.md:183): it  *)
(* parses as a signed note, which has no two lines with the same name and  *)
(* key id (checkpoint.py:182-188).                                         *)
(***************************************************************************)
ServedCheckpointParses == \A w \in Witnesses : row[w] # None => w \notin row[w].carried

\* The witness has co-signed another history than the log shows now.
Forked(w) == row[w] # None /\ ~ GrownFrom(row[w].tree, tree)

Witnessed(w) ==
    \E n \in heads : IsNewest(n) /\ [size |-> n, witness |-> w, tree |-> TreeAt(n)] \in lines

(***************************************************************************)
(* The newest head of a log that is not forked ends up served with the     *)
(* line of every witness, whatever calls were lost: a cosignature whose    *)
(* answer was lost, or that was never stored, is asked for again.          *)
(***************************************************************************)
NewestHeadIsWitnessed ==
    \A w \in Witnesses :
        <>[](tree # <<>> /\ ~ Forked(w)) => []<>(Witnessed(w))
=============================================================================
