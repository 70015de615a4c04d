------------------------------ MODULE Logbook ------------------------------
(***************************************************************************)
(* The label log of one HISTOR deployment: histor/logbook.py and           *)
(* histor/keys.py, as the processes of a deployment run them.              *)
(*                                                                         *)
(* Two volumes.  The database holds the leaves, the signed tree heads and  *)
(* the recorded issuer; the data volume holds the issuer seed and the      *)
(* tree-head marker, which is replaced through a temporary file.  Every    *)
(* process has its own head lock; the lanes of a process share it.         *)
(*                                                                         *)
(* A database transaction is one step: appends and head publications hold  *)
(* the log lock (or SQLite's write lock) until they commit, and read the   *)
(* log only under it.  A root hash is the sequence of leaves it commits    *)
(* to, which is what Merkle.tla checks a root to be.                       *)
(***************************************************************************)
EXTENDS Integers, Sequences

CONSTANTS
    Labels,       \* documents to append, each with its own id
    Keys,         \* issuer seeds os.urandom can return
    Procs,        \* processes sharing the two volumes: the service, a CLI command
    Lanes,        \* observation lanes of all processes
    ProcessOf,    \* the process a lane runs in
    Inodes,       \* bound: files of the data volume that exist at once
    Width(_),     \* decimal digits of a tree size, the part of the marker text that varies
    MaxCrashes,   \* bound: kills in the middle of something
    None

ASSUME LogbookAssumption ==
    /\ ProcessOf \in [Lanes -> Procs]
    /\ MaxCrashes \in Nat
    /\ None \notin Keys \union Procs \union Lanes \union Inodes

VARIABLES
    log,        \* database: log_nodes and labels, as the sequence of leaves
    issued,     \* every label ever appended (their ids are never reused)
    sths,       \* database: the sths table
    issuer,     \* database: meta.issuer_did
    seed,       \* data volume: issuer.key
    born,       \* every seed ever generated
    marker,     \* data volume: the inode sth-marker.json names
    tmp,        \* data volume: the inode sth-marker.tmp names
    file,       \* data volume: inode -> what the text says and how long it is
    boot,       \* process -> how far it has started
    seen,       \* process -> the marker its startup read
    headLock,   \* process -> the lane that holds Logbook._head_lock
    pc,         \* lane -> where it is
    fd,         \* lane -> the inode it has open for writing
    mine,       \* lane -> the head it is writing into the marker
    crashes     \* kills so far

database == <<log, issued, sths, issuer>>
volume   == <<seed, born, marker, tmp, file>>
startup  == <<boot, seen>>
lanes    == <<headLock, pc, fd, mine>>
vars     == <<database, volume, startup, lanes, crashes>>

SignedHead == [treeSize : Nat \ {0}, rootHash : Seq(Labels), log : Keys]

\* NULL is no head.
ASSUME NoneIsNoHead == None \notin SignedHead

\* What a file of the data volume says: the head last written into it, and the largest
\* tree size written since it was truncated, which decides how long the text is.
Text == [head : SignedHead \union {None}, longest : Nat]

Empty == [head |-> None, longest |-> 0]

TypeOK ==
    /\ log \in Seq(Labels)
    /\ issued \in SUBSET Labels
    /\ sths \in SUBSET SignedHead
    /\ issuer \in Keys \union {None}
    /\ seed \in Keys \union {None}
    /\ born \in SUBSET Keys
    /\ marker \in Inodes \union {None}
    /\ tmp \in Inodes \union {None}
    /\ file \in [Inodes -> Text]
    /\ boot \in [Procs -> {"down", "bound", "marked", "up", "refused"}]
    /\ seen \in [Procs -> SignedHead \union {None}]
    /\ headLock \in [Procs -> Lanes \union {None}]
    /\ pc \in [Lanes -> {"run", "committed", "opened", "written"}]
    /\ fd \in [Lanes -> Inodes \union {None}]
    /\ mine \in [Lanes -> SignedHead \union {None}]
    /\ crashes \in 0..MaxCrashes

Init ==
    /\ log = <<>> /\ issued = {} /\ sths = {} /\ issuer = None
    /\ seed = None /\ born = {} /\ marker = None /\ tmp = None
    /\ file = [i \in Inodes |-> Empty]
    /\ boot = [p \in Procs |-> "down"] /\ seen = [p \in Procs |-> None]
    /\ headLock = [p \in Procs |-> None]
    /\ pc = [t \in Lanes |-> "run"]
    /\ fd = [t \in Lanes |-> None] /\ mine = [t \in Lanes |-> None]
    /\ crashes = 0

-----------------------------------------------------------------------------
(* Startup: service.build.                                                  *)

\* Store.latest_sth returns such a head.
IsLatest(h) == h \in sths /\ \A g \in sths : g.treeSize <= h.treeSize

Refuse(p) == boot' = [boot EXCEPT ![p] = "refused"]

\* The key is the recorded issuer, or the signer of the newest head when none is recorded.
RightKey(k) ==
    \/ issuer = k
    \/ issuer = None /\ \A h \in sths : IsLatest(h) => h.log = k

(***************************************************************************)
(* The key, created only for an empty log, and the first half of           *)
(* bind_key_to_log, which records the issuer.                              *)
(***************************************************************************)
BootKeyWith(p, k, madeNow) ==
    /\ seed' = k
    /\ born' = IF madeNow THEN born \union {k} ELSE born
    /\ \/ /\ RightKey(k)
          /\ issuer' = k
          /\ boot' = [boot EXCEPT ![p] = "bound"]
       \/ ~ RightKey(k) /\ Refuse(p) /\ UNCHANGED issuer

BootKey(p) ==
    /\ boot[p] \in {"down", "refused"}
    /\ \/ seed # None /\ BootKeyWith(p, seed, FALSE)
       \/ /\ seed = None /\ log = <<>>
          /\ \E k \in Keys \ born : BootKeyWith(p, k, TRUE)
       \/ /\ seed = None /\ log # <<>>
          /\ Refuse(p)
          /\ UNCHANGED <<seed, born, issuer>>
    /\ UNCHANGED <<log, issued, sths, marker, tmp, file, seen, lanes, crashes>>

\* The text parses: a shorter text written over a longer one does not.
Readable(text) == text.head # None /\ Width(text.longest) = Width(text.head.treeSize)

UnreadableMarker == marker # None /\ ~ Readable(file[marker])

\* keys.read_head_marker, before the latest head is read.
BootReadMarker(p) ==
    /\ boot[p] = "bound"
    /\ \/ /\ ~ UnreadableMarker
          /\ seen' = [seen EXCEPT ![p] = IF marker = None THEN None ELSE file[marker].head]
          /\ boot' = [boot EXCEPT ![p] = "marked"]
       \/ /\ UnreadableMarker
          /\ Refuse(p)
          /\ UNCHANGED seen
    /\ UNCHANGED <<database, volume, lanes, crashes>>

\* Mutants: a restored database passes, or a current one is refused.
NeverOlder(m) == m = None
OlderOrEqual(m) == \A h \in sths : IsLatest(h) => h.treeSize <= m.treeSize

\* The database's newest head is older than the marker, or differs at the same size.
OlderThanMarker(m) == \A h \in sths : IsLatest(h) => h.treeSize < m.treeSize

DiffersFromMarker(m) ==
    \E h \in sths : IsLatest(h) /\ h.treeSize = m.treeSize /\ h.rootHash # m.rootHash

BootCheckHead(p) ==
    /\ boot[p] = "marked"
    /\ IF seen[p] # None /\ (OlderThanMarker(seen[p]) \/ DiffersFromMarker(seen[p]))
       THEN Refuse(p)
       ELSE boot' = [boot EXCEPT ![p] = "up"]
    /\ seen' = [seen EXCEPT ![p] = None]
    /\ UNCHANGED <<database, volume, lanes, crashes>>

-----------------------------------------------------------------------------
(* A running lane.                                                          *)

\* Mutant: the index is MAX(idx), not one more.
OverwriteLabel(t, label) ==
    /\ boot[ProcessOf[t]] = "up" /\ pc[t] = "run"
    /\ label \notin issued
    /\ log' = IF log = <<>> THEN <<label>> ELSE [log EXCEPT ![Len(log)] = label]
    /\ issued' = issued \union {label}
    /\ UNCHANGED <<sths, issuer, volume, startup, lanes, crashes>>

\* Logbook.append in the transaction of a commit.
AppendLabel(t, label) ==
    /\ boot[ProcessOf[t]] = "up" /\ pc[t] = "run"
    /\ label \notin issued
    /\ log' = Append(log, label)
    /\ issued' = issued \union {label}
    /\ UNCHANGED <<sths, issuer, volume, startup, lanes, crashes>>

\* Mutant: the size is the last index instead of the count.
NewHeadOfLastIndex == [treeSize |-> Len(log) - 1, rootHash |-> log, log |-> seed]

NewHead == [treeSize |-> Len(log), rootHash |-> log, log |-> seed]

\* Mutant: the first head is the last.
NothingNewOnceSigned == log = <<>> \/ sths # {}

\* Why publish_sth returns without signing.
NothingNew ==
    \/ log = <<>>
    \/ \E h \in sths : IsLatest(h) /\ h.treeSize = Len(log)

HeadLockFree(t) == headLock[ProcessOf[t]] = None

\* Mutant: the marker is written though the transaction was rolled back.
PublishRolledBack(t) ==
    /\ boot[ProcessOf[t]] = "up" /\ pc[t] = "run"
    /\ HeadLockFree(t) /\ ~ NothingNew
    /\ headLock' = [headLock EXCEPT ![ProcessOf[t]] = t]
    /\ mine' = [mine EXCEPT ![t] = NewHead]
    /\ pc' = [pc EXCEPT ![t] = "committed"]
    /\ UNCHANGED <<database, volume, startup, fd, crashes>>

(***************************************************************************)
(* Logbook.publish_sth up to its commit, under the process's head lock.    *)
(* With an empty log, or a head of this size, it returns having changed    *)
(* nothing: neither the table nor the marker.                              *)
(***************************************************************************)
PublishHead(t) ==
    /\ boot[ProcessOf[t]] = "up" /\ pc[t] = "run"
    /\ HeadLockFree(t) /\ ~ NothingNew
    /\ sths' = sths \union {NewHead}
    /\ headLock' = [headLock EXCEPT ![ProcessOf[t]] = t]
    /\ mine' = [mine EXCEPT ![t] = NewHead]
    /\ pc' = [pc EXCEPT ![t] = "committed"]
    /\ UNCHANGED <<log, issued, issuer, volume, startup, fd, crashes>>

\* write_head_marker: os.open(tmp, O_CREAT | O_TRUNC) ...
OpenTmp(t) ==
    /\ pc[t] = "committed"
    /\ \E i \in Inodes :
        /\ IF tmp = None THEN i # marker /\ \A u \in Lanes : fd[u] # i ELSE i = tmp
        /\ tmp' = i
        /\ file' = [file EXCEPT ![i] = Empty]
        /\ fd' = [fd EXCEPT ![t] = i]
    /\ pc' = [pc EXCEPT ![t] = "opened"]
    /\ UNCHANGED <<database, seed, born, marker, startup, headLock, mine, crashes>>

Larger(m, n) == IF m < n THEN n ELSE m

\* ... the text, written at offset 0 over whatever the inode holds by now ...
WriteTmp(t) ==
    /\ pc[t] = "opened"
    /\ file' = [file EXCEPT ![fd[t]] =
                   [head |-> mine[t], longest |-> Larger(@.longest, mine[t].treeSize)]]
    /\ pc' = [pc EXCEPT ![t] = "written"]
    /\ UNCHANGED <<database, seed, born, marker, tmp, startup, headLock, fd, mine, crashes>>

\* Leaving publish_sth, by return or by exception, releases the head lock.
LeavePublish(t) ==
    /\ headLock' = [headLock EXCEPT ![ProcessOf[t]] = None]
    /\ pc' = [pc EXCEPT ![t] = "run"]
    /\ fd' = [fd EXCEPT ![t] = None]
    /\ mine' = [mine EXCEPT ![t] = None]

\* ... and os.replace, which fails when another process has replaced the same tmp first.
ReplaceMarker(t) ==
    /\ pc[t] = "written" /\ tmp # None
    /\ marker' = tmp
    /\ tmp' = None
    /\ LeavePublish(t)
    /\ UNCHANGED <<database, seed, born, file, startup, crashes>>

ReplaceFails(t) ==
    /\ pc[t] = "written" /\ tmp = None
    /\ LeavePublish(t)
    /\ UNCHANGED <<database, volume, startup, crashes>>

-----------------------------------------------------------------------------
(* Processes end.                                                           *)

Idle(p) == \A t \in Lanes : ProcessOf[t] = p => pc[t] = "run"

\* What the process held is gone: its lock, its open files, what it was doing.
Exit(p) ==
    /\ boot[p] # "down"
    /\ boot' = [boot EXCEPT ![p] = "down"]
    /\ seen' = [seen EXCEPT ![p] = None]
    /\ headLock' = [headLock EXCEPT ![p] = None]
    /\ pc' = [t \in Lanes |-> IF ProcessOf[t] = p THEN "run" ELSE pc[t]]
    /\ fd' = [t \in Lanes |-> IF ProcessOf[t] = p THEN None ELSE fd[t]]
    /\ mine' = [t \in Lanes |-> IF ProcessOf[t] = p THEN None ELSE mine[t]]
    /\ UNCHANGED <<database, volume>>

\* Between two batches; no lane is publishing.
Stop(p) == Idle(p) /\ Exit(p) /\ UNCHANGED crashes

\* In the middle of publishing: the lanes are daemon threads, so a plain stop does this too.
Kill(p) ==
    /\ ~ Idle(p) /\ crashes < MaxCrashes
    /\ Exit(p)
    /\ crashes' = crashes + 1

LaneNext(t) ==
    \/ \E label \in Labels : AppendLabel(t, label)
    \/ PublishHead(t) \/ OpenTmp(t) \/ WriteTmp(t) \/ ReplaceMarker(t) \/ ReplaceFails(t)

ProcNext(p) == BootKey(p) \/ BootReadMarker(p) \/ BootCheckHead(p) \/ Stop(p) \/ Kill(p)

Next == (\E t \in Lanes : LaneNext(t)) \/ (\E p \in Procs : ProcNext(p))

Spec == Init /\ [][Next]_vars

(***************************************************************************)
(* A process that is asked to start gets through its startup, though it    *)
(* may be stopped before, and lanes end their batches: each run and each   *)
(* remote batch ends with publish_sth (crawler.py:451, 517), the scheduler *)
(* starts the next one, and a failed batch is followed by another.         *)
(* Stopping and killing are not owed.                                      *)
(***************************************************************************)
LiveSpec ==
    /\ Spec
    /\ \A p \in Procs : WF_vars(BootKey(p)) /\ SF_vars(BootReadMarker(p)) /\ SF_vars(BootCheckHead(p))
    /\ \A t \in Lanes : SF_vars(PublishHead(t))
    /\ \A t \in Lanes : WF_vars(OpenTmp(t) \/ WriteTmp(t) \/ ReplaceMarker(t) \/ ReplaceFails(t))

-----------------------------------------------------------------------------
(* What must hold.                                                          *)

Prefix(s, n) == SubSeq(s, 1, n)

(***************************************************************************)
(* Every head served at GET /api/v1/log/sth/<size> commits to the first    *)
(* treeSize leaves the database still holds, under the key it records,     *)
(* whatever the lanes, processes, kills and restarts in between.           *)
(***************************************************************************)
HeadsCommitToLog ==
    \A h \in sths :
        /\ h.treeSize <= Len(log)
        /\ h.rootHash = Prefix(log, h.treeSize)
        /\ h.log = issuer

(***************************************************************************)
(* Two heads of the log never contradict each other, being of one log: the *)
(* smaller one is a prefix of the larger, so at most one root per size     *)
(* (docs/spec/transparency-log.md section 4.2).                            *)
(***************************************************************************)
OneHistory ==
    /\ HeadsCommitToLog
    /\ \A g, h \in sths : g.treeSize <= h.treeSize => g.rootHash = Prefix(h.rootHash, g.treeSize)

(***************************************************************************)
(* "The marker may lag the database, never lead it" (logbook.py:133): the  *)
(* text a startup could read as the marker, now or after the pending       *)
(* os.replace, is a head the database holds.                               *)
(***************************************************************************)
MarkerNeverLeads ==
    \A i \in {marker, tmp} \ {None} : Readable(file[i]) => file[i].head \in sths

(***************************************************************************)
(* A deployment nobody restored or tampered with always starts: whatever   *)
(* was killed where, the key, the issuer and the marker it left behind are *)
(* accepted by the next startup (keys.bind_key_to_log).                    *)
(***************************************************************************)
NeverLockedOut == \A p \in Procs : boot[p] # "refused"

(***************************************************************************)
(* The marker holds the newest tree head this key has signed               *)
(* (keys.py:55), as long as nothing was killed and no lane is publishing.  *)
(***************************************************************************)
MarkerIsNewest ==
    crashes = 0 /\ (\A t \in Lanes : pc[t] = "run") =>
        \A h \in sths : IsLatest(h) => marker # None /\ Readable(file[marker]) /\ file[marker].head = h

\* What a restart finds in the data directory is accepted, and undisturbed lanes leave the newest there.
KeyAndMarkerStand == NeverLockedOut /\ MarkerIsNewest

(***************************************************************************)
(* Every label appended is eventually covered by a signed head, whatever   *)
(* was killed after its commit.                                            *)
(***************************************************************************)
EveryLabelIsPromised ==
    \A label \in Labels :
        (\E i \in 1..Len(log) : log[i] = label)
            ~> (\E h \in sths : \E i \in 1..h.treeSize : h.rootHash[i] = label)

(***************************************************************************)
(* The log as its readers see it, and that this one keeps the promise.     *)
(***************************************************************************)
Promise == INSTANCE AppendOnlyLog WITH
    AtOnce <- 1,
    entries <- log,
    heads <- {[treeSize |-> h.treeSize, rootHash |-> h.rootHash] : h \in sths}

KeepsThePromise == Promise!Spec
=============================================================================
