--------------------------- MODULE Service_proofs ---------------------------
(***************************************************************************)
(* Theorems about what people outside get from the service.  Targets:      *)
(* whom it reads, for every set of endpoints, every size of a batch and    *)
(* every number of edits of the opt-out file.  Dataset: what a published   *)
(* data set names, however the service writes while it is exported.        *)
(* Receipts: where an anchored receipt stays, and that its log keeps the   *)
(* promise of AppendOnlyLog.  WatchPayments: for every number of checkouts *)
(* and every period, where one write transaction runs at a time (SQLite).  *)
(* WebhookDelivery: for every number of workers, servers, server lists and *)
(* changes.                                                                *)
(***************************************************************************)
EXTENDS Targets, Dataset, Receipts, WatchPayments, WebhookDelivery,
        FiniteSetTheorems, SequenceTheorems, WellFoundedInduction, TLAPS

-----------------------------------------------------------------------------
(* The inductive invariant.  Reading and counting are two ends of one       *)
(* argument: an endpoint the file names can only be read as part of a batch *)
(* that was screened before the file named it, no batch reads it twice, and *)
(* the batch after it is screened against the file.                         *)

PollType == poll = [at |-> poll.at, batch |-> poll.batch, reading |-> poll.reading]

CountType == after \in [Endpoints -> Nat]

\* Nothing is read before the batch is screened.
ScreenedFirst == poll.at # "read" => poll.reading = {}

\* An endpoint that waits to be read has not been read since the file named it.
ToReadIsUncounted ==
    \A e \in Endpoints : poll.at = "read" /\ e \in poll.batch \ poll.reading => after[e] = 0

\* Nor is anything counted for an endpoint the file does not name.
WantedIsUncounted == \A e \in Endpoints : e \notin optOut => after[e] = 0

OptOutInv ==
    /\ PollType /\ CountType
    /\ ScreenedFirst /\ ToReadIsUncounted /\ WantedIsUncounted /\ OptOutStops

LEMMA OptOutInvInit == Init => OptOutInv
BY DEF Init, OptOutInv, PollType, CountType, ScreenedFirst, ToReadIsUncounted, WantedIsUncounted, OptOutStops, NoPoll

\* Steps that leave the batch and the file alone.
LEMMA OptOutInvKept ==
    ASSUME OptOutInv, UNCHANGED <<optOut, poll, after>>
    PROVE  OptOutInv'
BY DEF OptOutInv, PollType, CountType, ScreenedFirst, ToReadIsUncounted, WantedIsUncounted, OptOutStops

\* A batch that is picked, screened or given up.
LEMMA OptOutInvScreened ==
    ASSUME OptOutInv, UNCHANGED after, Pick \/ Screen \/ Restart
    PROVE  OptOutInv'
<1> USE DEF OptOutInv, PollType, CountType, ScreenedFirst, ToReadIsUncounted, WantedIsUncounted, OptOutStops
<1>1. CASE Pick
  BY <1>1 DEF Pick
<1>2. CASE Screen
  BY <1>2 DEF Screen, NoPoll
<1>3. CASE Restart
  BY <1>3 DEF Restart, NoPoll
<1> QED
  BY <1>1, <1>2, <1>3

\* A read is of an endpoint that waits, and makes it one that does not.
LEMMA OptOutInvRead ==
    ASSUME OptOutInv, NEW e \in Endpoints, Read(e)
    PROVE  OptOutInv'
<1> USE DEF OptOutInv, PollType, CountType, ScreenedFirst, ToReadIsUncounted, WantedIsUncounted, OptOutStops
<1>1. after[e] = 0 /\ after[e] \in Nat
  BY DEF Read
<1>2. after' \in [Endpoints -> Nat]
  BY <1>1 DEF Read
<1>3. \A f \in Endpoints : f # e => after'[f] = after[f]
  BY DEF Read
<1>4. after'[e] = IF e \in optOut THEN 1 ELSE 0
  BY <1>1 DEF Read
<1>5. PollType' /\ ScreenedFirst' /\ poll'.batch = poll.batch /\ poll'.reading = poll.reading \cup {e}
  BY DEF Read
<1>6. poll.at = "read" /\ optOut' = optOut
  BY DEF Read
<1>7. ToReadIsUncounted'
  BY <1>3, <1>5, <1>6
<1>8. WantedIsUncounted'
  BY <1>3, <1>4, <1>6
<1>9. OptOutStops'
  BY <1>2, <1>3, <1>4
<1> QED
  BY <1>2, <1>5, <1>7, <1>8, <1>9

LEMMA OptOutInvSettle ==
    ASSUME OptOutInv, NEW e \in Endpoints, SettleEndpoint(e)
    PROVE  OptOutInv'
<1> USE DEF OptOutInv, PollType, CountType, ScreenedFirst, ToReadIsUncounted, WantedIsUncounted, OptOutStops
<1>1. UNCHANGED <<optOut, after>>
  BY DEF SettleEndpoint
<1>2. CASE poll.batch = {e}
  BY <1>1, <1>2 DEF SettleEndpoint, NoPoll
<1>3. CASE poll.batch # {e}
  <2>1. poll' = [poll EXCEPT !.batch = @ \ {e}, !.reading = @ \ {e}] /\ e \in poll.reading
    BY <1>3 DEF SettleEndpoint
  <2>2. poll'.at = poll.at /\ poll'.batch = poll.batch \ {e} /\ poll'.reading = poll.reading \ {e} /\ PollType'
    BY <2>1
  <2> QED
    BY <1>1, <2>1, <2>2
<1> QED
  BY <1>2, <1>3

\* Each edit begins a new count.
LEMMA OptOutInvEdit ==
    ASSUME OptOutInv, NEW e \in Endpoints, OperatorEdits(e)
    PROVE  OptOutInv'
BY DEF OptOutInv, PollType, CountType, ScreenedFirst, ToReadIsUncounted, WantedIsUncounted, OptOutStops, OperatorEdits

(***************************************************************************)
(* Of an endpoint the operator's opt-out file names, the remote worker     *)
(* starts at most one more read: the one of a batch it had screened before *)
(* (Crawler.poll_remote).  Whatever the registry, the crawl's stale list   *)
(* and the order of the worker's steps.                                    *)
(***************************************************************************)
THEOREM OptOutHolds == Spec => []OptOutStops
<1>1. OptOutInv /\ [Next]_vars => OptOutInv'
  <2> SUFFICES ASSUME OptOutInv, [Next]_vars
               PROVE  OptOutInv'
    OBVIOUS
  <2>1. CASE Harvest
    BY <2>1, OptOutInvKept DEF Harvest
  <2>2. CASE SyncTargets
    BY <2>2, OptOutInvKept DEF SyncTargets
  <2>3. CASE Pick \/ Screen \/ Restart
    BY <2>3, OptOutInvScreened DEF Pick, Screen, Restart
  <2>4. CASE \E e \in Endpoints : Read(e) \/ SettleEndpoint(e)
    BY <2>4, OptOutInvRead, OptOutInvSettle
  <2>5. CASE RegistryChanges
    BY <2>5, OptOutInvKept DEF RegistryChanges
  <2>6. CASE \E e \in Endpoints : OperatorEdits(e)
    BY <2>6, OptOutInvEdit
  <2>7. CASE Tick
    BY <2>7, OptOutInvKept DEF Tick
  <2>8. CASE UNCHANGED vars
    BY <2>8, OptOutInvKept DEF vars
  <2> QED
    BY <2>1, <2>2, <2>3, <2>4, <2>5, <2>6, <2>7, <2>8 DEF Next, Worker
<1>2. OptOutInv => OptOutStops
  BY DEF OptOutInv
<1> QED
  BY OptOutInvInit, <1>1, <1>2, PTL DEF Spec

-----------------------------------------------------------------------------
(* The snapshot.  The service's rows name nothing that is not there, in     *)
(* every transaction; an export reads all its pages in one; and by the      *)
(* manifest it has collected every digest the files before name.            *)

States == {Absent, "listed", "delisted", "excluded"}

Dbs == [row : [Servers -> States], set : [Servers -> ToolSets \cup {Absent}],
        changes : SUBSET (Servers \X ToolSets \X ToolSets), runs : SUBSET (Servers \X ToolSets), blobs : SUBSET ToolSets]

NamesItsOwn(d) ==
    /\ \A s \in Servers : d.set[s] \in d.blobs \cup {Absent}
    /\ \A c \in d.changes : d.row[c[1]] # Absent /\ {c[2], c[3]} \subseteq d.blobs
    /\ \A r \in d.runs : d.row[r[1]] # Absent /\ r[2] \in d.blobs

\* What the files written so far hold, and the digests wanted for them.
Excluded(d) == {s \in Servers : d.row[s] = "excluded"}
ServersRead(d, dir, wanted) ==
    /\ dir["servers"] = {<<s, d.row[s], d.set[s]>> : s \in {t \in Servers : d.row[t] \in {"listed", "delisted"}}}
    /\ \A s \in Servers : d.row[s] = "listed" => d.set[s] \in wanted \cup {Absent}
ChangesRead(d, dir, wanted) ==
    /\ dir["changes"] = {c \in d.changes : c[1] \notin Excluded(d)}
    /\ \A c \in dir["changes"] : {c[2], c[3]} \subseteq wanted
RunsRead(d, dir, wanted) ==
    /\ dir["runs"] = {r \in d.runs : r[1] \notin Excluded(d)}
    /\ \A r \in dir["runs"] : r[2] \in wanted

Progress(e) ==
    LET d == e.snapshot
        started == e.excluded = Excluded(d) /\ ServersRead(d, e.dir, e.wanted)
    IN  /\ e.file = "servers" => DOMAIN e.dir = {}
        /\ e.file = "changes" => DOMAIN e.dir = {"servers"} /\ started
        /\ e.file = "runs" => DOMAIN e.dir = {"servers", "changes"} /\ started /\ ChangesRead(d, e.dir, e.wanted)
        /\ e.file = "toolsets" => /\ DOMAIN e.dir = {"servers", "changes", "runs"} /\ started
                                  /\ ChangesRead(d, e.dir, e.wanted) /\ RunsRead(d, e.dir, e.wanted)
        /\ e.file = "manifest" => /\ DOMAIN e.dir = {"servers", "changes", "runs", "toolsets"} /\ started
                                  /\ ChangesRead(d, e.dir, e.wanted) /\ RunsRead(d, e.dir, e.wanted)
                                  /\ e.dir["toolsets"] = d.blobs \cap e.wanted

SnapshotInv ==
    /\ db \in Dbs /\ NamesItsOwn(db)
    /\ export = [file |-> export.file, snapshot |-> export.snapshot, excluded |-> export.excluded,
                 wanted |-> export.wanted, dir |-> export.dir]
    /\ export.file # Absent => export.snapshot \in Dbs /\ NamesItsOwn(export.snapshot)
    /\ Progress(export)
    /\ SnapshotIsClosed

LEMMA SnapshotInvInit == DatasetInit => SnapshotInv
BY DEF DatasetInit, SnapshotInv, Dbs, States, NamesItsOwn, NoExport, NoFiles, Progress, Absent, SnapshotIsClosed

\* One file more.
LEMMA FileWritten ==
    ASSUME SnapshotInv, NEW file, NEW next, NEW rows, NEW excluded, NEW wanted, Step(file, next, rows, excluded, wanted)
    PROVE  /\ export.file = file /\ export'.file = next /\ export'.snapshot = export.snapshot
           /\ export'.excluded = excluded /\ export'.wanted = export.wanted \cup wanted
           /\ DOMAIN export'.dir = DOMAIN export.dir \cup {file}
           /\ export'.dir[file] = rows
           /\ \A f \in DOMAIN export.dir : f # file => export'.dir[f] = export.dir[f]
           /\ export' = [file |-> export'.file, snapshot |-> export'.snapshot, excluded |-> export'.excluded,
                         wanted |-> export'.wanted, dir |-> export'.dir]
           /\ UNCHANGED <<db, out>>
<1>1. PICK a, d, x, w, g : export = [file |-> a, snapshot |-> d, excluded |-> x, wanted |-> w, dir |-> g]
  BY DEF SnapshotInv
<1>2. export' = [file |-> next, snapshot |-> d, excluded |-> excluded, wanted |-> w \cup wanted,
                 dir |-> [f \in DOMAIN g \cup {file} |-> IF f = file THEN rows ELSE g[f]]]
  BY <1>1 DEF Step
<1>3. export'.file = next /\ export'.snapshot = d /\ export'.excluded = excluded /\ export'.wanted = w \cup wanted
      /\ export'.dir = [f \in DOMAIN g \cup {file} |-> IF f = file THEN rows ELSE g[f]]
  BY <1>2
<1>4. export.file = a /\ export.snapshot = d /\ export.wanted = w /\ export.dir = g
  BY <1>1
<1>5. export.file = file /\ UNCHANGED <<db, out>>
  BY DEF Step
<1>6. export' = [file |-> export'.file, snapshot |-> export'.snapshot, excluded |-> export'.excluded,
                 wanted |-> export'.wanted, dir |-> export'.dir]
  BY <1>2, <1>3
<1> QED
  BY <1>3, <1>4, <1>5, <1>6

\* It is all that changes.
LEMMA FileKeeps ==
    ASSUME SnapshotInv, export.file # Absent, Progress(export'), export'.snapshot = export.snapshot, UNCHANGED <<db, out>>,
           export' = [file |-> export'.file, snapshot |-> export'.snapshot, excluded |-> export'.excluded,
                      wanted |-> export'.wanted, dir |-> export'.dir]
    PROVE  SnapshotInv'
<1>1. SnapshotIsClosed'
  BY DEF SnapshotInv, SnapshotIsClosed, Named
<1> QED
  BY <1>1 DEF SnapshotInv

LEMMA ServiceWrites ==
    ASSUME SnapshotInv, NEW d \in Dbs, NamesItsOwn(d), Write(d)
    PROVE  SnapshotInv'
BY DEF SnapshotInv, Write, SnapshotIsClosed, Named

LEMMA SnapshotInvListing ==
    ASSUME SnapshotInv, NEW s \in Servers, NEW state \in {"listed", "delisted", "excluded"}, Listing(s, state)
    PROVE  SnapshotInv'
<1>1. PICK d : d = [db EXCEPT !.row[s] = state]
  OBVIOUS
<1>2. d \in Dbs
  BY <1>1 DEF SnapshotInv, Dbs, States
<1>3. d.row = [db.row EXCEPT ![s] = state] /\ d.set = db.set /\ d.changes = db.changes /\ d.runs = db.runs /\ d.blobs = db.blobs
  BY <1>1 DEF SnapshotInv, Dbs
<1>4. \A t \in Servers : db.row[t] # Absent => d.row[t] # Absent
  BY <1>3 DEF SnapshotInv, Dbs, Absent
<1>5. NamesItsOwn(d)
  BY <1>3, <1>4 DEF SnapshotInv, NamesItsOwn, Dbs
<1> QED
  BY <1>1, <1>2, <1>5, ServiceWrites DEF Listing

LEMMA SnapshotInvObserve ==
    ASSUME SnapshotInv, NEW s \in Servers, NEW set \in ToolSets, Observe(s, set)
    PROVE  SnapshotInv'
<1>1. PICK runs : runs = IF s \in Packages THEN db.runs \cup {<<s, set>>} ELSE db.runs
  OBVIOUS
<1>2. PICK changes : changes = IF db.set[s] \in {Absent, set} THEN db.changes ELSE db.changes \cup {<<s, db.set[s], set>>}
  OBVIOUS
<1>3. PICK d : d = [db EXCEPT !.set[s] = set, !.blobs = db.blobs \cup {set}, !.runs = runs, !.changes = changes]
  OBVIOUS
<1>4. d.row = db.row /\ d.set = [db.set EXCEPT ![s] = set] /\ d.blobs = db.blobs \cup {set}
      /\ d.runs = runs /\ d.changes = changes
  BY <1>3 DEF SnapshotInv, Dbs
<1>5. db.set[s] \in ToolSets \cup {Absent} /\ db.row[s] = "listed"
  BY DEF Observe, SnapshotInv, Dbs
<1>6. runs \in SUBSET (Servers \X ToolSets) /\ changes \in SUBSET (Servers \X ToolSets \X ToolSets)
  BY <1>1, <1>2, <1>5 DEF SnapshotInv, Dbs
<1>7. d \in Dbs
  BY <1>3, <1>6 DEF SnapshotInv, Dbs
<1>8. \A t \in Servers : d.set[t] \in d.blobs \cup {Absent}
  BY <1>4 DEF SnapshotInv, NamesItsOwn, Dbs
<1>9. \A c \in d.changes : d.row[c[1]] # Absent /\ {c[2], c[3]} \subseteq d.blobs
  BY <1>2, <1>4, <1>5 DEF SnapshotInv, NamesItsOwn, Absent
<1>10. \A r \in d.runs : d.row[r[1]] # Absent /\ r[2] \in d.blobs
  BY <1>1, <1>4, <1>5 DEF SnapshotInv, NamesItsOwn, Absent
<1>11. Write(d)
  BY <1>1, <1>2, <1>3 DEF Observe
<1> QED
  BY <1>7, <1>8, <1>9, <1>10, <1>11, ServiceWrites DEF NamesItsOwn

LEMMA SnapshotInvServers == ASSUME SnapshotInv, WriteServers PROVE SnapshotInv'
<1> DEFINE d == export.snapshot
<1>1. export.file = "servers" /\ Reads = d /\ d \in Dbs
  BY DEF WriteServers, Step, Reads, SnapshotInv, Absent
<1>2. PICK rows, excluded, wanted :
        /\ rows = {<<s, d.row[s], d.set[s]>> : s \in {t \in Servers : d.row[t] \in {"listed", "delisted"}}}
        /\ excluded = Excluded(d) /\ wanted = {d.set[s] : s \in {t \in Servers : d.row[t] \in {"listed"}}} \ {Absent}
        /\ Step("servers", "changes", rows, excluded, wanted)
  BY <1>1 DEF WriteServers, Excluded
<1>3. /\ export'.file = "changes" /\ export'.snapshot = d /\ export'.excluded = excluded
      /\ export'.wanted = export.wanted \cup wanted /\ DOMAIN export'.dir = DOMAIN export.dir \cup {"servers"}
      /\ export'.dir["servers"] = rows /\ UNCHANGED <<db, out>>
      /\ export' = [file |-> export'.file, snapshot |-> export'.snapshot, excluded |-> export'.excluded,
                    wanted |-> export'.wanted, dir |-> export'.dir]
  BY <1>2, FileWritten
<1>4. DOMAIN export'.dir = {"servers"} /\ ServersRead(d, export'.dir, export'.wanted)
  BY <1>1, <1>2, <1>3 DEF SnapshotInv, Progress, ServersRead
<1>5. Progress(export')
  BY <1>2, <1>3, <1>4 DEF Progress
<1> QED
  BY <1>1, <1>3, <1>5, FileKeeps DEF Absent

LEMMA SnapshotInvChanges == ASSUME SnapshotInv, WriteChanges PROVE SnapshotInv'
<1> DEFINE d == export.snapshot
<1>1. export.file = "changes" /\ Reads = d /\ d \in Dbs
  BY DEF WriteChanges, Step, Reads, SnapshotInv, Absent
<1>2. DOMAIN export.dir = {"servers"} /\ export.excluded = Excluded(d) /\ ServersRead(d, export.dir, export.wanted)
  BY <1>1 DEF SnapshotInv, Progress
<1>3. PICK rows, wanted :
        /\ rows = {c \in d.changes : c[1] \notin Excluded(d)} /\ wanted = UNION {{c[2], c[3]} : c \in rows}
        /\ Step("changes", "runs", rows, Excluded(d), wanted)
  BY <1>1, <1>2 DEF WriteChanges
<1>4. /\ export'.file = "runs" /\ export'.snapshot = d /\ export'.excluded = Excluded(d)
      /\ export'.wanted = export.wanted \cup wanted /\ DOMAIN export'.dir = DOMAIN export.dir \cup {"changes"}
      /\ export'.dir["changes"] = rows /\ export'.dir["servers"] = export.dir["servers"] /\ UNCHANGED <<db, out>>
      /\ export' = [file |-> export'.file, snapshot |-> export'.snapshot, excluded |-> export'.excluded,
                    wanted |-> export'.wanted, dir |-> export'.dir]
  BY <1>2, <1>3, FileWritten
<1>5. ServersRead(d, export'.dir, export'.wanted)
  BY <1>2, <1>4 DEF ServersRead
<1>6. ChangesRead(d, export'.dir, export'.wanted)
  BY <1>3, <1>4 DEF ChangesRead
<1>7. DOMAIN export'.dir = {"servers", "changes"}
  BY <1>2, <1>4
<1>8. Progress(export')
  BY <1>4, <1>5, <1>6, <1>7 DEF Progress
<1> QED
  BY <1>1, <1>4, <1>8, FileKeeps DEF Absent

LEMMA SnapshotInvRuns == ASSUME SnapshotInv, WriteRuns PROVE SnapshotInv'
<1> DEFINE d == export.snapshot
<1>1. export.file = "runs" /\ Reads = d /\ d \in Dbs
  BY DEF WriteRuns, Step, Reads, SnapshotInv, Absent
<1>2. /\ DOMAIN export.dir = {"servers", "changes"} /\ export.excluded = Excluded(d)
      /\ ServersRead(d, export.dir, export.wanted) /\ ChangesRead(d, export.dir, export.wanted)
  BY <1>1 DEF SnapshotInv, Progress
<1>3. PICK rows, wanted :
        /\ rows = {r \in d.runs : r[1] \notin Excluded(d)} /\ wanted = {r[2] : r \in rows}
        /\ Step("runs", "toolsets", rows, Excluded(d), wanted)
  BY <1>1, <1>2 DEF WriteRuns
<1>4. /\ export'.file = "toolsets" /\ export'.snapshot = d /\ export'.excluded = Excluded(d)
      /\ export'.wanted = export.wanted \cup wanted /\ DOMAIN export'.dir = DOMAIN export.dir \cup {"runs"}
      /\ export'.dir["runs"] = rows /\ export'.dir["servers"] = export.dir["servers"]
      /\ export'.dir["changes"] = export.dir["changes"] /\ UNCHANGED <<db, out>>
      /\ export' = [file |-> export'.file, snapshot |-> export'.snapshot, excluded |-> export'.excluded,
                    wanted |-> export'.wanted, dir |-> export'.dir]
  BY <1>2, <1>3, FileWritten
<1>5. ServersRead(d, export'.dir, export'.wanted) /\ ChangesRead(d, export'.dir, export'.wanted)
  BY <1>2, <1>4 DEF ServersRead, ChangesRead
<1>6. RunsRead(d, export'.dir, export'.wanted)
  BY <1>3, <1>4 DEF RunsRead
<1>7. DOMAIN export'.dir = {"servers", "changes", "runs"}
  BY <1>2, <1>4
<1>8. Progress(export')
  BY <1>4, <1>5, <1>6, <1>7 DEF Progress
<1> QED
  BY <1>1, <1>4, <1>8, FileKeeps DEF Absent

LEMMA SnapshotInvToolSets == ASSUME SnapshotInv, WriteToolSets PROVE SnapshotInv'
<1> DEFINE d == export.snapshot
<1>1. export.file = "toolsets" /\ Reads = d /\ d \in Dbs
  BY DEF WriteToolSets, Step, Reads, SnapshotInv, Absent
<1>2. /\ DOMAIN export.dir = {"servers", "changes", "runs"} /\ export.excluded = Excluded(d)
      /\ ServersRead(d, export.dir, export.wanted) /\ ChangesRead(d, export.dir, export.wanted)
      /\ RunsRead(d, export.dir, export.wanted)
  BY <1>1 DEF SnapshotInv, Progress
<1>3. Step("toolsets", "manifest", d.blobs \cap export.wanted, Excluded(d), {})
  BY <1>1, <1>2 DEF WriteToolSets
<1>4. /\ export'.file = "manifest" /\ export'.snapshot = d /\ export'.excluded = Excluded(d)
      /\ export'.wanted = export.wanted /\ DOMAIN export'.dir = DOMAIN export.dir \cup {"toolsets"}
      /\ export'.dir["toolsets"] = d.blobs \cap export.wanted /\ export'.dir["servers"] = export.dir["servers"]
      /\ export'.dir["changes"] = export.dir["changes"] /\ export'.dir["runs"] = export.dir["runs"] /\ UNCHANGED <<db, out>>
      /\ export' = [file |-> export'.file, snapshot |-> export'.snapshot, excluded |-> export'.excluded,
                    wanted |-> export'.wanted, dir |-> export'.dir]
  BY <1>2, <1>3, FileWritten
<1>5. /\ ServersRead(d, export'.dir, export'.wanted) /\ ChangesRead(d, export'.dir, export'.wanted)
      /\ RunsRead(d, export'.dir, export'.wanted)
  BY <1>2, <1>4 DEF ServersRead, ChangesRead, RunsRead
<1>6. DOMAIN export'.dir = {"servers", "changes", "runs", "toolsets"}
  BY <1>2, <1>4
<1>7. Progress(export')
  BY <1>4, <1>5, <1>6 DEF Progress
<1> QED
  BY <1>1, <1>4, <1>7, FileKeeps DEF Absent

\* All that is named was wanted, and all that is wanted of the snapshot's rows is among its blobs.
LEMMA SnapshotInvPublication == ASSUME SnapshotInv, Publication PROVE SnapshotInv'
<1> DEFINE d == export.snapshot
<1>1. export.file = "manifest" /\ out' = export.dir /\ export' = NoExport /\ UNCHANGED db
  BY DEF Publication
<1>2. /\ DOMAIN out' = {"servers", "changes", "runs", "toolsets"}
      /\ ServersRead(d, out', export.wanted) /\ ChangesRead(d, out', export.wanted) /\ RunsRead(d, out', export.wanted)
      /\ out'["toolsets"] = d.blobs \cap export.wanted
  BY <1>1 DEF SnapshotInv, Progress
<1>3. d \in Dbs /\ NamesItsOwn(d)
  BY <1>1 DEF SnapshotInv, Absent
<1>4. \A s \in Servers \ Excluded(d) : d.row[s] # Absent => s \in Named'
  <2> SUFFICES ASSUME NEW s \in Servers \ Excluded(d), d.row[s] # Absent PROVE s \in Named'
    OBVIOUS
  <2>1. d.row[s] \in {"listed", "delisted"}
    BY <1>3 DEF Dbs, States, Excluded
  <2>2. <<s, d.row[s], d.set[s]>> \in out'["servers"]
    BY <1>2, <2>1 DEF ServersRead
  <2> QED
    BY <2>2 DEF Named
<1>5. \A c \in out'["changes"] : c[1] \in Named' /\ {c[2], c[3]} \subseteq out'["toolsets"]
  BY <1>2, <1>3, <1>4 DEF ChangesRead, NamesItsOwn, Dbs
<1>6. \A r \in out'["runs"] : r[1] \in Named' /\ r[2] \in out'["toolsets"]
  BY <1>2, <1>3, <1>4 DEF RunsRead, NamesItsOwn, Dbs
<1>7. \A r \in out'["servers"] : r[2] = "listed" => r[3] \in out'["toolsets"] \cup {Absent}
  BY <1>2, <1>3 DEF ServersRead, NamesItsOwn
<1> QED
  BY <1>1, <1>2, <1>5, <1>6, <1>7 DEF SnapshotInv, SnapshotIsClosed, NoExport, Progress, Absent

LEMMA SnapshotInvNext == ASSUME SnapshotInv, [Exporting]_dataset PROVE SnapshotInv'
<1>1. CASE StartExport
  <2>1. export' = [file |-> "servers", snapshot |-> db, excluded |-> {}, wanted |-> {}, dir |-> NoFiles] /\ UNCHANGED <<db, out>>
    BY <1>1 DEF StartExport, NoExport
  <2> QED
    BY <2>1 DEF SnapshotInv, Progress, NoFiles, SnapshotIsClosed, Named
<1>2. CASE ExportEnds
  BY <1>2 DEF ExportEnds, SnapshotInv, Progress, NoExport, Absent, SnapshotIsClosed, Named
<1>3. CASE Fetched
  BY <1>3 DEF Fetched, SnapshotInv, SnapshotIsClosed
<1>4. CASE UNCHANGED dataset
  BY <1>4 DEF dataset, SnapshotInv, SnapshotIsClosed, Named
<1> QED
  BY <1>1, <1>2, <1>3, <1>4, SnapshotInvListing, SnapshotInvObserve, SnapshotInvServers, SnapshotInvChanges,
     SnapshotInvRuns, SnapshotInvToolSets, SnapshotInvPublication DEF Exporting

(***************************************************************************)
(* However the service writes between the files of an export (dataset.py), *)
(* and however exports fail: a snapshot that is published has every file   *)
(* and names no server and no tool set it does not hold.                   *)
(***************************************************************************)
THEOREM SnapshotsAreClosed == DatasetSpec => []SnapshotIsClosed
<1>1. SnapshotInv => SnapshotIsClosed
  BY DEF SnapshotInv
<1> QED
  BY SnapshotInvInit, SnapshotInvNext, <1>1, PTL DEF DatasetSpec
-----------------------------------------------------------------------------
(* The receipts log.  One transaction at a time sees anchors that no other  *)
(* does, and what it answers so far is right of them; a commit makes it     *)
(* right of the log, a head of what that head signs, and the log only grows.*)

Replies == [status : {"refused", "logged", "duplicate"}, leaf : Nat]
Submissions == [at : {"idle", "log", "logging", "publish", "answer"}, batch : Seq(Anchor), results : Seq(Replies)]

\* The i-th anchor of a batch was refused, or is where the answer says.
Stands(q, i, log) ==
    q.results[i].status # "refused" =>
        /\ q.results[i].leaf \in DOMAIN log
        /\ log[q.results[i].leaf].issuer = q.batch[i].issuer /\ log[q.results[i].leaf].digest = q.batch[i].digest

AnswersStand(q, log, new, signed) ==
    /\ q.at # "idle" => Len(q.results) <= Len(q.batch)
    /\ q.at = "log" => q.results = << >>
    /\ q.at \in {"publish", "answer"} => Len(q.results) = Len(q.batch)
    /\ \A i \in DOMAIN q.results :
          /\ q.at = "logging" => Stands(q, i, new)
          /\ q.at = "publish" => Stands(q, i, log)
          /\ q.at = "answer" => q.results[i].status = "refused" \/ \E h \in signed : Stands(q, i, h)

OneLeafEach(log) == \A i, j \in DOMAIN log : log[i].digest = log[j].digest => i = j

TheOnlyDraft ==
    /\ \A q, r \in Requests : request[q].at = "logging" /\ request[r].at = "logging" => q = r
    /\ Unlocked => draft = anchors

ToldStands(t) == \E h \in heads : t[3] \in DOMAIN h /\ h[t[3]].issuer = t[1] /\ h[t[3]].digest = t[2]

ReceiptsInv ==
    /\ anchors \in Seq(Anchor) /\ draft \in Seq(Anchor) /\ request \in [Requests -> Submissions]
    /\ IsPrefix(anchors, draft) /\ OneLeafEach(draft)
    /\ \A h \in heads : h \in Seq(Anchor) /\ IsPrefix(h, anchors)
    /\ TheOnlyDraft
    /\ \A r \in Requests : AnswersStand(request[r], anchors, draft, heads)
    /\ \A t \in told : ToldStands(t)

LEMMA PrefixIsBeginning ==
    ASSUME NEW s \in Seq(Anchor), NEW t \in Seq(Anchor)
    PROVE  IsPrefix(s, t) <=> (Len(s) <= Len(t) /\ \A i \in 1..Len(s) : s[i] = t[i])
<1>1. ASSUME Len(s) <= Len(t)
      PROVE  /\ SubSeq(s, 1, Len(s)) \in Seq(Anchor) /\ Len(SubSeq(s, 1, Len(s))) = Len(s)
             /\ SubSeq(t, 1, Len(s)) \in Seq(Anchor) /\ Len(SubSeq(t, 1, Len(s))) = Len(s)
             /\ \A i \in 1..Len(s) : SubSeq(s, 1, Len(s))[i] = s[i] /\ SubSeq(t, 1, Len(s))[i] = t[i]
  BY <1>1
<1>2. ASSUME Len(s) <= Len(t), \A i \in 1..Len(s) : s[i] = t[i]
      PROVE  SubSeq(s, 1, Len(s)) = SubSeq(t, 1, Len(s))
  BY <1>1, <1>2, SeqEqual
<1>3. ASSUME Len(s) <= Len(t), SubSeq(s, 1, Len(s)) = SubSeq(t, 1, Len(s)), NEW i \in 1..Len(s)
      PROVE  s[i] = t[i]
  BY <1>1, <1>3
<1> QED
  BY <1>2, <1>3 DEF IsPrefix

LEMMA PrefixOfPrefix ==
    ASSUME NEW s \in Seq(Anchor), NEW t \in Seq(Anchor), NEW u \in Seq(Anchor), IsPrefix(s, t), IsPrefix(t, u)
    PROVE  IsPrefix(s, u)
<1>1. Len(s) <= Len(t) /\ Len(t) <= Len(u)
  BY PrefixIsBeginning
<1>2. ASSUME NEW i \in 1..Len(s) PROVE s[i] = u[i]
  <2>1. i \in 1..Len(t)
    BY <1>1
  <2> QED
    BY <2>1, PrefixIsBeginning
<1> QED
  BY <1>1, <1>2, PrefixIsBeginning

LEMMA PrefixOfAppend ==
    ASSUME NEW s \in Seq(Anchor), NEW t \in Seq(Anchor), NEW a \in Anchor, IsPrefix(s, t)
    PROVE  IsPrefix(s, Append(t, a)) /\ IsPrefix(t, Append(t, a)) /\ IsPrefix(s, s)
<1>0. PICK u : u = Append(t, a)
  OBVIOUS
<1>1. IsPrefix(t, Append(t, a)) /\ IsPrefix(s, s) /\ Append(t, a) \in Seq(Anchor)
  <2>1. IsPrefix(s, s)
    BY PrefixIsBeginning
  <2>2. u \in Seq(Anchor) /\ IsPrefix(t, u)
    <3>1. u \in Seq(Anchor) /\ Len(t) <= Len(u) /\ \A i \in 1..Len(t) : u[i] = t[i]
      BY <1>0
    <3> QED
      BY <1>0, <3>1, PrefixIsBeginning
  <2> QED
    BY <1>0, <2>1, <2>2
<1> QED
  BY <1>1, PrefixOfPrefix

LEMMA ReceiptsInvInit == ReceiptsInit => ReceiptsInv
<1> SUFFICES ASSUME ReceiptsInit
             PROVE  ReceiptsInv
  OBVIOUS
<1>1. NoRequest \in Submissions /\ AnswersStand(NoRequest, anchors, draft, heads)
  BY DEF NoRequest, Submissions, AnswersStand
<1>2. anchors = << >> /\ draft = << >> /\ IsPrefix(anchors, draft)
  <2>1. anchors \in Seq(Anchor) /\ draft = anchors /\ anchors = << >>
    BY DEF ReceiptsInit
  <2>2. IsPrefix(anchors, anchors)
    <3>1. Len(anchors) <= Len(anchors)
      BY <2>1
    <3> QED
      BY <2>1, <3>1, PrefixIsBeginning
  <2> QED
    BY <2>1, <2>2
<1> QED
  BY <1>1, <1>2 DEF ReceiptsInit, ReceiptsInv, OneLeafEach, TheOnlyDraft, NoRequest

\* A log that grew says the same of the leaves it had.
LEMMA PrefixStands ==
    ASSUME NEW log \in Seq(Anchor), NEW longer \in Seq(Anchor), IsPrefix(log, longer),
           NEW q \in Submissions, NEW i, Stands(q, i, log)
    PROVE  Stands(q, i, longer)
<1>1. DOMAIN log = 1..Len(log) /\ DOMAIN longer = 1..Len(longer)
  OBVIOUS
<1>2. Len(log) <= Len(longer) /\ \A k \in 1..Len(log) : log[k] = longer[k]
  BY PrefixIsBeginning
<1> QED
  BY <1>1, <1>2 DEF Stands

\* What a submission was answered stands while the log and its heads grow and its draft stays.
LEMMA AnswersStay ==
    ASSUME NEW q \in Submissions, NEW log \in Seq(Anchor), NEW longer \in Seq(Anchor), IsPrefix(log, longer),
           NEW new, NEW next, q.at = "logging" => next = new, NEW signed, NEW more, signed \subseteq more,
           AnswersStand(q, log, new, signed)
    PROVE  AnswersStand(q, longer, next, more)
<1>1. ASSUME NEW i \in DOMAIN q.results, q.at = "publish" PROVE Stands(q, i, longer)
  BY <1>1, PrefixStands DEF AnswersStand
<1> QED
  BY <1>1 DEF AnswersStand

\* One submission moves.
LEMMA SubmissionMoves ==
    ASSUME ReceiptsInv, NEW r \in Requests, NEW q \in Submissions, request' = [request EXCEPT ![r] = q],
           anchors' \in Seq(Anchor), IsPrefix(anchors, anchors'), heads \subseteq heads',
           draft' = draft \/ request[r].at = "logging", AnswersStand(q, anchors', draft', heads')
    PROVE  /\ request' \in [Requests -> Submissions]
           /\ \A s \in Requests : AnswersStand(request'[s], anchors', draft', heads')
<1>1. request' \in [Requests -> Submissions] /\ request'[r] = q
  BY DEF ReceiptsInv
<1>2. ASSUME NEW s \in Requests, s # r PROVE AnswersStand(request'[s], anchors', draft', heads')
  <2>1. request'[s] = request[s] /\ request[s] \in Submissions /\ anchors \in Seq(Anchor)
    BY <1>2 DEF ReceiptsInv
  <2>2. request[s].at = "logging" => draft' = draft
    BY <1>2 DEF ReceiptsInv, TheOnlyDraft
  <2>3. AnswersStand(request[s], anchors, draft, heads)
    BY DEF ReceiptsInv
  <2> QED
    BY <2>1, <2>2, <2>3, AnswersStay
<1> QED
  BY <1>1, <1>2

\* The stage of one changes.
LEMMA StageIs ==
    ASSUME ReceiptsInv, NEW r \in Requests, NEW stage, Stage(r, stage)
    PROVE  LET q == [request[r] EXCEPT !.at = stage]
           IN  request' = [request EXCEPT ![r] = q] /\ q.at = stage /\ q.batch = request[r].batch /\ q.results = request[r].results
               /\ (stage \in {"logging", "publish", "answer"} => q \in Submissions)
<1>1. request[r] \in Submissions /\ r \in DOMAIN request
  BY DEF ReceiptsInv
<1> QED
  BY <1>1 DEF Stage, Submissions

LEMMA LogIsItsPrefix == ReceiptsInv => IsPrefix(anchors, anchors) /\ anchors \in Seq(Anchor)
BY PrefixIsBeginning DEF ReceiptsInv

\* What the transaction sees of the log is the log.
LEMMA OneLeafInBoth == ReceiptsInv => OneLeafEach(anchors)
<1> SUFFICES ASSUME ReceiptsInv PROVE OneLeafEach(anchors)
  OBVIOUS
<1>1. Len(anchors) <= Len(draft) /\ \A i \in 1..Len(anchors) : anchors[i] = draft[i]
  BY PrefixIsBeginning DEF ReceiptsInv
<1>2. DOMAIN anchors = 1..Len(anchors) /\ DOMAIN draft = 1..Len(draft) /\ Len(anchors) \in Nat /\ Len(draft) \in Nat
  BY DEF ReceiptsInv
<1> QED
  BY <1>1, <1>2 DEF ReceiptsInv, OneLeafEach

LEMMA ReceiptsInvSubmit ==
    ASSUME ReceiptsInv, NEW r \in Requests, NEW n \in 1..MaxBatch, NEW batch \in [1..n -> Anchor], Submit(r, batch)
    PROVE  ReceiptsInv'
<1>1. n \in Nat /\ batch \in Seq(Anchor) /\ Len(batch) = n /\ DOMAIN batch = 1..n
  BY ReceiptsAssumption
<1>2. PICK q : /\ request' = [request EXCEPT ![r] = q]
               /\ \/ q = [at |-> "log", batch |-> batch, results |-> << >>]
                  \/ q = [at |-> "answer", batch |-> batch, results |-> [i \in DOMAIN batch |-> Result("refused", 0)]]
  BY DEF Submit
<1>3. UNCHANGED <<anchors, draft, heads, told>> /\ request[r].at = "idle"
  BY DEF Submit
<1>4. Result("refused", 0) \in Replies /\ Result("refused", 0).status = "refused"
  BY DEF Result, Replies
<1>5. [i \in DOMAIN batch |-> Result("refused", 0)] \in Seq(Replies) /\ Len([i \in DOMAIN batch |-> Result("refused", 0)]) = n
  BY <1>1, <1>4
<1>6. q \in Submissions /\ q.at \in {"log", "answer"}
  <2>1. PICK results \in Seq(Replies), at \in {"log", "answer"} : q = [at |-> at, batch |-> batch, results |-> results]
    BY <1>2, <1>5, << >> \in Seq(Replies), Zenon
  <2> QED
    BY <1>1, <2>1 DEF Submissions
<1>7. AnswersStand(q, anchors, draft, heads)
  <2>1. CASE q = [at |-> "log", batch |-> batch, results |-> << >>]
    BY <1>1, <2>1 DEF AnswersStand
  <2>2. CASE q = [at |-> "answer", batch |-> batch, results |-> [i \in DOMAIN batch |-> Result("refused", 0)]]
    BY <1>1, <1>4, <1>5, <2>2 DEF AnswersStand
  <2> QED
    BY <1>2, <2>1, <2>2
<1>8. /\ request' \in [Requests -> Submissions]
      /\ \A s \in Requests : AnswersStand(request'[s], anchors', draft', heads')
  BY <1>2, <1>3, <1>6, <1>7, SubmissionMoves, LogIsItsPrefix
<1>9. TheOnlyDraft'
  BY <1>2, <1>3, <1>6 DEF ReceiptsInv, TheOnlyDraft, Unlocked
<1> QED
  BY <1>3, <1>8, <1>9 DEF ReceiptsInv, ToldStands

LEMMA ReceiptsInvLock == ASSUME ReceiptsInv, NEW r \in Requests, Lock(r) PROVE ReceiptsInv'
<1>1. PICK q : q = [request[r] EXCEPT !.at = "logging"]
  OBVIOUS
<1>2. /\ request' = [request EXCEPT ![r] = q] /\ q \in Submissions
      /\ q.at = "logging" /\ q.batch = request[r].batch /\ q.results = request[r].results
  BY <1>1, StageIs DEF Lock
<1>3. UNCHANGED <<anchors, draft, heads, told>> /\ request[r].at = "log" /\ Unlocked
  BY DEF Lock
<1>4. AnswersStand(q, anchors, draft, heads)
  BY <1>2, <1>3 DEF ReceiptsInv, AnswersStand
<1>5. /\ request' \in [Requests -> Submissions]
      /\ \A s \in Requests : AnswersStand(request'[s], anchors', draft', heads')
  BY <1>2, <1>3, <1>4, SubmissionMoves, LogIsItsPrefix
<1>6. TheOnlyDraft'
  BY <1>2, <1>3 DEF ReceiptsInv, TheOnlyDraft, Unlocked
<1> QED
  BY <1>3, <1>5, <1>6 DEF ReceiptsInv, ToldStands

\* Whoever holds the lock adds a result, and perhaps a leaf.
LEMMA ReplyAdded ==
    ASSUME ReceiptsInv, NEW r \in Requests, NEW outcome \in {"refused", "logged", "duplicate"}, NEW leaf \in Nat,
           request[r].at = "logging", Len(request[r].results) < Len(request[r].batch),
           request' = [request EXCEPT ![r].results = Append(@, Result(outcome, leaf))],
           UNCHANGED <<anchors, heads, told>>, draft' \in Seq(Anchor), IsPrefix(draft, draft'), OneLeafEach(draft'),
           LET a == request[r].batch[Len(request[r].results) + 1]
           IN  outcome # "refused" => leaf \in DOMAIN draft' /\ draft'[leaf].issuer = a.issuer /\ draft'[leaf].digest = a.digest
    PROVE  ReceiptsInv'
<1>1. PICK q : q = [request[r] EXCEPT !.results = Append(@, Result(outcome, leaf))]
  OBVIOUS
<1>2. request[r] \in Submissions /\ Result(outcome, leaf) \in Replies
  BY DEF ReceiptsInv, Result, Replies
<1>3. /\ request' = [request EXCEPT ![r] = q] /\ q \in Submissions /\ q.at = "logging" /\ q.batch = request[r].batch
      /\ q.results = Append(request[r].results, Result(outcome, leaf))
  <2>1. request' = [request EXCEPT ![r] = q] /\ r \in DOMAIN request
    BY <1>1 DEF ReceiptsInv
  <2>2. PICK more \in Seq(Replies) : more = Append(request[r].results, Result(outcome, leaf))
    <3>1. request[r].results \in Seq(Replies)
      BY <1>2 DEF Submissions
    <3>2. Append(request[r].results, Result(outcome, leaf)) \in Seq(Replies)
      BY <1>2, <3>1
    <3> QED
      BY <3>2, Zenon
  <2>3. q = [request[r] EXCEPT !.results = more]
    BY <1>1, <1>2, <2>2 DEF Submissions
  <2> QED
    BY <1>2, <2>1, <2>2, <2>3 DEF Submissions
<1>4. PICK n \in Nat : n = Len(request[r].results)
  <2>1. request[r].results \in Seq(Replies)
    BY <1>2 DEF Submissions
  <2>2. Len(request[r].results) \in Nat
    BY <2>1
  <2> QED
    BY <2>2
<1>5. /\ Len(q.results) = n + 1 /\ DOMAIN q.results = 1..(n + 1) /\ q.results[n + 1] = Result(outcome, leaf)
      /\ \A i \in 1..n : q.results[i] = request[r].results[i] /\ i \in DOMAIN request[r].results
  BY <1>2, <1>3, <1>4 DEF Submissions
<1>6. ASSUME NEW i \in 1..n PROVE Stands(q, i, draft')
  <2>1. Stands(request[r], i, draft)
    BY <1>5 DEF ReceiptsInv, AnswersStand
  <2>2. Stands(request[r], i, draft')
    BY <1>2, <2>1, PrefixStands DEF ReceiptsInv
  <2> QED
    BY <1>3, <1>5, <2>2 DEF Stands
<1>7. Stands(q, n + 1, draft')
  BY <1>3, <1>4, <1>5 DEF Stands, Result
<1>8. AnswersStand(q, anchors, draft', heads)
  <2>1. Len(q.results) <= Len(q.batch)
    BY <1>2, <1>3, <1>4, <1>5 DEF Submissions
  <2>2. \A i \in DOMAIN q.results : Stands(q, i, draft')
    BY <1>4, <1>5, <1>6, <1>7
  <2> QED
    BY <1>3, <2>1, <2>2 DEF AnswersStand
<1>9. /\ request' \in [Requests -> Submissions]
      /\ \A s \in Requests : AnswersStand(request'[s], anchors', draft', heads')
  BY <1>3, <1>8, SubmissionMoves, LogIsItsPrefix
<1>10. TheOnlyDraft'
  BY <1>3 DEF ReceiptsInv, TheOnlyDraft, Unlocked
<1>11. IsPrefix(anchors, draft')
  BY PrefixOfPrefix DEF ReceiptsInv
<1> QED
  BY <1>9, <1>10, <1>11 DEF ReceiptsInv, ToldStands

LEMMA ReceiptsInvLogOne == ASSUME ReceiptsInv, NEW r \in Requests, LogOne(r) PROVE ReceiptsInv'
<1>1. PICK a : a = request[r].batch[Len(request[r].results) + 1]
  OBVIOUS
<1>2. /\ request[r].at = "logging" /\ Len(request[r].results) < Len(request[r].batch)
      /\ UNCHANGED <<anchors, heads, told>>
  BY DEF LogOne
<1>3. draft \in Seq(Anchor) /\ IsPrefix(draft, draft) /\ OneLeafEach(draft) /\ a \in Anchor
  <2>1. request[r] \in Submissions /\ draft \in Seq(Anchor)
    BY DEF ReceiptsInv
  <2>2. Len(request[r].results) + 1 \in 1..Len(request[r].batch)
    BY <1>2, <2>1 DEF Submissions
  <2> QED
    BY <1>1, <2>1, <2>2, PrefixIsBeginning DEF Submissions, ReceiptsInv
<1>4. ASSUME NEW outcome \in {"refused", "duplicate"}, NEW leaf \in Nat, UNCHANGED draft,
             request' = [request EXCEPT ![r].results = Append(@, Result(outcome, leaf))],
             outcome = "duplicate" => leaf \in DOMAIN draft /\ draft[leaf].issuer = a.issuer /\ draft[leaf].digest = a.digest
      PROVE  ReceiptsInv'
  BY <1>1, <1>2, <1>3, <1>4, ReplyAdded
<1>5. CASE /\ Held(a.digest) = {} /\ draft' = Append(draft, a)
           /\ request' = [request EXCEPT ![r].results = Append(@, Result("logged", Len(draft) + 1))]
  <2>1. /\ draft' \in Seq(Anchor) /\ DOMAIN draft' = 1..(Len(draft) + 1) /\ draft'[Len(draft) + 1] = a
        /\ \A i \in 1..Len(draft) : draft'[i] = draft[i] /\ i \in DOMAIN draft
    BY <1>3, <1>5
  <2>2. IsPrefix(draft, draft') /\ Len(draft) + 1 \in DOMAIN draft' /\ Len(draft) + 1 \in Nat
    BY <1>3, <1>5, <2>1, PrefixOfAppend
  <2>3. \A i \in 1..Len(draft) : draft[i].digest # a.digest
    BY <1>5, <2>1 DEF Held, LeavesOf
  <2>4. OneLeafEach(draft')
    BY <1>3, <2>1, <2>3 DEF OneLeafEach
  <2> QED
    BY <1>1, <1>2, <1>5, <2>1, <2>2, <2>4, ReplyAdded
<1>6. CASE /\ UNCHANGED draft
           /\ \E leaf \in Held(a.digest) :
                 request' = [request EXCEPT ![r].results =
                     Append(@, Result(IF draft[leaf].issuer = a.issuer THEN "duplicate" ELSE "refused", leaf))]
  <2>1. PICK leaf \in Held(a.digest) :
                 request' = [request EXCEPT ![r].results =
                     Append(@, Result(IF draft[leaf].issuer = a.issuer THEN "duplicate" ELSE "refused", leaf))]
    BY <1>6
  <2>2. leaf \in DOMAIN draft /\ leaf \in Nat /\ draft[leaf].digest = a.digest
    BY <1>3, <2>1 DEF Held, LeavesOf
  <2>3. PICK outcome \in {"refused", "duplicate"} : outcome = IF draft[leaf].issuer = a.issuer THEN "duplicate" ELSE "refused"
    OBVIOUS
  <2> QED
    BY <1>4, <1>6, <2>1, <2>2, <2>3
<1>7. CASE UNCHANGED draft /\ request' = [request EXCEPT ![r].results = Append(@, Result("refused", 0))]
  BY <1>4, <1>7
<1> QED
  BY <1>1, <1>5, <1>6, <1>7 DEF LogOne

LEMMA ReceiptsInvLogBatch == ASSUME ReceiptsInv, NEW r \in Requests, LogBatch(r) PROVE ReceiptsInv'
<1>1. PICK q : q = [request[r] EXCEPT !.at = "publish"]
  OBVIOUS
<1>2. /\ request' = [request EXCEPT ![r] = q] /\ q \in Submissions
      /\ q.at = "publish" /\ q.batch = request[r].batch /\ q.results = request[r].results
  BY <1>1, StageIs DEF LogBatch
<1>3. /\ anchors' = draft /\ UNCHANGED <<draft, heads, told>> /\ request[r].at = "logging"
      /\ Len(q.results) = Len(q.batch)
  BY <1>2 DEF LogBatch
<1>4. IsPrefix(anchors, draft) /\ anchors \in Seq(Anchor) /\ draft \in Seq(Anchor) /\ IsPrefix(draft, draft)
  BY PrefixIsBeginning DEF ReceiptsInv
<1>5. AnswersStand(q, draft, draft, heads)
  BY <1>2, <1>3 DEF ReceiptsInv, AnswersStand, Stands
<1>6. /\ request' \in [Requests -> Submissions]
      /\ \A s \in Requests : AnswersStand(request'[s], anchors', draft', heads')
  BY <1>2, <1>3, <1>4, <1>5, SubmissionMoves
<1>7. TheOnlyDraft'
  BY <1>2, <1>3 DEF ReceiptsInv, TheOnlyDraft, Unlocked
<1>8. \A h \in heads : h \in Seq(Anchor) /\ IsPrefix(h, draft)
  BY <1>4, PrefixOfPrefix DEF ReceiptsInv
<1> QED
  BY <1>3, <1>4, <1>6, <1>7, <1>8 DEF ReceiptsInv, ToldStands

LEMMA ReceiptsInvPublish == ASSUME ReceiptsInv, NEW r \in Requests, Publish(r) PROVE ReceiptsInv'
<1>1. PICK q : q = [request[r] EXCEPT !.at = "answer"]
  OBVIOUS
<1>2. /\ request' = [request EXCEPT ![r] = q] /\ q \in Submissions
      /\ q.at = "answer" /\ q.batch = request[r].batch /\ q.results = request[r].results
  BY <1>1, StageIs DEF Publish
<1>3. /\ heads' = heads \cup {anchors} /\ UNCHANGED <<anchors, draft, told>> /\ request[r].at = "publish" /\ Unlocked
  BY DEF Publish
<1>4. AnswersStand(q, anchors, draft, heads')
  BY <1>2, <1>3 DEF ReceiptsInv, AnswersStand, Stands
<1>5. /\ request' \in [Requests -> Submissions]
      /\ \A s \in Requests : AnswersStand(request'[s], anchors', draft', heads')
  BY <1>2, <1>3, <1>4, SubmissionMoves, LogIsItsPrefix
<1>6. TheOnlyDraft'
  BY <1>2, <1>3 DEF ReceiptsInv, TheOnlyDraft, Unlocked
<1>7. \A h \in heads' : h \in Seq(Anchor) /\ IsPrefix(h, anchors)
  BY <1>3, LogIsItsPrefix DEF ReceiptsInv
<1>8. \A t \in told : ToldStands(t)'
  BY <1>3 DEF ReceiptsInv, ToldStands
<1> QED
  BY <1>3, <1>5, <1>6, <1>7, <1>8 DEF ReceiptsInv

LEMMA ReceiptsInvAnswered == ASSUME ReceiptsInv, NEW r \in Requests, Answered(r) PROVE ReceiptsInv'
<1>1. request' = [request EXCEPT ![r] = NoRequest] /\ UNCHANGED <<anchors, draft, heads>> /\ request[r].at = "answer"
  BY DEF Answered
<1>2. NoRequest \in Submissions /\ NoRequest.at = "idle" /\ AnswersStand(NoRequest, anchors, draft, heads)
  BY DEF NoRequest, Submissions, AnswersStand
<1>3. /\ request' \in [Requests -> Submissions]
      /\ \A s \in Requests : AnswersStand(request'[s], anchors', draft', heads')
  BY <1>1, <1>2, SubmissionMoves, LogIsItsPrefix
<1>4. TheOnlyDraft'
  BY <1>1, <1>2 DEF ReceiptsInv, TheOnlyDraft, Unlocked
<1>5. ASSUME NEW i \in DOMAIN request[r].batch, request[r].results[i].status # "refused"
      PROVE  ToldStands(<<request[r].batch[i].issuer, request[r].batch[i].digest, request[r].results[i].leaf>>)
  <2>1. request[r] \in Submissions /\ AnswersStand(request[r], anchors, draft, heads)
    BY DEF ReceiptsInv
  <2>2. i \in DOMAIN request[r].results
    BY <1>1, <2>1 DEF AnswersStand, Submissions
  <2>3. PICK h \in heads : Stands(request[r], i, h)
    BY <1>1, <1>5, <2>1, <2>2 DEF AnswersStand
  <2> QED
    BY <1>5, <2>3 DEF Stands, ToldStands
<1>6. \A t \in told' : ToldStands(t)
  BY <1>5 DEF Answered, ReceiptsInv
<1> QED
  BY <1>1, <1>3, <1>4, <1>6 DEF ReceiptsInv, ToldStands

LEMMA ReceiptsInvStop == ASSUME ReceiptsInv, Stop PROVE ReceiptsInv'
<1>1. request' = [r \in Requests |-> NoRequest] /\ draft' = anchors /\ UNCHANGED <<anchors, heads, told>>
  BY DEF Stop
<1>2. NoRequest \in Submissions /\ NoRequest.at = "idle" /\ AnswersStand(NoRequest, anchors, anchors, heads)
  BY DEF NoRequest, Submissions, AnswersStand
<1>3. OneLeafEach(anchors) /\ IsPrefix(anchors, anchors) /\ anchors \in Seq(Anchor)
  BY LogIsItsPrefix, OneLeafInBoth DEF ReceiptsInv
<1>4. TheOnlyDraft'
  BY <1>1, <1>2 DEF TheOnlyDraft
<1> QED
  BY <1>1, <1>2, <1>3, <1>4 DEF ReceiptsInv, ToldStands

LEMMA ReceiptsInvNext == ASSUME ReceiptsInv, [Anchoring]_receipts PROVE ReceiptsInv'
<1>1. CASE UNCHANGED receipts
  BY <1>1 DEF receipts, ReceiptsInv, TheOnlyDraft, Unlocked, AnswersStand, ToldStands
<1> QED
  BY <1>1, ReceiptsInvSubmit, ReceiptsInvLock, ReceiptsInvLogOne, ReceiptsInvLogBatch, ReceiptsInvPublish,
     ReceiptsInvAnswered, ReceiptsInvStop DEF Anchoring

(***************************************************************************)
(* However many batches are submitted at once, by whomever, and whenever   *)
(* the service stops between a batch and its head (receipts.py): a digest  *)
(* has one leaf, heads sign beginnings of one log, and an anchor is where  *)
(* its issuer was told, under a head.                                      *)
(***************************************************************************)
THEOREM AnchorsAreKept == ReceiptsSpec => []AnchorsStand
<1>1. ReceiptsInv => AnchorsStand
  <2>1. ReceiptsInv => OneLeafEach(anchors)
    BY OneLeafInBoth
  <2> QED
    BY <2>1 DEF ReceiptsInv, AnchorsStand, OneLeafEach, ToldStands
<1> QED
  BY <1>1, ReceiptsInvInit, ReceiptsInvNext, PTL DEF ReceiptsSpec

-----------------------------------------------------------------------------
(* Refinement: the log of receipts is AppendOnlyLog to its readers.  A head *)
(* is signed after a commit only, and a batch that got as far had an        *)
(* acceptable anchor, so that the log is not empty; what a commit adds is   *)
(* what its transaction saw beyond the log, which is no more than a batch.  *)

\* What a submission will have brought: of a batch some anchor is acceptable, so that the log is
\* not empty when the last of them is dealt with, and it grows by no more than the batch.
Brings(q, log, new) ==
    /\ q.at # "idle" => Len(q.batch) <= MaxBatch
    /\ q.at \in {"log", "logging"} => \E i \in DOMAIN q.batch : Admitted(q.batch[i])
    /\ q.at = "logging" =>
          /\ Len(new) <= Len(log) + Len(q.results)
          /\ \A i \in DOMAIN q.results : Admitted(q.batch[i]) => Len(new) > 0
    /\ q.at = "publish" => Len(log) > 0

OnlyAcceptable(log) == \A i \in 1..Len(log) : log[i] \in Acceptable

PromiseInv ==
    /\ OnlyAcceptable(draft)
    /\ \A r \in Requests : Brings(request[r], anchors, draft)

LEMMA PromiseInvInit == ReceiptsInit => PromiseInv
BY DEF ReceiptsInit, PromiseInv, OnlyAcceptable, Brings, NoRequest

LEMMA AdmittedIsAcceptable == ASSUME NEW a \in Anchor, Admitted(a) PROVE a \in Acceptable
BY ReceiptsAssumption DEF Anchor, Admitted, Acceptable

\* One submission moves, and no other sees a draft.
LEMMA SubmissionBrings ==
    ASSUME ReceiptsInv, PromiseInv, NEW r \in Requests, NEW q \in Submissions, request' = [request EXCEPT ![r] = q],
           anchors' \in Seq(Anchor), Len(anchors) <= Len(anchors'),
           UNCHANGED <<anchors, draft>> \/ request[r].at = "logging", Brings(q, anchors', draft')
    PROVE  \A s \in Requests : Brings(request'[s], anchors', draft')
<1>1. request'[r] = q
  BY DEF ReceiptsInv
<1>2. ASSUME NEW s \in Requests, s # r PROVE Brings(request'[s], anchors', draft')
  <2>1. request'[s] = request[s] /\ Brings(request[s], anchors, draft)
    BY <1>2 DEF ReceiptsInv, PromiseInv
  <2>2. request[s].at = "logging" => UNCHANGED <<anchors, draft>>
    BY <1>2 DEF ReceiptsInv, TheOnlyDraft
  <2>3. Len(anchors) > 0 => Len(anchors') > 0
    <3>1. Len(anchors) \in Nat /\ Len(anchors') \in Nat
      BY DEF ReceiptsInv
    <3> QED
      BY <3>1
  <2> QED
    BY <2>1, <2>2, <2>3 DEF Brings
<1> QED
  BY <1>1, <1>2

LEMMA SubmitBrings ==
    ASSUME ReceiptsInv, PromiseInv, NEW r \in Requests, NEW n \in 1..MaxBatch, NEW batch \in [1..n -> Anchor],
           Submit(r, batch)
    PROVE  PromiseInv'
<1>0. n \in Nat /\ n <= MaxBatch /\ DOMAIN batch = 1..n /\ batch \in Seq(Anchor) /\ Len(batch) = n
  BY ReceiptsAssumption
<1>1. PICK q : q = IF \E i \in DOMAIN batch : Admitted(batch[i])
                   THEN [at |-> "log", batch |-> batch, results |-> << >>]
                   ELSE [at |-> "answer", batch |-> batch, results |-> [i \in DOMAIN batch |-> Result("refused", 0)]]
  OBVIOUS
<1>2. request' = [request EXCEPT ![r] = q] /\ UNCHANGED <<anchors, draft>>
  BY <1>1 DEF Submit
<1>3. q \in Submissions
  <2>1. Result("refused", 0) \in Replies
    BY DEF Result, Replies
  <2>2. [i \in DOMAIN batch |-> Result("refused", 0)] \in Seq(Replies)
    BY <1>0, <2>1
  <2> QED
    BY <1>0, <1>1, <2>2 DEF Submissions
<1>4. Brings(q, anchors, draft)
  BY <1>0, <1>1 DEF Brings
<1>5. anchors' \in Seq(Anchor) /\ Len(anchors) <= Len(anchors')
  <2>1. Len(anchors) \in Nat
    BY DEF ReceiptsInv
  <2> QED
    BY <1>2, <2>1 DEF ReceiptsInv
<1>6. \A s \in Requests : Brings(request'[s], anchors', draft')
  BY <1>2, <1>3, <1>4, <1>5, SubmissionBrings
<1> QED
  BY <1>2, <1>6 DEF PromiseInv, OnlyAcceptable

LEMMA StageBrings ==
    ASSUME ReceiptsInv, PromiseInv, NEW r \in Requests, NEW stage \in {"logging", "publish", "answer"}, Stage(r, stage),
           anchors' \in Seq(Anchor), Len(anchors) <= Len(anchors'), UNCHANGED <<anchors, draft>> \/ request[r].at = "logging",
           UNCHANGED draft, request[r].at # "idle",
           stage = "logging" => /\ request[r].at = "log" /\ Len(draft) <= Len(anchors')
                                /\ request[r].results = << >>,
           stage = "publish" => Len(anchors') > 0
    PROVE  PromiseInv'
<1>1. PICK q : q = [request[r] EXCEPT !.at = stage]
  OBVIOUS
<1>2. /\ request' = [request EXCEPT ![r] = q] /\ q \in Submissions
      /\ q.at = stage /\ q.batch = request[r].batch /\ q.results = request[r].results
  BY <1>1, StageIs
<1>3. Brings(request[r], anchors, draft)
  BY DEF PromiseInv
<1>4. Brings(q, anchors', draft')
  <2>1. q.at = "logging" => /\ Len(draft') <= Len(anchors') + Len(q.results)
                            /\ \A i \in DOMAIN q.results : FALSE
    <3>1. ASSUME q.at = "logging"
          PROVE  q.results = << >> /\ Len(draft) <= Len(anchors') /\ draft' = draft
      BY <1>2, <3>1
    <3>2. Len(anchors') \in Nat /\ Len(draft) \in Nat
      BY DEF ReceiptsInv
    <3> QED
      BY <3>1, <3>2
  <2>2. /\ Len(q.batch) <= MaxBatch
        /\ q.at \in {"log", "logging"} => \E i \in DOMAIN q.batch : Admitted(q.batch[i])
        /\ q.at = "publish" => Len(anchors') > 0
    BY <1>2, <1>3 DEF Brings
  <2> QED
    BY <2>1, <2>2 DEF Brings
<1>5. \A s \in Requests : Brings(request'[s], anchors', draft')
  BY <1>2, <1>4, SubmissionBrings
<1> QED
  BY <1>5 DEF PromiseInv, OnlyAcceptable

LEMMA LockBrings == ASSUME ReceiptsInv, PromiseInv, NEW r \in Requests, Lock(r) PROVE PromiseInv'
<1>1. /\ Stage(r, "logging") /\ UNCHANGED <<anchors, draft>> /\ request[r].at = "log" /\ Unlocked
  BY DEF Lock
<1>2. request[r].results = << >> /\ draft = anchors
  BY <1>1 DEF ReceiptsInv, AnswersStand, TheOnlyDraft
<1>3. anchors' \in Seq(Anchor) /\ Len(anchors) <= Len(anchors') /\ Len(draft) <= Len(anchors')
  <2>1. Len(anchors) \in Nat
    BY DEF ReceiptsInv
  <2> QED
    BY <1>1, <1>2, <2>1 DEF ReceiptsInv
<1> QED
  BY <1>1, <1>2, <1>3, StageBrings

\* Whoever holds the lock adds a result, and perhaps an acceptable leaf.
LEMMA ReplyBrings ==
    ASSUME ReceiptsInv, PromiseInv, NEW r \in Requests, NEW a,
           NEW outcome \in {"refused", "logged", "duplicate"}, NEW leaf \in Nat,
           request[r].at = "logging", Len(request[r].results) < Len(request[r].batch), UNCHANGED anchors,
           a = request[r].batch[Len(request[r].results) + 1],
           request' = [request EXCEPT ![r].results = Append(@, Result(outcome, leaf))],
           draft' = draft \/ (draft' = Append(draft, a) /\ Admitted(a)), Admitted(a) => Len(draft') > 0
    PROVE  PromiseInv'
<1>2. /\ request[r].at = "logging" /\ Len(request[r].results) < Len(request[r].batch) /\ UNCHANGED anchors
      /\ request[r] \in Submissions /\ draft \in Seq(Anchor) /\ anchors \in Seq(Anchor)
  BY DEF ReceiptsInv
<1>3. a \in Anchor /\ Len(request[r].results) \in Nat /\ Len(draft) \in Nat /\ Len(anchors) \in Nat
  <2>1. Len(request[r].results) + 1 \in 1..Len(request[r].batch)
    BY <1>2 DEF Submissions
  <2> QED
    BY <1>2, <2>1 DEF Submissions
<1>5. PICK q : q = [request[r] EXCEPT !.results = Append(@, Result(outcome, leaf))]
  OBVIOUS
<1>6. /\ request' = [request EXCEPT ![r] = q] /\ q \in Submissions /\ q.at = "logging" /\ q.batch = request[r].batch
      /\ q.results = Append(request[r].results, Result(outcome, leaf))
  <2>1. r \in DOMAIN request /\ Result(outcome, leaf) \in Replies
    BY DEF ReceiptsInv, Result, Replies
  <2>2. Append(request[r].results, Result(outcome, leaf)) \in Seq(Replies)
    BY <1>2, <2>1 DEF Submissions
  <2> QED
    BY <1>2, <1>5, <2>1, <2>2 DEF Submissions
<1>7. Len(draft') \in Nat /\ Len(draft) <= Len(draft') /\ Len(draft') <= Len(draft) + 1 /\ OnlyAcceptable(draft')
  <2>1. OnlyAcceptable(draft)
    BY DEF PromiseInv
  <2>2. CASE draft' = draft
    BY <1>3, <2>1, <2>2
  <2>3. CASE draft' = Append(draft, a) /\ Admitted(a)
    <3>1. a \in Acceptable
      BY <1>3, <2>3, AdmittedIsAcceptable
    <3>2. /\ Len(draft') = Len(draft) + 1 /\ draft'[Len(draft) + 1] = a
          /\ \A i \in 1..Len(draft) : draft'[i] = draft[i]
      BY <1>2, <1>3, <2>3
    <3> QED
      BY <1>3, <2>1, <3>1, <3>2 DEF OnlyAcceptable
  <2> QED
    BY <2>2, <2>3
<1>8. Brings(request[r], anchors, draft)
  BY DEF PromiseInv
<1>9. Brings(q, anchors', draft')
  <2>1. /\ Len(q.results) = Len(request[r].results) + 1 /\ DOMAIN q.results = 1..(Len(request[r].results) + 1)
        /\ DOMAIN request[r].results = 1..Len(request[r].results)
    BY <1>2, <1>3, <1>6 DEF Submissions
  <2>2. Len(draft) <= Len(anchors) + Len(request[r].results)
        /\ \A i \in 1..Len(request[r].results) : Admitted(request[r].batch[i]) => Len(draft) > 0
    BY <1>2, <1>8, <2>1 DEF Brings
  <2>3. Len(draft') <= Len(anchors) + Len(q.results)
    BY <1>3, <1>7, <2>1, <2>2
  <2>4. ASSUME NEW i \in DOMAIN q.results, Admitted(q.batch[i]) PROVE Len(draft') > 0
    <3>1. CASE i = Len(request[r].results) + 1
      <4>1. q.batch[i] = a
        BY <1>6, <3>1
      <4> QED
        BY <2>4, <4>1
    <3>2. CASE i \in 1..Len(request[r].results)
      <4>1. Admitted(request[r].batch[i])
        BY <1>6, <2>4
      <4>2. Len(draft) > 0
        BY <2>2, <3>2, <4>1
      <4> QED
        BY <1>3, <1>7, <4>2
    <3> QED
      BY <1>3, <2>1, <3>1, <3>2
  <2>5. Len(q.batch) <= MaxBatch /\ \E i \in DOMAIN q.batch : Admitted(q.batch[i])
    BY <1>2, <1>6, <1>8 DEF Brings
  <2> QED
    BY <1>2, <1>6, <2>3, <2>4, <2>5 DEF Brings
<1>10. \A s \in Requests : Brings(request'[s], anchors', draft')
  <2>1. anchors' \in Seq(Anchor) /\ Len(anchors) <= Len(anchors')
    BY <1>2, <1>3
  <2> QED
    BY <1>2, <1>6, <1>9, <2>1, SubmissionBrings
<1> QED
  BY <1>7, <1>10 DEF PromiseInv

LEMMA LogOneBrings == ASSUME ReceiptsInv, PromiseInv, NEW r \in Requests, LogOne(r) PROVE PromiseInv'
<1>1. PICK a : a = request[r].batch[Len(request[r].results) + 1]
  OBVIOUS
<1>2. /\ request[r].at = "logging" /\ Len(request[r].results) < Len(request[r].batch) /\ UNCHANGED anchors
      /\ draft \in Seq(Anchor) /\ Len(draft) \in Nat
  BY DEF LogOne, ReceiptsInv
<1>3. CASE ~Admitted(a) /\ request' = [request EXCEPT ![r].results = Append(@, Result("refused", 0))] /\ UNCHANGED draft
  BY <1>1, <1>2, <1>3, ReplyBrings
<1>4. CASE /\ Admitted(a) /\ draft' = Append(draft, a)
           /\ request' = [request EXCEPT ![r].results = Append(@, Result("logged", Len(draft) + 1))]
  <2>1. Len(draft') > 0 /\ Len(draft) + 1 \in Nat
    BY <1>2, <1>4
  <2> QED
    BY <1>1, <1>2, <1>4, <2>1, ReplyBrings
<1>5. CASE /\ Admitted(a) /\ UNCHANGED draft
           /\ \E leaf \in Held(a.digest) :
                 request' = [request EXCEPT ![r].results =
                     Append(@, Result(IF draft[leaf].issuer = a.issuer THEN "duplicate" ELSE "refused", leaf))]
  <2>1. PICK leaf \in Held(a.digest) :
                 request' = [request EXCEPT ![r].results =
                     Append(@, Result(IF draft[leaf].issuer = a.issuer THEN "duplicate" ELSE "refused", leaf))]
    BY <1>5
  <2>2. PICK outcome \in {"refused", "duplicate"} : outcome = IF draft[leaf].issuer = a.issuer THEN "duplicate" ELSE "refused"
    OBVIOUS
  <2>3. leaf \in DOMAIN draft /\ DOMAIN draft = 1..Len(draft)
    BY <1>2 DEF Held, LeavesOf
  <2>4. leaf \in Nat /\ Len(draft') > 0 /\ draft' = draft
    BY <1>2, <1>5, <2>3
  <2> QED
    BY <1>1, <1>2, <2>1, <2>2, <2>4, ReplyBrings
<1> QED
  BY <1>1, <1>3, <1>4, <1>5 DEF LogOne

\* When the last anchor is dealt with, the acceptable one among them was.
LEMMA DraftIsNotEmpty ==
    ASSUME ReceiptsInv, PromiseInv, NEW r \in Requests, LogBatch(r)
    PROVE  /\ Len(draft) > 0 /\ Len(anchors) <= Len(draft) /\ Len(draft) <= Len(anchors) + MaxBatch
           /\ \A i \in 1..Len(anchors) : anchors[i] = draft[i]
<1>1. /\ request[r].at = "logging" /\ Len(request[r].results) = Len(request[r].batch)
      /\ request[r] \in Submissions /\ anchors \in Seq(Anchor) /\ draft \in Seq(Anchor) /\ IsPrefix(anchors, draft)
  BY DEF LogBatch, ReceiptsInv
<1>2. Brings(request[r], anchors, draft)
  BY DEF PromiseInv
<1>3. PICK i \in DOMAIN request[r].batch : Admitted(request[r].batch[i])
  BY <1>1, <1>2 DEF Brings
<1>4. i \in DOMAIN request[r].results
  BY <1>1, <1>3 DEF Submissions
<1>5. Len(draft) > 0
  BY <1>1, <1>2, <1>3, <1>4 DEF Brings
<1>6. Len(draft) <= Len(anchors) + MaxBatch
  <2>1. Len(draft) <= Len(anchors) + Len(request[r].results) /\ Len(request[r].batch) <= MaxBatch
    BY <1>1, <1>2 DEF Brings
  <2>2. Len(anchors) \in Nat /\ Len(draft) \in Nat /\ Len(request[r].batch) \in Nat /\ MaxBatch \in Nat
    BY <1>1, ReceiptsAssumption DEF Submissions
  <2> QED
    BY <1>1, <2>1, <2>2
<1> QED
  BY <1>1, <1>5, <1>6, PrefixIsBeginning

LEMMA LogBatchBrings == ASSUME ReceiptsInv, PromiseInv, NEW r \in Requests, LogBatch(r) PROVE PromiseInv'
<1>1. /\ Stage(r, "publish") /\ anchors' = draft /\ UNCHANGED draft /\ request[r].at = "logging"
      /\ draft \in Seq(Anchor)
  BY DEF LogBatch, ReceiptsInv
<1>2. Len(anchors') > 0 /\ Len(anchors) <= Len(anchors')
  BY <1>1, DraftIsNotEmpty
<1> QED
  BY <1>1, <1>2, StageBrings

LEMMA PublishBrings == ASSUME ReceiptsInv, PromiseInv, NEW r \in Requests, Publish(r) PROVE PromiseInv'
<1>1. Stage(r, "answer") /\ UNCHANGED <<anchors, draft>> /\ request[r].at = "publish"
  BY DEF Publish
<1>2. anchors' \in Seq(Anchor) /\ Len(anchors) <= Len(anchors')
  <2>1. Len(anchors) \in Nat
    BY DEF ReceiptsInv
  <2> QED
    BY <1>1, <2>1 DEF ReceiptsInv
<1> QED
  BY <1>1, <1>2, StageBrings

LEMMA AnsweredBrings == ASSUME ReceiptsInv, PromiseInv, NEW r \in Requests, Answered(r) PROVE PromiseInv'
<1>1. request' = [request EXCEPT ![r] = NoRequest] /\ UNCHANGED <<anchors, draft>>
  BY DEF Answered
<1>2. NoRequest \in Submissions /\ Brings(NoRequest, anchors, draft)
  BY DEF NoRequest, Submissions, Brings
<1>3. anchors' \in Seq(Anchor) /\ Len(anchors) <= Len(anchors')
  <2>1. Len(anchors) \in Nat
    BY DEF ReceiptsInv
  <2> QED
    BY <1>1, <2>1 DEF ReceiptsInv
<1>4. \A s \in Requests : Brings(request'[s], anchors', draft')
  BY <1>1, <1>2, <1>3, SubmissionBrings
<1> QED
  BY <1>1, <1>4 DEF PromiseInv, OnlyAcceptable

LEMMA StopBrings == ASSUME ReceiptsInv, PromiseInv, Stop PROVE PromiseInv'
<1>1. request' = [r \in Requests |-> NoRequest] /\ draft' = anchors /\ UNCHANGED anchors
  BY DEF Stop
<1>2. Brings(NoRequest, anchors, anchors)
  BY DEF NoRequest, Brings
<1>3. OnlyAcceptable(anchors)
  <2>1. Len(anchors) <= Len(draft) /\ \A i \in 1..Len(anchors) : anchors[i] = draft[i]
    BY PrefixIsBeginning DEF ReceiptsInv
  <2>2. Len(anchors) \in Nat /\ Len(draft) \in Nat
    BY DEF ReceiptsInv
  <2> QED
    BY <2>1, <2>2 DEF PromiseInv, OnlyAcceptable
<1> QED
  BY <1>1, <1>2, <1>3 DEF PromiseInv

LEMMA PromiseInvNext == ASSUME ReceiptsInv, PromiseInv, [Anchoring]_receipts PROVE PromiseInv'
<1>1. CASE UNCHANGED receipts
  BY <1>1 DEF receipts, PromiseInv, OnlyAcceptable, Brings
<1> QED
  BY <1>1, SubmitBrings, LockBrings, LogOneBrings, LogBatchBrings, PublishBrings, AnsweredBrings, StopBrings DEF Anchoring

\* A commit adds what the batch brought, or nothing.
LEMMA CommitAdds == ASSUME ReceiptsInv, PromiseInv, NEW r \in Requests, LogBatch(r) PROVE [Promise!Next]_Promise!vars
<1>1. /\ anchors' = draft /\ UNCHANGED heads /\ anchors \in Seq(Anchor) /\ draft \in Seq(Anchor) /\ OnlyAcceptable(draft)
  BY DEF LogBatch, ReceiptsInv, PromiseInv
<1>2. /\ Len(anchors) <= Len(draft) /\ Len(draft) <= Len(anchors) + MaxBatch
      /\ \A i \in 1..Len(anchors) : anchors[i] = draft[i]
  BY DraftIsNotEmpty
<1>3. Len(anchors) \in Nat /\ Len(draft) \in Nat /\ MaxBatch \in Nat
  BY <1>1, ReceiptsAssumption
<1>4. CASE Len(draft) = Len(anchors)
  <2>1. draft = anchors
    BY <1>1, <1>2, <1>4, SeqEqual
  <2> QED
    BY <1>1, <2>1 DEF Promise!vars
<1>5. CASE Len(anchors) < Len(draft)
  <2>1. PICK n : n = Len(draft) - Len(anchors)
    OBVIOUS
  <2>2. n \in 1..MaxBatch /\ n \in Nat /\ Len(draft) = Len(anchors) + n
    BY <1>2, <1>3, <1>5, <2>1
  <2>3. PICK more : more = [i \in 1..n |-> draft[Len(anchors) + i]]
    OBVIOUS
  <2>4. more \in [1..n -> Acceptable]
    <3>1. ASSUME NEW i \in 1..n PROVE draft[Len(anchors) + i] \in Acceptable
      <4>1. Len(anchors) + i \in 1..Len(draft)
        BY <1>3, <2>2
      <4> QED
        BY <1>1, <4>1 DEF OnlyAcceptable
    <3> QED
      BY <2>3, <3>1
  <2>5. anchors \o more \in Seq(Anchor) /\ draft = anchors \o more
    <3>1. more \in Seq(Anchor) /\ Len(more) = n /\ \A i \in 1..n : more[i] = draft[Len(anchors) + i]
      <4>1. \A i \in 1..n : more[i] \in Anchor
        BY <2>4 DEF Anchor
      <4> QED
        BY <2>2, <2>3, <4>1
    <3>2. /\ anchors \o more \in Seq(Anchor) /\ Len(anchors \o more) = Len(anchors) + n
          /\ \A i \in 1..(Len(anchors) + n) : (anchors \o more)[i] = IF i <= Len(anchors) THEN anchors[i] ELSE more[i - Len(anchors)]
      <4>1. anchors \in Seq(Anchor) /\ more \in Seq(Anchor)
        BY <1>1, <3>1
      <4> QED
        BY <3>1, <4>1, ConcatProperties
    <3>3. ASSUME NEW i \in 1..(Len(anchors) + n) PROVE (anchors \o more)[i] = draft[i]
      <4>1. CASE i <= Len(anchors)
        <5>1. i \in 1..Len(anchors)
          BY <1>3, <2>2, <4>1
        <5> QED
          BY <1>2, <3>2, <4>1, <5>1
      <4>2. CASE i > Len(anchors)
        <5>1. i - Len(anchors) \in 1..n /\ Len(anchors) + (i - Len(anchors)) = i /\ ~(i <= Len(anchors))
          BY <1>3, <2>2, <4>2
        <5> QED
          BY <3>1, <3>2, <4>2, <5>1
      <4>3. i <= Len(anchors) \/ i > Len(anchors)
        BY <1>3, <2>2
      <4> QED
        BY <4>1, <4>2, <4>3
    <3> QED
      BY <1>1, <2>2, <3>2, <3>3, SeqEqual
  <2>6. Promise!Add(more)
    BY <1>1, <2>5 DEF Promise!Add
  <2> QED
    BY <2>2, <2>4, <2>6 DEF Promise!Next
<1> QED
  BY <1>2, <1>3, <1>4, <1>5

LEMMA PublishSigns == ASSUME ReceiptsInv, PromiseInv, NEW r \in Requests, Publish(r) PROVE Promise!Next
<1>1. heads' = heads \cup {anchors} /\ UNCHANGED anchors /\ request[r].at = "publish"
  BY DEF Publish
<1>2. anchors # << >>
  <2>1. Len(anchors) > 0
    BY <1>1 DEF PromiseInv, Brings
  <2> QED
    BY <2>1
<1>3. Promise!CurrentHead = [treeSize |-> Len(anchors), rootHash |-> anchors]
  BY DEF Promise!CurrentHead
<1>4. Promise!Sign
  BY <1>1, <1>2, <1>3 DEF Promise!Sign
<1> QED
  BY <1>4 DEF Promise!Next

LEMMA ReceiptsStepRefines == ASSUME ReceiptsInv, PromiseInv, [Anchoring]_receipts PROVE [Promise!Next]_Promise!vars
<1>1. CASE UNCHANGED <<anchors, heads>>
  BY <1>1 DEF Promise!vars
<1>2. ASSUME NEW r \in Requests, NEW n \in 1..MaxBatch, NEW batch \in [1..n -> Anchor], Submit(r, batch)
      PROVE  UNCHANGED <<anchors, heads>>
  BY <1>2 DEF Submit
<1>3. ASSUME NEW r \in Requests, Lock(r) \/ LogOne(r) \/ Answered(r)
      PROVE  UNCHANGED <<anchors, heads>>
  BY <1>3 DEF Lock, LogOne, Answered
<1>4. ASSUME Stop \/ UNCHANGED receipts
      PROVE  UNCHANGED <<anchors, heads>>
  BY <1>4 DEF Stop, receipts
<1> QED
  BY <1>1, <1>2, <1>3, <1>4, CommitAdds, PublishSigns DEF Anchoring

(***************************************************************************)
(* The log of receipts implements AppendOnlyLog: however batches overlap   *)
(* and wherever the service stops, it only grows, by acceptable anchors,   *)
(* no more than a batch in one transaction, and every head signs the log   *)
(* as it stood, never an empty one (receipts.py).                          *)
(***************************************************************************)
THEOREM ReceiptsRefine == ReceiptsSpec => ReceiptsKeepThePromise
<1>1. ReceiptsInit => Promise!Init
  BY DEF ReceiptsInit, Promise!Init
<1>2. ReceiptsInv /\ PromiseInv /\ [Anchoring]_receipts => [Promise!Next]_Promise!vars
  BY ReceiptsStepRefines
<1>3. ReceiptsInit => ReceiptsInv /\ PromiseInv
  BY ReceiptsInvInit, PromiseInvInit
<1>4. ReceiptsInv /\ PromiseInv /\ [Anchoring]_receipts => (ReceiptsInv /\ PromiseInv)'
  BY ReceiptsInvNext, PromiseInvNext
<1> QED
  BY <1>1, <1>2, <1>3, <1>4, PTL DEF ReceiptsSpec, ReceiptsKeepThePromise, Promise!Spec

-----------------------------------------------------------------------------
(* Payments.  A transaction that settled or reversed still holds, when it   *)
(* commits, what it read when it began; only a session that Stripe opened   *)
(* is ever paid or reversed; and the sum of what stands bounds what is left *)
(* of the subscription.                                                     *)

Statuses == {None, "opening", "open", "failed", "expired", "paid", "refunded", "disputed"}

Reversals == {"refunded", "disputed"}

PaymentsType ==
    /\ clock \in Nat /\ until \in Nat
    /\ session \in [Payments -> {None, "open", "paid", "mispaid", "expired"}]
    /\ reversed \in [Payments -> SUBSET Reversals]
    /\ status \in [Payments -> Statuses]
    /\ open \subseteq [payment : Payments, kind : {"paid"} \cup Reversals, before : Statuses,
                       sub : {"pending", "active", "ended"}, until : Nat, now : Nat]
    /\ sub \in {"pending", "active", "ended"}

SessionsWereOpened ==
    \A p \in Payments :
        /\ session[p] # None => status[p] \notin {None, "opening"}
        /\ reversed[p] # {} => session[p] = "paid"

ReadsAreFresh ==
    \A t \in open :
        /\ t.before = status[t.payment] /\ t.until = until /\ t.now = clock /\ t.sub = sub
        /\ session[t.payment] = "paid"
        /\ t.kind = "paid" => t.before \in {"open", "expired"}

OneWriter == \A t, u \in open : t = u

PaymentsInv == PaymentsType /\ SessionsWereOpened /\ ReadsAreFresh /\ OneWriter /\ NeverMoreThanPaid

ReversalsStand == \A p \in Payments : status[p] \in Reversals => status'[p] # "paid"

-----------------------------------------------------------------------------
LEMMA MaxOfTwo ==
    ASSUME NEW a \in Int, NEW b \in Int
    PROVE  Max({a, b}) = IF a >= b THEN a ELSE b
<1> DEFINE larger == IF a >= b THEN a ELSE b
<1>1. larger \in {a, b} /\ \A y \in {a, b} : larger >= y
  OBVIOUS
<1>2. Max({a, b}) \in {a, b} /\ \A y \in {a, b} : Max({a, b}) >= y
  BY <1>1 DEF Max
<1> QED
  BY <1>1, <1>2

\* One payment more, or one less, is one period more, or one less.
LEMMA PeriodsAdd ==
    ASSUME NEW n \in Nat, NEW d \in Nat
    PROVE  d * (n + 1) = d * n + d /\ d * n \in Nat
OBVIOUS

\* Whatever else changes, what is left stays bounded while the payments that stand do not.
LEMMA NothingPaid ==
    ASSUME NeverMoreThanPaid, UNCHANGED <<clock, until>>, Paid' = Paid
    PROVE  NeverMoreThanPaid'
BY DEF NeverMoreThanPaid

LEMMA PaymentsInvInit == PaymentsInit => PaymentsInv
<1> SUFFICES ASSUME PaymentsInit
             PROVE  PaymentsInv
  OBVIOUS
<1>1. PaymentsType /\ SessionsWereOpened /\ ReadsAreFresh /\ OneWriter
  BY DEF PaymentsInit, PaymentsType, Statuses, Reversals, None, SessionsWereOpened, ReadsAreFresh, OneWriter
<1>2. Paid = {}
  BY DEF PaymentsInit, Paid, None
<1>3. Cardinality(Paid) = 0
  BY <1>2, FS_EmptySet
<1>4. Period * 0 = 0
  BY WatchAssumption
<1> QED
  BY <1>1, <1>3, <1>4 DEF PaymentsInit, PaymentsInv, NeverMoreThanPaid

\* Checkouts, and what happens at Stripe.
LEMMA PaymentsInvAtStripe ==
    ASSUME PaymentsInv, NEW p \in Payments,
           OpenCheckout(p) \/ StripeOpens(p) \/ StripePays(p) \/ StripeReverses(p)
    PROVE  PaymentsInv' /\ ReversalsStand
<1> USE DEF PaymentsInv
<1>1. UNCHANGED <<clock, until, sub, open>>
  BY DEF OpenCheckout, StripeOpens, StripePays, StripeReverses, stripe
<1>2. \A q \in Payments : q # p =>
          status'[q] = status[q] /\ session'[q] = session[q] /\ reversed'[q] = reversed[q]
  BY DEF OpenCheckout, StripeOpens, StripePays, StripeReverses, stripe, PaymentsType
<1>3. PaymentsType'
  BY <1>1 DEF OpenCheckout, StripeOpens, StripePays, StripeReverses, stripe, PaymentsType, Statuses, Reversals, None
<1>4. SessionsWereOpened' /\ (status'[p] # status[p] => status[p] \in {None, "opening"})
      /\ (session'[p] # session[p] => session[p] # "paid")
      /\ status'[p] \in {status[p], "opening", "open", "failed"}
  <2>1. CASE OpenCheckout(p)
    BY <2>1, <1>2, <1>3 DEF OpenCheckout, stripe, PaymentsType, SessionsWereOpened, None
  <2>2. CASE StripeOpens(p)
    BY <2>2, <1>2, <1>3 DEF StripeOpens, stripe, PaymentsType, SessionsWereOpened, None
  <2>3. CASE StripePays(p)
    BY <2>3, <1>2, <1>3 DEF StripePays, PaymentsType, SessionsWereOpened, None
  <2>4. CASE StripeReverses(p)
    BY <2>4, <1>2, <1>3 DEF StripeReverses, PaymentsType, SessionsWereOpened, None
  <2> QED
    BY <2>1, <2>2, <2>3, <2>4
<1>5. ReadsAreFresh' /\ OneWriter'
  <2>1. \A t \in open : t.payment \in Payments /\ session[t.payment] = "paid"
    BY DEF PaymentsType, ReadsAreFresh
  <2>2. \A t \in open : status'[t.payment] = status[t.payment] /\ session'[t.payment] = "paid"
    BY <2>1, <1>2, <1>4 DEF SessionsWereOpened, None
  <2> QED
    BY <2>2, <1>1 DEF ReadsAreFresh, OneWriter
<1>6. Paid' = Paid
  BY <1>2, <1>4 DEF Paid, None
<1>7. ReversalsStand
  BY <1>2, <1>4 DEF ReversalsStand, Reversals, None
<1> QED
  BY <1>1, <1>3, <1>4, <1>5, <1>6, <1>7, NothingPaid

\* A transaction begins when there is none.
LEMMA PaymentsInvBegin ==
    ASSUME WriteLock, PaymentsInv, NEW p \in Payments, Settle(p) \/ TakeBack(p)
    PROVE  PaymentsInv' /\ ReversalsStand
<1> USE DEF PaymentsInv
<1>1. PICK kind : Begin(p, kind) /\ session[p] = "paid" /\ kind \in {"paid"} \cup Reversals
                  /\ (kind = "paid" => status[p] \in {"open", "expired"})
  BY DEF Settle, TakeBack, PaymentsType, SessionsWereOpened, Reversals
<1> DEFINE t == [payment |-> p, kind |-> kind, before |-> status[p], sub |-> sub, until |-> until, now |-> clock]
<1>2. open = {} /\ open' = {t} /\ UNCHANGED <<clock, session, reversed, status, createdAt, paidAt, sub, until>>
  BY <1>1 DEF Begin, RowIsFree, stripe
<1>3. t \in [payment : Payments, kind : {"paid"} \cup Reversals, before : Statuses,
             sub : {"pending", "active", "ended"}, until : Nat, now : Nat]
  BY <1>1 DEF PaymentsType
<1>4. PaymentsType'
  BY <1>2, <1>3 DEF PaymentsType
<1>5. SessionsWereOpened'
  BY <1>2 DEF SessionsWereOpened
<1>6. OneWriter'
  BY <1>2 DEF OneWriter
<1>7. ReadsAreFresh'
  BY <1>1, <1>2 DEF ReadsAreFresh
<1>8. Paid' = Paid
  BY <1>2 DEF Paid
<1>9. ReversalsStand
  BY <1>2 DEF ReversalsStand, Reversals
<1> QED
  BY <1>2, <1>4, <1>5, <1>6, <1>7, <1>8, <1>9, NothingPaid

\* What a commit leaves is bounded by what it leaves standing.
LEMMA CommitIsBounded ==
    ASSUME PaymentsInv, IsFiniteSet(Payments), NEW t \in open, Commit(t)
    PROVE  NeverMoreThanPaid' /\ until' \in Nat
<1> USE DEF PaymentsInv
<1> DEFINE p == t.payment  n == Cardinality(Paid)
<1>1. /\ p \in Payments /\ t.before = status[p] /\ t.until = until /\ t.now = clock
      /\ clock \in Nat /\ until \in Nat /\ Period \in Nat
      /\ t.kind \in {"paid"} \cup Reversals /\ (t.kind = "paid" => status[p] \in {"open", "expired"})
  BY WatchAssumption DEF PaymentsType, ReadsAreFresh
<1>2. IsFiniteSet(Paid) /\ n \in Nat
  BY FS_Subset, FS_CardinalityType DEF Paid
<1>3. status' = [status EXCEPT ![p] = t.kind] /\ clock' = clock
  BY DEF Commit
<1>4. CASE t.kind = "paid"
  <2>1. Paid' = Paid \cup {p} /\ p \notin Paid
    BY <1>1, <1>3, <1>4 DEF Paid, PaymentsType
  <2>2. Cardinality(Paid') = n + 1
    BY <2>1, <1>2, FS_AddElement
  <2>3. until' = (IF Lapsed(t) THEN clock ELSE until) + Period
    BY <1>1, <1>4 DEF Commit, CommitPaid
  <2>4. Period * (n + 1) = Period * n + Period /\ Period * n \in Nat
    BY <1>1, <1>2, PeriodsAdd
  <2>5. until - clock <= Period * n
    BY DEF NeverMoreThanPaid
  <2>6. until' - clock <= Period * n + Period /\ until' \in Nat
    BY <2>3, <2>4, <2>5, <1>1
  <2> QED
    BY <2>2, <2>4, <2>6, <1>3 DEF NeverMoreThanPaid
<1>5. CASE t.kind # "paid" /\ status[p] = "paid"
  <2>1. Paid' = Paid \ {p} /\ p \in Paid
    BY <1>1, <1>3, <1>5 DEF Paid, PaymentsType
  <2>2. PICK k \in Nat : n = k + 1 /\ Cardinality(Paid') = k
    <3>1. Cardinality(Paid') = n - 1
      BY <2>1, <1>2, FS_RemoveElement
    <3>2. IsFiniteSet(Paid') /\ Cardinality(Paid') \in Nat
      BY <2>1, <1>2, FS_RemoveElement, FS_CardinalityType
    <3> QED
      BY <3>1, <3>2, <1>2
  <2>3. until' = Max({until - Period, clock})
    BY <1>1, <1>5 DEF Commit, CommitReversed
  <2>4. until' = IF until - Period >= clock THEN until - Period ELSE clock
    BY <2>3, <1>1, MaxOfTwo
  <2>5. Period * n = Period * k + Period /\ Period * k \in Nat
    BY <1>1, <2>2, PeriodsAdd
  <2>6. until - clock <= Period * n
    BY DEF NeverMoreThanPaid
  <2>7. until' - clock <= Period * k /\ until' \in Nat
    BY <2>4, <2>5, <2>6, <1>1
  <2> QED
    BY <2>2, <2>7, <1>3 DEF NeverMoreThanPaid
<1>6. CASE t.kind # "paid" /\ status[p] # "paid"
  <2>1. Paid' = Paid
    BY <1>1, <1>3, <1>6 DEF Paid, PaymentsType
  <2>2. UNCHANGED until
    BY <1>1, <1>6 DEF Commit, CommitReversed
  <2> QED
    BY <2>1, <2>2, <1>1, <1>3, NothingPaid
<1> QED
  BY <1>4, <1>5, <1>6

LEMMA PaymentsInvCommit ==
    ASSUME PaymentsInv, IsFiniteSet(Payments), NEW t \in open, Commit(t)
    PROVE  PaymentsInv' /\ ReversalsStand
<1> USE DEF PaymentsInv
<1>1. /\ t.payment \in Payments /\ t.before = status[t.payment] /\ session[t.payment] = "paid"
      /\ t.kind \in {"paid"} \cup Reversals /\ (t.kind = "paid" => status[t.payment] \in {"open", "expired"})
      /\ t.sub \in {"pending", "active", "ended"}
  BY DEF PaymentsType, ReadsAreFresh
<1>2. open' = {} /\ status' = [status EXCEPT ![t.payment] = t.kind] /\ UNCHANGED <<clock, session, reversed>>
  BY DEF Commit, OneWriter, stripe
<1>3. sub' \in {"pending", "active", "ended"}
  BY <1>1 DEF Commit, CommitPaid, CommitReversed, PaymentsType
<1>4. NeverMoreThanPaid' /\ until' \in Nat
  BY CommitIsBounded
<1>5. PaymentsType'
  BY <1>1, <1>2, <1>3, <1>4 DEF PaymentsType, Statuses, Reversals
<1>6. SessionsWereOpened'
  BY <1>1, <1>2 DEF SessionsWereOpened, PaymentsType, Reversals, None
<1>7. ReadsAreFresh' /\ OneWriter'
  BY <1>2 DEF ReadsAreFresh, OneWriter
<1>8. ReversalsStand
  BY <1>1, <1>2 DEF ReversalsStand, Reversals, PaymentsType
<1> QED
  BY <1>4, <1>5, <1>6, <1>7, <1>8

\* An expired session, and time, leave what was paid alone and run while no transaction is open.
LEMMA PaymentsInvExpire ==
    ASSUME WriteLock, PaymentsInv, NEW p \in Payments, Expire(p)
    PROVE  PaymentsInv' /\ ReversalsStand
<1> USE DEF PaymentsInv
<1>1. open = {} /\ open' = {} /\ UNCHANGED <<clock, session, reversed, sub, until>>
      /\ session[p] = "expired" /\ status[p] = "open" /\ status' = [status EXCEPT ![p] = "expired"]
  BY DEF Expire, RowIsFree, stripe
<1>2. PaymentsType'
  BY <1>1 DEF PaymentsType, Statuses
<1>3. SessionsWereOpened'
  BY <1>1 DEF SessionsWereOpened, PaymentsType, None
<1>4. ReadsAreFresh' /\ OneWriter'
  BY <1>1 DEF ReadsAreFresh, OneWriter
<1>5. Paid' = Paid
  BY <1>1 DEF Paid, PaymentsType
<1>6. ReversalsStand
  BY <1>1 DEF ReversalsStand, Reversals, PaymentsType
<1> QED
  BY <1>1, <1>2, <1>3, <1>4, <1>5, <1>6, NothingPaid

LEMMA PaymentsInvTick ==
    ASSUME PaymentsInv, IsFiniteSet(Payments), TimePasses
    PROVE  PaymentsInv' /\ ReversalsStand
<1> USE DEF PaymentsInv
<1>1. open' = {} /\ clock' = clock + 1 /\ UNCHANGED <<session, reversed, status, sub, until>>
  BY DEF TimePasses, stripe
<1>2. PaymentsType'
  BY <1>1 DEF PaymentsType
<1>3. SessionsWereOpened' /\ ReadsAreFresh' /\ OneWriter'
  BY <1>1 DEF SessionsWereOpened, ReadsAreFresh, OneWriter
<1>4. NeverMoreThanPaid'
  <2>1. Paid' = Paid
    BY <1>1 DEF Paid
  <2>2. Cardinality(Paid) \in Nat
    BY FS_Subset, FS_CardinalityType DEF Paid
  <2>3. Period * Cardinality(Paid) \in Nat
    BY <2>2, WatchAssumption, PeriodsAdd
  <2> QED
    BY <1>1, <2>1, <2>3 DEF NeverMoreThanPaid, PaymentsType
<1>5. ReversalsStand
  BY <1>1 DEF ReversalsStand, Reversals
<1> QED
  BY <1>2, <1>3, <1>4, <1>5

(***************************************************************************)
(* What is left of a subscription is never more than its standing payments *)
(* bought, and a payment refunded or disputed is never paid again, for     *)
(* every order of checkouts, events, sweeps and transactions               *)
(* (watch_paid.settle, _take_back), where one transaction writes at a time.*)
(***************************************************************************)
THEOREM PeriodsStand == ASSUME WriteLock, IsFiniteSet(Payments) PROVE PaymentsSpec => PeriodsArePaidFor
<1>1. PaymentsInv /\ [Paying]_payments => PaymentsInv' /\ (UNCHANGED payments \/ ReversalsStand)
  <2> SUFFICES ASSUME PaymentsInv, [Paying]_payments
               PROVE  PaymentsInv' /\ (UNCHANGED payments \/ ReversalsStand)
    OBVIOUS
  <2>1. CASE \E p \in Payments : OpenCheckout(p) \/ StripeOpens(p) \/ StripePays(p) \/ StripeReverses(p)
    BY <2>1, PaymentsInvAtStripe
  <2>2. CASE \E p \in Payments : Settle(p) \/ TakeBack(p)
    BY <2>2, PaymentsInvBegin
  <2>3. CASE \E t \in open : Commit(t)
    BY <2>3, PaymentsInvCommit
  <2>4. CASE \E p \in Payments : Expire(p)
    BY <2>4, PaymentsInvExpire
  <2>5. CASE TimePasses
    BY <2>5, PaymentsInvTick
  <2>6. CASE UNCHANGED payments
    BY <2>6 DEF payments, stripe, PaymentsInv, PaymentsType, SessionsWereOpened, ReadsAreFresh, OneWriter, NeverMoreThanPaid, Paid
  <2> QED
    BY <2>1, <2>2, <2>3, <2>4, <2>5, <2>6 DEF Paying, Payment
<1>2. PaymentsInv' /\ (UNCHANGED payments \/ ReversalsStand)
        => [NeverMoreThanPaid' /\ \A p \in Payments : status[p] \in {"refunded", "disputed"} => status'[p] # "paid"]_payments
  BY DEF PaymentsInv, ReversalsStand, Reversals
<1> QED
  BY PaymentsInvInit, <1>1, <1>2, PTL DEF PaymentsSpec, PeriodsArePaidFor

-----------------------------------------------------------------------------
(* Delivery.  What a worker carries was true when it took the lease; as     *)
(* long as the token is its own, nobody else has moved the cursor, except a *)
(* renewal, which only moves it on.                                         *)

WorkerState == [at : {"resting", "pass", "leased", "posted"}, list : SUBSET Watched, from : Nat, item : Nat, ok : BOOLEAN]

DeliveryType ==
    /\ journal \in Seq(Watched)
    /\ watch \in SUBSET Watched
    /\ cursor \in Nat /\ cursor <= Len(journal)
    /\ worker \in [Workers -> WorkerState]

\* A worker whose token stands has nothing behind its start that the cursor has not passed.
HolderIsNotAhead ==
    \A w \in Workers :
        token = w /\ worker[w].at \in {"leased", "posted"} => worker[w].from <= cursor

\* What was posted is the next followed change after the worker's start, and what was answered was taken.
PostedIsNext ==
    \A w \in Workers : worker[w].at = "posted" =>
        /\ worker[w].item <= Len(journal)
        /\ \A n \in 1..Len(journal) :
              n > worker[w].from /\ n < worker[w].item => journal[n] \notin worker[w].list
        /\ worker[w].ok => worker[w].item \in received

DeliveryInv == DeliveryType /\ HolderIsNotAhead /\ PostedIsNext

-----------------------------------------------------------------------------
LEMMA MinIsLeast ==
    ASSUME NEW S \in SUBSET Nat, S # {}
    PROVE  Min(S) \in S /\ \A y \in S : Min(S) <= y
<1> DEFINE R == OpToRel(<, Nat)
<1>1. PICK x \in S : \A y \in S : ~(<<y, x>> \in R)
  <2>1. IsWellFoundedOn(R, Nat)
    BY NatLessThanWellFounded, Zenon
  <2> HIDE DEF R
  <2> QED
    BY <2>1, WFMin, Zenon
<1>2. \A y \in S : ~(y < x)
  BY <1>1, Zenon DEF OpToRel
<1>3. \A y \in S : x <= y
  BY <1>2
<1> QED
  BY <1>3 DEF Min

LEMMA WorkersAtRest ==
    ASSUME NEW list \in SUBSET Watched
    PROVE  /\ Resting \in WorkerState /\ Resting.at = "resting"
           /\ InPass(list) \in WorkerState /\ InPass(list).at = "pass"
BY DEF Resting, InPass, WorkerState

LEMMA DeliveryInvInit == DeliveryInit => DeliveryInv
BY DeliveryAssumption DEF DeliveryInit, DeliveryInv, DeliveryType, WorkerState, HolderIsNotAhead, PostedIsNext, Resting

\* A change is appended: what was next stays next.
LEMMA DeliveryInvChange ==
    ASSUME DeliveryInv, NEW v \in Watched, ServerChanges(v)
    PROVE  DeliveryInv'
<1> USE DEF DeliveryInv, ServerChanges
<1>1. /\ journal' \in Seq(Watched) /\ Len(journal') = Len(journal) + 1
      /\ \A n \in 1..Len(journal) : journal'[n] = journal[n]
  BY DEF DeliveryType
<1>2. DeliveryType'
  BY <1>1 DEF DeliveryType, row
<1>3. HolderIsNotAhead'
  BY DEF HolderIsNotAhead, row
<1>4. PostedIsNext'
  <2> SUFFICES ASSUME NEW w \in Workers, worker[w].at = "posted"
               PROVE  /\ worker[w].item <= Len(journal')
                      /\ \A n \in 1..Len(journal') :
                            n > worker[w].from /\ n < worker[w].item => journal'[n] \notin worker[w].list
                      /\ worker[w].ok => worker[w].item \in received
    BY DEF PostedIsNext
  <2>1. worker[w].item \in Nat /\ worker[w].item <= Len(journal) /\ Len(journal) \in Nat
    BY DEF DeliveryType, WorkerState, PostedIsNext
  <2> QED
    BY <1>1, <2>1 DEF PostedIsNext
<1> QED
  BY <1>2, <1>3, <1>4

\* The subscription changes, and with a renewal the cursor, which is at the journal's end then.
LEMMA DeliveryInvSubscription ==
    ASSUME DeliveryInv, SetServers \/ Lapse \/ Renew \/ LeaseRunsOut \/ BackoffEnds
    PROVE  DeliveryInv'
<1> USE DEF DeliveryInv, DeliveryType, row
<1>1. CASE SetServers
  BY <1>1, DeliveryAssumption DEF SetServers, HolderIsNotAhead, PostedIsNext
<1>2. CASE Lapse
  BY <1>2 DEF Lapse, HolderIsNotAhead, PostedIsNext
<1>3. CASE Renew
  <2>1. cursor' = Len(journal) /\ UNCHANGED <<journal, watch, token, worker, received>> /\ Len(journal) \in Nat
    BY <1>3 DEF Renew
  <2>2. \A w \in Workers : worker[w].from \in Nat
    BY DEF WorkerState
  <2>3. cursor \in Nat /\ cursor <= cursor'
    BY <2>1
  <2> QED
    BY <2>1, <2>2, <2>3 DEF HolderIsNotAhead, PostedIsNext
<1>4. CASE LeaseRunsOut
  BY <1>4 DEF LeaseRunsOut, HolderIsNotAhead, PostedIsNext
<1>5. CASE BackoffEnds
  BY <1>5 DEF BackoffEnds, HolderIsNotAhead, PostedIsNext
<1> QED
  BY <1>1, <1>2, <1>3, <1>4, <1>5

\* A worker begins, ends or dies: it holds nothing afterwards.
LEMMA DeliveryInvPass ==
    ASSUME DeliveryInv, NEW w \in Workers, StartPass(w) \/ EndPass(w) \/ Idle(w) \/ Kill(w)
    PROVE  DeliveryInv'
<1> USE DEF DeliveryInv, DeliveryType, WorkerState
<1>1. /\ UNCHANGED <<journal, watch, cursor, token, received>>
      /\ worker' = [worker EXCEPT ![w] = InPass(watch)] \/ worker' = [worker EXCEPT ![w] = Resting]
  BY DEF StartPass, EndPass, Idle, Kill, row
<1>2. \A u \in Workers \ {w} : worker'[u] = worker[u]
  BY <1>1
<1>3. worker'[w] \in WorkerState /\ worker'[w].at \in {"resting", "pass"}
  <2> HIDE DEF WorkerState
  <2> QED
    BY <1>1, WorkersAtRest
<1>4. DeliveryType'
  <2> HIDE DEF WorkerState
  <2> QED
    BY <1>1, <1>3
<1>5. HolderIsNotAhead'
  BY <1>1, <1>2, <1>3 DEF HolderIsNotAhead
<1>6. PostedIsNext'
  BY <1>1, <1>2, <1>3 DEF PostedIsNext
<1> QED
  BY <1>4, <1>5, <1>6

\* The lease is taken where the cursor stands; who held the token before holds it no more.
LEMMA DeliveryInvTakeLease ==
    ASSUME DeliveryInv, NEW w \in Workers, TakeLease(w)
    PROVE  DeliveryInv'
<1> USE DEF DeliveryInv, DeliveryType, WorkerState, TakeLease
<1>1. /\ UNCHANGED <<journal, watch, cursor, received>> /\ token' = w
      /\ worker' = [worker EXCEPT ![w].at = "leased", ![w].from = cursor]
  OBVIOUS
<1>2. \A u \in Workers \ {w} : worker'[u] = worker[u]
  BY <1>1
<1>3. worker'[w].at = "leased" /\ worker'[w].from = cursor
  BY <1>1
<1>4. DeliveryType'
  <2> DEFINE held == [worker[w] EXCEPT !.at = "leased", !.from = cursor]
  <2>1. held \in WorkerState
    OBVIOUS
  <2>2. worker' = [worker EXCEPT ![w] = held]
    BY <1>1
  <2> HIDE DEF held, WorkerState
  <2> QED
    BY <1>1, <2>1, <2>2
<1>5. HolderIsNotAhead'
  BY <1>1, <1>3 DEF HolderIsNotAhead
<1>6. PostedIsNext'
  BY <1>1, <1>2, <1>3 DEF PostedIsNext
<1> QED
  BY <1>4, <1>5, <1>6

\* What is posted is the next followed change; it counts as received whenever its answer is good.
LEMMA DeliveryInvPost ==
    ASSUME DeliveryInv, NEW w \in Workers, NEW arrives \in BOOLEAN, NEW ok \in BOOLEAN, Post(w, arrives, ok)
    PROVE  DeliveryInv'
<1> DEFINE item == Min(Following(w))
<1> USE DEF DeliveryInv, DeliveryType, WorkerState
<1>1. item \in Following(w) /\ \A n \in Following(w) : item <= n
  <2>1. Following(w) # {}
    BY Zenon DEF Post
  <2>2. Following(w) \in SUBSET Nat
    BY DEF Following
  <2> QED
    BY <2>1, <2>2, MinIsLeast, Zenon
<1>2. item \in 1..Len(journal) /\ item > worker[w].from
  BY <1>1 DEF Following
<1>3. /\ UNCHANGED <<journal, watch, cursor, token>>
      /\ worker[w].at = "leased"
      /\ worker' = [worker EXCEPT ![w].at = "posted", ![w].item = item, ![w].ok = ok]
      /\ received' = received \cup (IF arrives THEN {item} ELSE {})
      /\ ok => arrives
  BY Zenon DEF Post, row
<1> HIDE DEF item
<1>3a. received \subseteq received' /\ (ok => item \in received')
  BY <1>3, Zenon
<1>4. \A u \in Workers \ {w} : worker'[u] = worker[u]
  BY <1>3
<1>5. /\ worker'[w].at = "posted" /\ worker'[w].item = item /\ worker'[w].ok = ok
      /\ worker'[w].from = worker[w].from /\ worker'[w].list = worker[w].list
  BY <1>3
<1>6. DeliveryType'
  <2> DEFINE posted == [worker[w] EXCEPT !.at = "posted", !.item = item, !.ok = ok]
  <2>1. item \in Nat
    BY <1>2
  <2>2. posted \in WorkerState
    BY <2>1
  <2>3. worker' = [worker EXCEPT ![w] = posted]
    BY <1>3
  <2> HIDE DEF posted, WorkerState
  <2> QED
    BY <1>3, <2>2, <2>3
<1>7. HolderIsNotAhead'
  BY <1>3, <1>4, <1>5 DEF HolderIsNotAhead
<1>8. PostedIsNext'
  <2> SUFFICES ASSUME NEW u \in Workers, worker'[u].at = "posted"
               PROVE  /\ worker'[u].item <= Len(journal)
                      /\ \A n \in 1..Len(journal) :
                            n > worker'[u].from /\ n < worker'[u].item => journal[n] \notin worker'[u].list
                      /\ worker'[u].ok => worker'[u].item \in received'
    BY <1>3 DEF PostedIsNext
  <2>1. CASE u = w
    <3>1. \A n \in 1..Len(journal) : n > worker[w].from /\ n < item => journal[n] \notin worker[w].list
      BY <1>1, <1>2 DEF Following
    <3> QED
      BY <1>2, <1>3, <1>5, <1>3a, <2>1, <3>1
  <2>2. CASE u # w
    BY <1>3, <1>4, <1>3a, <2>2 DEF PostedIsNext
  <2> QED
    BY <2>1, <2>2
<1> QED
  BY <1>6, <1>7, <1>8

\* The cursor is moved by the holder of the token alone, and nobody else's start is tied to it.
LEMMA DeliveryInvFinish ==
    ASSUME DeliveryInv, NEW w \in Workers, Finish(w)
    PROVE  DeliveryInv'
<1> USE DEF DeliveryInv, DeliveryType, WorkerState
<1>1. /\ UNCHANGED <<journal, watch, token, received>>
      /\ worker[w].at = "posted"
      /\ worker' = [worker EXCEPT ![w] = IF worker[w].ok THEN InPass(worker[w].list) ELSE Resting]
  BY DEF Finish
<1>2. \A u \in Workers \ {w} : worker'[u] = worker[u]
  BY <1>1
<1>3. worker'[w] \in WorkerState /\ worker'[w].at \in {"resting", "pass"}
  <2>1. worker[w].list \in SUBSET Watched
    OBVIOUS
  <2> HIDE DEF WorkerState
  <2> QED
    BY <1>1, <2>1, WorkersAtRest
<1>4. token # w => cursor' = cursor
  BY DEF Finish
<1>5. cursor' \in Nat /\ cursor' <= Len(journal)
  <2>1. CASE token = w
    <3>1. worker[w].item <= Len(journal) /\ worker[w].from <= cursor
      BY <1>1, <2>1 DEF HolderIsNotAhead, PostedIsNext
    <3>2. cursor' = IF worker[w].ok THEN worker[w].item ELSE worker[w].from
      BY <2>1 DEF Finish
    <3>3. worker[w].item \in Nat /\ worker[w].from \in Nat /\ Len(journal) \in Nat
      OBVIOUS
    <3> QED
      BY <3>1, <3>2, <3>3
  <2>2. CASE token # w
    BY <1>4, <2>2
  <2> QED
    BY <2>1, <2>2
<1>6. DeliveryType'
  <2> HIDE DEF WorkerState
  <2> QED
    BY <1>1, <1>3, <1>5
<1>7. HolderIsNotAhead'
  BY <1>1, <1>2, <1>3, <1>4 DEF HolderIsNotAhead
<1>8. PostedIsNext'
  BY <1>1, <1>2, <1>3 DEF PostedIsNext
<1> QED
  BY <1>6, <1>7, <1>8

LEMMA DeliveryInvNext ==
    ASSUME DeliveryInv, [Delivering]_delivery
    PROVE  DeliveryInv'
<1>1. CASE \E v \in Watched : ServerChanges(v)
  BY <1>1, DeliveryInvChange
<1>2. CASE SetServers \/ Lapse \/ Renew \/ LeaseRunsOut \/ BackoffEnds
  BY <1>2, DeliveryInvSubscription
<1>3. CASE \E w \in Workers : Deliver(w) \/ Kill(w)
  <2>1. PICK w \in Workers : Deliver(w) \/ Kill(w)
    BY <1>3
  <2>2. CASE StartPass(w) \/ EndPass(w) \/ Idle(w) \/ Kill(w)
    BY <2>2, DeliveryInvPass
  <2>3. CASE TakeLease(w)
    BY <2>3, DeliveryInvTakeLease
  <2>4. CASE \E arrives, ok \in BOOLEAN : Post(w, arrives, ok)
    BY <2>4, DeliveryInvPost
  <2>5. CASE Finish(w)
    BY <2>5, DeliveryInvFinish
  <2> QED
    BY <2>1, <2>2, <2>3, <2>4, <2>5 DEF Deliver
<1>4. CASE UNCHANGED delivery
  BY <1>4 DEF delivery, row, DeliveryInv, DeliveryType, HolderIsNotAhead, PostedIsNext
<1> QED
  BY <1>1, <1>2, <1>3, <1>4 DEF Delivering

-----------------------------------------------------------------------------
LEMMA FinishSkipsNothing ==
    ASSUME DeliveryInv, NEW w \in Workers, Finish(w)
    PROVE  \A n \in (cursor + 1)..cursor' : n \in received \/ journal[n] \notin worker[w].list
<1> SUFFICES ASSUME NEW n \in (cursor + 1)..cursor'
             PROVE  n \in received \/ journal[n] \notin worker[w].list
  OBVIOUS
<1>1. /\ worker[w].from \in Nat /\ worker[w].item \in Nat /\ cursor \in Nat /\ Len(journal) \in Nat
      /\ worker[w].ok \in BOOLEAN /\ worker[w].at = "posted"
  BY DEF DeliveryInv, DeliveryType, WorkerState, Finish
<1>2. CASE token # w
  <2>1. cursor' = cursor
    BY <1>2 DEF Finish
  <2> QED
    BY <1>1, <2>1
<1>3. CASE token = w
  <2>1. worker[w].from <= cursor
    BY <1>1, <1>3 DEF DeliveryInv, HolderIsNotAhead
  <2>2. cursor' = IF worker[w].ok THEN worker[w].item ELSE worker[w].from
    BY <1>3 DEF Finish
  <2>3. worker[w].ok /\ n <= worker[w].item /\ n > worker[w].from /\ n \in 1..Len(journal)
    BY <1>1, <2>1, <2>2 DEF DeliveryInv, PostedIsNext
  <2>4. CASE n = worker[w].item
    BY <1>1, <2>3, <2>4 DEF DeliveryInv, PostedIsNext
  <2>5. CASE n # worker[w].item
    BY <1>1, <2>3, <2>5 DEF DeliveryInv, PostedIsNext
  <2> QED
    BY <2>4, <2>5
<1> QED
  BY <1>2, <1>3

\* "Ordered webhook delivery": whatever number of workers deliver under leases that may run out, die
\* in the middle, post in vain or are renewed, the cursor passes no followed change that was not taken.
THEOREM NothingIsSkipped == DeliverySpec => NothingSkipped
<1>1. DeliverySpec => []DeliveryInv
  <2>1. DeliveryInit => DeliveryInv
    BY DeliveryInvInit
  <2>2. DeliveryInv /\ [Delivering]_delivery => DeliveryInv'
    BY DeliveryInvNext
  <2> QED
    BY <2>1, <2>2, PTL DEF DeliverySpec
<1>2. DeliveryInv /\ [Delivering]_delivery =>
      [\A w \in Workers : Finish(w) =>
          \A n \in (cursor + 1)..cursor' : n \in received \/ journal[n] \notin worker[w].list]_delivery
  BY FinishSkipsNothing
<1> QED
  BY <1>1, <1>2, PTL DEF DeliverySpec, NothingSkipped
=============================================================================
