------------------------------ MODULE Dataset ------------------------------
(***************************************************************************)
(* The snapshot researchers download (dataset.py): servers, changes, runs  *)
(* of packages and the tool sets they name, written file by file while the *)
(* service goes on observing, into a directory that takes its name at the  *)
(* end.  Rows are what they name of each other; extras, scans and verdicts *)
(* go by the same digests and are left out.                                *)
(***************************************************************************)
EXTENDS Integers, FiniteSets

CONSTANTS Servers,   \* targets
          Packages,  \* those run in the sandbox: each of their runs is a row
          ToolSets,  \* digests
          MaxWrites  \* bound: transactions of the service

ASSUME DatasetAssumption == Packages \subseteq Servers /\ MaxWrites \in Nat

Absent == "absent"

VARIABLES
    db,      \* target rows, changes, observations and blobs of the service
    writes,  \* transactions, counted for the bound
    export,  \* the export under way: its snapshot, what it collected, the files in its directory
    out      \* the published directory, empty when there is none

dataset == <<db, writes, export, out>>

NoFiles == [f \in {} |-> {}]
NoExport == [file |-> Absent, snapshot |-> Absent, excluded |-> {}, wanted |-> {}, dir |-> NoFiles]

DatasetInit ==
    /\ db = [row |-> [s \in Servers |-> Absent], set |-> [s \in Servers |-> Absent],
             changes |-> {}, runs |-> {}, blobs |-> {}]
    /\ writes = 0 /\ export = NoExport /\ out = NoFiles

-----------------------------------------------------------------------------
(* The service: one transaction each.                                       *)
Write(new) == writes < MaxWrites /\ writes' = writes + 1 /\ db' = new /\ UNCHANGED <<export, out>>

\* The sync: listed, delisted or excluded by the operator.
Listing(s, state) == state # db.row[s] /\ Write([db EXCEPT !.row[s] = state])

\* The crawl commits a tool set: its blob, the run, a change if there was another, the row.
Observe(s, set) ==
    /\ db.row[s] = "listed"
    /\ Write([db EXCEPT !.set[s] = set, !.blobs = @ \cup {set},
                        !.runs = IF s \in Packages THEN @ \cup {<<s, set>>} ELSE @,
                        !.changes = IF db.set[s] \in {Absent, set} THEN @ ELSE @ \cup {<<s, db.set[s], set>>}])

-----------------------------------------------------------------------------
(* The export.                                                              *)
\* main refuses while a crawl runs, unless it is forced; export refuses a directory that exists.
StartExport ==
    /\ export.file = Absent /\ out = NoFiles
    /\ export' = [NoExport EXCEPT !.file = "servers", !.snapshot = db]
    /\ UNCHANGED <<db, writes, out>>

\* Mutant: each page is read in a transaction of its own.
ReadLive == db

\* Every page is read in the transaction of the first.
Reads == export.snapshot

Step(file, next, rows, excluded, wanted) ==
    /\ export.file = file
    /\ export' = [export EXCEPT !.file = next, !.excluded = excluded, !.wanted = @ \cup wanted,
                     !.dir = [f \in DOMAIN @ \cup {file} |-> IF f = file THEN rows ELSE @[f]]]
    /\ UNCHANGED <<db, writes, out>>

\* Excluded targets are left out; the tool set of a listed one is wanted, not of a delisted one.
WriteServers ==
    LET named(state) == {s \in Servers : Reads.row[s] \in state}
    IN  Step("servers", "changes",
             {<<s, Reads.row[s], Reads.set[s]>> : s \in named({"listed", "delisted"})},
             named({"excluded"}),
             {Reads.set[s] : s \in named({"listed"})} \ {Absent})

WriteChanges ==
    LET kept == {c \in Reads.changes : c[1] \notin export.excluded}
    IN  Step("changes", "runs", kept, export.excluded, UNION {{c[2], c[3]} : c \in kept})

WriteRuns ==
    LET kept == {r \in Reads.runs : r[1] \notin export.excluded}
    IN  Step("runs", "toolsets", kept, export.excluded, {r[2] : r \in kept})

WriteToolSets ==
    Step("toolsets", "manifest", Reads.blobs \cap export.wanted, export.excluded, {})

\* The manifest over the files, and then os.replace.
Publication ==
    /\ export.file = "manifest"
    /\ out' = export.dir /\ export' = NoExport
    /\ UNCHANGED <<db, writes>>

\* A failure or a kill; the partial directory is not looked at again.
ExportEnds ==
    /\ export.file # Absent /\ export' = NoExport
    /\ UNCHANGED <<db, writes, out>>

\* A new snapshot goes to a directory of its own.
Fetched == out # NoFiles /\ out' = NoFiles /\ UNCHANGED <<db, writes, export>>

Exporting ==
    \/ \E s \in Servers :
          \/ \E state \in {"listed", "delisted", "excluded"} : Listing(s, state)
          \/ \E set \in ToolSets : Observe(s, set)
    \/ StartExport \/ WriteServers \/ WriteChanges \/ WriteRuns \/ WriteToolSets \/ Publication
    \/ ExportEnds \/ Fetched

DatasetSpec == DatasetInit /\ [][Exporting]_dataset

-----------------------------------------------------------------------------
Named == {r[1] : r \in out["servers"]}

\* "Files a researcher can load in one go": a published snapshot has every file and names nothing
\* it does not hold -- every change and every run is of a server in it, and the tool sets of both
\* and of every listed server are in it -- although the service writes between the files.
SnapshotIsClosed ==
    out # NoFiles =>
        /\ DOMAIN out = {"servers", "changes", "runs", "toolsets"}
        /\ \A c \in out["changes"] : c[1] \in Named /\ {c[2], c[3]} \subseteq out["toolsets"]
        /\ \A r \in out["runs"] : r[1] \in Named /\ r[2] \in out["toolsets"]
        /\ \A r \in out["servers"] : r[2] = "listed" => r[3] \in out["toolsets"] \cup {Absent}

\* "Every tool set a server showed", delisted ones included.
EveryShownSetIsHeld ==
    out # NoFiles => \A r \in out["servers"] : r[3] \in out["toolsets"] \cup {Absent}

=============================================================================
