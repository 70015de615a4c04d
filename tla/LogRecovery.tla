---------------------------- MODULE LogRecovery ----------------------------
(***************************************************************************)
(* The log of Logbook.tla under the operator's procedures: the nightly     *)
(* backup of deploy/backup_histor.sh, which dumps the database and then    *)
(* copies the data volume while the service runs, a move to a fresh host,  *)
(* and the two restores docs/operations.md speaks of: a stale database     *)
(* alone, and both halves of one night.                                    *)
(*                                                                         *)
(* `published' is what the world may have saved: every head ever committed *)
(* by any database that held this log.                                     *)
(***************************************************************************)
EXTENDS Logbook

CONSTANTS
    Restores,      \* which restores the operator does: "database", "both"
    MaxRestores    \* bound: restores

ASSUME LogRecoveryAssumption ==
    Restores \subseteq {"database", "both"} /\ MaxRestores \in Nat

VARIABLES
    published,   \* every head ever committed
    dump,        \* histor-<stamp>.dump of the last backup night
    tar,         \* keys-<stamp>.tar of the same night
    restored     \* what each restore so far brought back, in order

recovery == <<published, dump, tar, restored>>

DatabaseState == [log |-> log, sths |-> sths, issuer |-> issuer]

\* docker cp reads the text the marker name leads to at that moment.
VolumeState == [seed |-> seed, text |-> IF marker = None THEN None ELSE file[marker]]

RecoveryInit ==
    /\ Init
    /\ published = {} /\ dump = None /\ tar = None /\ restored = <<>>

-----------------------------------------------------------------------------
Run ==
    /\ Next
    /\ published' = published \union sths'
    /\ UNCHANGED <<dump, tar, restored>>

\* pg_dump: one snapshot of the database, whatever the lanes are doing.
Dump ==
    /\ dump = None /\ issuer # None
    /\ dump' = DatabaseState
    /\ UNCHANGED <<vars, published, tar, restored>>

\* docker cp of the data volume, after the dump has been written and listed; without a
\* key in it the night's backup fails.
CopyVolume ==
    /\ dump # None /\ tar = None /\ seed # None
    /\ tar' = VolumeState
    /\ UNCHANGED <<vars, published, dump, restored>>

\* The service is stopped first, or had refused to start.
AllDown ==
    /\ \A p \in Procs : boot[p] \in {"down", "refused"}
    /\ boot' = [p \in Procs |-> "down"]
    /\ UNCHANGED <<seen, lanes, crashes>>

\* A new host: an empty database and an empty data volume.
FreshHost ==
    /\ AllDown /\ tar # None
    /\ log' = <<>> /\ sths' = {} /\ issuer' = None
    /\ seed' = None /\ marker' = None /\ tmp' = None
    /\ file' = [i \in Inodes |-> Empty]
    /\ UNCHANGED <<issued, born, recovery>>

\* pg_restore --clean.
RestoreDatabase ==
    /\ log' = dump.log /\ sths' = dump.sths /\ issuer' = dump.issuer

RestoreDatabaseOnly ==
    /\ "database" \in Restores /\ Len(restored) < MaxRestores
    /\ AllDown /\ dump # None
    /\ RestoreDatabase
    /\ restored' = Append(restored, "database")
    /\ UNCHANGED <<issued, volume, published, dump, tar>>

\* docs/operations.md, "Restore": both halves, of the same night.  docker cp overwrites
\* the files the tar holds and removes none.
RestoreBoth ==
    /\ "both" \in Restores /\ Len(restored) < MaxRestores
    /\ AllDown /\ tar # None
    /\ RestoreDatabase
    /\ seed' = tar.seed
    /\ \E i \in Inodes :
        /\ IF marker = None THEN i # tmp ELSE i = marker
        /\ marker' = IF tar.text = None THEN marker ELSE i
        /\ file' = IF tar.text = None THEN file ELSE [file EXCEPT ![i] = tar.text]
    /\ restored' = Append(restored, "both")
    /\ UNCHANGED <<issued, born, tmp, published, dump, tar>>

RecoveryNext == Run \/ Dump \/ CopyVolume \/ FreshHost \/ RestoreDatabaseOnly \/ RestoreBoth

RecoverySpec == RecoveryInit /\ [][RecoveryNext]_<<vars, recovery>>

-----------------------------------------------------------------------------
(***************************************************************************)
(* "The log MUST sign at most one head per tree size"                      *)
(* (docs/spec/transparency-log.md:113): of all heads ever published under  *)
(* one key the smaller is a prefix of the larger.                          *)
(***************************************************************************)
OnePublishedHistory ==
    \A g, h \in published :
        g.log = h.log /\ g.treeSize <= h.treeSize => g.rootHash = Prefix(h.rootHash, g.treeSize)

\* The database alone was ever restored, and no lane was killed before it wrote the marker.
MarkerKnows == crashes = 0 /\ \A i \in 1..Len(restored) : restored[i] = "database"

(***************************************************************************)
(* As long as the data volume stays in place and the marker is up to date, *)
(* a stale database is never served, and so the key signs no second        *)
(* history: a process that is up serves every head its key ever published  *)
(* (docs/operations.md:163-164, keys.py:57-60).                            *)
(***************************************************************************)
StaleDatabaseIsNotServed ==
    MarkerKnows => \A p \in Procs : boot[p] = "up" =>
        /\ issuer = seed
        /\ \A h \in published : h.log = seed => h \in sths

MarkerKeepsOneHistory == MarkerKnows => OnePublishedHistory

\* So a restored database never forks the log: it is refused before anything is served or signed.
MarkerGuardsTheLog == StaleDatabaseIsNotServed /\ MarkerKeepsOneHistory

\* The log had a marker by that night, and no head was published between dump and copy.
QuietNight == tar.text # None /\ tar.text.head \in dump.sths

(***************************************************************************)
(* The two halves of one backup night fit each other when no head was      *)
(* published between them: brought back, the deployment starts             *)
(* (docs/operations.md:145-146, 166).                                      *)
(***************************************************************************)
QuietNightStarts ==
    restored # <<>> /\ restored[Len(restored)] = "both" /\ QuietNight => NeverLockedOut

\* What an operator brings back is refused, or fits and starts.
RestoresAreSafe == MarkerGuardsTheLog /\ QuietNightStarts
=============================================================================
