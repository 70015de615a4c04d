--------------------------- MODULE Logbook_proofs ---------------------------
(***************************************************************************)
(* Theorems about Logbook and LogRecovery for every set of processes,      *)
(* lanes, labels, keys and inodes, every number of kills and every width   *)
(* of the marker text; and about Migrations, for every number of           *)
(* processes, revisions and releases.                                      *)
(***************************************************************************)
EXTENDS LogRecovery, Migrations, FiniteSetTheorems, SequenceTheorems, TLAPS

-----------------------------------------------------------------------------
(* Prefixes.                                                                *)

LEMMA PrefixOfAppend ==
    ASSUME NEW S, NEW s \in Seq(S), NEW e \in S, NEW n \in 0..Len(s)
    PROVE  Prefix(Append(s, e), n) = Prefix(s, n)
BY DEF Prefix

LEMMA PrefixOfPrefix ==
    ASSUME NEW S, NEW s \in Seq(S), NEW n \in 0..Len(s), NEW m \in 0..n
    PROVE  Prefix(Prefix(s, n), m) = Prefix(s, m)
BY DEF Prefix

LEMMA WholePrefix ==
    ASSUME NEW S, NEW s \in Seq(S)
    PROVE  Prefix(s, Len(s)) = s
BY DEF Prefix

-----------------------------------------------------------------------------
(* The inductive invariant.  Type correctness needs to know that a process  *)
(* that signs has bound itself to an issuer key; the heads commit to the    *)
(* log because the log only grows; and whatever a file can ever say was     *)
(* committed to the database before it was written.                         *)

\* A process past BootKey holds the recorded issuer's key, and only such a process has
\* lanes that do anything.
Bound ==
    /\ \A p \in Procs : boot[p] \in {"bound", "marked", "up"} => seed # None /\ issuer = seed
    /\ \A t \in Lanes : pc[t] # "run" => boot[ProcessOf[t]] = "up"

\* A lane that has committed a head writes that head, into a file it has opened.
Held ==
    /\ \A t \in Lanes : pc[t] # "run" => mine[t] \in sths
    /\ \A t \in Lanes : pc[t] = "opened" => fd[t] \in Inodes

Core == TypeOK /\ Bound /\ HeadsCommitToLog /\ Held

\* What a file says was committed first.  A restored database forgets it: this is of Logbook alone.
Committed == \A i \in Inodes : file[i].head # None => file[i].head \in sths

IInv == Core /\ Committed

LEMMA InitIInv == Init => IInv
BY LogbookAssumption DEF Init, IInv, Core, Committed, TypeOK, Bound, HeadsCommitToLog, Held, Empty, Text, SignedHead

LEMMA BootKeyCore == ASSUME Core, NEW p \in Procs, BootKey(p) PROVE Core'
<1> USE LogbookAssumption DEF Core
<1>0. /\ UNCHANGED <<log, issued, sths, marker, tmp, file, seen, headLock, pc, fd, mine, crashes>>
      /\ boot[p] \in {"down", "refused"}
  BY DEF BootKey, lanes
<1>1. Held'
  BY <1>0 DEF Held
<1>2. ASSUME NEW k \in Keys, NEW madeNow, BootKeyWith(p, k, madeNow), seed = None \/ seed = k
      PROVE  TypeOK' /\ Bound' /\ HeadsCommitToLog'
  <2>1. CASE RightKey(k)
    <3>1. seed' = k /\ issuer' = k /\ boot' = [boot EXCEPT ![p] = "bound"]
      BY <1>2, <2>1 DEF BootKeyWith
    <3>2. issuer = k \/ sths = {}
      BY <2>1 DEF RightKey, HeadsCommitToLog, TypeOK, SignedHead
    <3>3. TypeOK'
      BY <1>0, <1>2, <3>1 DEF TypeOK, BootKeyWith
    <3>4. Bound'
      BY <1>0, <1>2, <3>1 DEF TypeOK, Bound
    <3>5. HeadsCommitToLog'
      BY <1>0, <3>1, <3>2 DEF HeadsCommitToLog, Prefix
    <3> QED
      BY <3>3, <3>4, <3>5
  <2>2. CASE ~ RightKey(k)
    <3>1. seed' = k /\ issuer' = issuer /\ boot' = [boot EXCEPT ![p] = "refused"]
      BY <1>2, <2>2 DEF BootKeyWith, Refuse
    <3>2. TypeOK'
      BY <1>0, <1>2, <3>1 DEF TypeOK, BootKeyWith
    <3>3. Bound'
      BY <1>0, <1>2, <3>1 DEF TypeOK, Bound
    <3>4. HeadsCommitToLog'
      BY <1>0, <3>1 DEF HeadsCommitToLog, Prefix
    <3> QED
      BY <3>2, <3>3, <3>4
  <2> QED
    BY <2>1, <2>2
<1>3. ASSUME Refuse(p), UNCHANGED <<seed, born, issuer>>
      PROVE  TypeOK' /\ Bound' /\ HeadsCommitToLog'
  <2>1. TypeOK'
    BY <1>0, <1>3 DEF TypeOK, Refuse
  <2>2. Bound'
    BY <1>0, <1>3 DEF TypeOK, Bound, Refuse
  <2>3. HeadsCommitToLog'
    BY <1>0, <1>3 DEF HeadsCommitToLog, Prefix
  <2> QED
    BY <2>1, <2>2, <2>3
<1> QED
  BY <1>1, <1>2, <1>3 DEF BootKey, TypeOK

LEMMA BootReadMarkerCore == ASSUME Core, NEW p \in Procs, BootReadMarker(p) PROVE Core'
<1> USE LogbookAssumption DEF Core
<1>0. /\ UNCHANGED <<log, issued, sths, issuer, seed, born, marker, tmp, file>>
      /\ UNCHANGED <<headLock, pc, fd, mine, crashes>>
      /\ boot[p] = "bound" /\ boot' \in {[boot EXCEPT ![p] = "marked"], [boot EXCEPT ![p] = "refused"]}
  BY DEF BootReadMarker, database, volume, lanes, Refuse
<1>1. TypeOK'
  <2>1. seen' \in [Procs -> SignedHead \union {None}]
    BY DEF BootReadMarker, TypeOK, Text
  <2> QED
    BY <1>0, <2>1 DEF TypeOK
<1>2. Bound'
  BY <1>0 DEF TypeOK, Bound
<1>3. HeadsCommitToLog' /\ Held'
  BY <1>0 DEF HeadsCommitToLog, Prefix, Held
<1> QED
  BY <1>1, <1>2, <1>3

LEMMA BootCheckHeadCore == ASSUME Core, NEW p \in Procs, BootCheckHead(p) PROVE Core'
<1> USE LogbookAssumption DEF Core
<1>0. /\ UNCHANGED <<log, issued, sths, issuer, seed, born, marker, tmp, file>>
      /\ UNCHANGED <<headLock, pc, fd, mine, crashes>>
      /\ boot[p] = "marked" /\ boot' \in {[boot EXCEPT ![p] = "up"], [boot EXCEPT ![p] = "refused"]}
      /\ seen' = [seen EXCEPT ![p] = None]
  BY DEF BootCheckHead, database, volume, lanes, Refuse
<1>1. TypeOK'
  BY <1>0 DEF TypeOK
<1>2. Bound'
  BY <1>0 DEF TypeOK, Bound
<1>3. HeadsCommitToLog' /\ Held'
  BY <1>0 DEF HeadsCommitToLog, Prefix, Held
<1> QED
  BY <1>1, <1>2, <1>3

LEMMA AppendLabelCore ==
    ASSUME Core, NEW t \in Lanes, NEW label \in Labels, AppendLabel(t, label)
    PROVE  Core'
<1> USE LogbookAssumption DEF Core
<1>0. /\ log' = Append(log, label) /\ issued' = issued \union {label}
      /\ UNCHANGED <<sths, issuer, seed, born, marker, tmp, file, boot, seen, headLock, pc, fd, mine, crashes>>
  BY DEF AppendLabel, volume, startup, lanes
<1>1. TypeOK'
  BY <1>0 DEF TypeOK
<1>2. Bound' /\ Held'
  BY <1>0 DEF Bound, Held
<1>3. HeadsCommitToLog'
  <2> SUFFICES ASSUME NEW h \in sths
               PROVE  /\ h.treeSize <= Len(Append(log, label))
                      /\ h.rootHash = Prefix(Append(log, label), h.treeSize)
                      /\ h.log = issuer
    BY <1>0 DEF HeadsCommitToLog, Prefix
  <2>1. h.treeSize \in 0..Len(log) /\ h.rootHash = Prefix(log, h.treeSize) /\ h.log = issuer
    BY DEF HeadsCommitToLog, TypeOK, SignedHead
  <2> QED
    BY <2>1, PrefixOfAppend DEF TypeOK
<1> QED
  BY <1>1, <1>2, <1>3

LEMMA PublishHeadCore == ASSUME Core, NEW t \in Lanes, PublishHead(t) PROVE Core'
<1> USE LogbookAssumption DEF Core
<1>0. /\ UNCHANGED <<log, issued, issuer, seed, born, marker, tmp, file, boot, seen, fd, crashes>>
      /\ sths' = sths \union {NewHead}
      /\ headLock' = [headLock EXCEPT ![ProcessOf[t]] = t]
      /\ mine' = [mine EXCEPT ![t] = NewHead]
      /\ pc' = [pc EXCEPT ![t] = "committed"]
      /\ boot[ProcessOf[t]] = "up" /\ log # <<>>
  BY DEF PublishHead, NothingNew, volume, startup
<1>1. NewHead \in SignedHead /\ NewHead.log = issuer /\ NewHead.treeSize = Len(log) /\ NewHead.rootHash = log
  BY <1>0 DEF NewHead, SignedHead, TypeOK, Bound
<1>2. TypeOK'
  BY <1>0, <1>1 DEF TypeOK
<1>3. Bound'
  BY <1>0 DEF TypeOK, Bound
<1>4. HeadsCommitToLog'
  BY <1>0, <1>1, WholePrefix DEF TypeOK, HeadsCommitToLog, Prefix
<1>5. Held'
  BY <1>0 DEF TypeOK, Held
<1> QED
  BY <1>2, <1>3, <1>4, <1>5

LEMMA OpenTmpCore == ASSUME Core, NEW t \in Lanes, OpenTmp(t) PROVE Core'
<1> USE LogbookAssumption DEF Core
<1>0. /\ UNCHANGED <<log, issued, sths, issuer, seed, born, marker, boot, seen, headLock, mine, crashes>>
      /\ pc[t] = "committed" /\ pc' = [pc EXCEPT ![t] = "opened"]
  BY DEF OpenTmp, database, startup
<1>1. PICK i \in Inodes : tmp' = i /\ file' = [file EXCEPT ![i] = Empty] /\ fd' = [fd EXCEPT ![t] = i]
  BY DEF OpenTmp
<1>2. TypeOK'
  BY <1>0, <1>1 DEF TypeOK, Text, Empty
<1>3. Bound'
  BY <1>0 DEF TypeOK, Bound
<1>4. HeadsCommitToLog'
  BY <1>0 DEF HeadsCommitToLog, Prefix
<1>5. Held'
  BY <1>0, <1>1 DEF TypeOK, Held, Empty
<1> QED
  BY <1>2, <1>3, <1>4, <1>5

LEMMA WriteTmpCore == ASSUME Core, NEW t \in Lanes, WriteTmp(t) PROVE Core'
<1> USE LogbookAssumption DEF Core
<1>0. /\ UNCHANGED <<log, issued, sths, issuer, seed, born, marker, tmp, boot, seen, headLock, fd, mine, crashes>>
      /\ pc[t] = "opened" /\ pc' = [pc EXCEPT ![t] = "written"]
      /\ file' = [file EXCEPT ![fd[t]] =
                     [head |-> mine[t], longest |-> Larger(@.longest, mine[t].treeSize)]]
  BY DEF WriteTmp, database, startup
<1>1. mine[t] \in sths /\ mine[t] \in SignedHead /\ fd[t] \in Inodes
  BY <1>0 DEF Held, TypeOK
<1>2. TypeOK'
  <2>1. file[fd[t]].longest \in Nat /\ mine[t].treeSize \in Nat
    BY <1>1 DEF TypeOK, Text, SignedHead
  <2>2. [head |-> mine[t], longest |-> Larger(file[fd[t]].longest, mine[t].treeSize)] \in Text
    BY <1>1, <2>1 DEF Text, Larger
  <2> QED
    BY <1>0, <1>1, <2>2 DEF TypeOK
<1>3. Bound'
  BY <1>0 DEF TypeOK, Bound
<1>4. HeadsCommitToLog'
  BY <1>0 DEF HeadsCommitToLog, Prefix
<1>5. Held'
  BY <1>0, <1>1 DEF TypeOK, Held
<1> QED
  BY <1>2, <1>3, <1>4, <1>5

LEMMA LeavePublishCore ==
    ASSUME Core, NEW t \in Lanes, ReplaceMarker(t) \/ ReplaceFails(t)
    PROVE  Core'
<1> USE LogbookAssumption DEF Core
<1>0. /\ UNCHANGED <<log, issued, sths, issuer, seed, born, file, boot, seen, crashes>>
      /\ {marker', tmp'} \subseteq {marker, tmp, None}
      /\ headLock' = [headLock EXCEPT ![ProcessOf[t]] = None]
      /\ pc' = [pc EXCEPT ![t] = "run"]
      /\ fd' = [fd EXCEPT ![t] = None] /\ mine' = [mine EXCEPT ![t] = None]
  BY DEF ReplaceMarker, ReplaceFails, LeavePublish, database, volume, startup
<1>1. TypeOK'
  BY <1>0 DEF TypeOK
<1>2. Bound'
  BY <1>0 DEF TypeOK, Bound
<1>3. HeadsCommitToLog'
  BY <1>0 DEF HeadsCommitToLog, Prefix
<1>4. Held'
  BY <1>0 DEF TypeOK, Held
<1> QED
  BY <1>1, <1>2, <1>3, <1>4

LEMMA ExitCore == ASSUME Core, NEW p \in Procs, Stop(p) \/ Kill(p) PROVE Core'
<1> USE LogbookAssumption DEF Core
<1>0. /\ UNCHANGED <<log, issued, sths, issuer, seed, born, marker, tmp, file>>
      /\ boot' = [boot EXCEPT ![p] = "down"] /\ seen' = [seen EXCEPT ![p] = None]
      /\ headLock' = [headLock EXCEPT ![p] = None]
      /\ pc' = [t \in Lanes |-> IF ProcessOf[t] = p THEN "run" ELSE pc[t]]
      /\ fd' = [t \in Lanes |-> IF ProcessOf[t] = p THEN None ELSE fd[t]]
      /\ mine' = [t \in Lanes |-> IF ProcessOf[t] = p THEN None ELSE mine[t]]
  BY DEF Stop, Kill, Exit, database, volume
<1>1. TypeOK'
  <2>1. crashes' \in 0..MaxCrashes
    BY DEF Stop, Kill, TypeOK
  <2> QED
    BY <1>0, <2>1 DEF TypeOK
<1>2. Bound'
  BY <1>0 DEF TypeOK, Bound
<1>3. HeadsCommitToLog'
  BY <1>0 DEF HeadsCommitToLog, Prefix
<1>4. Held'
  BY <1>0 DEF TypeOK, Held
<1> QED
  BY <1>1, <1>2, <1>3, <1>4

LEMMA StepCore == ASSUME Core, [Next]_vars PROVE Core'
<1>1. CASE UNCHANGED vars
  BY <1>1 DEF vars, database, volume, startup, lanes, Core, TypeOK, Bound, HeadsCommitToLog, Held, Prefix
<1>2. ASSUME NEW t \in Lanes, LaneNext(t) PROVE Core'
  BY <1>2, AppendLabelCore, PublishHeadCore, OpenTmpCore, WriteTmpCore, LeavePublishCore DEF LaneNext
<1>3. ASSUME NEW p \in Procs, ProcNext(p) PROVE Core'
  BY <1>3, BootKeyCore, BootReadMarkerCore, BootCheckHeadCore, ExitCore DEF ProcNext
<1> QED
  BY <1>1, <1>2, <1>3 DEF Next

\* Files change in OpenTmp and WriteTmp only; heads are only added.
LEMMA FilesChange ==
    ASSUME Core, [Next]_vars
    PROVE  /\ sths \subseteq sths'
           /\ \A i \in Inodes : file'[i] = file[i] \/ file'[i].head = None \/ file'[i].head \in sths
<1>1. ASSUME NEW t \in Lanes, OpenTmp(t)
      PROVE  sths' = sths /\ \A i \in Inodes : file'[i] = file[i] \/ file'[i].head = None
  <2>1. PICK i \in Inodes : file' = [file EXCEPT ![i] = Empty]
    BY <1>1 DEF OpenTmp
  <2> QED
    BY <1>1, <2>1 DEF OpenTmp, database, Core, TypeOK, Empty
<1>2. ASSUME NEW t \in Lanes, WriteTmp(t)
      PROVE  sths' = sths /\ \A i \in Inodes : file'[i] = file[i] \/ file'[i].head \in sths
  BY <1>2 DEF WriteTmp, database, Core, TypeOK, Held
<1>3. ASSUME NEW t \in Lanes, NEW label \in Labels, AppendLabel(t, label) PROVE sths' = sths /\ file' = file
  BY <1>3 DEF AppendLabel, volume
<1>4. ASSUME NEW t \in Lanes, PublishHead(t) PROVE sths \subseteq sths' /\ file' = file
  BY <1>4 DEF PublishHead, volume
<1>5. ASSUME NEW t \in Lanes, ReplaceMarker(t) \/ ReplaceFails(t) PROVE sths' = sths /\ file' = file
  BY <1>5 DEF ReplaceMarker, ReplaceFails, database, volume
<1>6. ASSUME NEW p \in Procs, ProcNext(p) PROVE sths' = sths /\ file' = file
  BY <1>6 DEF ProcNext, BootKey, BootReadMarker, BootCheckHead, Stop, Kill, Exit, database, volume
<1>7. CASE UNCHANGED vars
  BY <1>7 DEF vars, database, volume
<1> QED
  BY <1>1, <1>2, <1>3, <1>4, <1>5, <1>6, <1>7 DEF Next, LaneNext

LEMMA StepIInv == ASSUME IInv, [Next]_vars PROVE IInv'
<1>1. Core'
  BY StepCore DEF IInv
<1>2. Committed'
  BY FilesChange DEF IInv, Committed
<1> QED
  BY <1>1, <1>2 DEF IInv

THEOREM Invariance == Spec => []IInv
BY InitIInv, StepIInv, PTL DEF Spec

-----------------------------------------------------------------------------
(* What the invariant gives, property by property.                          *)

\* Every variable keeps its type, in any number of processes: in particular no head is
\* ever signed by a process that has no key (logbook.py:122-131).
THEOREM TypeCorrect == Spec => []TypeOK
BY Invariance, PTL DEF IInv, Core

\* Every stored head commits to the first treeSize leaves the database holds and carries
\* the recorded issuer (logbook.py:107-135), whatever runs, is killed or restarts.
THEOREM StoredHeadsCommit == Spec => []HeadsCommitToLog
BY Invariance, PTL DEF IInv, Core

LEMMA CommittedHeadsAgree == Core => OneHistory
<1> SUFFICES ASSUME Core, NEW g \in sths, NEW h \in sths, g.treeSize <= h.treeSize
             PROVE  g.rootHash = Prefix(h.rootHash, g.treeSize)
  BY DEF OneHistory, Core
<1>1. /\ h.treeSize \in 0..Len(log) /\ h.rootHash = Prefix(log, h.treeSize)
      /\ g.treeSize \in 0..h.treeSize /\ g.rootHash = Prefix(log, g.treeSize)
  BY DEF Core, HeadsCommitToLog, TypeOK, SignedHead
<1> QED
  BY <1>1, PrefixOfPrefix DEF Core, TypeOK

\* Stored heads are of the log, and no two contradict each other: the smaller one's leaves are the first
\* leaves of the larger one's, and one size has one root.
THEOREM HeadsNeverContradict == Spec => []OneHistory
BY Invariance, CommittedHeadsAgree, PTL DEF IInv

LEMMA WhatFilesSay == IInv => MarkerNeverLeads
BY DEF IInv, Core, TypeOK, Committed, MarkerNeverLeads, Readable

\* A readable marker, or the temporary file about to replace it, names a head the
\* database has committed (keys.py:54-65 is called after logbook.py:131's commit), even
\* when several processes write through the same temporary file.
THEOREM MarkerLags == Spec => []MarkerNeverLeads
BY Invariance, WhatFilesSay, PTL

-----------------------------------------------------------------------------
(* Refinement: to its readers the log is AppendOnlyLog.                     *)

LEMMA InitRefines == Init => Promise!Init
BY DEF Init, Promise!Init

LEMMA StepRefines == ASSUME IInv, [Next]_vars PROVE [Promise!Next]_Promise!vars
<1>1. CASE log' = log /\ sths' = sths
  BY <1>1 DEF Promise!vars
<1>2. ASSUME NEW t \in Lanes, NEW label \in Labels, AppendLabel(t, label)
      PROVE  Promise!Next
  <2>1. log \in Seq(Labels) /\ log' = Append(log, label) /\ sths' = sths
    BY <1>2 DEF AppendLabel, IInv, Core, TypeOK
  <2>2. log' = log \o <<label>> /\ <<label>> \in [1..1 -> Labels]
    BY <2>1
  <2>3. Promise!Add(<<label>>)
    BY <2>1, <2>2 DEF Promise!Add
  <2> QED
    BY <2>2, <2>3 DEF Promise!Next
<1>3. ASSUME NEW t \in Lanes, PublishHead(t)
      PROVE  Promise!Next
  <2>1. log # <<>> /\ log' = log /\ sths' = sths \union {NewHead}
    BY <1>3 DEF PublishHead, NothingNew
  <2>2. NewHead.treeSize = Len(log) /\ NewHead.rootHash = log
    BY DEF NewHead
  <2>3. Promise!Sign
    BY <2>1, <2>2 DEF Promise!Sign, Promise!CurrentHead
  <2> QED
    BY <2>3 DEF Promise!Next
<1>4. ASSUME NEW t \in Lanes, OpenTmp(t) \/ WriteTmp(t) \/ ReplaceMarker(t) \/ ReplaceFails(t)
      PROVE  log' = log /\ sths' = sths
  BY <1>4 DEF OpenTmp, WriteTmp, ReplaceMarker, ReplaceFails, database
<1>5. ASSUME NEW p \in Procs, ProcNext(p)
      PROVE  log' = log /\ sths' = sths
  BY <1>5 DEF ProcNext, BootKey, BootReadMarker, BootCheckHead, Stop, Kill, Exit, database
<1> QED
  BY <1>1, <1>2, <1>3, <1>4, <1>5 DEF Next, LaneNext, vars, database

\* Whatever the lanes, processes and kills do, readers of the two tables see a log that
\* only grows and heads that sign exactly what it held when they were signed.
THEOREM Refinement == Spec => KeepsThePromise
<1>1. Init => Promise!Init
  BY InitRefines
<1>2. IInv /\ [Next]_vars => [Promise!Next]_Promise!vars
  BY StepRefines
<1> QED
  BY <1>1, <1>2, Invariance, PTL DEF Spec, KeepsThePromise, Promise!Spec

-----------------------------------------------------------------------------
(* The service alone: one process, as many lanes as it likes.  What a kill  *)
(* leaves behind is accepted by the next startup because the key is there   *)
(* before anything is signed, because a marker was written whole before it  *)
(* was renamed, and because a head is committed before it is written.       *)

OneProcess == \A p, q \in Procs : p = q

HasLatest(heads) == heads # {} => \E h \in heads : \A g \in heads : g.treeSize <= h.treeSize

\* A text nobody wrote over.
Whole(text) == text.head # None /\ text.longest = text.head.treeSize

\* One lane publishes at a time, nobody else writes into its file, and while a process
\* starts the marker stays what it has read.
Exclusive ==
    /\ \A t \in Lanes : pc[t] # "run" => headLock[ProcessOf[t]] = t
    /\ marker # None => marker # tmp /\ Whole(file[marker])
    /\ \A t \in Lanes : pc[t] \in {"opened", "written"} => tmp # None /\ fd[t] = tmp
    /\ \A t \in Lanes : pc[t] = "opened" => file[tmp] = Empty
    /\ \A t \in Lanes : pc[t] = "written" => Whole(file[tmp]) /\ file[tmp].head = mine[t]
    /\ \A p \in Procs : seen[p] = IF boot[p] = "marked" /\ marker # None THEN file[marker].head ELSE None

\* The database and the data volume fit each other.
Fitting ==
    /\ issuer = seed
    /\ log # <<>> => seed # None
    /\ \A p \in Procs : boot[p] # "refused"
    /\ HasLatest(sths)
    /\ marker # None => file[marker].head \in sths

\* The lane that publishes has the newest head; when none does, the marker has it.
MarkerStands ==
    /\ crashes = 0 => \A t \in Lanes : pc[t] # "run" => IsLatest(mine[t])
    /\ MarkerIsNewest

\* What a step of the service keeps.
Keeps == Exclusive' /\ (Fitting => Fitting') /\ (MarkerStands => MarkerStands')

LEMMA OneLane ==
    ASSUME OneProcess, Exclusive, NEW t \in Lanes, NEW u \in Lanes, pc[t] # "run", pc[u] # "run"
    PROVE  t = u
BY LogbookAssumption DEF OneProcess, Exclusive

LEMMA LatestIsOne ==
    ASSUME Core, NEW g, NEW h, IsLatest(g), IsLatest(h)
    PROVE  g = h
<1>1. g \in SignedHead /\ h \in SignedHead
  BY DEF Core, TypeOK, IsLatest
<1>2. g.treeSize \in Nat /\ h.treeSize \in Nat /\ g.treeSize <= h.treeSize /\ h.treeSize <= g.treeSize
  BY <1>1 DEF IsLatest, SignedHead
<1>3. g.treeSize = h.treeSize
  BY <1>2
<1>4. g.rootHash = h.rootHash /\ g.log = h.log
  BY <1>3 DEF Core, HeadsCommitToLog, IsLatest
<1> QED
  BY <1>1, <1>3, <1>4 DEF SignedHead

LEMMA WholeIsReadable == ASSUME NEW text, Whole(text) PROVE Readable(text)
BY DEF Whole, Readable

LEMMA InitAlone == Init => Exclusive /\ Fitting /\ MarkerStands
BY DEF Init, Exclusive, Fitting, HasLatest, MarkerStands, MarkerIsNewest, IsLatest

LEMMA NoKeyNoHeads == Core /\ issuer = None => sths = {}
BY LogbookAssumption DEF Core, TypeOK, HeadsCommitToLog, SignedHead

LEMMA AllRunUnlessUp ==
    ASSUME OneProcess, Core, NEW p \in Procs, boot[p] # "up"
    PROVE  \A t \in Lanes : pc[t] = "run"
BY LogbookAssumption DEF OneProcess, Core, Bound

\* The key that is there is the right one, and a new one is made only for an empty log.
LEMMA BootKeyAlone == ASSUME Core, Exclusive, NEW p \in Procs, BootKey(p) PROVE Keeps
<1>1. /\ UNCHANGED <<log, sths, marker, tmp, file, seen, headLock, pc, fd, mine, crashes>>
      /\ boot[p] \in {"down", "refused"}
  BY DEF BootKey, lanes
<1>2. ASSUME NEW k \in Keys, NEW madeNow, BootKeyWith(p, k, madeNow), seed = None \/ seed = k
      PROVE  /\ boot' \in {[boot EXCEPT ![p] = "bound"], [boot EXCEPT ![p] = "refused"]}
             /\ Fitting => Fitting'
  <2>1. boot' \in {[boot EXCEPT ![p] = "bound"], [boot EXCEPT ![p] = "refused"]}
    BY <1>2 DEF BootKeyWith, Refuse
  <2>2. ASSUME Fitting PROVE Fitting'
    <3>1. issuer = k \/ (issuer = None /\ sths = {})
      BY <1>2, <2>2, NoKeyNoHeads DEF Fitting
    <3>2. RightKey(k)
      BY <3>1 DEF RightKey
    <3>3. seed' = k /\ issuer' = k /\ boot' = [boot EXCEPT ![p] = "bound"]
      BY <1>2, <3>2 DEF BootKeyWith
    <3>4. k # None
      BY LogbookAssumption
    <3> QED
      BY <1>1, <2>2, <3>3, <3>4 DEF Core, TypeOK, Fitting, HasLatest
  <2> QED
    BY <2>1, <2>2
<1>3. ASSUME Refuse(p), seed = None, log # <<>>
      PROVE  /\ boot' \in {[boot EXCEPT ![p] = "bound"], [boot EXCEPT ![p] = "refused"]}
             /\ Fitting => Fitting'
  BY <1>3 DEF Refuse, Fitting
<1>4. /\ boot' \in {[boot EXCEPT ![p] = "bound"], [boot EXCEPT ![p] = "refused"]}
      /\ Fitting => Fitting'
  BY <1>2, <1>3 DEF BootKey, Core, TypeOK
<1>5. Exclusive'
  BY <1>1, <1>4 DEF Exclusive, Core, TypeOK
<1> QED
  BY <1>1, <1>4, <1>5 DEF Keeps, MarkerStands, MarkerIsNewest, IsLatest

\* The marker can be read.
LEMMA BootReadMarkerAlone == ASSUME Core, Exclusive, NEW p \in Procs, BootReadMarker(p) PROVE Keeps
<1>1. /\ UNCHANGED <<log, issued, sths, issuer, seed, born, marker, tmp, file, headLock, pc, fd, mine, crashes>>
  BY DEF BootReadMarker, database, volume, lanes
<1>2. ~ UnreadableMarker
  BY WholeIsReadable DEF UnreadableMarker, Exclusive
<1>3. /\ boot' = [boot EXCEPT ![p] = "marked"]
      /\ seen' = [seen EXCEPT ![p] = IF marker = None THEN None ELSE file[marker].head]
  BY <1>2 DEF BootReadMarker
<1>4. Exclusive'
  BY <1>1, <1>3 DEF Exclusive, Core, TypeOK
<1>5. Fitting => Fitting'
  BY <1>1, <1>3 DEF Fitting, Core, TypeOK, HasLatest
<1> QED
  BY <1>1, <1>4, <1>5 DEF Keeps, MarkerStands, MarkerIsNewest, IsLatest

\* A stored head is no newer than the newest, and the same when it is of the same size.
LEMMA BootCheckHeadAlone == ASSUME Core, Exclusive, NEW p \in Procs, BootCheckHead(p) PROVE Keeps
<1>1. UNCHANGED <<log, issued, sths, issuer, seed, born, marker, tmp, file, headLock, pc, fd, mine, crashes>>
  BY DEF BootCheckHead, database, volume, lanes
<1>2. /\ boot[p] = "marked" /\ boot' \in {[boot EXCEPT ![p] = "up"], [boot EXCEPT ![p] = "refused"]}
      /\ seen' = [seen EXCEPT ![p] = None]
  BY DEF BootCheckHead, Refuse
<1>3. ASSUME Fitting PROVE Fitting'
  <2>1. ASSUME seen[p] # None PROVE ~ OlderThanMarker(seen[p]) /\ ~ DiffersFromMarker(seen[p])
    <3>1. PICK m \in sths : m = seen[p]
      BY <1>3, <2>1 DEF Exclusive, Fitting
    <3>2. PICK h \in sths : IsLatest(h)
      BY <1>3, <3>1 DEF Fitting, HasLatest, IsLatest
    <3>3. m.treeSize \in Nat /\ h.treeSize \in Nat /\ m.treeSize <= h.treeSize
      BY <3>1, <3>2 DEF IsLatest, Core, TypeOK, SignedHead
    <3>4. ~ OlderThanMarker(m)
      BY <3>2, <3>3 DEF OlderThanMarker
    <3>5. ~ DiffersFromMarker(m)
      BY <3>1 DEF DiffersFromMarker, Core, HeadsCommitToLog
    <3> QED
      BY <3>1, <3>4, <3>5
  <2>2. boot' = [boot EXCEPT ![p] = "up"]
    BY <2>1 DEF BootCheckHead
  <2> QED
    BY <1>1, <1>3, <2>2 DEF Fitting, Core, TypeOK, HasLatest
<1>4. Exclusive'
  BY <1>1, <1>2 DEF Exclusive, Core, TypeOK
<1> QED
  BY <1>1, <1>3, <1>4 DEF Keeps, MarkerStands, MarkerIsNewest, IsLatest

LEMMA AppendLabelAlone ==
    ASSUME Core, Exclusive, NEW t \in Lanes, NEW label \in Labels, AppendLabel(t, label)
    PROVE  Keeps
<1>1. /\ UNCHANGED <<sths, issuer, seed, born, marker, tmp, file, boot, seen, headLock, pc, fd, mine, crashes>>
      /\ boot[ProcessOf[t]] = "up"
  BY DEF AppendLabel, volume, startup, lanes
<1>2. seed # None
  BY <1>1, LogbookAssumption DEF Core, Bound
<1> QED
  BY <1>1, <1>2 DEF Keeps, Fitting, HasLatest, Exclusive, MarkerStands, MarkerIsNewest, IsLatest

\* What a publication does: the new head is larger than every other, and nobody else is publishing.
LEMMA PublishHeadEffect ==
    ASSUME OneProcess, Core, Exclusive, NEW t \in Lanes, PublishHead(t)
    PROVE  /\ \A u \in Lanes : pc[u] = "run"
           /\ pc'[t] = "committed" /\ mine'[t] = NewHead /\ \A u \in Lanes : u # t => pc'[u] = "run"
           /\ boot[ProcessOf[t]] = "up" /\ seed # None /\ issuer = seed
           /\ sths' = sths \union {NewHead} /\ NewHead' = NewHead /\ NewHead \in SignedHead
           /\ NewHead.treeSize = Len(log) /\ NewHead.rootHash = log /\ NewHead.log = seed
           /\ \A h \in sths : h.treeSize < NewHead.treeSize
<1>1. /\ UNCHANGED <<log, seed>> /\ boot[ProcessOf[t]] = "up" /\ log # <<>>
      /\ sths' = sths \union {NewHead}
      /\ mine' = [mine EXCEPT ![t] = NewHead]
      /\ pc' = [pc EXCEPT ![t] = "committed"]
      /\ headLock[ProcessOf[t]] = None
  BY DEF PublishHead, HeadLockFree, NothingNew, volume
<1>2. \A u \in Lanes : pc[u] = "run"
  BY <1>1, LogbookAssumption DEF OneProcess, Exclusive
<1>3. seed # None /\ issuer = seed
  BY <1>1, LogbookAssumption DEF Core, Bound
<1>4. NewHead \in SignedHead /\ NewHead.log = seed /\ NewHead.treeSize = Len(log) /\ NewHead.rootHash = log
  BY <1>1, <1>3 DEF NewHead, SignedHead, Core, TypeOK
<1>5. NewHead' = NewHead
  BY <1>1 DEF NewHead
<1>6. ASSUME NEW h \in sths PROVE h.treeSize < Len(log)
  <2>1. Len(log) \in Nat /\ \A g \in sths : g.treeSize \in Nat /\ g.treeSize <= Len(log)
    BY LenProperties DEF Core, HeadsCommitToLog, TypeOK, SignedHead
  <2>2. h.treeSize # Len(log)
    <3>1. h.treeSize = Len(log) => IsLatest(h)
      BY <2>1 DEF IsLatest
    <3> QED
      BY <3>1 DEF PublishHead, NothingNew
  <2> QED
    BY <2>1, <2>2
<1>7. pc'[t] = "committed" /\ mine'[t] = NewHead /\ \A u \in Lanes : u # t => pc'[u] = "run"
  BY <1>1, <1>2 DEF Core, TypeOK
<1> QED
  BY <1>1, <1>2, <1>3, <1>4, <1>5, <1>6, <1>7

LEMMA PublishHeadAlone ==
    ASSUME OneProcess, Core, Exclusive, NEW t \in Lanes, PublishHead(t)
    PROVE  Keeps
<1>1. /\ UNCHANGED <<log, issuer, seed, marker, tmp, file, boot, seen, fd, crashes>>
      /\ headLock' = [headLock EXCEPT ![ProcessOf[t]] = t]
  BY DEF PublishHead, volume, startup
<1>2. PICK new \in SignedHead : new = NewHead
  BY PublishHeadEffect
<1>3. /\ \A u \in Lanes : u # t => pc'[u] = "run"
      /\ pc'[t] = "committed" /\ mine'[t] = new /\ sths' = sths \union {new}
      /\ \A h \in sths : h.treeSize < new.treeSize
  BY <1>2, PublishHeadEffect
<1>4. \A h \in sths' : h.treeSize <= new.treeSize
  <2>1. \A h \in sths : h.treeSize \in Nat
    BY DEF Core, TypeOK, SignedHead
  <2>2. new.treeSize \in Nat
    BY DEF SignedHead
  <2> QED
    BY <1>3, <2>1, <2>2
<1>5. Fitting => Fitting'
  BY <1>1, <1>3, <1>4 DEF Fitting, HasLatest
<1>6. Exclusive'
  BY <1>1, <1>3, LogbookAssumption DEF Exclusive, Core, TypeOK
<1>7. MarkerStands'
  <2>1. ~ \A u \in Lanes : pc'[u] = "run"
    BY <1>3
  <2>2. IsLatest(mine[t])'
    BY <1>3, <1>4 DEF IsLatest
  <2> QED
    BY <1>3, <2>1, <2>2 DEF MarkerStands, MarkerIsNewest
<1> QED
  BY <1>5, <1>6, <1>7 DEF Keeps

\* While a lane is publishing its process is up, and no other reads the marker.
LEMMA NoneStarting ==
    ASSUME OneProcess, Core, NEW t \in Lanes, pc[t] # "run"
    PROVE  \A p \in Procs : boot[p] = "up"
BY LogbookAssumption DEF OneProcess, Core, Bound

\* The marker's file is not the one truncated.
LEMMA OpenTmpAlone ==
    ASSUME OneProcess, Core, Exclusive, NEW t \in Lanes, OpenTmp(t)
    PROVE  Keeps
<1>1. /\ UNCHANGED <<log, issued, sths, issuer, seed, born, marker, boot, seen, headLock, mine, crashes>>
      /\ pc[t] = "committed" /\ pc' = [pc EXCEPT ![t] = "opened"]
  BY DEF OpenTmp, database, startup
<1>2. PICK i \in Inodes : /\ tmp' = i /\ file' = [file EXCEPT ![i] = Empty] /\ fd' = [fd EXCEPT ![t] = i]
                          /\ IF tmp = None THEN i # marker ELSE i = tmp
  BY DEF OpenTmp
<1>3. \A u \in Lanes : u # t => pc[u] = "run"
  BY <1>1, OneLane
<1>4. i # None /\ i # marker
  BY <1>2, LogbookAssumption DEF Exclusive
<1>5. pc'[t] = "opened" /\ \A u \in Lanes : u # t => pc'[u] = "run"
  BY <1>1, <1>3 DEF Core, TypeOK
<1>6. fd'[t] = i /\ file'[i] = Empty /\ (marker # None => file'[marker] = file[marker])
  BY <1>2, <1>4 DEF Core, TypeOK
<1>7. \A p \in Procs : boot[p] = "up"
  BY <1>1, NoneStarting
<1>8. Exclusive'
  BY <1>1, <1>2, <1>4, <1>5, <1>6, <1>7 DEF Exclusive
<1>9. (Fitting => Fitting') /\ (MarkerStands => MarkerStands')
  BY <1>1, <1>5, <1>6 DEF Fitting, HasLatest, MarkerStands, MarkerIsNewest, IsLatest
<1> QED
  BY <1>8, <1>9 DEF Keeps

\* The text is written over nothing.
LEMMA WriteTmpAlone ==
    ASSUME OneProcess, Core, Exclusive, NEW t \in Lanes, WriteTmp(t)
    PROVE  Keeps
<1>1. /\ UNCHANGED <<log, issued, sths, issuer, seed, born, marker, tmp, boot, seen, headLock, fd, mine, crashes>>
      /\ pc[t] = "opened" /\ pc' = [pc EXCEPT ![t] = "written"]
  BY DEF WriteTmp, database, startup
<1>2. PICK text : text = [head |-> mine[t], longest |-> Larger(file[fd[t]].longest, mine[t].treeSize)]
  OBVIOUS
<1>3. file' = [file EXCEPT ![fd[t]] = text]
  BY <1>2 DEF WriteTmp
<1>4. tmp # None /\ fd[t] = tmp /\ file[tmp] = Empty /\ mine[t] \in sths /\ tmp \in Inodes
  BY <1>1 DEF Exclusive, Core, Held, TypeOK
<1>5. mine[t] # None /\ mine[t].treeSize \in Nat \ {0}
  <2>1. mine[t] \in SignedHead
    BY <1>4 DEF Core, TypeOK
  <2>2. mine[t].treeSize \in Nat \ {0}
    BY <2>1 DEF SignedHead
  <2> QED
    BY <2>1, <2>2, NoneIsNoHead
<1>6. Whole(text) /\ text.head = mine[t]
  BY <1>2, <1>4, <1>5 DEF Whole, Larger, Empty
<1>7. \A u \in Lanes : u # t => pc[u] = "run"
  BY <1>1, OneLane
<1>8. pc'[t] = "written" /\ \A u \in Lanes : u # t => pc'[u] = "run"
  BY <1>1, <1>7 DEF Core, TypeOK
<1>9. file'[tmp] = text /\ (marker # None => file'[marker] = file[marker])
  BY <1>3, <1>4 DEF Exclusive, Core, TypeOK
<1>10. \A p \in Procs : boot[p] = "up"
  BY <1>1, NoneStarting
<1>11. Exclusive'
  BY <1>1, <1>4, <1>6, <1>8, <1>9, <1>10 DEF Exclusive
<1>12. (Fitting => Fitting') /\ (MarkerStands => MarkerStands')
  BY <1>1, <1>8, <1>9 DEF Fitting, HasLatest, MarkerStands, MarkerIsNewest, IsLatest
<1> QED
  BY <1>11, <1>12 DEF Keeps

\* The text that becomes the marker is the lane's own, whole; os.replace does not fail.
LEMMA LeavePublishEffect ==
    ASSUME OneProcess, Core, Exclusive, NEW t \in Lanes, ReplaceMarker(t) \/ ReplaceFails(t)
    PROVE  /\ UNCHANGED <<log, issued, sths, issuer, seed, born, file, boot, seen, crashes>>
           /\ pc[t] = "written" /\ Whole(file[tmp]) /\ file[tmp].head = mine[t] /\ mine[t] \in sths
           /\ tmp # None /\ marker' = tmp /\ tmp' = None
           /\ \A u \in Lanes : pc'[u] = "run"
<1>1. pc[t] = "written" /\ tmp # None /\ Whole(file[tmp]) /\ file[tmp].head = mine[t] /\ mine[t] \in sths
  BY DEF ReplaceMarker, ReplaceFails, Exclusive, Core, Held
<1>2. /\ UNCHANGED <<log, issued, sths, issuer, seed, born, file, boot, seen, crashes>>
      /\ marker' = tmp /\ tmp' = None
      /\ pc' = [pc EXCEPT ![t] = "run"]
  BY <1>1 DEF ReplaceMarker, ReplaceFails, LeavePublish, database, startup
<1>3. \A u \in Lanes : u # t => pc[u] = "run"
  BY <1>1, OneLane
<1>4. \A u \in Lanes : pc'[u] = "run"
  BY <1>2, <1>3 DEF Core, TypeOK
<1> QED
  BY <1>1, <1>2, <1>4

LEMMA LeavePublishAlone ==
    ASSUME OneProcess, Core, Exclusive, NEW t \in Lanes, ReplaceMarker(t) \/ ReplaceFails(t)
    PROVE  Keeps
<1>1. /\ UNCHANGED <<log, issued, sths, issuer, seed, born, file, boot, seen, crashes>>
      /\ pc[t] = "written" /\ Whole(file[tmp]) /\ file[tmp].head = mine[t] /\ mine[t] \in sths
      /\ tmp # None /\ marker' = tmp /\ tmp' = None
      /\ \A u \in Lanes : pc'[u] = "run"
  BY LeavePublishEffect
<1>2. \A p \in Procs : boot[p] = "up"
  BY <1>1, NoneStarting
<1>3. Exclusive'
  BY <1>1, <1>2 DEF Exclusive
<1>4. ASSUME MarkerStands PROVE MarkerStands'
  <2>1. ASSUME crashes = 0, NEW h \in sths, IsLatest(h) PROVE h = mine[t]
    <3>1. IsLatest(mine[t])
      BY <1>1, <1>4, <2>1 DEF MarkerStands
    <3> QED
      BY <2>1, <3>1, LatestIsOne
  <2>2. Readable(file[tmp])
    BY <1>1, WholeIsReadable
  <2> QED
    BY <1>1, <2>1, <2>2 DEF MarkerStands, MarkerIsNewest, IsLatest
<1>5. Fitting => Fitting'
  BY <1>1 DEF Fitting, HasLatest
<1> QED
  BY <1>3, <1>4, <1>5 DEF Keeps

\* A kill leaves the marker as it was, and a temporary file nobody reads.
LEMMA ExitAlone ==
    ASSUME OneProcess, Core, Exclusive, NEW p \in Procs, Stop(p) \/ Kill(p)
    PROVE  Keeps
<1>1. /\ UNCHANGED <<log, issued, sths, issuer, seed, born, marker, tmp, file>>
      /\ boot' = [boot EXCEPT ![p] = "down"] /\ seen' = [seen EXCEPT ![p] = None]
      /\ pc' = [t \in Lanes |-> IF ProcessOf[t] = p THEN "run" ELSE pc[t]]
  BY DEF Stop, Kill, Exit, database, volume
<1>2. \A t \in Lanes : pc'[t] = "run"
  BY <1>1, LogbookAssumption DEF OneProcess
<1>3. crashes' = 0 => crashes = 0 /\ \A t \in Lanes : pc[t] = "run"
  BY LogbookAssumption DEF Stop, Kill, Idle, OneProcess, Core, TypeOK
<1>4. Fitting => Fitting'
  BY <1>1 DEF Fitting, Core, TypeOK, HasLatest
<1>5. Exclusive'
  BY <1>1, <1>2 DEF Exclusive, Core, TypeOK
<1>6. MarkerStands => MarkerStands'
  BY <1>1, <1>2, <1>3 DEF MarkerStands, MarkerIsNewest, IsLatest
<1> QED
  BY <1>4, <1>5, <1>6 DEF Keeps

LEMMA StepAlone == ASSUME OneProcess, Core, Exclusive, [Next]_vars PROVE Keeps
<1>1. CASE UNCHANGED vars
  <2>1. UNCHANGED <<log, sths, issuer, seed, marker, tmp, file, boot, seen, headLock, pc, fd, mine, crashes>>
    BY <1>1 DEF vars, database, volume, startup, lanes
  <2> QED
    BY <2>1 DEF Keeps, Fitting, HasLatest, Exclusive, MarkerStands, MarkerIsNewest, IsLatest
<1>2. ASSUME NEW t \in Lanes, LaneNext(t) PROVE Keeps
  BY <1>2, AppendLabelAlone, PublishHeadAlone, OpenTmpAlone, WriteTmpAlone, LeavePublishAlone DEF LaneNext
<1>3. ASSUME NEW p \in Procs, ProcNext(p) PROVE Keeps
  BY <1>3, BootKeyAlone, BootReadMarkerAlone, BootCheckHeadAlone, ExitAlone DEF ProcNext
<1> QED
  BY <1>1, <1>2, <1>3 DEF Next

(***************************************************************************)
(* The service alone always starts again, whatever was killed where        *)
(* (keys.bind_key_to_log accepts the key, the issuer and the marker it     *)
(* left), and undisturbed lanes leave the newest head in the marker.       *)
(***************************************************************************)
THEOREM ServiceStartsAgain == ASSUME OneProcess PROVE Spec => []KeyAndMarkerStand
<1> DEFINE Alone == Exclusive /\ Fitting /\ MarkerStands
<1>1. IInv /\ Alone /\ [Next]_vars => Alone'
  BY StepAlone DEF Keeps, IInv
<1>2. Alone => KeyAndMarkerStand
  BY DEF Fitting, MarkerStands, KeyAndMarkerStand, NeverLockedOut
<1>3. Init => Alone
  BY InitAlone
<1> QED
  BY <1>1, <1>2, <1>3, Invariance, PTL DEF Spec
-----------------------------------------------------------------------------
(* The service alone with the operator beside it: backup nights, fresh      *)
(* hosts and restores (LogRecovery).  A head is published when it is        *)
(* committed, so the world may hold heads the database has forgotten; what  *)
(* keeps them from being contradicted is the marker, which a restore of the *)
(* database alone does not touch.                                           *)

\* What HeadsCommitToLog says of a database, of a dump.
CommitsTo(heads, entries, key) ==
    \A h \in heads : h.treeSize <= Len(entries) /\ h.rootHash = Prefix(entries, h.treeSize) /\ h.log = key

\* What a backup night brought home: a database that some key of this log signed, and the
\* same key with a marker that was written whole.
DumpIsGood ==
    dump # None =>
        /\ dump.log \in Seq(Labels) /\ dump.sths \subseteq published /\ dump.issuer \in born
        /\ CommitsTo(dump.sths, dump.log, dump.issuer)
        /\ HasLatest(dump.sths)

TarIsGood ==
    tar # None =>
        /\ tar.seed = dump.issuer
        /\ tar.text \in Text \union {None}
        /\ tar.text # None => Whole(tar.text)

Saved ==
    /\ DumpIsGood /\ TarIsGood
    /\ restored \in Seq({"database", "both"})
    /\ dump = None => restored = <<>> /\ tar = None
    /\ tar = None => \A i \in 1..Len(restored) : restored[i] = "database"
    /\ dump # None /\ tar = None => issuer = dump.issuer /\ seed = dump.issuer

\* Every key in use was generated, and every head was published under one that was.
Born ==
    /\ {issuer, seed} \subseteq born \union {None}
    /\ sths \subseteq published /\ published \subseteq SignedHead
    /\ \A h \in published : h.log \in born

\* The two halves fit as long as nothing was restored, and after a quiet night's restore.
Untouched == restored = <<>> \/ (restored[Len(restored)] = "both" /\ QuietNight)

\* No head was published under this key that is larger.
NewestPublished(h) ==
    h \in published /\ h.log = seed /\ \A g \in published : g.log = seed => g.treeSize <= h.treeSize

\* With a head, every published head below it.
Closed(heads) == \A h \in heads : \A g \in published : g.log = h.log /\ g.treeSize <= h.treeSize => g \in heads

\* While the marker knows, it, or the lane that is about to write it, has the newest
\* published head: so a database that is served holds every one.
PastKnown ==
    /\ (\A t \in Lanes : pc[t] = "run") =>
          IF marker = None THEN \A h \in published : h.log # seed ELSE NewestPublished(file[marker].head)
    /\ \A t \in Lanes : pc[t] # "run" => NewestPublished(mine[t])
    /\ \A p \in Procs : boot[p] = "up" => \A h \in published : h.log = seed => h \in sths
    /\ Closed(sths) /\ (dump # None => Closed(dump.sths))
    /\ OnePublishedHistory

RecoveryInv ==
    /\ Core /\ Exclusive /\ Saved /\ Born
    /\ Untouched => Fitting
    /\ MarkerKnows => PastKnown

LEMMA InitRecoveryInv == RecoveryInit => RecoveryInv
<1> SUFFICES ASSUME RecoveryInit PROVE RecoveryInv
  OBVIOUS
<1>1. Core /\ Exclusive /\ Fitting
  BY InitIInv, InitAlone DEF RecoveryInit, IInv
<1>2. Saved
  BY DEF RecoveryInit, Saved, DumpIsGood, TarIsGood
<1>3. Born
  BY DEF RecoveryInit, Init, Born
<1>4. PastKnown
  BY DEF RecoveryInit, Init, PastKnown, Closed, OnePublishedHistory
<1> QED
  BY <1>1, <1>2, <1>3, <1>4 DEF RecoveryInv

\* A key that fits its database stays, and new heads are signed under it.
LEMMA KeysChange ==
    ASSUME Core, Born, Next
    PROVE  /\ born \subseteq born' /\ sths \subseteq sths'
           /\ {issuer', seed'} \subseteq born' \union {None}
           /\ \A h \in sths' : h \in sths \/ h.log \in born
           /\ seed # None /\ issuer = seed => seed' = seed /\ issuer' = issuer
<1>1. ASSUME NEW p \in Procs, BootKey(p) PROVE
           /\ born \subseteq born' /\ sths = sths'
           /\ {issuer', seed'} \subseteq born' \union {None}
           /\ seed # None /\ issuer = seed => seed' = seed /\ issuer' = issuer
  <2>1. ASSUME NEW k \in Keys, NEW madeNow \in BOOLEAN, BootKeyWith(p, k, madeNow), IF madeNow THEN seed = None ELSE seed = k
        PROVE  /\ born \subseteq born'
               /\ {issuer', seed'} \subseteq born' \union {None}
               /\ seed # None /\ issuer = seed => seed' = seed /\ issuer' = issuer
    <3>1. seed' = k /\ issuer' \in {k, issuer} /\ born' = IF madeNow THEN born \union {k} ELSE born
      BY <2>1 DEF BootKeyWith
    <3>2. k \in born' /\ born \subseteq born'
      BY <2>1, <3>1, LogbookAssumption DEF Born
    <3> QED
      BY <2>1, <3>1, <3>2, LogbookAssumption DEF Born
  <2>2. CASE seed # None /\ BootKeyWith(p, seed, FALSE)
    BY <1>1, <2>1, <2>2 DEF BootKey, Core, TypeOK
  <2>3. CASE seed = None /\ \E k \in Keys \ born : BootKeyWith(p, k, TRUE)
    BY <1>1, <2>1, <2>3 DEF BootKey
  <2>4. CASE seed = None /\ UNCHANGED <<seed, born, issuer>>
    BY <1>1, <2>4 DEF BootKey, Born
  <2> QED
    BY <1>1, <2>2, <2>3, <2>4 DEF BootKey
<1>2. ASSUME NEW p \in Procs, BootReadMarker(p) \/ BootCheckHead(p) \/ Stop(p) \/ Kill(p)
      PROVE  UNCHANGED <<born, sths, issuer, seed>>
  BY <1>2 DEF BootReadMarker, BootCheckHead, Stop, Kill, Exit, database, volume
<1>3. ASSUME NEW t \in Lanes, NEW label \in Labels, AppendLabel(t, label)
      PROVE  UNCHANGED <<born, sths, issuer, seed>>
  BY <1>3 DEF AppendLabel, volume
<1>4. ASSUME NEW t \in Lanes, OpenTmp(t) \/ WriteTmp(t) \/ ReplaceMarker(t) \/ ReplaceFails(t)
      PROVE  UNCHANGED <<born, sths, issuer, seed>>
  BY <1>4 DEF OpenTmp, WriteTmp, ReplaceMarker, ReplaceFails, database, volume
<1>5. ASSUME NEW t \in Lanes, PublishHead(t)
      PROVE  /\ UNCHANGED <<born, issuer, seed>> /\ sths \subseteq sths'
             /\ \A h \in sths' : h \in sths \/ h.log \in born
  <2>1. UNCHANGED <<born, issuer, seed>> /\ sths' = sths \union {NewHead} /\ boot[ProcessOf[t]] = "up"
    BY <1>5 DEF PublishHead, volume
  <2>2. NewHead.log = seed /\ seed \in born
    BY <2>1, LogbookAssumption DEF NewHead, Core, Bound, Born
  <2> QED
    BY <2>1, <2>2
<1> QED
  BY <1>1, <1>2, <1>3, <1>4, <1>5 DEF Next, LaneNext, ProcNext, Born

\* The operator's side of a step of the service.
LEMMA RunSaved == ASSUME Core, Core', Saved, Born, Run PROVE Saved' /\ Born'
<1>1. /\ published' = published \union sths' /\ UNCHANGED <<dump, tar, restored>>
      /\ born \subseteq born' /\ sths \subseteq sths'
      /\ {issuer', seed'} \subseteq born' \union {None}
      /\ \A h \in sths' : h \in sths \/ h.log \in born
      /\ seed # None /\ issuer = seed => seed' = seed /\ issuer' = issuer
  BY KeysChange DEF Run
<1>2. Born'
  BY <1>1 DEF Born, Core, TypeOK
<1>3. dump # None => dump.issuer # None
  BY LogbookAssumption DEF Saved, DumpIsGood, Core, TypeOK
<1>4. DumpIsGood'
  BY <1>1 DEF Saved, DumpIsGood, CommitsTo, Prefix, HasLatest
<1>5. TarIsGood'
  BY <1>1 DEF Saved, TarIsGood, Whole
<1>6. Saved'
  BY <1>1, <1>3, <1>4, <1>5 DEF Saved
<1> QED
  BY <1>2, <1>6

\* PastKnown, as the step to its next state sees it: what the other parts of PastKnown need of a
\* step in which nothing is published, no key changes and every lane stays as busy.
LEMMA KnownStays ==
    ASSUME PastKnown, crashes' = 0 => crashes = 0,
           UNCHANGED <<sths, seed, published, dump>>,
           \A p \in Procs : boot'[p] = "up" => boot[p] = "up",
           (\A t \in Lanes : pc'[t] = "run") =>
               (\A t \in Lanes : pc[t] = "run") /\ marker' = marker /\ (marker # None => file'[marker] = file[marker]),
           \A t \in Lanes : pc'[t] # "run" => pc[t] # "run" /\ mine'[t] = mine[t]
    PROVE  PastKnown'
<1>1. (\A t \in Lanes : pc'[t] = "run") =>
          IF marker' = None THEN \A h \in published' : h.log # seed' ELSE NewestPublished(file[marker].head)'
  BY DEF PastKnown, NewestPublished
<1>2. \A t \in Lanes : pc'[t] # "run" => NewestPublished(mine[t])'
  BY DEF PastKnown, NewestPublished
<1>3. \A p \in Procs : boot'[p] = "up" => \A h \in published' : h.log = seed' => h \in sths'
  BY DEF PastKnown
<1>4. Closed(sths)' /\ (dump' # None => Closed(dump.sths)')
  BY DEF PastKnown, Closed
<1>5. OnePublishedHistory'
  BY DEF PastKnown, OnePublishedHistory, Prefix
<1> QED
  BY <1>1, <1>2, <1>3, <1>4, <1>5 DEF PastKnown

\* A key made now has published nothing.
LEMMA BootKeyKnown ==
    ASSUME OneProcess, Core, Exclusive, Born, PastKnown, NEW p \in Procs, BootKey(p), UNCHANGED <<published, dump>>
    PROVE  PastKnown'
<1>1. /\ UNCHANGED <<sths, marker, file, pc, mine>>
      /\ boot[p] \in {"down", "refused"}
  BY DEF BootKey, lanes
<1>2. \A t \in Lanes : pc[t] = "run"
  BY <1>1, AllRunUnlessUp
<1>3. \A q \in Procs : boot'[q] # "up"
  <2>1. boot' \in {[boot EXCEPT ![p] = "bound"], [boot EXCEPT ![p] = "refused"]}
    BY DEF BootKey, BootKeyWith, Refuse
  <2> QED
    BY <2>1 DEF OneProcess, Core, TypeOK
<1>4. seed' = seed \/ (marker = None /\ \A h \in published : h.log # seed')
  <2>1. CASE seed = None
    <3>1. \A h \in published : h.log # None
      BY LogbookAssumption DEF Born, Core, TypeOK
    <3>2. marker = None
      BY <1>2, <2>1, <3>1 DEF PastKnown, NewestPublished
    <3>3. seed' = None \/ seed' \in Keys \ born
      BY <2>1 DEF BootKey, BootKeyWith
    <3> QED
      BY <3>1, <3>2, <3>3 DEF Born
  <2>2. CASE seed # None
    BY <2>2 DEF BootKey, BootKeyWith
  <2> QED
    BY <2>1, <2>2
<1>5. IF marker' = None THEN \A h \in published' : h.log # seed' ELSE NewestPublished(file[marker].head)'
  BY <1>1, <1>2, <1>4 DEF PastKnown, NewestPublished
<1>6. Closed(sths)' /\ (dump' # None => Closed(dump.sths)')
  BY <1>1 DEF PastKnown, Closed
<1>7. OnePublishedHistory'
  BY DEF PastKnown, OnePublishedHistory, Prefix
<1> QED
  BY <1>1, <1>2, <1>3, <1>5, <1>6, <1>7 DEF PastKnown

\* A database whose newest head is at least the marker's holds every head of this key.
LEMMA BootCheckHeadKnown ==
    ASSUME OneProcess, Core, Exclusive, Born, PastKnown, NEW p \in Procs, BootCheckHead(p), UNCHANGED <<published, dump>>
    PROVE  PastKnown'
<1>1. /\ UNCHANGED <<sths, issuer, seed, marker, file, pc, mine>> /\ boot[p] = "marked"
      /\ boot' \in {[boot EXCEPT ![p] = "up"], [boot EXCEPT ![p] = "refused"]}
  BY DEF BootCheckHead, Refuse, database, volume, lanes
<1>2. \A t \in Lanes : pc[t] = "run"
  BY <1>1, AllRunUnlessUp
<1>3. ASSUME boot'[p] = "up", NEW g \in published, g.log = seed PROVE g \in sths
  <2>1. marker # None /\ seen[p] = file[marker].head /\ NewestPublished(seen[p])
    BY <1>1, <1>2, <1>3 DEF PastKnown, Exclusive
  <2>2. seen[p] # None
    BY <2>1 DEF Exclusive, Whole
  <2>3. ~ OlderThanMarker(seen[p])
    BY <1>3, <2>2 DEF BootCheckHead, Refuse, Core, TypeOK
  <2>4. PICK h \in sths : ~ (h.treeSize < seen[p].treeSize)
    BY <2>3 DEF OlderThanMarker, IsLatest
  <2>5. issuer = seed /\ h.log = seed
    BY <1>1, <2>4 DEF Core, Bound, HeadsCommitToLog
  <2>6. g.treeSize <= seen[p].treeSize /\ seen[p] \in published
    BY <1>3, <2>1 DEF NewestPublished
  <2>7. g.treeSize \in Nat /\ h.treeSize \in Nat /\ seen[p].treeSize \in Nat
    BY <2>4, <2>6 DEF Born, SignedHead
  <2>8. g.treeSize <= h.treeSize
    BY <2>4, <2>6, <2>7
  <2> QED
    BY <1>3, <2>4, <2>5, <2>8 DEF PastKnown, Closed
<1>4. \A q \in Procs : boot'[q] = "up" => \A g \in published' : g.log = seed' => g \in sths'
  BY <1>1, <1>3 DEF OneProcess
<1>5. IF marker' = None THEN \A h \in published' : h.log # seed' ELSE NewestPublished(file[marker].head)'
  BY <1>1, <1>2 DEF PastKnown, NewestPublished
<1>6. Closed(sths)' /\ (dump' # None => Closed(dump.sths)')
  BY <1>1 DEF PastKnown, Closed
<1>7. OnePublishedHistory'
  BY DEF PastKnown, OnePublishedHistory, Prefix
<1> QED
  BY <1>1, <1>2, <1>4, <1>5, <1>6, <1>7 DEF PastKnown

\* The new head is larger than every published one of its key, and extends it.
LEMMA PublishHeadKnown ==
    ASSUME OneProcess, Core, Exclusive, Saved, Born, PastKnown, NEW t \in Lanes, PublishHead(t),
           published' = published \union sths', UNCHANGED dump
    PROVE  PastKnown'
<1>1. UNCHANGED <<log, seed, marker, file, boot>>
  BY DEF PublishHead, volume, startup
<1>2. PICK new \in SignedHead : new = NewHead
  BY PublishHeadEffect
<1>3. /\ \A u \in Lanes : u # t => pc'[u] = "run"
      /\ pc'[t] = "committed" /\ mine'[t] = new /\ sths' = sths \union {new}
      /\ \A h \in sths : h.treeSize < new.treeSize
      /\ new.treeSize = Len(log) /\ new.rootHash = log /\ new.log = seed
      /\ boot[ProcessOf[t]] = "up" /\ issuer = seed
  BY <1>2, PublishHeadEffect
<1>4. published' = published \union {new}
  BY <1>3 DEF Born
<1>5. \A h \in published : h.log = seed => h \in sths
  BY <1>3, LogbookAssumption DEF PastKnown
<1>6. \A h \in published : h.treeSize \in Nat
  BY DEF Born, SignedHead
<1>7. new.treeSize \in Nat
  BY DEF SignedHead
<1>8. \A h \in published : h.log = seed => h.treeSize < new.treeSize
  BY <1>3, <1>5
<1>9. NewestPublished(mine[t])'
  BY <1>1, <1>3, <1>4, <1>6, <1>7, <1>8 DEF NewestPublished
<1>10. ~ \A u \in Lanes : pc'[u] = "run"
  BY <1>3
<1>11. \A p \in Procs : boot'[p] = "up" => \A h \in published' : h.log = seed' => h \in sths'
  BY <1>1, <1>3, <1>4, <1>5
<1>12. Closed(sths)'
  BY <1>1, <1>3, <1>4, <1>5 DEF PastKnown, Closed
<1>13. dump' # None => Closed(dump.sths)'
  <2> SUFFICES ASSUME dump # None, NEW h \in dump.sths, NEW g \in published \union {new},
                      g.log = h.log, g.treeSize <= h.treeSize
               PROVE  g \in dump.sths
    BY <1>4 DEF Closed
  <2>1. h \in published
    BY DEF Saved, DumpIsGood
  <2>2. g # new
    BY <1>3, <1>6, <1>7, <1>8, <2>1
  <2> QED
    BY <2>2 DEF PastKnown, Closed
<1>14. OnePublishedHistory'
  <2> SUFFICES ASSUME NEW g \in published \union {new}, NEW h \in published \union {new},
                      g.log = h.log, g.treeSize <= h.treeSize
               PROVE  g.rootHash = Prefix(h.rootHash, g.treeSize)
    BY <1>4 DEF OnePublishedHistory, Prefix
  <2>1. CASE g \in published /\ h \in published
    BY <2>1 DEF PastKnown, OnePublishedHistory
  <2>2. CASE g \in published /\ h = new
    BY <1>3, <1>5, <2>2 DEF Core, HeadsCommitToLog
  <2>3. CASE g = new
    <3>1. h = new
      BY <1>3, <1>6, <1>7, <1>8, <2>3
    <3> QED
      BY <1>3, <2>3, <3>1, WholePrefix DEF Core, TypeOK
  <2> QED
    BY <2>1, <2>2, <2>3
<1> QED
  BY <1>3, <1>9, <1>10, <1>11, <1>12, <1>13, <1>14 DEF PastKnown

\* What was published is in the marker when the lane leaves.
LEMMA LeavePublishKnown ==
    ASSUME OneProcess, Core, Exclusive, PastKnown, NEW t \in Lanes, ReplaceMarker(t) \/ ReplaceFails(t),
           UNCHANGED <<published, dump>>
    PROVE  PastKnown'
<1>1. /\ UNCHANGED <<sths, seed, file, boot>>
      /\ pc[t] = "written" /\ file[tmp].head = mine[t]
      /\ tmp # None /\ marker' = tmp
      /\ \A u \in Lanes : pc'[u] = "run"
  BY LeavePublishEffect
<1>2. marker' # None /\ file'[marker'].head = mine[t] /\ NewestPublished(mine[t])
  BY <1>1 DEF PastKnown
<1>3. NewestPublished(file[marker].head)'
  BY <1>1, <1>2 DEF NewestPublished
<1>4. \A p \in Procs : boot'[p] = "up" => \A h \in published' : h.log = seed' => h \in sths'
  BY <1>1 DEF PastKnown
<1>5. Closed(sths)' /\ (dump' # None => Closed(dump.sths)')
  BY <1>1 DEF PastKnown, Closed
<1>6. OnePublishedHistory'
  BY DEF PastKnown, OnePublishedHistory, Prefix
<1> QED
  BY <1>1, <1>2, <1>3, <1>4, <1>5, <1>6 DEF PastKnown

\* The steps that publish nothing, change no key and let no process come up.
LEMMA QuietStepKnown ==
    ASSUME OneProcess, Core, Exclusive, PastKnown, MarkerKnows', UNCHANGED <<published, dump, restored>>,
           \/ \E t \in Lanes : OpenTmp(t) \/ WriteTmp(t) \/ \E label \in Labels : AppendLabel(t, label)
           \/ \E p \in Procs : BootReadMarker(p) \/ Stop(p) \/ Kill(p)
    PROVE  PastKnown'
<1>1. ASSUME NEW t \in Lanes, OpenTmp(t) \/ WriteTmp(t) PROVE PastKnown'
  <2>1. /\ UNCHANGED <<sths, seed, boot, mine, crashes>> /\ pc[t] # "run"
        /\ pc' \in {[pc EXCEPT ![t] = "opened"], [pc EXCEPT ![t] = "written"]}
    BY <1>1 DEF OpenTmp, WriteTmp, database, startup
  <2>2. pc'[t] # "run" /\ \A u \in Lanes : pc'[u] # "run" => pc[u] # "run"
    BY <2>1 DEF Core, TypeOK
  <2> QED
    BY <2>1, <2>2, KnownStays
<1>2. ASSUME NEW t \in Lanes, NEW label \in Labels, AppendLabel(t, label) PROVE PastKnown'
  <2>1. UNCHANGED <<sths, seed, marker, file, boot, pc, mine, crashes>>
    BY <1>2 DEF AppendLabel, volume, startup, lanes
  <2> QED
    BY <2>1, KnownStays
<1>3. ASSUME NEW p \in Procs, BootReadMarker(p) PROVE PastKnown'
  <2>1. /\ UNCHANGED <<sths, seed, marker, file, pc, mine, crashes>>
        /\ boot' \in {[boot EXCEPT ![p] = "marked"], [boot EXCEPT ![p] = "refused"]}
    BY <1>3 DEF BootReadMarker, Refuse, database, volume, lanes
  <2>2. \A q \in Procs : boot'[q] = "up" => boot[q] = "up"
    BY <2>1 DEF Core, TypeOK
  <2> QED
    BY <2>1, <2>2, KnownStays
<1>4. ASSUME NEW p \in Procs, Stop(p) \/ Kill(p) PROVE PastKnown'
  <2>1. /\ UNCHANGED <<sths, seed, marker, file>>
        /\ boot' = [boot EXCEPT ![p] = "down"]
        /\ pc' = [t \in Lanes |-> IF ProcessOf[t] = p THEN "run" ELSE pc[t]]
    BY <1>4 DEF Stop, Kill, Exit, database, volume
  <2>2. crashes' = 0 => crashes = 0 /\ \A t \in Lanes : pc[t] = "run"
    BY <1>4, LogbookAssumption DEF Stop, Kill, Idle, OneProcess, Core, TypeOK
  <2>3. \A t \in Lanes : pc'[t] = "run"
    BY <2>1, LogbookAssumption DEF OneProcess
  <2>4. \A q \in Procs : boot'[q] = "up" => boot[q] = "up"
    BY <2>1 DEF Core, TypeOK
  <2>5. crashes = 0 /\ \A t \in Lanes : pc[t] = "run"
    BY <2>2 DEF MarkerKnows
  <2> QED
    BY <2>1, <2>3, <2>4, <2>5, KnownStays
<1> QED
  BY <1>1, <1>2, <1>3, <1>4

LEMMA RunKnown ==
    ASSUME OneProcess, Core, Exclusive, Saved, Born, MarkerKnows => PastKnown, Run, MarkerKnows'
    PROVE  PastKnown'
<1>1. published' = published \union sths' /\ UNCHANGED <<dump, tar, restored>> /\ Next
  BY DEF Run
<1>2. MarkerKnows
  <2>1. crashes' = 0 => crashes = 0
    <3>1. ASSUME NEW t \in Lanes, LaneNext(t) PROVE UNCHANGED crashes
      BY <3>1 DEF LaneNext, AppendLabel, PublishHead, OpenTmp, WriteTmp, ReplaceMarker, ReplaceFails
    <3>2. ASSUME NEW p \in Procs, ProcNext(p) PROVE crashes' \in {crashes, crashes + 1}
      BY <3>2 DEF ProcNext, BootKey, BootReadMarker, BootCheckHead, Stop, Kill
    <3> QED
      BY <1>1, <3>1, <3>2, LogbookAssumption DEF Next, Core, TypeOK
  <2> QED
    BY <1>1, <2>1 DEF MarkerKnows
<1>3. sths' = sths => published' = published
  BY <1>1 DEF Born
<1>4. ASSUME NEW t \in Lanes, PublishHead(t) PROVE PastKnown'
  BY <1>1, <1>2, <1>4, PublishHeadKnown
<1>5. ASSUME NEW t \in Lanes, ReplaceMarker(t) \/ ReplaceFails(t) PROVE PastKnown'
  <2>1. sths' = sths
    BY <1>5 DEF ReplaceMarker, ReplaceFails, database
  <2> QED
    BY <1>1, <1>2, <1>3, <1>5, <2>1, LeavePublishKnown
<1>6. ASSUME NEW t \in Lanes, OpenTmp(t) \/ WriteTmp(t) \/ \E label \in Labels : AppendLabel(t, label)
      PROVE  PastKnown'
  <2>1. sths' = sths
    BY <1>6 DEF OpenTmp, WriteTmp, AppendLabel, database
  <2> QED
    BY <1>1, <1>2, <1>3, <1>6, <2>1, QuietStepKnown
<1>7. ASSUME NEW p \in Procs, BootReadMarker(p) \/ Stop(p) \/ Kill(p) PROVE PastKnown'
  <2>1. sths' = sths
    BY <1>7 DEF BootReadMarker, Stop, Kill, Exit, database
  <2> QED
    BY <1>1, <1>2, <1>3, <1>7, <2>1, QuietStepKnown
<1>8. ASSUME NEW p \in Procs, BootKey(p) \/ BootCheckHead(p) PROVE PastKnown'
  <2>1. sths' = sths
    BY <1>8 DEF BootKey, BootCheckHead, database
  <2> QED
    BY <1>1, <1>2, <1>3, <1>8, <2>1, BootKeyKnown, BootCheckHeadKnown
<1> QED
  BY <1>1, <1>4, <1>5, <1>6, <1>7, <1>8 DEF Next, LaneNext, ProcNext

LEMMA RunRecovery == ASSUME OneProcess, RecoveryInv, Run PROVE RecoveryInv'
<1>1. Core'
  BY StepCore DEF RecoveryInv, Run
<1>2. Exclusive' /\ (Fitting => Fitting')
  BY StepAlone DEF RecoveryInv, Run, Keeps
<1>3. Saved' /\ Born'
  BY <1>1, RunSaved DEF RecoveryInv
<1>4. Untouched' => Untouched
  BY DEF Run, Untouched, QuietNight
<1>5. MarkerKnows' => PastKnown'
  BY RunKnown DEF RecoveryInv
<1> QED
  BY <1>1, <1>2, <1>3, <1>4, <1>5 DEF RecoveryInv

-----------------------------------------------------------------------------
(* The operator's steps.                                                    *)

\* A dump taken before anything was restored is of a database the key fits.
LEMMA DumpRecovery == ASSUME RecoveryInv, Dump PROVE RecoveryInv'
<1>1. /\ dump = None /\ issuer # None /\ dump' = [log |-> log, sths |-> sths, issuer |-> issuer]
      /\ UNCHANGED <<log, issued, sths, issuer, seed, born, marker, tmp, file, boot, seen, headLock, pc, fd, mine, crashes>>
      /\ UNCHANGED <<published, tar, restored>>
  BY DEF Dump, DatabaseState, vars, database, volume, startup, lanes
<1>2. restored = <<>> /\ tar = None
  BY <1>1 DEF RecoveryInv, Saved
<1>3. Fitting
  BY <1>2 DEF RecoveryInv, Untouched
<1>4. dump'.log = log /\ dump'.sths = sths /\ dump'.issuer = issuer
  BY <1>1
<1>5. Core' /\ Exclusive' /\ Born' /\ Fitting'
  <2>1. Core'
    BY <1>1 DEF RecoveryInv, Core, TypeOK, Bound, HeadsCommitToLog, Held, Prefix
  <2>2. Exclusive' /\ Born' /\ Fitting'
    BY <1>1, <1>3 DEF RecoveryInv, Exclusive, Whole, Born, Fitting, HasLatest
  <2> QED
    BY <2>1, <2>2
<1>6. DumpIsGood'
  BY <1>1, <1>3, <1>4 DEF RecoveryInv, Core, TypeOK, HeadsCommitToLog, Born, Fitting, DumpIsGood, CommitsTo, HasLatest, Prefix
<1>7. Saved'
  BY <1>1, <1>2, <1>3, <1>4, <1>6 DEF RecoveryInv, Saved, TarIsGood, Fitting
<1>8. MarkerKnows' => PastKnown'
  <2> SUFFICES ASSUME MarkerKnows' PROVE PastKnown'
    OBVIOUS
  <2>1. PastKnown
    BY <1>1 DEF RecoveryInv, MarkerKnows
  <2>2. Closed(sths)' /\ Closed(dump.sths)'
    BY <1>1, <1>4, <2>1 DEF PastKnown, Closed
  <2> QED
    BY <1>1, <2>1, <2>2 DEF PastKnown, NewestPublished, OnePublishedHistory, Prefix
<1> QED
  BY <1>5, <1>7, <1>8 DEF RecoveryInv

LEMMA CopyVolumeRecovery == ASSUME RecoveryInv, CopyVolume PROVE RecoveryInv'
<1>1. /\ dump # None /\ tar = None /\ seed # None
      /\ tar' = [seed |-> seed, text |-> IF marker = None THEN None ELSE file[marker]]
      /\ UNCHANGED <<log, issued, sths, issuer, seed, born, marker, tmp, file, boot, seen, headLock, pc, fd, mine, crashes>>
      /\ UNCHANGED <<published, dump, restored>>
  BY DEF CopyVolume, VolumeState, vars, database, volume, startup, lanes
<1>2. PICK text : text = IF marker = None THEN None ELSE file[marker]
  OBVIOUS
<1>3. tar'.seed = seed /\ tar'.text = text
  BY <1>1, <1>2
<1>4. Core' /\ Exclusive' /\ Born'
  <2>1. Core'
    BY <1>1 DEF RecoveryInv, Core, TypeOK, Bound, HeadsCommitToLog, Held, Prefix
  <2>2. Exclusive' /\ Born'
    BY <1>1 DEF RecoveryInv, Exclusive, Whole, Born
  <2> QED
    BY <2>1, <2>2
<1>5. DumpIsGood'
  BY <1>1 DEF RecoveryInv, Saved, DumpIsGood, CommitsTo, HasLatest, Prefix
<1>6. text \in Text \union {None} /\ (text # None => Whole(text))
  BY <1>2 DEF RecoveryInv, Core, TypeOK, Exclusive
<1>7. seed = dump.issuer
  BY <1>1 DEF RecoveryInv, Saved
<1>8. TarIsGood'
  BY <1>1, <1>3, <1>6, <1>7 DEF TarIsGood, Whole
<1>9. Saved'
  BY <1>1, <1>5, <1>8 DEF RecoveryInv, Saved
<1>10. Untouched' => restored = <<>>
  <2>1. restored # <<>> => Len(restored) \in 1..Len(restored)
    BY LenProperties, EmptySeq DEF RecoveryInv, Saved
  <2> QED
    BY <1>1, <2>1 DEF Untouched, RecoveryInv, Saved
<1>11. Untouched' => Fitting'
  BY <1>1, <1>10 DEF Untouched, RecoveryInv, Fitting, HasLatest
<1>12. MarkerKnows' => PastKnown'
  BY <1>1 DEF RecoveryInv, MarkerKnows, PastKnown, NewestPublished, Closed, OnePublishedHistory, Prefix
<1> QED
  BY <1>4, <1>9, <1>11, <1>12 DEF RecoveryInv

\* Before a restore every process is down, and no lane is doing anything.
LEMMA AllDownEffect ==
    ASSUME Core, Exclusive, AllDown
    PROVE  /\ \A p \in Procs : boot'[p] = "down" /\ seen'[p] = None
           /\ \A t \in Lanes : pc'[t] = "run"
           /\ UNCHANGED <<seen, headLock, pc, fd, mine, crashes>>
           /\ \A t \in Lanes : pc[t] = "run"
           /\ boot' \in [Procs -> {"down", "bound", "marked", "up", "refused"}]
<1>1. /\ \A p \in Procs : boot[p] \in {"down", "refused"}
      /\ boot' = [p \in Procs |-> "down"]
      /\ UNCHANGED <<seen, headLock, pc, fd, mine, crashes>>
  BY DEF AllDown, lanes
<1>2. \A t \in Lanes : pc[t] = "run"
  BY <1>1, LogbookAssumption DEF Core, Bound
<1>3. \A p \in Procs : seen[p] = None
  BY <1>1 DEF Exclusive
<1> QED
  BY <1>1, <1>2, <1>3

\* What is left after a restore is an invariant state when its parts are.
LEMMA DownCore ==
    ASSUME Core, Exclusive, AllDown, UNCHANGED issued,
           log' \in Seq(Labels), sths' \subseteq SignedHead, issuer' \in Keys \union {None},
           seed' \in Keys \union {None}, born' = born,
           marker' \in Inodes \union {None}, tmp' \in Inodes \union {None}, file' \in [Inodes -> Text],
           CommitsTo(sths', log', issuer')
    PROVE  Core'
<1>1. TypeOK'
  BY AllDownEffect DEF Core, TypeOK
<1>2. Bound' /\ Held'
  BY AllDownEffect DEF Bound, Held
<1>3. HeadsCommitToLog'
  BY DEF HeadsCommitToLog, CommitsTo, Prefix
<1> QED
  BY <1>1, <1>2, <1>3 DEF Core

LEMMA DownExclusive ==
    ASSUME Core, Exclusive, AllDown, marker' # None => marker' # tmp' /\ Whole(file'[marker'])
    PROVE  Exclusive'
<1>1. \A t \in Lanes : pc'[t] = "run"
  BY AllDownEffect
<1>2. \A p \in Procs : boot'[p] = "down" /\ seen'[p] = None
  BY AllDownEffect
<1> QED
  BY <1>1, <1>2 DEF Exclusive, Whole

LEMMA DownKnown ==
    ASSUME Core, Exclusive, AllDown, PastKnown, UNCHANGED <<published, dump>>,
           IF marker' = None THEN \A h \in published : h.log # seed'
                             ELSE marker' = marker /\ UNCHANGED <<seed, file>>,
           sths' = {} \/ (dump # None /\ sths' = dump.sths)
    PROVE  PastKnown'
<1>1. /\ \A t \in Lanes : pc'[t] = "run" /\ pc[t] = "run"
      /\ \A p \in Procs : boot'[p] # "up"
  BY AllDownEffect
<1>2. IF marker' = None THEN \A h \in published' : h.log # seed' ELSE NewestPublished(file[marker].head)'
  BY <1>1 DEF PastKnown, NewestPublished
<1>3. Closed(sths)' /\ (dump' # None => Closed(dump.sths)')
  BY DEF PastKnown, Closed
<1>4. OnePublishedHistory'
  BY DEF PastKnown, OnePublishedHistory, Prefix
<1> QED
  BY <1>1, <1>2, <1>3, <1>4 DEF PastKnown

\* An empty host fits itself, whatever was published elsewhere.
LEMMA FreshHostRecovery == ASSUME RecoveryInv, FreshHost PROVE RecoveryInv'
<1>1. /\ AllDown /\ tar # None
      /\ log' = <<>> /\ sths' = {} /\ issuer' = None
      /\ seed' = None /\ marker' = None /\ tmp' = None
      /\ file' = [i \in Inodes |-> Empty]
      /\ UNCHANGED <<issued, born, published, dump, tar, restored>>
  BY DEF FreshHost, recovery
<1>2. Core'
  <2>1. file' \in [Inodes -> Text]
    BY <1>1 DEF Empty, Text
  <2>2. CommitsTo(sths', log', issuer')
    BY <1>1 DEF CommitsTo
  <2> QED
    BY <1>1, <2>1, <2>2, DownCore DEF RecoveryInv
<1>3. Exclusive'
  BY <1>1, DownExclusive DEF RecoveryInv
<1>4. Saved'
  <2>1. DumpIsGood' /\ TarIsGood'
    BY <1>1 DEF RecoveryInv, Saved, DumpIsGood, TarIsGood, CommitsTo, HasLatest, Whole, Prefix
  <2> QED
    BY <1>1, <2>1 DEF RecoveryInv, Saved
<1>5. Born'
  BY <1>1 DEF RecoveryInv, Born
<1>6. Fitting'
  BY <1>1, AllDownEffect DEF RecoveryInv, Fitting, HasLatest
<1>7. MarkerKnows' => PastKnown'
  <2> SUFFICES ASSUME MarkerKnows' PROVE PastKnown'
    OBVIOUS
  <2>1. PastKnown
    BY <1>1, AllDownEffect DEF RecoveryInv, MarkerKnows
  <2>2. \A h \in published : h.log # None
    BY LogbookAssumption DEF RecoveryInv, Born, Core, TypeOK
  <2> QED
    BY <1>1, <2>1, <2>2, DownKnown DEF RecoveryInv
<1> QED
  BY <1>2, <1>3, <1>4, <1>5, <1>6, <1>7 DEF RecoveryInv

\* What a dump brings back.
LEMMA RestoreDatabaseEffect ==
    ASSUME RecoveryInv, dump # None, RestoreDatabase
    PROVE  /\ log' \in Seq(Labels) /\ sths' \subseteq published /\ sths' \subseteq SignedHead
           /\ issuer' \in born /\ issuer' \in Keys \union {None}
           /\ CommitsTo(sths', log', issuer') /\ HasLatest(sths')
           /\ log' = dump.log /\ sths' = dump.sths /\ issuer' = dump.issuer
<1>1. log' = dump.log /\ sths' = dump.sths /\ issuer' = dump.issuer
  BY DEF RestoreDatabase
<1>2. /\ dump.log \in Seq(Labels) /\ dump.sths \subseteq published /\ dump.issuer \in born
      /\ CommitsTo(dump.sths, dump.log, dump.issuer) /\ HasLatest(dump.sths)
  BY DEF RecoveryInv, Saved, DumpIsGood
<1>3. published \subseteq SignedHead /\ born \subseteq Keys
  BY DEF RecoveryInv, Born, Core, TypeOK
<1>4. CommitsTo(sths', log', issuer')
  BY <1>1, <1>2 DEF CommitsTo
<1>5. HasLatest(sths')
  BY <1>1, <1>2 DEF HasLatest
<1> QED
  BY <1>1, <1>2, <1>3, <1>4, <1>5

\* A restore of the database alone leaves the key and the marker, which know more.
LEMMA RestoreDatabaseRecovery == ASSUME RecoveryInv, RestoreDatabaseOnly PROVE RecoveryInv'
<1>1. /\ AllDown /\ dump # None /\ RestoreDatabase
      /\ restored' = Append(restored, "database")
      /\ UNCHANGED <<issued, seed, born, marker, tmp, file, published, dump, tar>>
  BY DEF RestoreDatabaseOnly, volume
<1>2. /\ log' \in Seq(Labels) /\ sths' \subseteq published /\ sths' \subseteq SignedHead
      /\ issuer' \in born /\ issuer' \in Keys \union {None}
      /\ CommitsTo(sths', log', issuer')
      /\ sths' = dump.sths /\ issuer' = dump.issuer
  BY <1>1, RestoreDatabaseEffect
<1>3. /\ restored' \in Seq({"database", "both"}) /\ restored' # <<>>
      /\ Len(restored') = Len(restored) + 1 /\ restored'[Len(restored')] = "database"
      /\ \A i \in 1..Len(restored) : restored'[i] = restored[i]
      /\ Len(restored) \in Nat
  BY <1>1, AppendProperties, LenProperties DEF RecoveryInv, Saved
<1>4. Core'
  <2>1. /\ seed' \in Keys \union {None} /\ born' = born /\ marker' \in Inodes \union {None}
        /\ tmp' \in Inodes \union {None} /\ file' \in [Inodes -> Text]
    BY <1>1 DEF RecoveryInv, Core, TypeOK
  <2> QED
    BY <1>1, <1>2, <2>1, DownCore DEF RecoveryInv
<1>5. Exclusive'
  BY <1>1, DownExclusive DEF RecoveryInv, Exclusive
<1>6. Saved'
  <2>1. DumpIsGood' /\ TarIsGood'
    BY <1>1 DEF RecoveryInv, Saved, DumpIsGood, TarIsGood, CommitsTo, HasLatest, Whole, Prefix
  <2>2. tar = None => \A i \in 1..Len(restored') : restored'[i] = "database"
    <3> SUFFICES ASSUME tar = None, NEW i \in 1..Len(restored') PROVE restored'[i] = "database"
      OBVIOUS
    <3>1. i = Len(restored') \/ i \in 1..Len(restored)
      BY <1>3
    <3> QED
      BY <1>3, <3>1 DEF RecoveryInv, Saved
  <2> QED
    BY <1>1, <1>2, <1>3, <2>1, <2>2 DEF RecoveryInv, Saved
<1>7. Born'
  BY <1>1, <1>2 DEF RecoveryInv, Born
<1>8. ~ Untouched'
  BY <1>3 DEF Untouched
<1>9. MarkerKnows' => PastKnown'
  <2> SUFFICES ASSUME MarkerKnows' PROVE PastKnown'
    OBVIOUS
  <2>1. crashes = 0
    BY <1>1, AllDownEffect DEF RecoveryInv, MarkerKnows
  <2>2. \A i \in 1..Len(restored') : restored'[i] = "database"
    BY DEF MarkerKnows
  <2>3. \A i \in 1..Len(restored) : restored[i] = "database"
    BY <1>3, <2>2
  <2>4. PastKnown
    BY <2>1, <2>3 DEF RecoveryInv, MarkerKnows
  <2>5. IF marker' = None THEN \A h \in published : h.log # seed'
                          ELSE marker' = marker /\ UNCHANGED <<seed, file>>
    BY <1>1, <2>4, AllDownEffect DEF RecoveryInv, PastKnown
  <2> QED
    BY <1>1, <1>2, <2>4, <2>5, DownKnown DEF RecoveryInv
<1> QED
  BY <1>4, <1>5, <1>6, <1>7, <1>8, <1>9 DEF RecoveryInv

\* Both halves of one night: the marker is the one the tar holds, and a quiet night's is in
\* the dump.
LEMMA RestoreBothRecovery == ASSUME RecoveryInv, RestoreBoth PROVE RecoveryInv'
<1>1. /\ AllDown /\ tar # None /\ RestoreDatabase /\ seed' = tar.seed
      /\ restored' = Append(restored, "both")
      /\ UNCHANGED <<issued, born, tmp, published, dump, tar>>
  BY DEF RestoreBoth
<1>2. PICK i \in Inodes :
        /\ IF marker = None THEN i # tmp ELSE i = marker
        /\ marker' = IF tar.text = None THEN marker ELSE i
        /\ file' = IF tar.text = None THEN file ELSE [file EXCEPT ![i] = tar.text]
  BY DEF RestoreBoth
<1>3. dump # None
  BY <1>1 DEF RecoveryInv, Saved
<1>4. /\ log' \in Seq(Labels) /\ sths' \subseteq published /\ sths' \subseteq SignedHead
      /\ issuer' \in born /\ issuer' \in Keys \union {None}
      /\ CommitsTo(sths', log', issuer') /\ HasLatest(sths')
      /\ sths' = dump.sths /\ issuer' = dump.issuer
  BY <1>1, <1>3, RestoreDatabaseEffect
<1>5. /\ restored' \in Seq({"database", "both"}) /\ restored' # <<>>
      /\ Len(restored') \in 1..Len(restored') /\ restored'[Len(restored')] = "both"
  BY <1>1, AppendProperties, LenProperties DEF RecoveryInv, Saved
<1>6. seed' = dump.issuer /\ tar.text \in Text \union {None} /\ (tar.text # None => Whole(tar.text))
  BY <1>1 DEF RecoveryInv, Saved, TarIsGood
<1>7. marker' # None => /\ marker' # tmp' /\ Whole(file'[marker'])
                        /\ tar.text # None => file'[marker'] = tar.text
  BY <1>1, <1>2, <1>6 DEF RecoveryInv, Exclusive, Core, TypeOK
<1>8. Core'
  <2>1. /\ marker' \in Inodes \union {None} /\ tmp' \in Inodes \union {None} /\ file' \in [Inodes -> Text]
    BY <1>1, <1>2, <1>6 DEF RecoveryInv, Core, TypeOK
  <2> QED
    BY <1>1, <1>4, <1>6, <2>1, DownCore DEF RecoveryInv
<1>9. Exclusive'
  BY <1>1, <1>7, DownExclusive DEF RecoveryInv
<1>10. Saved'
  <2>1. DumpIsGood' /\ TarIsGood'
    BY <1>1 DEF RecoveryInv, Saved, DumpIsGood, TarIsGood, CommitsTo, HasLatest, Whole, Prefix
  <2> QED
    BY <1>1, <1>3, <1>5, <2>1 DEF RecoveryInv, Saved
<1>11. Born'
  BY <1>1, <1>4, <1>6 DEF RecoveryInv, Born
<1>12. Untouched' => Fitting'
  <2> SUFFICES ASSUME QuietNight PROVE Fitting'
    BY <1>1, <1>5 DEF Untouched, QuietNight
  <2>1. marker' # None => file'[marker'].head \in sths'
    BY <1>4, <1>7 DEF QuietNight
  <2>2. seed' # None
    BY <1>4, <1>6, LogbookAssumption DEF RecoveryInv, Core, TypeOK
  <2>3. HasLatest(sths)'
    BY <1>4 DEF HasLatest
  <2>4. \A p \in Procs : boot'[p] = "down"
    BY <1>1, AllDownEffect DEF RecoveryInv
  <2> QED
    BY <1>4, <1>6, <2>1, <2>2, <2>3, <2>4 DEF Fitting
<1>13. ~ MarkerKnows'
  BY <1>5 DEF MarkerKnows
<1> QED
  BY <1>8, <1>9, <1>10, <1>11, <1>12, <1>13 DEF RecoveryInv

LEMMA StepRecovery ==
    ASSUME OneProcess, RecoveryInv, [RecoveryNext]_<<vars, recovery>>
    PROVE  RecoveryInv'
<1>1. CASE UNCHANGED <<vars, recovery>>
  <2>1. /\ UNCHANGED <<log, issued, sths, issuer, seed, born, marker, tmp, file, boot, seen, headLock, pc, fd, mine, crashes>>
        /\ UNCHANGED <<published, dump, tar, restored>>
    BY <1>1 DEF vars, database, volume, startup, lanes, recovery
  <2>2. Core'
    BY <2>1 DEF RecoveryInv, Core, TypeOK, Bound, HeadsCommitToLog, Held, Prefix
  <2>3. Exclusive'
    BY <2>1 DEF RecoveryInv, Exclusive, Whole
  <2>4. Saved' /\ Born'
    BY <2>1 DEF RecoveryInv, Saved, DumpIsGood, TarIsGood, CommitsTo, HasLatest, Whole, Prefix, Born
  <2>5. Untouched' => Fitting'
    BY <2>1 DEF RecoveryInv, Untouched, QuietNight, Fitting, HasLatest
  <2>6. MarkerKnows' => PastKnown'
    BY <2>1 DEF RecoveryInv, MarkerKnows, PastKnown, NewestPublished, Closed, OnePublishedHistory, Prefix
  <2> QED
    BY <2>2, <2>3, <2>4, <2>5, <2>6 DEF RecoveryInv
<1> QED
  BY <1>1, RunRecovery, DumpRecovery, CopyVolumeRecovery, FreshHostRecovery, RestoreDatabaseRecovery,
     RestoreBothRecovery DEF RecoveryNext

LEMMA RecoveryIsSafe == RecoveryInv => RestoresAreSafe
<1> SUFFICES ASSUME RecoveryInv PROVE RestoresAreSafe
  OBVIOUS
<1>1. StaleDatabaseIsNotServed
  BY DEF RecoveryInv, PastKnown, Core, Bound, StaleDatabaseIsNotServed
<1>2. MarkerKeepsOneHistory
  BY DEF RecoveryInv, PastKnown, MarkerKeepsOneHistory
<1>3. QuietNightStarts
  BY DEF RecoveryInv, Untouched, Fitting, NeverLockedOut, QuietNightStarts
<1> QED
  BY <1>1, <1>2, <1>3 DEF RestoresAreSafe, MarkerGuardsTheLog

(***************************************************************************)
(* One process, any number of lanes, kills, backup nights, fresh hosts and *)
(* restores.  As long as the data volume stayed and no lane was killed     *)
(* between its commit and its marker, a database is served only when it    *)
(* holds every head its key ever published, and the key signs one history  *)
(* (keys.py:57-60); and the two halves of a night in which no head was     *)
(* published in between always start (docs/operations.md:145-146, 166).    *)
(***************************************************************************)
THEOREM RestoredLogIsSafe == ASSUME OneProcess PROVE RecoverySpec => []RestoresAreSafe
BY InitRecoveryInv, StepRecovery, RecoveryIsSafe, PTL DEF RecoverySpec

-----------------------------------------------------------------------------
(* The schema (Migrations), which a start migrates before it binds the key. *)
(* A process applies the oldest revision it does not believe applied, and   *)
(* what it believes was true when it read it: so it believes in a beginning *)
(* of the schema, and the one revision it can add without a conflict is the *)
(* next.                                                                    *)

IsPrefix(revisions) == \E n \in Nat : revisions = 1..n

SchemaType ==
    /\ head \in [Builds -> Revisions]
    /\ stage \in [Builds -> {"down", "applying", "checked", "up", "refused"}]
    /\ believes \in [Builds -> SUBSET Revisions]
    /\ executed \in [Revisions -> Nat]
    /\ applied \in SUBSET Revisions

ExecutedOnce == \A r \in Revisions : executed[r] = (IF r \in applied THEN 1 ELSE 0)

BelievesABeginning == \A b \in Builds : IsPrefix(believes[b]) /\ believes[b] \subseteq applied

CheckedIsThere == \A b \in Builds : stage[b] \in {"checked", "up"} => Known(b) \subseteq applied

SchemaInv == SchemaType /\ IsPrefix(applied) /\ ExecutedOnce /\ BelievesABeginning /\ CheckedIsThere

-----------------------------------------------------------------------------
LEMMA OldestIsNext ==
    ASSUME NEW h \in Nat, NEW j \in Nat, (1..h) \ (1..j) # {}
    PROVE  Oldest((1..h) \ (1..j)) = j + 1
<1> DEFINE S == (1..h) \ (1..j)
<1>1. j + 1 \in S /\ \A q \in S : j + 1 <= q
  OBVIOUS
<1>2. Oldest(S) \in S /\ \A q \in S : Oldest(S) <= q
  BY <1>1 DEF Oldest
<1>3. Oldest(S) \in Nat
  BY <1>2
<1> QED
  BY <1>1, <1>2, <1>3

LEMMA SchemaInvInit == MigrationsInit => SchemaInv
<1> SUFFICES ASSUME MigrationsInit
             PROVE  SchemaInv
  OBVIOUS
<1>1. PICK r \in Revisions \cup {0} : applied = 1..r
  BY DEF MigrationsInit
<1>2. r \in Nat /\ r <= Newest /\ Newest \in Nat
  BY <1>1, MigrationsAssumption DEF Revisions
<1>3. IsPrefix(applied) /\ applied \in SUBSET Revisions
  BY <1>1, <1>2 DEF IsPrefix, Revisions
<1>4. SchemaType /\ ExecutedOnce /\ CheckedIsThere
  BY <1>3 DEF MigrationsInit, SchemaType, ExecutedOnce, CheckedIsThere
<1>5. IsPrefix({})
  <2>1. {} = 1..0
    OBVIOUS
  <2> QED
    BY <2>1 DEF IsPrefix
<1>6. BelievesABeginning
  BY <1>5 DEF MigrationsInit, BelievesABeginning
<1> QED
  BY <1>3, <1>4, <1>6 DEF SchemaInv

\* The one step that changes the schema adds the next revision.
LEMMA ApplyAddsTheNext ==
    ASSUME SchemaInv, NEW b \in Builds, Apply(b)
    PROVE  SchemaInv'
<1> USE DEF SchemaInv
<1>1. PICK j \in Nat : believes[b] = 1..j
  BY DEF BelievesABeginning, IsPrefix
<1>2. PICK k \in Nat : applied = 1..k
  BY DEF IsPrefix
<1>3. head[b] \in Nat /\ head[b] <= Newest /\ Newest \in Nat /\ head[b] \in 1..Newest
  BY MigrationsAssumption DEF SchemaType, Revisions
<1> DEFINE r == Oldest(Pending(b))
<1>4. r = j + 1 /\ r \in Known(b)
  <2>1. (1..head[b]) \ (1..j) # {} /\ Pending(b) = (1..head[b]) \ (1..j)
    BY <1>1 DEF Apply, Pending, Known
  <2>2. r = j + 1
    BY <2>1, <1>3, OldestIsNext
  <2>3. j + 1 <= head[b]
    BY <2>1, <1>3
  <2> QED
    BY <2>2, <2>3, <1>3 DEF Known
<1>5. r \notin applied /\ applied' = applied \cup {r} /\ executed' = [executed EXCEPT ![r] = @ + 1]
      /\ believes' = [believes EXCEPT ![b] = @ \cup {r}] /\ UNCHANGED <<head, stage>>
  BY DEF Apply, Applies
<1>6. j = k
  <2>1. 1..j \subseteq 1..k
    BY <1>1, <1>2 DEF BelievesABeginning
  <2>2. j <= k
    BY <2>1
  <2> QED
    BY <1>2, <1>4, <1>5, <2>2
<1>7. applied' = 1..(k + 1) /\ k + 1 \in Nat
  BY <1>2, <1>4, <1>5, <1>6
<1>8. r \in Revisions
  BY <1>3, <1>4 DEF Known, Revisions
<1>9. SchemaType'
  BY <1>5, <1>8 DEF SchemaType
<1>10. ExecutedOnce'
  <2>1. executed[r] = 0
    BY <1>5, <1>8 DEF ExecutedOnce
  <2> QED
    BY <2>1, <1>5, <1>8 DEF ExecutedOnce, SchemaType
<1>11. BelievesABeginning'
  <2>1. believes'[b] = 1..(k + 1)
    BY <1>1, <1>4, <1>5, <1>6 DEF SchemaType
  <2>2. IsPrefix(believes'[b]) /\ believes'[b] \subseteq applied'
    BY <2>1, <1>7 DEF IsPrefix
  <2>3. \A c \in Builds : c # b => believes'[c] = believes[c]
    BY <1>5 DEF SchemaType
  <2>4. \A c \in Builds : c # b => IsPrefix(believes'[c]) /\ believes'[c] \subseteq applied'
    BY <2>3, <1>5 DEF BelievesABeginning
  <2> QED
    BY <2>2, <2>4 DEF BelievesABeginning, IsPrefix
<1>12. CheckedIsThere'
  BY <1>5 DEF CheckedIsThere, Known
<1>13. IsPrefix(applied')
  BY <1>7 DEF IsPrefix
<1> QED
  BY <1>9, <1>10, <1>11, <1>12, <1>13 DEF IsPrefix

\* The other steps leave the schema alone.
LEMMA OthersKeepIt ==
    ASSUME SchemaInv, NEW b \in Builds,
           ReadApplied(b) \/ ApplyFails(b) \/ CheckRevisions(b) \/ CheckColumns(b) \/ StopBuild(b) \/ Release(b)
    PROVE  SchemaInv'
<1> USE DEF SchemaInv
<1>1. UNCHANGED <<applied, executed>>
  BY DEF ReadApplied, ApplyFails, CheckRevisions, CheckColumns, StopBuild, Release, RefuseBuild
<1>2. IsPrefix(applied)' /\ ExecutedOnce'
  BY <1>1 DEF IsPrefix, ExecutedOnce
<1>3. CASE ReadApplied(b)
  BY <1>1, <1>2, <1>3 DEF ReadApplied, SchemaType, BelievesABeginning, IsPrefix, CheckedIsThere, Known
<1>4. CASE ApplyFails(b)
  BY <1>1, <1>2, <1>4 DEF ApplyFails, RefuseBuild, SchemaType, BelievesABeginning, IsPrefix, CheckedIsThere, Known
<1>5. CASE CheckRevisions(b)
  <2>1. Known(b) \subseteq applied
    BY <1>5 DEF CheckRevisions, Pending, BelievesABeginning
  <2> QED
    BY <1>1, <1>2, <1>5, <2>1 DEF CheckRevisions, RefuseBuild, SchemaType, BelievesABeginning, IsPrefix, CheckedIsThere, Known
<1>6. CASE CheckColumns(b)
  BY <1>1, <1>2, <1>6 DEF CheckColumns, RefuseBuild, SchemaType, BelievesABeginning, IsPrefix, CheckedIsThere, Known
<1>7. CASE StopBuild(b)
  BY <1>1, <1>2, <1>7 DEF StopBuild, SchemaType, BelievesABeginning, IsPrefix, CheckedIsThere, Known
<1>8. CASE Release(b)
  BY <1>1, <1>2, <1>8 DEF Release, SchemaType, BelievesABeginning, IsPrefix, CheckedIsThere, Known
<1> QED
  BY <1>3, <1>4, <1>5, <1>6, <1>7, <1>8

LEMMA SchemaInvHolds == SchemaInv => SchemaIsWhole
<1> SUFFICES ASSUME SchemaInv
             PROVE  SchemaIsWhole
  OBVIOUS
<1>1. PICK n \in Nat : applied = 1..n
  BY DEF SchemaInv, IsPrefix
<1>2. Cardinality(1..n) = n
  BY FS_Interval
<1> QED
  BY <1>1, <1>2 DEF SchemaInv, SchemaIsWhole, ExecutedOnce, CheckedIsThere

(***************************************************************************)
(* However many processes of however many releases migrate at once, are    *)
(* killed between two revisions or refused and started again               *)
(* (migrations.apply_migrations): each revision is executed once, in order *)
(* and none is skipped, and one that came up has all it knows.             *)
(***************************************************************************)
THEOREM SchemaStaysWhole == MigrationsSpec => []SchemaIsWhole
<1>1. SchemaInv /\ [Migrating]_schema => SchemaInv'
  <2> SUFFICES ASSUME SchemaInv, [Migrating]_schema
               PROVE  SchemaInv'
    OBVIOUS
  <2>1. CASE Migrating
    BY <2>1, ApplyAddsTheNext, OthersKeepIt DEF Migrating, Starts
  <2>2. CASE UNCHANGED schema
    BY <2>2 DEF schema, SchemaInv, SchemaType, IsPrefix, ExecutedOnce, BelievesABeginning, CheckedIsThere, Known
  <2> QED
    BY <2>1, <2>2
<1> QED
  BY SchemaInvInit, <1>1, SchemaInvHolds, PTL DEF MigrationsSpec
=============================================================================
