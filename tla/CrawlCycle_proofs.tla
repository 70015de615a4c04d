-------------------------- MODULE CrawlCycle_proofs --------------------------
(***************************************************************************)
(* Proofs about the crawl cycle, for every registry, budget and interval:  *)
(* its runs add up to one pass, however often it is killed, fails or is    *)
(* started again, and a restart continues it.                              *)
(***************************************************************************)
EXTENDS CrawlCycle, FiniteSetTheorems, SequenceTheorems, WellFoundedInduction, TLAPS

-----------------------------------------------------------------------------
(* The invariant of a crawl.                                               *)

\* A run is finished once another started or nothing crawls.
Finishing ==
    /\ crawling # "no" => up /\ Current # 0 /\ runs[Current].finishedAt = None
    /\ \A r \in DOMAIN runs : r < Current \/ (crawling = "no" /\ up) => runs[r].finishedAt # None
    /\ \A r \in DOMAIN runs :
          IF runs[r].finishedAt = None THEN runs[r].ended = None /\ runs[r].error = "none"
          ELSE runs[r].ended # None /\ runs[r].error \in {"none", runs[r].ended}

\* What a run has in hand while it works, and a lane that it did not join.
InHand ==
    /\ todo # {} \/ lock = "crawl" => crawling = "working"
    /\ \A r \in RunIds : lane[r] # {} =>
          r \in DOMAIN runs /\ runs[r].partOf # None /\ ((r = Current /\ crawling = "working") \/ runs[r].ended = "failed")
    /\ crawling \in {"inserted", "recorded"} => runs[Current].attempted = {} /\ lane[Current] = {}
    /\ ~up => crawling = "no"

\* The cycle a run is part of, and what its row says of it.
NamesItsCycle ==
    /\ crawling \in {"recorded", "working"} => runs[Current].partOf # None
    /\ crawling = "inserted" => runs[Current].partOf = None
    /\ \A r \in DOMAIN runs :
          /\ runs[r].cycle = None <=> runs[r].partOf = None
          /\ runs[r].error # "none" \/ runs[r].finishedAt = None => runs[r].cycle = runs[r].partOf
          /\ runs[r].partOf # None => runs[r].partOf <= runs[r].startedAt
          /\ runs[r].partOf # None /\ ~runs[r].resumed => runs[r].partOf = runs[r].startedAt
          /\ runs[r].attempted # {} => runs[r].partOf # None

InOrder ==
    /\ \A r \in DOMAIN runs : runs[r].startedAt <= now
    /\ \A r, s \in DOMAIN runs : r < s => runs[r].startedAt < runs[s].startedAt

\* Cycles follow one another, and one that ended well is not continued.
CyclesInOrder ==
    \A r, s \in DOMAIN runs : r < s /\ runs[s].partOf # None =>
        /\ runs[r].partOf # None => runs[r].partOf <= runs[s].partOf
        /\ runs[r].partOf # None /\ runs[r].startedAt >= runs[s].partOf => runs[r].partOf = runs[s].partOf
        /\ runs[r].ended = "ok" => runs[r].startedAt < runs[s].partOf

Apart ==
    \A r, s \in DOMAIN runs : r < s /\ runs[s].partOf # None /\ runs[r].partOf = runs[s].partOf =>
        /\ runs[r].attempted \intersect runs[s].attempted \subseteq Packages
        /\ runs[r].ended # "failed" => runs[r].attempted \intersect (runs[s].attempted \union lane[s]) = {}
        /\ s = Current => runs[r].attempted \intersect todo = {}

Taken(r) == (runs[r].attempted \intersect Packages) \union lane[r]

PlanCovers ==
    /\ plan # None =>
        /\ Cardinality(plan.due) <= Budget
        /\ \E r \in DOMAIN runs : runs[r].partOf = plan.cycle
        /\ \A r \in DOMAIN runs : runs[r].partOf = plan.cycle => Taken(r) \subseteq plan.due
    /\ \A r \in DOMAIN runs : Taken(r) # {} => plan # None /\ runs[r].partOf <= plan.cycle

Covered ==
    \A r \in DOMAIN runs : runs[r].partOf # None =>
        \E most \in SUBSET Packages :
            Cardinality(most) <= Budget /\ \A s \in CycleOf(r) : Taken(s) \subseteq most

Read(r) == UNION {runs[s].attempted : s \in CycleOf(r)}

OwesTheRest ==
    /\ CycleIsWhole
    /\ crawling = "working" /\ Current \notin laneFailed =>
           runs[Current].owed \subseteq todo \union lane[Current] \union Read(Current)

CycleInv == /\ TypeOK /\ Finishing /\ InHand /\ NamesItsCycle /\ InOrder /\ CyclesInOrder /\ Apart
            /\ PlanCovers /\ Covered /\ OwesTheRest

-----------------------------------------------------------------------------
(* Rows of the runs table.                                                 *)

LEMMA RowReplaced ==
    ASSUME NEW S, NEW rs \in Seq(S), NEW n \in DOMAIN rs, NEW row \in S
    PROVE  LET new == [rs EXCEPT ![n] = row] IN
           /\ new \in Seq(S) /\ Len(new) = Len(rs) /\ DOMAIN new = DOMAIN rs
           /\ new[n] = row /\ \A s \in DOMAIN rs : s # n => new[s] = rs[s]
<1>1. [rs EXCEPT ![n] = row] \in Seq(S)
  BY ExceptSeq
<1>2. Len([rs EXCEPT ![n] = row]) = Len(rs)
  BY ExceptSeq
<1> QED
  BY <1>1, <1>2

\* The rows of the table, one by one.
LEMMA RowIsRun ==
    ASSUME TypeOK, NEW r \in DOMAIN runs
    PROVE  /\ runs[r] \in Run /\ r \in 1..Current /\ r \in RunIds /\ Current \in 0..MaxRuns
           /\ runs[r].startedAt \in Times /\ runs[r].cycle \in Times \union {None} /\ runs[r].partOf \in Times \union {None}
           /\ runs[r].attempted \subseteq Targets /\ runs[r].owed \subseteq Targets
           /\ runs[r].finishedAt \in Times \union {None}
<1>1. runs \in Seq(Run) /\ Len(runs) \in 0..MaxRuns
  BY DEF TypeOK
<1>2. DOMAIN runs = 1..Len(runs) /\ runs[r] \in Run
  BY <1>1
<1>3. /\ runs[r].startedAt \in Times /\ runs[r].cycle \in Times \union {None} /\ runs[r].partOf \in Times \union {None}
      /\ runs[r].attempted \subseteq Targets /\ runs[r].owed \subseteq Targets
      /\ runs[r].finishedAt \in Times \union {None}
  BY <1>2 DEF Run
<1> QED
  BY <1>1, <1>2, <1>3, CycleAssumption DEF Current, RunIds

\* What a step leaves of a row that it does not name.
Others(n) == \A s \in DOMAIN runs : s # n => runs'[s] = runs[s]

SameTable == runs' \in Seq(Run) /\ Len(runs') = Len(runs) /\ DOMAIN runs' = DOMAIN runs

LEMMA RowsReplaced ==
    ASSUME TypeOK, NEW n \in DOMAIN runs, NEW row \in Run, runs' = [runs EXCEPT ![n] = row]
    PROVE  SameTable /\ Others(n) /\ runs'[n] = row
<1>1. runs \in Seq(Run)
  BY DEF TypeOK
<1> QED
  BY <1>1, RowReplaced DEF SameTable, Others

\* The cycle is recorded.
LEMMA CycleRecorded ==
    ASSUME TypeOK, NEW n \in DOMAIN runs, NEW a \in BOOLEAN, NEW c \in Times, NEW row,
           row = [runs[n] EXCEPT !.resumed = a, !.cycle = c, !.partOf = c], runs' = [runs EXCEPT ![n] = row]
    PROVE  /\ SameTable /\ Others(n)
           /\ runs'[n].resumed = a /\ runs'[n].cycle = c /\ runs'[n].partOf = c
           /\ \A s \in DOMAIN runs :
                 /\ runs'[s].startedAt = runs[s].startedAt /\ runs'[s].finishedAt = runs[s].finishedAt
                 /\ runs'[s].error = runs[s].error /\ runs'[s].ended = runs[s].ended
                 /\ runs'[s].attempted = runs[s].attempted /\ runs'[s].owed = runs[s].owed
<1>1. runs[n] \in Run
  BY RowIsRun
<1>2. row \in Run
  BY <1>1 DEF Run
<1>3. runs'[n] = row /\ SameTable /\ Others(n)
  BY <1>2, RowsReplaced
<1>4. /\ row.resumed = a /\ row.cycle = c /\ row.partOf = c
      /\ row.startedAt = runs[n].startedAt /\ row.finishedAt = runs[n].finishedAt
      /\ row.error = runs[n].error /\ row.ended = runs[n].ended
      /\ row.attempted = runs[n].attempted /\ row.owed = runs[n].owed
  BY <1>1 DEF Run
<1> QED
  BY <1>3, <1>4 DEF Others

\* What the run owes is noted.
LEMMA OwedNoted ==
    ASSUME TypeOK, NEW n \in DOMAIN runs, NEW owed \in SUBSET Targets, NEW row,
           row = [runs[n] EXCEPT !.owed = owed], runs' = [runs EXCEPT ![n] = row]
    PROVE  /\ SameTable /\ Others(n)
           /\ runs'[n].owed = owed
           /\ \A s \in DOMAIN runs :
                 /\ runs'[s].startedAt = runs[s].startedAt /\ runs'[s].finishedAt = runs[s].finishedAt
                 /\ runs'[s].error = runs[s].error /\ runs'[s].ended = runs[s].ended
                 /\ runs'[s].attempted = runs[s].attempted /\ runs'[s].resumed = runs[s].resumed
                 /\ runs'[s].cycle = runs[s].cycle /\ runs'[s].partOf = runs[s].partOf
<1>1. runs[n] \in Run
  BY RowIsRun
<1>2. row \in Run
  BY <1>1 DEF Run
<1>3. SameTable /\ Others(n) /\ runs'[n] = row
  BY <1>2, RowsReplaced
<1> QED
  BY <1>1, <1>3 DEF Run, Others

\* An attempt, if any, and a checkpoint, if any.
LEMMA AttemptNoted ==
    ASSUME TypeOK, NEW n \in DOMAIN runs, NEW t \in Targets,
           NEW saved \in Checkpointed(Attempted(runs[n], t)), runs' = [runs EXCEPT ![n] = saved]
    PROVE  /\ SameTable /\ Others(n)
           /\ runs'[n].attempted = runs[n].attempted \union {t}
           /\ \/ runs'[n].error = runs[n].error /\ runs'[n].cycle = runs[n].cycle
              \/ /\ crawling \in {"recorded", "working"}
                 /\ runs'[n].error = "none" /\ runs'[n].cycle = runs[Current].cycle
           /\ \A s \in DOMAIN runs :
                 /\ runs'[s].startedAt = runs[s].startedAt /\ runs'[s].finishedAt = runs[s].finishedAt
                 /\ runs'[s].ended = runs[s].ended /\ runs'[s].owed = runs[s].owed
                 /\ runs'[s].resumed = runs[s].resumed /\ runs'[s].partOf = runs[s].partOf
<1>1. runs[n] \in Run /\ now \in Times /\ Current \in DOMAIN runs /\ runs[Current].cycle \in Times \union {None}
  <2>1. runs \in Seq(Run)
    BY DEF TypeOK
  <2>2. Current \in DOMAIN runs
    BY <2>1 DEF Current
  <2> QED
    BY <2>2, RowIsRun DEF TypeOK
<1>2. PICK row : row = Attempted(runs[n], t)
  OBVIOUS
<1>3. row = [runs[n] EXCEPT !.attempted = runs[n].attempted \union {t}, !.attemptedAt = now]
  BY <1>2 DEF Attempted
<1>4. row \in Run
  BY <1>1, <1>3 DEF Run
<1>5. /\ row.attempted = runs[n].attempted \union {t} /\ row.error = runs[n].error /\ row.cycle = runs[n].cycle
      /\ row.startedAt = runs[n].startedAt /\ row.finishedAt = runs[n].finishedAt
      /\ row.ended = runs[n].ended /\ row.owed = runs[n].owed
      /\ row.resumed = runs[n].resumed /\ row.partOf = runs[n].partOf
  BY <1>1, <1>3 DEF Run
<1>6. PICK c : c = runs[Current].cycle
  OBVIOUS
<1>7. \/ saved = row
      \/ /\ crawling \in {"recorded", "working"}
         /\ saved = [row EXCEPT !.progressAt = now, !.error = "none", !.cycle = c]
  BY <1>2, <1>6 DEF Checkpointed
<1>8. CASE saved = row
  <2>1. SameTable /\ Others(n) /\ runs'[n] = row
    BY <1>4, <1>8, RowsReplaced
  <2> QED
    BY <1>5, <2>1 DEF Others
<1>9. CASE crawling \in {"recorded", "working"} /\ saved = [row EXCEPT !.progressAt = now, !.error = "none", !.cycle = c]
  <2>1. saved \in Run
    BY <1>1, <1>4, <1>6, <1>9 DEF Run
  <2>2. SameTable /\ Others(n) /\ runs'[n] = saved
    BY <2>1, RowsReplaced
  <2>3. /\ saved.attempted = row.attempted /\ saved.error = "none" /\ saved.cycle = c
        /\ saved.startedAt = row.startedAt /\ saved.finishedAt = row.finishedAt
        /\ saved.ended = row.ended /\ saved.owed = row.owed
        /\ saved.resumed = row.resumed /\ saved.partOf = row.partOf
    BY <1>4, <1>9 DEF Run
  <2> QED
    BY <1>5, <1>6, <1>9, <2>2, <2>3 DEF Others
<1> QED
  BY <1>7, <1>8, <1>9

LEMMA CheckpointNoted ==
    ASSUME TypeOK, NEW n \in DOMAIN runs, n = Current, runs[n].error = "none",
           NEW saved \in Checkpointed(runs[n]), runs' = [runs EXCEPT ![n] = saved]
    PROVE  /\ SameTable /\ Others(n)
           /\ \A s \in DOMAIN runs :
                 /\ runs'[s].startedAt = runs[s].startedAt /\ runs'[s].finishedAt = runs[s].finishedAt
                 /\ runs'[s].error = runs[s].error /\ runs'[s].ended = runs[s].ended
                 /\ runs'[s].attempted = runs[s].attempted /\ runs'[s].resumed = runs[s].resumed
                 /\ runs'[s].cycle = runs[s].cycle /\ runs'[s].partOf = runs[s].partOf
                 /\ runs'[s].owed = runs[s].owed
<1>1. runs[n] \in Run /\ now \in Times
  BY RowIsRun DEF TypeOK
<1>2. PICK row : row = runs[n]
  OBVIOUS
<1>3. PICK c : c = row.cycle
  OBVIOUS
<1>4. saved = row \/ saved = [row EXCEPT !.progressAt = now, !.error = "none", !.cycle = c]
  BY <1>2, <1>3 DEF Checkpointed
<1>5. saved \in Run
  BY <1>1, <1>2, <1>3, <1>4 DEF Run
<1>6. /\ saved.startedAt = row.startedAt /\ saved.finishedAt = row.finishedAt
      /\ saved.error = row.error /\ saved.ended = row.ended
      /\ saved.attempted = row.attempted /\ saved.resumed = row.resumed
      /\ saved.cycle = row.cycle /\ saved.partOf = row.partOf /\ saved.owed = row.owed
  BY <1>1, <1>2, <1>3, <1>4 DEF Run
<1>7. SameTable /\ Others(n) /\ runs'[n] = saved
  BY <1>5, RowsReplaced
<1> QED
  BY <1>2, <1>6, <1>7 DEF Others

LEMMA EndNoted ==
    ASSUME TypeOK, NEW n \in DOMAIN runs, n = Current, NEW how \in {"ok", "failed"}, NEW at \in Times \union {None}, Ended(how, at)
    PROVE  /\ SameTable /\ Others(n)
           /\ runs'[n].finishedAt = now /\ runs'[n].ended = how
           /\ runs'[n].error = IF how = "ok" THEN "none" ELSE how
           /\ \A s \in DOMAIN runs :
                 /\ runs'[s].startedAt = runs[s].startedAt
                 /\ runs'[s].attempted = runs[s].attempted /\ runs'[s].resumed = runs[s].resumed
                 /\ runs'[s].cycle = runs[s].cycle /\ runs'[s].partOf = runs[s].partOf
                 /\ runs'[s].owed = runs[s].owed
<1>1. runs[n] \in Run /\ now \in Times
  BY RowIsRun DEF TypeOK
<1>2. PICK error : error = IF how = "ok" THEN "none" ELSE how
  OBVIOUS
<1>3. runs' = [runs EXCEPT ![n].finishedAt = now, ![n].ended = how, ![n].error = error, ![n].progressAt = at]
  BY <1>2 DEF Ended
<1>4. PICK row : row = [runs[n] EXCEPT !.finishedAt = now, !.ended = how, !.error = error, !.progressAt = at]
  OBVIOUS
<1>5. error \in {"none", "failed"}
  BY <1>2
<1>6. row \in Run
  BY <1>1, <1>4, <1>5 DEF Run
<1>7. runs' = [runs EXCEPT ![n] = row]
  BY <1>3, <1>4
<1>8. SameTable /\ Others(n) /\ runs'[n] = row
  BY <1>6, <1>7, RowsReplaced
<1>9. /\ row.finishedAt = now /\ row.ended = how /\ row.error = error
      /\ row.startedAt = runs[n].startedAt /\ row.attempted = runs[n].attempted /\ row.resumed = runs[n].resumed
      /\ row.cycle = runs[n].cycle /\ row.partOf = runs[n].partOf /\ row.owed = runs[n].owed
  BY <1>1, <1>4 DEF Run
<1>10. \A s \in DOMAIN runs : s = n \/ runs'[s] = runs[s]
  BY <1>8 DEF Others
<1> QED
  BY <1>2, <1>8, <1>9, <1>10

\* A new row is the table's last.
LEMMA RunAdded ==
    ASSUME TypeOK, NEW withRemote \in BOOLEAN, StartRun(withRemote)
    PROVE  /\ runs' \in Seq(Run) /\ Len(runs') = Len(runs) + 1 /\ DOMAIN runs' = DOMAIN runs \union {Len(runs) + 1}
           /\ \A s \in DOMAIN runs : runs'[s] = runs[s]
           /\ LET n == Len(runs) + 1 IN
              /\ runs'[n].startedAt = now /\ runs'[n].finishedAt = None /\ runs'[n].error = "none"
              /\ runs'[n].cycle = None /\ runs'[n].partOf = None /\ runs'[n].ended = None
              /\ runs'[n].attempted = {} /\ runs'[n].owed = {}
<1>1. runs \in Seq(Run) /\ now \in Times
  BY DEF TypeOK
<1>2. PICK row : row = [startedAt |-> now, finishedAt |-> None, error |-> "none", cycle |-> None,
            resumed |-> FALSE, withRemote |-> withRemote, progressAt |-> None,
            attempted |-> {}, attemptedAt |-> None,
            partOf |-> None, owed |-> {}, ended |-> None]
  OBVIOUS
<1>3. row \in Run
  BY <1>1, <1>2 DEF Run
<1>4. runs' = Append(runs, row)
  BY <1>2 DEF StartRun
<1>5. /\ row.startedAt = now /\ row.finishedAt = None /\ row.error = "none"
      /\ row.cycle = None /\ row.partOf = None /\ row.ended = None /\ row.attempted = {} /\ row.owed = {}
  BY <1>2
<1>6. /\ runs' \in Seq(Run) /\ Len(runs') = Len(runs) + 1
      /\ \A s \in DOMAIN runs : runs'[s] = runs[s]
      /\ runs'[Len(runs) + 1] = row
  BY <1>1, <1>3, <1>4, AppendProperties
<1>7. DOMAIN runs' = DOMAIN runs \union {Len(runs) + 1}
  BY <1>1, <1>6
<1> QED
  BY <1>5, <1>6, <1>7

LEMMA RunsInterrupted ==
    ASSUME TypeOK, Boot
    PROVE  /\ SameTable
           /\ \A s \in DOMAIN runs :
                 /\ runs'[s].startedAt = runs[s].startedAt /\ runs'[s].finishedAt # None
                 /\ runs'[s].attempted = runs[s].attempted /\ runs'[s].resumed = runs[s].resumed
                 /\ runs'[s].cycle = runs[s].cycle /\ runs'[s].partOf = runs[s].partOf
                 /\ runs'[s].owed = runs[s].owed
                 /\ IF runs[s].finishedAt # None THEN runs'[s].error = runs[s].error /\ runs'[s].ended = runs[s].ended
                    ELSE runs'[s].error = "interrupted" /\ runs'[s].ended = "interrupted"
<1>1. runs \in Seq(Run) /\ now \in Times /\ None \notin Times
  BY CycleAssumption DEF TypeOK, Times
<1>2. \A s \in DOMAIN runs :
         LET row == [runs[s] EXCEPT !.finishedAt = now, !.error = "interrupted", !.ended = "interrupted"] IN
         /\ row \in Run /\ row.finishedAt = now /\ row.error = "interrupted" /\ row.ended = "interrupted"
         /\ row.startedAt = runs[s].startedAt /\ row.attempted = runs[s].attempted /\ row.resumed = runs[s].resumed
         /\ row.cycle = runs[s].cycle /\ row.partOf = runs[s].partOf /\ row.owed = runs[s].owed
  <2>1. \A s \in DOMAIN runs : runs[s] \in Run
    BY RowIsRun
  <2> QED
    BY <1>1, <2>1 DEF Run
<1>3. DOMAIN runs' = DOMAIN runs
  BY DEF Boot
<1>4. \A s \in DOMAIN runs :
         runs'[s] = IF runs[s].finishedAt # None THEN runs[s]
                    ELSE [runs[s] EXCEPT !.finishedAt = now, !.error = "interrupted", !.ended = "interrupted"]
  BY DEF Boot
<1>5. \A s \in DOMAIN runs :
         /\ runs'[s] \in Run
         /\ runs'[s].startedAt = runs[s].startedAt /\ runs'[s].finishedAt # None
         /\ runs'[s].attempted = runs[s].attempted /\ runs'[s].resumed = runs[s].resumed
         /\ runs'[s].cycle = runs[s].cycle /\ runs'[s].partOf = runs[s].partOf
         /\ runs'[s].owed = runs[s].owed
         /\ IF runs[s].finishedAt # None THEN runs'[s].error = runs[s].error /\ runs'[s].ended = runs[s].ended
            ELSE runs'[s].error = "interrupted" /\ runs'[s].ended = "interrupted"
  <2> TAKE s \in DOMAIN runs
  <2>1. runs[s] \in Run
    BY RowIsRun
  <2>2. CASE runs[s].finishedAt # None
    BY <1>4, <2>1, <2>2
  <2>3. CASE runs[s].finishedAt = None
    <3>1. PICK row : row = [runs[s] EXCEPT !.finishedAt = now, !.error = "interrupted", !.ended = "interrupted"]
      OBVIOUS
    <3>2. runs'[s] = row
      BY <1>4, <2>3, <3>1
    <3>3. /\ row \in Run /\ row.finishedAt = now /\ row.error = "interrupted" /\ row.ended = "interrupted"
          /\ row.startedAt = runs[s].startedAt /\ row.attempted = runs[s].attempted /\ row.resumed = runs[s].resumed
          /\ row.cycle = runs[s].cycle /\ row.partOf = runs[s].partOf /\ row.owed = runs[s].owed
      BY <1>2, <3>1
    <3>4. now # None
      BY <1>1
    <3> QED
      BY <2>3, <3>2, <3>3, <3>4
  <2> QED
    BY <2>2, <2>3
<1>6. runs' \in Seq(Run) /\ Len(runs') = Len(runs)
  <2>1. DOMAIN runs = 1..Len(runs) /\ Len(runs) \in Nat
    BY <1>1
  <2>2. runs' = [r \in 1..Len(runs) |-> runs'[r]]
    BY <1>3, <2>1 DEF Boot
  <2> QED
    BY <1>5, <2>1, <2>2, IsASeq
<1> QED
  BY <1>3, <1>5, <1>6 DEF SameTable

-----------------------------------------------------------------------------
(* Steps that leave the table as it is.                                    *)

LEMMA Basics ==
    ASSUME CycleInv
    PROVE  /\ runs \in Seq(Run) /\ DOMAIN runs = 1..Current /\ Current \in Nat /\ Current <= MaxRuns
           /\ DOMAIN runs \subseteq RunIds /\ now \in Times /\ now \in Nat
           /\ crawling # "no" => /\ Current \in DOMAIN runs /\ up
                                 /\ runs[Current].finishedAt = None /\ runs[Current].ended = None
                                 /\ runs[Current].error = "none" /\ runs[Current].cycle = runs[Current].partOf
           /\ \A r \in DOMAIN runs : runs[r].startedAt \in Nat /\ runs[r].partOf \in Nat \union {None}
                                     /\ (runs[r].partOf # None => runs[r].partOf \in Nat)
<1>1. runs \in Seq(Run) /\ Len(runs) \in 0..MaxRuns /\ now \in Times /\ MaxRuns \in Nat /\ MaxTime \in Nat
  BY CycleAssumption DEF CycleInv, TypeOK
<1>2. DOMAIN runs = 1..Current /\ Current \in Nat /\ Current <= MaxRuns
  BY <1>1 DEF Current
<1>3. crawling # "no" => /\ Current \in DOMAIN runs /\ up
                         /\ runs[Current].finishedAt = None /\ runs[Current].ended = None
                         /\ runs[Current].error = "none" /\ runs[Current].cycle = runs[Current].partOf
  BY <1>2 DEF CycleInv, Finishing, NamesItsCycle
<1>4. \A r \in DOMAIN runs : runs[r].startedAt \in Times /\ runs[r].partOf \in Times \union {None}
  BY RowIsRun DEF CycleInv
<1> QED
  BY <1>1, <1>2, <1>3, <1>4 DEF RunIds, Times

\* Only the lock, the batch in hand and the clock change.
LEMMA InvQuiet ==
    ASSUME CycleInv, TypeOK', UNCHANGED <<runs, plan, up, crawling, todo, lane, laneFailed>>, now <= now',
           lock' = "crawl" => crawling = "working"
    PROVE  CycleInv'
<1> USE Basics
<1>1. Finishing'
  BY DEF CycleInv, Finishing, Current
<1>2. InHand'
  BY DEF CycleInv, InHand, Current
<1>3. NamesItsCycle' /\ CyclesInOrder'
  BY DEF CycleInv, NamesItsCycle, CyclesInOrder, Current
<1>4. InOrder'
  BY DEF CycleInv, InOrder, TypeOK, Times
<1>5. Apart'
  BY DEF CycleInv, Apart, Current
<1>6. PlanCovers' /\ Covered'
  BY DEF CycleInv, PlanCovers, Covered, Taken, CycleOf
<1>7. OwesTheRest'
  BY DEF CycleInv, OwesTheRest, CycleIsWhole, Read, CycleOf, Current
<1> QED
  BY <1>1, <1>2, <1>3, <1>4, <1>5, <1>6, <1>7 DEF CycleInv

LEMMA InvTakeBatch == ASSUME CycleInv, TakeBatch PROVE CycleInv'
<1>1. TypeOK'
  BY DEF CycleInv, TypeOK, TakeBatch
<1> QED
  BY <1>1, InvQuiet, Basics DEF TakeBatch, Times

LEMMA InvRemote == ASSUME CycleInv, RemoteTakes \/ RemoteLeaves PROVE CycleInv'
<1>1. TypeOK'
  BY CycleAssumption DEF CycleInv, TypeOK, RemoteTakes, RemoteLeaves
<1> QED
  BY <1>1, InvQuiet, Basics, CycleAssumption DEF RemoteTakes, RemoteLeaves, Times

LEMMA InvTick == ASSUME CycleInv, Tick PROVE CycleInv'
<1>1. TypeOK'
  BY CycleAssumption, Basics DEF CycleInv, TypeOK, Tick, Times, process
<1> QED
  BY <1>1, InvQuiet, Basics DEF Tick, Times, process, CycleInv, InHand

\* Lanes, or everything, stop.
LEMMA InvStops ==
    ASSUME CycleInv, TypeOK', UNCHANGED <<now, runs, plan>>,
           \/ /\ UNCHANGED <<up, crawling, todo, lock>> /\ laneFailed \subseteq laneFailed'
              /\ \A r \in RunIds : lane'[r] = lane[r] \/ (lane'[r] = {} /\ r \in laneFailed')
           \/ /\ ~ up' /\ crawling' = "no" /\ todo' = {} /\ lock' # "crawl" /\ \A r \in RunIds : lane'[r] = {}
    PROVE  CycleInv'
<1> USE Basics
<1>0. \A r \in DOMAIN runs : Taken(r)' \subseteq Taken(r)
  BY DEF Taken
<1>1. Finishing'
  BY DEF CycleInv, Finishing, Current
<1>2. InHand'
  BY DEF CycleInv, InHand, Current
<1>3. NamesItsCycle' /\ CyclesInOrder' /\ InOrder'
  BY DEF CycleInv, NamesItsCycle, CyclesInOrder, InOrder, Current
<1>5. Apart'
  BY DEF CycleInv, Apart, Current
<1>6. PlanCovers'
  BY <1>0 DEF CycleInv, PlanCovers
<1>7. Covered'
  <2>1. \A r \in DOMAIN runs : CycleOf(r)' = CycleOf(r) /\ CycleOf(r) \subseteq DOMAIN runs
    BY DEF CycleOf
  <2> QED
    BY <1>0, <2>1 DEF CycleInv, Covered
<1>8. OwesTheRest'
  BY DEF CycleInv, OwesTheRest, CycleIsWhole, Read, CycleOf, Current
<1> QED
  BY <1>1, <1>2, <1>3, <1>5, <1>6, <1>7, <1>8 DEF CycleInv

LEMMA InvFailLane == ASSUME CycleInv, NEW r \in RunIds, FailLane(r) PROVE CycleInv'
<1>1. TypeOK'
  BY CycleAssumption DEF CycleInv, TypeOK, FailLane, Fault
<1>2. laneFailed' = laneFailed \union {r} /\ UNCHANGED <<now, runs, plan, up, crawling, todo, lock>>
      /\ \A s \in RunIds : lane'[s] = lane[s] \/ (s = r /\ lane'[s] = {})
  BY DEF FailLane, CycleInv, TypeOK
<1> QED
  BY <1>1, <1>2, InvStops

LEMMA InvKill == ASSUME CycleInv, Kill PROVE CycleInv'
<1>1. TypeOK'
  <2>1. lane' \in [RunIds -> SUBSET Packages]
    BY DEF Kill
  <2>2. faults' \in 0..MaxFaults
    BY CycleAssumption DEF CycleInv, TypeOK, Kill, Fault
  <2> QED
    BY <2>1, <2>2 DEF CycleInv, TypeOK, Kill
<1> QED
  BY <1>1, InvStops, CycleAssumption DEF Kill

-----------------------------------------------------------------------------
(* A run starts, ends, or is found broken at the next start.               *)

LEMMA InvStartRun == ASSUME CycleInv, NEW withRemote \in BOOLEAN, StartRun(withRemote) PROVE CycleInv'
<1>0. PICK n : n = Len(runs) + 1
  OBVIOUS
<1> USE Basics
<1>1. /\ runs' \in Seq(Run) /\ Len(runs') = n /\ DOMAIN runs' = DOMAIN runs \union {n}
      /\ \A s \in DOMAIN runs : runs'[s] = runs[s]
      /\ runs'[n].startedAt = now /\ runs'[n].finishedAt = None /\ runs'[n].error = "none"
      /\ runs'[n].cycle = None /\ runs'[n].partOf = None /\ runs'[n].ended = None
      /\ runs'[n].attempted = {} /\ runs'[n].owed = {}
  BY <1>0, RunAdded DEF CycleInv
<1>2. /\ crawling = "no" /\ up /\ crawling' = "inserted" /\ n <= MaxRuns
      /\ \A r \in DOMAIN runs : runs[r].startedAt < now
      /\ UNCHANGED <<now, plan, up, todo, batch, lock, lane, laneFailed, faults>>
  BY <1>0, CycleAssumption DEF StartRun, CycleInv, TypeOK, Current
<1>3. Current' = n /\ n = Current + 1 /\ n \in RunIds /\ n \notin DOMAIN runs
  BY <1>0, <1>1, <1>2 DEF Current, RunIds
<1>4. lane[n] = {}
  BY <1>3 DEF CycleInv, InHand
<1>5. TypeOK'
  BY <1>1, <1>2, <1>3 DEF CycleInv, TypeOK, Current
<1>6. Finishing'
  BY <1>1, <1>2, <1>3 DEF CycleInv, Finishing
<1>7. InHand'
  BY <1>1, <1>2, <1>3, <1>4 DEF CycleInv, InHand
<1>8. NamesItsCycle'
  BY <1>1, <1>2, <1>3 DEF CycleInv, NamesItsCycle
<1>9. InOrder'
  BY <1>1, <1>2, <1>3 DEF CycleInv, InOrder
<1>10. CyclesInOrder'
  BY <1>1, <1>2, <1>3 DEF CycleInv, CyclesInOrder
<1>11. Apart'
  <2>1. \A r, s \in DOMAIN runs' : r < s /\ runs'[s].partOf # None => r \in DOMAIN runs /\ s \in DOMAIN runs /\ s # Current'
    BY <1>1, <1>3
  <2>2. \A s \in DOMAIN runs : runs'[s] = runs[s] /\ lane'[s] = lane[s]
    BY <1>1, <1>2
  <2> QED
    BY <2>1, <2>2 DEF CycleInv, Apart
<1>12. \A r \in DOMAIN runs : Taken(r)' = Taken(r)
  BY <1>1, <1>2 DEF Taken
<1>13. Taken(n)' = {}
  BY <1>1, <1>2, <1>4 DEF Taken
<1>14. \A r \in DOMAIN runs : runs[r].partOf # None => CycleOf(r)' = CycleOf(r)
  BY <1>1 DEF CycleOf
<1>15. plan # None => plan.cycle # None
  BY CycleAssumption DEF CycleInv, TypeOK, Times
<1>16. PlanCovers'
  BY <1>1, <1>2, <1>12, <1>13, <1>15 DEF CycleInv, PlanCovers
<1>17. Covered'
  <2>1. \A r \in DOMAIN runs : CycleOf(r) \subseteq DOMAIN runs
    BY DEF CycleOf
  <2> QED
    BY <1>1, <1>12, <1>14, <2>1 DEF CycleInv, Covered
<1>18. OwesTheRest'
  <2>1. \A r \in DOMAIN runs : Read(r) \subseteq Read(r)'
    BY <1>1 DEF Read, CycleOf
  <2>2. CycleIsWhole'
    BY <1>1, <2>1, CycleAssumption DEF CycleInv, OwesTheRest, CycleIsWhole, Read
  <2> QED
    BY <1>2, <2>2 DEF OwesTheRest
<1> QED
  BY <1>5, <1>6, <1>7, <1>8, <1>9, <1>10, <1>11, <1>16, <1>17, <1>18 DEF CycleInv

\* What a run is part of and what it attempted stay when it ends.
LEMMA InvEnded ==
    ASSUME CycleInv, NEW how \in {"ok", "failed"}, NEW at \in Times \union {None}, Ended(how, at),
           faults' \in 0..MaxFaults, crawling \in {"recorded", "working"},
           how = "ok" => crawling = "working" /\ todo = {} /\ lane[Current] = {} /\ Current \notin laneFailed
    PROVE  CycleInv'
<1> USE Basics
<1>0. PICK n \in DOMAIN runs : n = Current
  OBVIOUS
<1>1. /\ SameTable /\ Others(n)
      /\ runs'[n].finishedAt = now /\ runs'[n].ended = how
      /\ runs'[n].error = IF how = "ok" THEN "none" ELSE how
      /\ \A s \in DOMAIN runs :
            /\ runs'[s].startedAt = runs[s].startedAt
            /\ runs'[s].attempted = runs[s].attempted /\ runs'[s].resumed = runs[s].resumed
            /\ runs'[s].cycle = runs[s].cycle /\ runs'[s].partOf = runs[s].partOf
            /\ runs'[s].owed = runs[s].owed
  BY <1>0, EndNoted DEF CycleInv
<1>2. /\ crawling' = "no" /\ todo' = {} /\ batch' = {} /\ lock' = IF lock = "crawl" THEN None ELSE lock
      /\ UNCHANGED <<now, plan, up, lane, laneFailed>> /\ up
  BY DEF Ended
<1>3. Current' = n /\ DOMAIN runs' = DOMAIN runs
  BY <1>0, <1>1 DEF Current, SameTable
<1>4. now # None /\ how # None
  BY CycleAssumption DEF Times
<1>5. \A s \in DOMAIN runs : s # n => runs'[s] = runs[s]
  BY <1>1 DEF Others
<1>6. TypeOK'
  BY <1>1, <1>2, <1>3, CycleAssumption DEF CycleInv, TypeOK, SameTable
<1>7. Finishing'
  BY <1>0, <1>1, <1>2, <1>3, <1>4, <1>5 DEF CycleInv, Finishing
<1>8. InHand'
  <2>1. lock' # "crawl"
    BY <1>2, CycleAssumption
  <2>2. lane[n] # {} => how = "failed" /\ runs[n].partOf # None
    BY <1>0 DEF CycleInv, InHand
  <2>3. \A r \in RunIds : lane'[r] # {} => r \in DOMAIN runs' /\ runs'[r].partOf # None /\ runs'[r].ended = "failed"
    BY <1>0, <1>1, <1>2, <1>3, <1>5, <2>2 DEF CycleInv, InHand
  <2> QED
    BY <1>2, <2>1, <2>3 DEF InHand
<1>9. NamesItsCycle'
  BY <1>0, <1>1, <1>2, <1>3, <1>5 DEF CycleInv, NamesItsCycle
<1>10. InOrder'
  BY <1>1, <1>2, <1>3 DEF CycleInv, InOrder
<1>11. CyclesInOrder'
  BY <1>0, <1>1, <1>2, <1>3, <1>5 DEF CycleInv, CyclesInOrder
<1>12. Apart'
  BY <1>0, <1>1, <1>2, <1>3, <1>5 DEF CycleInv, Apart
<1>13. \A r \in DOMAIN runs : Taken(r)' = Taken(r) /\ CycleOf(r)' = CycleOf(r) /\ CycleOf(r) \subseteq DOMAIN runs
  BY <1>1, <1>2, <1>3 DEF Taken, CycleOf
<1>14. PlanCovers'
  BY <1>1, <1>2, <1>3, <1>13 DEF CycleInv, PlanCovers
<1>15. Covered'
  BY <1>1, <1>2, <1>3, <1>13 DEF CycleInv, Covered
<1>16. OwesTheRest'
  <2>1. \A r \in DOMAIN runs : Read(r)' = Read(r)
    BY <1>1, <1>13 DEF Read
  <2>2. how = "ok" => runs[n].owed \subseteq Read(n)
    BY <1>0 DEF CycleInv, OwesTheRest
  <2>3. CycleIsWhole'
    <3>1. \A r \in DOMAIN runs : runs[r].ended = "ok" => runs[r].owed \subseteq Read(r)
      BY DEF CycleInv, OwesTheRest, CycleIsWhole, Read
    <3>2. \A r \in DOMAIN runs : runs'[r].ended = "ok" => runs[r].owed \subseteq Read(r)
      BY <1>1, <1>5, <2>2, <3>1
    <3> QED
      BY <1>1, <1>3, <2>1, <3>2 DEF CycleIsWhole, Read
  <2> QED
    BY <1>2, <2>3 DEF OwesTheRest
<1> QED
  BY <1>6, <1>7, <1>8, <1>9, <1>10, <1>11, <1>12, <1>14, <1>15, <1>16 DEF CycleInv

LEMMA InvEnds ==
    ASSUME CycleInv, FinishRun \/ FailOfLane \/ FailHarvest \/ FailBatch \/ FailPublish
    PROVE  CycleInv'
<1> USE Basics
<1>1. faults' \in 0..MaxFaults
  BY CycleAssumption DEF CycleInv, TypeOK, FinishRun, FailOfLane, FailHarvest, FailBatch, FailPublish, Fault
<1>2. CASE FinishRun
  BY <1>1, <1>2, InvEnded DEF FinishRun, Joined
<1>3. CASE FailOfLane
  BY <1>1, <1>3, InvEnded DEF FailOfLane, Joined
<1>4. CASE FailHarvest
  BY <1>1, <1>4, InvEnded DEF FailHarvest
<1>5. CASE FailBatch
  <2>1. crawling = "working"
    BY <1>5 DEF FailBatch, CycleInv, InHand
  <2> QED
    BY <1>1, <1>5, <2>1, InvEnded DEF FailBatch
<1>6. CASE FailPublish
  BY <1>1, <1>6, InvEnded DEF FailPublish, Joined
<1> QED
  BY <1>2, <1>3, <1>4, <1>5, <1>6

LEMMA InvBoot == ASSUME CycleInv, Boot PROVE CycleInv'
<1> USE Basics
<1>1. /\ SameTable
      /\ \A s \in DOMAIN runs :
            /\ runs'[s].startedAt = runs[s].startedAt /\ runs'[s].finishedAt # None
            /\ runs'[s].attempted = runs[s].attempted /\ runs'[s].resumed = runs[s].resumed
            /\ runs'[s].cycle = runs[s].cycle /\ runs'[s].partOf = runs[s].partOf
            /\ runs'[s].owed = runs[s].owed
            /\ IF runs[s].finishedAt # None THEN runs'[s].error = runs[s].error /\ runs'[s].ended = runs[s].ended
               ELSE runs'[s].error = "interrupted" /\ runs'[s].ended = "interrupted"
  BY RunsInterrupted DEF CycleInv
<1>2. ~ up /\ up' = TRUE /\ crawling = "no" /\ UNCHANGED <<now, plan, crawling, todo, batch, lock, lane, laneFailed, faults>>
  BY DEF Boot, CycleInv, InHand
<1>3. Current' = Current /\ DOMAIN runs' = DOMAIN runs
  BY <1>1 DEF Current, SameTable
<1>4. None \notin {"ok", "failed", "interrupted", "crawl", "remote"}
  BY CycleAssumption
<1>6. TypeOK'
  BY <1>1, <1>2, <1>3 DEF CycleInv, TypeOK, SameTable
<1>7. Finishing'
  BY <1>1, <1>2, <1>3, <1>4 DEF CycleInv, Finishing
<1>8. InHand'
  BY <1>1, <1>2, <1>3, <1>4 DEF CycleInv, InHand, Finishing
<1>9. NamesItsCycle'
  BY <1>1, <1>2, <1>3 DEF CycleInv, NamesItsCycle
<1>10. InOrder'
  BY <1>1, <1>2, <1>3 DEF CycleInv, InOrder
<1>11. CyclesInOrder'
  BY <1>1, <1>2, <1>3 DEF CycleInv, CyclesInOrder
<1>12. Apart'
  BY <1>1, <1>2, <1>3, <1>4 DEF CycleInv, Apart, Finishing
<1>13. \A r \in DOMAIN runs : Taken(r)' = Taken(r) /\ CycleOf(r)' = CycleOf(r) /\ CycleOf(r) \subseteq DOMAIN runs
  BY <1>1, <1>2, <1>3 DEF Taken, CycleOf
<1>14. PlanCovers'
  BY <1>1, <1>2, <1>3, <1>13 DEF CycleInv, PlanCovers
<1>15. Covered'
  BY <1>1, <1>2, <1>3, <1>13 DEF CycleInv, Covered
<1>16. OwesTheRest'
  <2>1. \A r \in DOMAIN runs : Read(r)' = Read(r)
    BY <1>1, <1>13 DEF Read
  <2>2. \A r \in DOMAIN runs : runs'[r].ended = "ok" => runs[r].ended = "ok"
    BY <1>1
  <2>3. CycleIsWhole'
    BY <1>1, <1>3, <2>1, <2>2 DEF CycleInv, OwesTheRest, CycleIsWhole, Read
  <2> QED
    BY <1>2, <2>3 DEF OwesTheRest
<1> QED
  BY <1>6, <1>7, <1>8, <1>9, <1>10, <1>11, <1>12, <1>14, <1>15, <1>16 DEF CycleInv

-----------------------------------------------------------------------------
(* Commits.                                                                *)

\* An attempt moves a target from what the run has in hand to what it attempted.
LEMMA InvAttempt ==
    ASSUME CycleInv, TypeOK', NEW n \in DOMAIN runs, NEW t \in Targets,
           SameTable, Others(n), runs'[n].attempted = runs[n].attempted \union {t},
           \/ runs'[n].error = runs[n].error /\ runs'[n].cycle = runs[n].cycle
           \/ /\ crawling \in {"recorded", "working"}
              /\ runs'[n].error = "none" /\ runs'[n].cycle = runs[Current].cycle,
           \A s \in DOMAIN runs :
              /\ runs'[s].startedAt = runs[s].startedAt /\ runs'[s].finishedAt = runs[s].finishedAt
              /\ runs'[s].ended = runs[s].ended /\ runs'[s].owed = runs[s].owed
              /\ runs'[s].resumed = runs[s].resumed /\ runs'[s].partOf = runs[s].partOf,
           UNCHANGED <<now, plan, up, crawling, lock, laneFailed>>,
           \/ t \in todo /\ n = Current /\ todo' = todo \ {t} /\ UNCHANGED lane
           \/ t \in lane[n] /\ UNCHANGED todo /\ lane' = [lane EXCEPT ![n] = lane[n] \ {t}]
    PROVE  CycleInv'
<1> USE Basics
<1>1. Current' = Current /\ DOMAIN runs' = DOMAIN runs /\ n \in RunIds
  BY DEF Current, SameTable
<1>2. \A s \in DOMAIN runs : s # n => runs'[s] = runs[s]
  BY DEF Others
<1>3. todo \subseteq Endpoints /\ Endpoints \intersect Packages = {} /\ \A r \in RunIds : lane[r] \subseteq Packages
  BY CycleAssumption DEF CycleInv, TypeOK
<1>4. \A s \in RunIds : s # n => lane'[s] = lane[s]
  BY <1>1 DEF CycleInv, TypeOK
<1>5. lane'[n] = lane[n] \ {t}
  BY <1>1, <1>3 DEF CycleInv, TypeOK
<1>6. runs[n].partOf # None /\ ((n = Current /\ crawling = "working") \/ runs[n].ended = "failed")
  <2>1. CASE t \in todo /\ n = Current
    BY <2>1 DEF CycleInv, InHand, NamesItsCycle
  <2>2. CASE t \in lane[n]
    BY <1>1, <2>2 DEF CycleInv, InHand
  <2> QED
    BY <2>1, <2>2
<1>7. Finishing'
  BY <1>1, <1>2 DEF CycleInv, Finishing
<1>8. InHand'
  <2>1. crawling \in {"inserted", "recorded"} => n # Current
    BY <1>6 DEF CycleInv, InHand, Finishing
  <2>2. \A r \in RunIds : lane'[r] # {} => lane[r] # {}
    BY <1>4, <1>5
  <2> QED
    BY <1>1, <1>2, <1>4, <2>1, <2>2 DEF CycleInv, InHand
<1>9. NamesItsCycle'
  <2>1. crawling \in {"recorded", "working"} => runs[Current].cycle # None
    BY DEF CycleInv, NamesItsCycle
  <2>2. runs[n].cycle # None
    BY <1>6 DEF CycleInv, NamesItsCycle
  <2>3. runs'[n].cycle # None
    BY <2>1, <2>2
  <2>4. runs'[n].error # "none" \/ runs[n].finishedAt = None => runs'[n].cycle = runs[n].partOf
    BY <1>6 DEF CycleInv, NamesItsCycle, Finishing
  <2>5. \A s \in DOMAIN runs :
           /\ runs'[s].cycle = None <=> runs[s].partOf = None
           /\ runs'[s].error # "none" \/ runs[s].finishedAt = None => runs'[s].cycle = runs[s].partOf
           /\ runs'[s].attempted # {} => runs[s].partOf # None
    BY <1>2, <1>6, <2>3, <2>4 DEF CycleInv, NamesItsCycle
  <2> QED
    BY <1>1, <2>5 DEF CycleInv, NamesItsCycle
<1>10. InOrder' /\ CyclesInOrder'
  BY <1>1 DEF CycleInv, InOrder, CyclesInOrder
<1>11. Apart'
  <2> SUFFICES ASSUME NEW r \in DOMAIN runs, NEW s \in DOMAIN runs, r < s, runs[s].partOf # None, runs[r].partOf = runs[s].partOf
               PROVE  /\ runs'[r].attempted \intersect runs'[s].attempted \subseteq Packages
                      /\ runs[r].ended # "failed" => runs'[r].attempted \intersect (runs'[s].attempted \union lane'[s]) = {}
                      /\ s = Current => runs'[r].attempted \intersect todo' = {}
    BY <1>1 DEF Apart
  <2>1. /\ runs[r].attempted \intersect runs[s].attempted \subseteq Packages
        /\ runs[r].ended # "failed" => runs[r].attempted \intersect (runs[s].attempted \union lane[s]) = {}
        /\ s = Current => runs[r].attempted \intersect todo = {}
    BY DEF CycleInv, Apart
  <2>2. CASE r = n
    <3>1. runs[r].ended = "failed" /\ t \in Packages /\ UNCHANGED todo
      BY <1>1, <1>3, <1>6, <2>2
    <3>2. runs'[s] = runs[s] /\ t \notin todo
      BY <1>2, <1>3, <2>2, <3>1
    <3> QED
      BY <2>1, <2>2, <3>1, <3>2
  <2>3. CASE s = n
    <3>1. runs'[r] = runs[r] /\ todo' \subseteq todo
      BY <1>2, <2>3
    <3>2. (t \in todo /\ s = Current) \/ (t \in lane[s] /\ t \in Packages)
      BY <1>1, <1>3, <2>3
    <3> QED
      BY <1>5, <2>1, <2>3, <3>1, <3>2
  <2>4. CASE r # n /\ s # n
    BY <1>1, <1>2, <1>4, <2>1, <2>4
  <2> QED
    BY <2>2, <2>3, <2>4
<1>12. \A r \in DOMAIN runs : Taken(r)' = Taken(r)
  <2>1. Taken(n)' = Taken(n)
    BY <1>1, <1>3, <1>5 DEF Taken
  <2> QED
    BY <1>2, <1>4, <2>1 DEF Taken
<1>13. \A r \in DOMAIN runs : CycleOf(r)' = CycleOf(r) /\ CycleOf(r) \subseteq DOMAIN runs
  BY <1>1 DEF CycleOf
<1>14. PlanCovers'
  BY <1>1, <1>12, <1>13 DEF CycleInv, PlanCovers
<1>15. Covered'
  BY <1>1, <1>12, <1>13 DEF CycleInv, Covered
<1>16. OwesTheRest'
  <2>0. \A r \in DOMAIN runs : runs[r].attempted \subseteq runs'[r].attempted
    BY <1>2
  <2>1. \A r \in DOMAIN runs : Read(r) \subseteq Read(r)'
    BY <1>13, <2>0 DEF Read
  <2>2. n \in CycleOf(n)' /\ t \in Read(n)'
    BY <1>1, <1>13 DEF Read, CycleOf
  <2>3. CycleIsWhole'
    BY <1>1, <2>1 DEF CycleInv, OwesTheRest, CycleIsWhole, Read
  <2>4. todo \union lane[Current] \subseteq todo' \union lane'[Current] \union (IF n = Current THEN {t} ELSE {})
         \/ crawling # "working"
    BY <1>1, <1>4, <1>5
  <2>5. crawling = "working" => Read(Current)' = UNION {runs'[s].attempted : s \in CycleOf(Current)}
    BY <1>1, <1>13 DEF Read
  <2> QED
    BY <1>1, <2>1, <2>2, <2>3, <2>4 DEF CycleInv, OwesTheRest
<1> QED
  BY <1>7, <1>8, <1>9, <1>10, <1>11, <1>14, <1>15, <1>16 DEF CycleInv

LEMMA InvCommitEndpoint == ASSUME CycleInv, NEW e \in Endpoints, CommitEndpoint(e) PROVE CycleInv'
<1> USE Basics
<1>1. crawling = "working" /\ e \in todo /\ e \in Targets
  BY DEF CommitEndpoint, CycleInv, TypeOK, InHand, Targets
<1>2. PICK n \in DOMAIN runs : n = Current
  BY <1>1
<1>3. PICK saved : saved = Attempted(runs[n], e)
  OBVIOUS
<1>4. runs' = [runs EXCEPT ![n] = saved] /\ saved \in Checkpointed(Attempted(runs[n], e))
  BY <1>2, <1>3 DEF CommitEndpoint, Checkpointed
<1>5. /\ SameTable /\ Others(n) /\ runs'[n].attempted = runs[n].attempted \union {e}
      /\ \/ runs'[n].error = runs[n].error /\ runs'[n].cycle = runs[n].cycle
         \/ /\ crawling \in {"recorded", "working"}
            /\ runs'[n].error = "none" /\ runs'[n].cycle = runs[Current].cycle
      /\ \A s \in DOMAIN runs :
              /\ runs'[s].startedAt = runs[s].startedAt /\ runs'[s].finishedAt = runs[s].finishedAt
              /\ runs'[s].ended = runs[s].ended /\ runs'[s].owed = runs[s].owed
              /\ runs'[s].resumed = runs[s].resumed /\ runs'[s].partOf = runs[s].partOf
  BY <1>1, <1>4, AttemptNoted DEF CycleInv
<1>6. TypeOK'
  BY <1>5 DEF CommitEndpoint, CycleInv, TypeOK, SameTable
<1> QED
  BY <1>1, <1>2, <1>5, <1>6, InvAttempt DEF CommitEndpoint

LEMMA InvCommitPackage == ASSUME CycleInv, NEW n \in RunIds, NEW p \in Packages, CommitPackage(n, p) PROVE CycleInv'
<1> USE Basics
<1>1. n \in DOMAIN runs /\ p \in Targets
  BY DEF CommitPackage, CycleInv, InHand, Targets
<1>2. PICK saved \in Checkpointed(Attempted(runs[n], p)) : runs' = [runs EXCEPT ![n] = saved]
  BY DEF CommitPackage
<1>3. /\ SameTable /\ Others(n) /\ runs'[n].attempted = runs[n].attempted \union {p}
      /\ \/ runs'[n].error = runs[n].error /\ runs'[n].cycle = runs[n].cycle
         \/ /\ crawling \in {"recorded", "working"}
            /\ runs'[n].error = "none" /\ runs'[n].cycle = runs[Current].cycle
      /\ \A s \in DOMAIN runs :
              /\ runs'[s].startedAt = runs[s].startedAt /\ runs'[s].finishedAt = runs[s].finishedAt
              /\ runs'[s].ended = runs[s].ended /\ runs'[s].owed = runs[s].owed
              /\ runs'[s].resumed = runs[s].resumed /\ runs'[s].partOf = runs[s].partOf
  BY <1>1, <1>2, AttemptNoted DEF CycleInv
<1>4. /\ p \in lane[n] /\ lane' = [lane EXCEPT ![n] = lane[n] \ {p}]
      /\ UNCHANGED <<now, plan, up, crawling, todo, batch, lock, laneFailed, faults>>
  BY DEF CommitPackage
<1>5. TypeOK'
  BY <1>3, <1>4 DEF CycleInv, TypeOK, SameTable
<1> QED
  BY <1>1, <1>3, <1>4, <1>5, InvAttempt

\* A checkpoint of the run under way changes nothing that matters.
LEMMA InvLeaveBatch == ASSUME CycleInv, LeaveBatch PROVE CycleInv'
<1> USE Basics
<1>1. crawling = "working"
  BY DEF LeaveBatch, CycleInv, InHand
<1>2. PICK n \in DOMAIN runs : n = Current
  BY <1>1
<1>3. PICK saved \in Checkpointed(runs[n]) : runs' = [runs EXCEPT ![n] = saved]
  BY <1>2 DEF LeaveBatch
<1>4. /\ SameTable
      /\ \A s \in DOMAIN runs :
            /\ runs'[s].startedAt = runs[s].startedAt /\ runs'[s].finishedAt = runs[s].finishedAt
            /\ runs'[s].error = runs[s].error /\ runs'[s].ended = runs[s].ended
            /\ runs'[s].attempted = runs[s].attempted /\ runs'[s].resumed = runs[s].resumed
            /\ runs'[s].cycle = runs[s].cycle /\ runs'[s].partOf = runs[s].partOf
            /\ runs'[s].owed = runs[s].owed
  BY <1>1, <1>2, <1>3, CheckpointNoted DEF CycleInv
<1>5. UNCHANGED <<now, plan, up, crawling, todo, batch, lane, laneFailed, faults>> /\ lock' = None /\ batch = {}
  BY DEF LeaveBatch
<1>6. Current' = Current /\ DOMAIN runs' = DOMAIN runs
  BY <1>4 DEF Current, SameTable
<1>7. TypeOK'
  BY <1>4, <1>5 DEF CycleInv, TypeOK, SameTable
<1>8. Finishing' /\ NamesItsCycle'
  <2>1. Finishing'
    BY <1>4, <1>5, <1>6 DEF CycleInv, Finishing
  <2>2. NamesItsCycle'
    BY <1>4, <1>5, <1>6 DEF CycleInv, NamesItsCycle
  <2> QED
    BY <2>1, <2>2
<1>9. InHand'
  BY <1>4, <1>5, <1>6, <1>1 DEF CycleInv, InHand
<1>10. InOrder' /\ CyclesInOrder'
  <2>1. InOrder'
    BY <1>4, <1>5, <1>6 DEF CycleInv, InOrder
  <2>2. CyclesInOrder'
    BY <1>4, <1>5, <1>6 DEF CycleInv, CyclesInOrder
  <2> QED
    BY <2>1, <2>2
<1>11. Apart'
  BY <1>4, <1>5, <1>6 DEF CycleInv, Apart
<1>12. \A r \in DOMAIN runs : Taken(r)' = Taken(r) /\ CycleOf(r)' = CycleOf(r) /\ CycleOf(r) \subseteq DOMAIN runs
  BY <1>4, <1>5, <1>6 DEF Taken, CycleOf
<1>13. PlanCovers' /\ Covered'
  BY <1>4, <1>5, <1>6, <1>12 DEF CycleInv, PlanCovers, Covered
<1>14. OwesTheRest'
  <2>0. \A s \in DOMAIN runs : runs'[s].attempted = runs[s].attempted
    BY <1>4
  <2>1. \A r \in DOMAIN runs : Read(r)' = Read(r)
    BY <1>12, <2>0 DEF Read
  <2>2. CycleIsWhole'
    BY <1>4, <1>6, <2>1 DEF CycleInv, OwesTheRest, CycleIsWhole, Read
  <2>3. Read(Current)' = Read(Current)
    BY <1>1, <1>6, <2>1
  <2> QED
    BY <1>1, <1>4, <1>5, <1>6, <2>2, <2>3 DEF CycleInv, OwesTheRest
<1> QED
  BY <1>7, <1>8, <1>9, <1>10, <1>11, <1>13, <1>14 DEF CycleInv

-----------------------------------------------------------------------------
(* The cycle a run continues.                                              *)

LEMMA MinIsLeast ==
    ASSUME NEW S \in SUBSET Nat, S # {}
    PROVE  Min(S) \in S /\ \A y \in S : Min(S) <= y
<1> DEFINE R == OpToRel(<, Nat)
<1>1. PICK x \in S : \A y \in S : ~(<<y, x>> \in R)
  <2>1. IsWellFoundedOn(R, Nat)
    BY NatLessThanWellFounded, Zenon
  <2> HIDE DEF R
  <2> QED
    BY <2>1, WFMin, Zenon
<1>2. \A y \in S : ~(y < x)
  BY <1>1, Zenon DEF OpToRel
<1>3. \A y \in S : x <= y
  BY <1>2
<1> QED
  BY <1>3 DEF Min

LEMMA LastOfSome ==
    ASSUME NEW b \in Nat, NEW S \in SUBSET (1..b), S # {}
    PROVE  \E x \in S : \A y \in S : y <= x
<1> DEFINE T == {b - x : x \in S}
<1>0. \A x \in S : x \in Nat /\ b - x \in Nat
  OBVIOUS
<1>1. T \in SUBSET Nat /\ T # {}
  BY <1>0
<1>2. PICK m \in T : \A y \in T : m <= y
  <2> HIDE DEF T
  <2> QED
    BY <1>1, MinIsLeast
<1>3. PICK x \in S : m = b - x
  BY <1>2
<1>4. \A y \in S : b - x <= b - y
  BY <1>2, <1>3
<1> QED
  BY <1>0, <1>3, <1>4

LEMMA StartsOfCycles ==
    ASSUME CycleInv, NEW rs \in SUBSET DOMAIN runs
    PROVE  /\ {CycleStart(r) : r \in rs} \in SUBSET Nat
           /\ rs # {} => \E m \in rs : /\ EarliestStart(rs) = CycleStart(m)
                                       /\ \A r \in rs : EarliestStart(rs) <= CycleStart(r)
<1>1. \A r \in rs : CycleStart(r) \in Nat
  <2> TAKE r \in rs
  <2>1. runs[r].startedAt \in Times /\ runs[r].cycle \in Times \union {None}
    BY RowIsRun DEF CycleInv
  <2> QED
    BY <2>1 DEF CycleStart, Times
<1>2. {CycleStart(r) : r \in rs} \in SUBSET Nat
  BY <1>1
<1>3. CASE rs # {}
  <2>1. PICK starts : starts = {CycleStart(r) : r \in rs}
    OBVIOUS
  <2>2. starts \in SUBSET Nat /\ starts # {}
    BY <1>2, <1>3, <2>1
  <2>3. Min(starts) \in starts /\ \A y \in starts : Min(starts) <= y
    BY <2>2, MinIsLeast
  <2>4. EarliestStart(rs) = Min(starts)
    BY <2>1 DEF EarliestStart
  <2>5. PICK m \in rs : Min(starts) = CycleStart(m)
    BY <2>1, <2>3
  <2>6. \A r \in rs : CycleStart(r) \in starts
    BY <2>1
  <2> QED
    BY <1>2, <2>3, <2>4, <2>5, <2>6
<1> QED
  BY <1>2, <1>3

\* What a run of the chain says of its cycle is true.
LEMMA ChainMember ==
    ASSUME CycleInv, crawling = "inserted", NEW r \in Chain(Current)
    PROVE  /\ r \in DOMAIN runs /\ r < Current /\ runs[r].ended # "ok"
           /\ CycleStart(r) = IF runs[r].partOf = None THEN runs[r].startedAt ELSE runs[r].partOf
           /\ \A s \in r..Current - 1 : s \in Chain(Current) /\ Continues(s, s + 1..Current - 1)
<1> USE Basics
<1>1. r \in 1..Current - 1 /\ \A q \in r..Current - 1 : Continues(q, q + 1..Current - 1)
  BY DEF Chain
<1>2. r \in DOMAIN runs /\ r < Current
  BY <1>1
<1>3. \A s \in r..Current - 1 : s \in Chain(Current) /\ Continues(s, s + 1..Current - 1)
  BY <1>1, <1>2 DEF Chain
<1>4. runs[r].finishedAt # None /\ runs[r].error # "none"
  BY <1>2, <1>3 DEF Continues
<1>5. runs[r].ended # "ok" /\ runs[r].cycle = runs[r].partOf
  <2>1. runs[r].ended = runs[r].error \/ runs[r].error = "none"
    BY <1>2, <1>4 DEF CycleInv, Finishing
  <2>2. runs[r].error \in {"none", "failed", "interrupted"}
    <3>1. runs[r] \in Run
      BY <1>2, RowIsRun DEF CycleInv
    <3> QED
      BY <3>1 DEF Run
  <2>3. runs[r].cycle = runs[r].partOf
    BY <1>2, <1>4 DEF CycleInv, NamesItsCycle
  <2> QED
    BY <1>4, <2>1, <2>2, <2>3
<1> QED
  BY <1>2, <1>3, <1>5 DEF CycleStart

(***************************************************************************)
(* The cycle the chain resumes is the latest: no run is part of a later    *)
(* one, and those that started in it are part of it or of none.            *)
(***************************************************************************)
LEMMA ResumedIsLatest ==
    ASSUME CycleInv, crawling = "inserted", Chain(Current) # {}, NEW c, c = EarliestStart(Chain(Current))
    PROVE  /\ c \in Times /\ c < runs[Current].startedAt
           /\ \A r \in DOMAIN runs : r < Current =>
                 /\ runs[r].partOf # None => runs[r].partOf <= c
                 /\ runs[r].partOf # None /\ runs[r].startedAt >= c => runs[r].partOf = c
                 /\ runs[r].ended = "ok" => runs[r].startedAt < c
<1> USE Basics
<1> DEFINE chain == Chain(Current)
<1>1. chain \subseteq DOMAIN runs /\ chain \subseteq 1..Current
  BY DEF Chain
<1>2. \E m \in chain : c = CycleStart(m) /\ \A r \in chain : c <= CycleStart(r)
  BY <1>1, StartsOfCycles
<1>3. PICK m \in chain : c = CycleStart(m) /\ \A r \in chain : CycleStart(r) = c => r <= m
  <2>1. {r \in chain : CycleStart(r) = c} \in SUBSET (1..Current) /\ {r \in chain : CycleStart(r) = c} # {}
    BY <1>1, <1>2
  <2> QED
    BY <2>1, LastOfSome
<1>4. \A r \in chain : c <= CycleStart(r)
  BY <1>2
<1>5. \A r \in chain : /\ r \in DOMAIN runs /\ r < Current /\ runs[r].ended # "ok"
                       /\ CycleStart(r) = IF runs[r].partOf = None THEN runs[r].startedAt ELSE runs[r].partOf
  BY ChainMember
<1>6. \A r \in DOMAIN runs : r < Current /\ m <= r => r \in chain
  BY <1>5, ChainMember
<1>7. (\E s \in m + 1..Current - 1 : runs[s].cycle # None) => runs[m].startedAt >= EarliestStart(m + 1..Current - 1)
  <2>1. Continues(m, m + 1..Current - 1)
    BY <1>5, ChainMember
  <2> QED
    BY <2>1 DEF Continues
<1> HIDE DEF chain
\* After m, no run of the chain is part of a cycle.
<1>8. \A r \in DOMAIN runs : m < r /\ r < Current => runs[r].partOf = None
  <2> SUFFICES ASSUME NEW r \in DOMAIN runs, m < r, r < Current, runs[r].partOf # None PROVE FALSE
    OBVIOUS
  <2>1. m \in DOMAIN runs /\ r \in m + 1..Current - 1 /\ m + 1..Current - 1 \in SUBSET DOMAIN runs
    BY <1>5
  <2>2. runs[r].cycle # None
    BY DEF CycleInv, NamesItsCycle
  <2>3. PICK k \in m + 1..Current - 1 : EarliestStart(m + 1..Current - 1) = CycleStart(k)
    BY <2>1, StartsOfCycles
  <2>4. runs[m].startedAt >= CycleStart(k)
    BY <1>7, <2>1, <2>2, <2>3
  <2>5. k \in DOMAIN runs /\ m < k /\ k \in chain
    BY <1>6, <2>1
  <2>6. CycleStart(k) # c /\ c <= CycleStart(k)
    BY <1>3, <1>4, <2>1, <2>5
  <2>7. runs[m].startedAt < runs[k].startedAt
    BY <2>1, <2>5 DEF CycleInv, InOrder
  <2>8. runs[k].partOf # None /\ CycleStart(k) = runs[k].partOf
    BY <1>5, <2>1, <2>4, <2>5, <2>7
  <2>9. CASE runs[m].partOf = None
    <3>1. c = runs[m].startedAt
      BY <1>3, <1>5, <2>9
    <3> QED
      BY <2>1, <2>4, <2>5, <2>6, <2>8, <3>1
  <2>10. CASE runs[m].partOf # None
    <3>1. runs[m].partOf = runs[k].partOf
      BY <2>1, <2>4, <2>5, <2>8, <2>10 DEF CycleInv, CyclesInOrder
    <3> QED
      BY <1>3, <1>5, <2>6, <2>8, <2>10, <3>1
  <2> QED
    BY <2>9, <2>10
<1>9. m \in DOMAIN runs /\ m < Current
  BY <1>5
<1>10. c \in Times /\ c <= runs[m].startedAt
  <2>1. runs[m].startedAt \in Times /\ runs[m].partOf \in Times \union {None}
    BY <1>9, RowIsRun DEF CycleInv
  <2>2. runs[m].partOf # None => runs[m].partOf <= runs[m].startedAt
    BY <1>9 DEF CycleInv, NamesItsCycle
  <2> QED
    BY <1>3, <1>5, <2>1, <2>2 DEF Times
<1>11. c < runs[Current].startedAt
  <2>1. runs[m].startedAt < runs[Current].startedAt
    BY <1>9 DEF CycleInv, InOrder
  <2> QED
    BY <1>9, <1>10, <2>1 DEF Times
<1>12. ASSUME NEW r \in DOMAIN runs, r < Current
       PROVE  /\ runs[r].partOf # None => runs[r].partOf <= c
              /\ runs[r].partOf # None /\ runs[r].startedAt >= c => runs[r].partOf = c
              /\ runs[r].ended = "ok" => runs[r].startedAt < c
  <2>0. c \in Nat
    BY <1>10 DEF Times
  <2>1. CASE r < m
    <3>1. CASE runs[m].partOf # None
      <4>1. c = runs[m].partOf
        BY <1>3, <1>5, <3>1
      <4> QED
        BY <1>9, <2>1, <3>1, <4>1 DEF CycleInv, CyclesInOrder
    <3>2. CASE runs[m].partOf = None
      <4>1. c = runs[m].startedAt
        BY <1>3, <1>5, <3>2
      <4>2. runs[r].startedAt < c /\ (runs[r].partOf # None => runs[r].partOf <= runs[r].startedAt)
        BY <1>9, <2>1, <4>1 DEF CycleInv, InOrder, NamesItsCycle
      <4> QED
        BY <2>0, <4>2
    <3> QED
      BY <3>1, <3>2
  <2>2. CASE r = m
    <3>1. runs[m].ended # "ok" /\ (runs[m].partOf # None => runs[m].partOf = c)
      BY <1>3, <1>5
    <3> QED
      BY <2>0, <2>2, <3>1
  <2>3. CASE m < r
    <3>1. m <= r
      BY <1>9, <2>3
    <3>2. r \in chain /\ runs[r].partOf = None
      BY <1>6, <1>8, <1>12, <2>3, <3>1
    <3> QED
      BY <1>5, <3>2
  <2> QED
    BY <1>9, <2>1, <2>2, <2>3
<1> QED
  BY <1>10, <1>11, <1>12

LEMMA InvRecordCycle == ASSUME CycleInv, RecordCycle PROVE CycleInv'
<1> USE Basics
<1>1. crawling = "inserted" /\ crawling' = "recorded" /\ UNCHANGED <<now, plan, up, todo, batch, lock, lane, laneFailed, faults>>
  BY DEF RecordCycle
<1>2. PICK n \in DOMAIN runs : n = Current
  BY <1>1
<1>3. PICK resume : resume = ResumePoint(n)
  OBVIOUS
<1>4. PICK c : c = IF resume # None THEN resume ELSE runs[n].startedAt
  OBVIOUS
<1>40. PICK a \in BOOLEAN : a = (resume # None)
  BY Zenon
<1>5. runs' = [runs EXCEPT ![n].resumed = a, ![n].cycle = c, ![n].partOf = c]
  BY <1>2, <1>3, <1>4, <1>40 DEF RecordCycle
\* The run continues the chain's cycle, or starts one of its own.
<1>6. /\ c \in Times /\ c <= runs[n].startedAt /\ (resume = None => c = runs[n].startedAt)
      /\ \A r \in DOMAIN runs : r < n =>
            /\ runs[r].partOf # None => runs[r].partOf <= c
            /\ runs[r].partOf # None /\ runs[r].startedAt >= c => runs[r].partOf = c
            /\ runs[r].ended = "ok" => runs[r].startedAt < c
  <2>1. CASE resume = None
    <3>1. c = runs[n].startedAt /\ c \in Times
      BY <1>4, <2>1, RowIsRun DEF CycleInv
    <3>2. \A r \in DOMAIN runs : r < n => runs[r].startedAt < c /\ (runs[r].partOf # None => runs[r].partOf <= runs[r].startedAt)
      BY <3>1 DEF CycleInv, InOrder, NamesItsCycle
    <3> QED
      BY <2>1, <3>1, <3>2 DEF Times
  <2>2. CASE resume # None
    <3>1. Chain(Current) # {} /\ c = EarliestStart(Chain(Current))
      BY <1>2, <1>3, <1>4, <2>2 DEF ResumePoint
    <3>2. /\ c \in Times /\ c < runs[Current].startedAt
          /\ \A r \in DOMAIN runs : r < Current =>
                /\ runs[r].partOf # None => runs[r].partOf <= c
                /\ runs[r].partOf # None /\ runs[r].startedAt >= c => runs[r].partOf = c
                /\ runs[r].ended = "ok" => runs[r].startedAt < c
      BY <1>1, <3>1, ResumedIsLatest
    <3>3. c <= runs[n].startedAt
      BY <1>2, <3>2 DEF Times
    <3> QED
      BY <1>2, <2>2, <3>2, <3>3
  <2> QED
    BY <2>1, <2>2
<1>7. /\ SameTable /\ Others(n)
      /\ runs'[n].resumed = a /\ runs'[n].cycle = c /\ runs'[n].partOf = c
      /\ \A s \in DOMAIN runs :
            /\ runs'[s].startedAt = runs[s].startedAt /\ runs'[s].finishedAt = runs[s].finishedAt
            /\ runs'[s].error = runs[s].error /\ runs'[s].ended = runs[s].ended
            /\ runs'[s].attempted = runs[s].attempted /\ runs'[s].owed = runs[s].owed
  <2>1. TypeOK /\ c \in Times
    BY <1>6 DEF CycleInv
  <2>2. PICK row : row = [runs[n] EXCEPT !.resumed = a, !.cycle = c, !.partOf = c]
    OBVIOUS
  <2>3. runs' = [runs EXCEPT ![n] = row]
    BY <1>5, <2>2
  <2> QED
    BY <2>1, <2>2, <2>3, CycleRecorded
<1>8. Current' = n /\ DOMAIN runs' = DOMAIN runs /\ \A s \in DOMAIN runs : s <= n
  BY <1>2, <1>7 DEF Current, SameTable
<1>41. ~ runs'[n].resumed => resume = None
  BY <1>40, <1>7, Zenon
<1>9. \A s \in DOMAIN runs : s # n => runs'[s] = runs[s]
  BY <1>7 DEF Others
<1>10. c # None /\ c \in Nat /\ runs[n].partOf = None /\ runs[n].attempted = {} /\ lane[n] = {} /\ runs[n].ended = None
  BY <1>1, <1>2, <1>6, CycleAssumption DEF CycleInv, InHand, NamesItsCycle, Times
<1>11. TypeOK'
  BY <1>1, <1>7 DEF CycleInv, TypeOK, SameTable
<1>12. Finishing'
  BY <1>1, <1>2, <1>7, <1>8 DEF CycleInv, Finishing
<1>13. InHand'
  <2>1. \A r \in RunIds : lane[r] # {} => r \in DOMAIN runs /\ r # n /\ runs[r].partOf # None /\ runs[r].ended = "failed"
    BY <1>1, <1>2, <1>10 DEF CycleInv, InHand
  <2> QED
    BY <1>1, <1>2, <1>7, <1>8, <1>9, <1>10, <2>1 DEF CycleInv, InHand
<1>14. NamesItsCycle'
  <2>1. \A s \in DOMAIN runs :
           /\ runs'[s].cycle = None <=> runs'[s].partOf = None
           /\ runs'[s].error # "none" \/ runs'[s].finishedAt = None => runs'[s].cycle = runs'[s].partOf
           /\ runs'[s].partOf # None => runs'[s].partOf <= runs'[s].startedAt
           /\ runs'[s].partOf # None /\ ~runs'[s].resumed => runs'[s].partOf = runs'[s].startedAt
           /\ runs'[s].attempted # {} => runs'[s].partOf # None
    <3> TAKE s \in DOMAIN runs
    <3>1. CASE s = n
      BY <1>6, <1>7, <1>10, <1>41, <3>1
    <3>2. CASE s # n
      BY <1>9, <3>2 DEF CycleInv, NamesItsCycle
    <3> QED
      BY <3>1, <3>2
  <2> QED
    BY <1>1, <1>7, <1>8, <1>10, <2>1 DEF NamesItsCycle
<1>15. InOrder'
  BY <1>1, <1>7, <1>8 DEF CycleInv, InOrder
<1>16. CyclesInOrder'
  <2> SUFFICES ASSUME NEW r \in DOMAIN runs, NEW s \in DOMAIN runs, r < s, runs'[s].partOf # None
               PROVE  /\ runs'[r].partOf # None => runs'[r].partOf <= runs'[s].partOf
                      /\ runs'[r].partOf # None /\ runs'[r].startedAt >= runs'[s].partOf => runs'[r].partOf = runs'[s].partOf
                      /\ runs'[r].ended = "ok" => runs'[r].startedAt < runs'[s].partOf
    BY <1>8 DEF CyclesInOrder
  <2>1. r # n /\ runs'[r] = runs[r]
    BY <1>8, <1>9
  <2>2. CASE s = n
    BY <1>6, <1>7, <2>1, <2>2
  <2>3. CASE s # n
    BY <1>9, <2>1, <2>3 DEF CycleInv, CyclesInOrder
  <2> QED
    BY <2>2, <2>3
<1>17. Apart'
  <2> SUFFICES ASSUME NEW r \in DOMAIN runs, NEW s \in DOMAIN runs, r < s, runs'[s].partOf # None, runs'[r].partOf = runs'[s].partOf
               PROVE  /\ runs'[r].attempted \intersect runs'[s].attempted \subseteq Packages
                      /\ runs'[r].ended # "failed" => runs'[r].attempted \intersect (runs'[s].attempted \union lane'[s]) = {}
                      /\ s = Current' => runs'[r].attempted \intersect todo' = {}
    BY <1>8 DEF Apart
  <2>1. r # n /\ runs'[r] = runs[r]
    BY <1>8, <1>9
  <2>2. todo' = {}
    BY <1>1 DEF CycleInv, InHand
  <2>3. CASE s = n
    BY <1>1, <1>7, <1>10, <2>2, <2>3
  <2>4. CASE s # n
    BY <1>1, <1>9, <2>1, <2>2, <2>4 DEF CycleInv, Apart
  <2> QED
    BY <2>3, <2>4
<1>18. \A r \in DOMAIN runs : Taken(r)' = Taken(r)
  BY <1>1, <1>7, <1>8 DEF Taken
<1>19. Taken(n) = {}
  BY <1>10 DEF Taken
<1>20. plan # None => plan.cycle # None
  BY CycleAssumption DEF CycleInv, TypeOK, Times
<1>21. PlanCovers'
  <2>1. plan # None =>
          /\ \E r \in DOMAIN runs : r # n /\ runs[r].partOf = plan.cycle
          /\ \A r \in DOMAIN runs : runs'[r].partOf = plan.cycle => Taken(r) \subseteq plan.due
    BY <1>9, <1>10, <1>19, <1>20 DEF CycleInv, PlanCovers
  <2>2. \A r \in DOMAIN runs : Taken(r) # {} => plan # None /\ runs'[r].partOf <= plan.cycle
    BY <1>9, <1>19 DEF CycleInv, PlanCovers
  <2> QED
    BY <1>1, <1>8, <1>9, <1>18, <2>1, <2>2 DEF CycleInv, PlanCovers
<1>22. Covered'
  <2> SUFFICES ASSUME NEW r \in DOMAIN runs, runs'[r].partOf # None
               PROVE  \E most \in SUBSET Packages :
                          Cardinality(most) <= Budget /\ \A s \in DOMAIN runs : runs'[s].partOf = runs'[r].partOf => Taken(s) \subseteq most
    BY <1>8, <1>18 DEF Covered, CycleOf
  <2>1. CASE \E q \in DOMAIN runs : q # n /\ runs[q].partOf = runs'[r].partOf
    <3>1. PICK q \in DOMAIN runs : q # n /\ runs[q].partOf = runs'[r].partOf
      BY <2>1
    <3>2. PICK most \in SUBSET Packages : Cardinality(most) <= Budget
              /\ \A s \in DOMAIN runs : runs[s].partOf = runs[q].partOf => Taken(s) \subseteq most
      BY <3>1 DEF CycleInv, Covered, CycleOf
    <3>3. \A s \in DOMAIN runs : runs'[s].partOf = runs'[r].partOf => Taken(s) \subseteq most
      BY <1>9, <1>19, <3>1, <3>2
    <3> QED
      BY <3>2, <3>3
  <2>2. CASE ~ \E q \in DOMAIN runs : q # n /\ runs[q].partOf = runs'[r].partOf
    <3>1. \A s \in DOMAIN runs : runs'[s].partOf = runs'[r].partOf => Taken(s) \subseteq {}
      BY <1>9, <1>19, <2>2
    <3>2. Cardinality({}) <= Budget
      BY FS_EmptySet, CycleAssumption
    <3> QED
      BY <3>1, <3>2
  <2> QED
    BY <2>1, <2>2
<1>23. OwesTheRest'
  <2>1. \A r \in DOMAIN runs : Read(r) \subseteq Read(r)'
    <3> SUFFICES ASSUME NEW r \in DOMAIN runs, NEW t, NEW s \in CycleOf(r), t \in runs[s].attempted PROVE t \in Read(r)'
      BY DEF Read
    <3>1. s \in DOMAIN runs /\ runs[s].partOf = runs[r].partOf
      BY DEF CycleOf
    <3>2. s # n /\ runs[s].partOf # None
      BY <1>10, <3>1 DEF CycleInv, NamesItsCycle
    <3>3. r # n
      BY <1>10, <3>1, <3>2
    <3>4. s \in CycleOf(r)'
      BY <1>8, <1>9, <3>1, <3>2, <3>3 DEF CycleOf
    <3> QED
      BY <1>7, <3>1, <3>4 DEF Read
  <2>2. CycleIsWhole'
    BY <1>7, <1>8, <2>1 DEF CycleInv, OwesTheRest, CycleIsWhole, Read
  <2> QED
    BY <1>1, <2>2 DEF OwesTheRest
<1> QED
  BY <1>11, <1>12, <1>13, <1>14, <1>15, <1>16, <1>17, <1>21, <1>22, <1>23 DEF CycleInv

-----------------------------------------------------------------------------
(* What a run takes of its cycle.                                          *)

\* Another run of the cycle, earlier, says what to skip; the lanes of a plan are the cycle's.
LEMMA EarlierOfTheCycle ==
    ASSUME CycleInv, crawling = "recorded", NEW r \in DOMAIN runs, r < Current, runs[r].partOf = runs[Current].partOf
    PROVE  runs[Current].resumed /\ runs[r].attempted \subseteq Skipped
<1> USE Basics
<1> DEFINE c == runs[Current].partOf
<1>1. Current \in DOMAIN runs /\ c # None /\ c \in Nat /\ runs[Current].cycle = c
  BY DEF CycleInv, NamesItsCycle
<1>2. runs[r].startedAt < runs[Current].startedAt /\ c <= runs[r].startedAt
  BY <1>1 DEF CycleInv, InOrder, NamesItsCycle
<1>3. runs[Current].resumed
  BY <1>1, <1>2 DEF CycleInv, NamesItsCycle
<1>4. r \in Since(c)
  BY <1>1, <1>2 DEF Since
<1> QED
  BY <1>1, <1>3, <1>4 DEF Skipped, AttemptedSince

\* What is skipped, a run of the cycle attempted.
LEMMA SkippedWasRead == ASSUME CycleInv, crawling = "recorded" PROVE Skipped \subseteq Read(Current)
<1> USE Basics
<1> SUFFICES ASSUME NEW t \in Skipped PROVE t \in Read(Current)
  OBVIOUS
<1> DEFINE c == runs[Current].partOf
<1>1. Current \in DOMAIN runs /\ c # None /\ c \in Nat /\ runs[Current].cycle = c /\ runs[Current].attempted = {}
  BY DEF CycleInv, NamesItsCycle, InHand
<1>2. PICK r \in Since(c) : t \in runs[r].attempted
  BY <1>1 DEF Skipped, AttemptedSince
<1>3. r \in DOMAIN runs /\ r # Current /\ r < Current /\ runs[r].startedAt >= c /\ runs[r].partOf # None
  BY <1>1, <1>2 DEF Since, CycleInv, NamesItsCycle
<1>4. runs[r].partOf = c
  BY <1>1, <1>3 DEF CycleInv, CyclesInOrder
<1> QED
  BY <1>2, <1>3, <1>4 DEF Read, CycleOf

\* A new plan is within the budget.
LEMMA PlannableIsBounded ==
    ASSUME NEW listed, NEW packages \in SUBSET Packages, NEW due \in Plannable(listed, packages)
    PROVE  due \in SUBSET packages /\ Cardinality(due) <= Budget
<1> DEFINE spent == listed \intersect Skipped \intersect Packages
<1>1. IsFiniteSet(spent) /\ IsFiniteSet(due) /\ due \in SUBSET packages
  BY FS_Subset, CycleAssumption DEF Plannable
<1>2. Cardinality(spent) \in Nat /\ Cardinality(due) \in Nat /\ Budget \in Nat
  BY <1>1, FS_CardinalityType, CycleAssumption
<1>3. Cardinality(due) <= (IF runs[Current].resumed THEN Budget - Cardinality(spent) ELSE Budget) \/ due = {}
  BY DEF Plannable
<1>4. due = {} => Cardinality(due) = 0
  BY FS_EmptySet
<1> HIDE DEF spent
<1> QED
  BY <1>1, <1>2, <1>3, <1>4

\* Without a plan of its cycle to go on with, no run of the cycle took a package.
LEMMA NothingTakenYet ==
    ASSUME CycleInv, crawling = "recorded", ~ HasPlan,
           NEW r \in DOMAIN runs, r # Current, runs[r].partOf = runs[Current].partOf
    PROVE  Taken(r) = {}
<1> USE Basics
<1>1. PICK c : c = runs[Current].partOf
  OBVIOUS
<1>2. Current \in DOMAIN runs /\ c # None /\ c \in Nat /\ runs[Current].cycle = c /\ runs[r].partOf = c /\ r < Current
  BY <1>1 DEF CycleInv, NamesItsCycle
<1>3. runs[Current].resumed
  BY <1>2, EarlierOfTheCycle
<1> SUFFICES ASSUME Taken(r) # {} PROVE FALSE
  OBVIOUS
<1>4. plan # None /\ c <= plan.cycle
  BY <1>2 DEF CycleInv, PlanCovers
<1>5. plan.cycle # c
  BY <1>2, <1>3, <1>4 DEF HasPlan
<1>6. PICK q \in DOMAIN runs : runs[q].partOf = plan.cycle
  BY <1>4 DEF CycleInv, PlanCovers
<1>7. plan.cycle \in Nat /\ plan.cycle # None
  BY <1>4, CycleAssumption DEF CycleInv, TypeOK, Times
<1>8. q # Current /\ q < Current
  BY <1>1, <1>2, <1>5, <1>6
<1>9. plan.cycle <= c
  BY <1>1, <1>2, <1>6, <1>7, <1>8 DEF CycleInv, CyclesInOrder
<1> QED
  BY <1>2, <1>4, <1>5, <1>7, <1>9

LEMMA InvHarvest == ASSUME CycleInv, NEW listed \in Listings, Harvest(listed) PROVE CycleInv'
<1> USE Basics
<1>1. PICK n \in DOMAIN runs : n = Current
  BY DEF Harvest
<1>2. PICK c : c = runs[n].partOf
  OBVIOUS
<1>3. PICK packages : packages = (listed \ Skipped) \intersect Packages
  OBVIOUS
<1>4. PICK remote : remote = IF runs[n].withRemote THEN Endpoints ELSE {}
  OBVIOUS
<1>5. /\ crawling = "recorded" /\ crawling' = "working"
      /\ IF packages = {} THEN UNCHANGED <<plan, lane>> ELSE CyclePackages(listed, packages)
      /\ todo' = (listed \ Skipped) \intersect remote
      /\ UNCHANGED <<now, up, batch, lock, laneFailed, faults>>
  BY <1>1, <1>3, <1>4 DEF Harvest
<1>6. /\ c # None /\ c \in Times /\ c \in Nat /\ runs[n].cycle = c /\ runs[n].finishedAt = None /\ runs[n].ended = None
      /\ runs[n].attempted = {} /\ lane[n] = {} /\ todo = {} /\ batch = {} /\ lock # "crawl" /\ n \in RunIds
  BY <1>1, <1>2, <1>5, RowIsRun DEF CycleInv, NamesItsCycle, InHand, TypeOK, Times
<1>7. listed \subseteq Targets /\ remote \subseteq Endpoints /\ packages \in SUBSET Packages
  BY <1>3, <1>4, CycleAssumption DEF Targets
\* What the plan and the lane become.
<1>8. PICK due : /\ due \in SUBSET packages
                 /\ lane' = [lane EXCEPT ![n] = due]
                 /\ \/ /\ packages = {} \/ HasPlan
                       /\ plan' = plan /\ (HasPlan => due = plan.due \intersect packages)
                    \/ /\ packages # {} /\ ~ HasPlan /\ Cardinality(due) <= Budget
                       /\ plan' = [cycle |-> c, due |-> due]
  <2>1. CASE packages = {}
    <3>1. lane' = [lane EXCEPT ![n] = {}]
      BY <1>5, <1>6, <2>1 DEF CycleInv, TypeOK
    <3> QED
      BY <1>5, <2>1, <3>1
  <2>2. CASE packages # {} /\ HasPlan
    BY <1>1, <1>5, <2>2 DEF CyclePackages
  <2>3. CASE packages # {} /\ ~ HasPlan
    <3>1. PICK due \in Plannable(listed, packages) : plan' = [cycle |-> c, due |-> due] /\ lane' = [lane EXCEPT ![n] = due]
      BY <1>1, <1>5, <1>6, <2>3 DEF CyclePackages
    <3>2. due \in SUBSET packages /\ Cardinality(due) <= Budget
      BY <1>7, <3>1, PlannableIsBounded
    <3> QED
      BY <2>3, <3>1, <3>2
  <2> QED
    BY <2>1, <2>2, <2>3
<1>9. lane'[n] = due /\ \A s \in RunIds : s # n => lane'[s] = lane[s]
  BY <1>6, <1>8 DEF CycleInv, TypeOK
<1>10. plan' \in [cycle : Times, due : SUBSET Packages] \union {None}
  BY <1>6, <1>7, <1>8 DEF CycleInv, TypeOK
<1>11. PICK owed \in SUBSET Targets : owed = listed \intersect (remote \union Planned(plan', c))
  BY <1>7
<1>12. PICK row : row = [runs[n] EXCEPT !.owed = owed]
  OBVIOUS
<1>13. runs' = [runs EXCEPT ![n] = row]
  BY <1>1, <1>4, <1>6, <1>11, <1>12 DEF Harvest
<1>14. /\ SameTable /\ Others(n) /\ runs'[n].owed = owed
       /\ \A s \in DOMAIN runs :
             /\ runs'[s].startedAt = runs[s].startedAt /\ runs'[s].finishedAt = runs[s].finishedAt
             /\ runs'[s].error = runs[s].error /\ runs'[s].ended = runs[s].ended
             /\ runs'[s].attempted = runs[s].attempted /\ runs'[s].resumed = runs[s].resumed
             /\ runs'[s].cycle = runs[s].cycle /\ runs'[s].partOf = runs[s].partOf
  BY <1>12, <1>13, OwedNoted DEF CycleInv
<1>15. Current' = n /\ DOMAIN runs' = DOMAIN runs /\ \A s \in DOMAIN runs : s <= n
  BY <1>1, <1>14 DEF Current, SameTable
<1>16. \A s \in DOMAIN runs : s # n => runs'[s].owed = runs[s].owed
  BY <1>14 DEF Others
<1>17. TypeOK'
  <2>1. lane' \in [RunIds -> SUBSET Packages]
    BY <1>7, <1>8 DEF CycleInv, TypeOK
  <2>2. todo' \subseteq Endpoints /\ batch' = {} /\ lock' # "crawl"
    BY <1>5, <1>6, <1>7
  <2> QED
    BY <1>5, <1>10, <1>14, <2>1, <2>2 DEF CycleInv, TypeOK, SameTable
<1>18. Finishing'
  BY <1>1, <1>5, <1>14, <1>15 DEF CycleInv, Finishing
<1>19. InHand'
  BY <1>1, <1>2, <1>5, <1>6, <1>9, <1>14, <1>15 DEF CycleInv, InHand
<1>20. NamesItsCycle'
  BY <1>1, <1>5, <1>14, <1>15 DEF CycleInv, NamesItsCycle
<1>21. InOrder'
  BY <1>5, <1>14, <1>15 DEF CycleInv, InOrder
<1>22. CyclesInOrder'
  BY <1>14, <1>15 DEF CycleInv, CyclesInOrder
<1>23. \A r \in DOMAIN runs : r < n /\ runs[r].partOf = c => runs[r].attempted \subseteq Skipped
  BY <1>1, <1>2, <1>5, EarlierOfTheCycle
<1>24. Apart'
  <2> SUFFICES ASSUME NEW r \in DOMAIN runs, NEW s \in DOMAIN runs, r < s, runs[s].partOf # None, runs[r].partOf = runs[s].partOf
               PROVE  /\ runs[r].attempted \intersect runs[s].attempted \subseteq Packages
                      /\ runs[r].ended # "failed" => runs[r].attempted \intersect (runs[s].attempted \union lane'[s]) = {}
                      /\ s = n => runs[r].attempted \intersect todo' = {}
    BY <1>14, <1>15 DEF Apart
  <2>1. CASE s = n
    BY <1>2, <1>3, <1>5, <1>6, <1>8, <1>9, <1>23, <2>1
  <2>2. CASE s # n
    BY <1>9, <2>2 DEF CycleInv, Apart
  <2> QED
    BY <2>1, <2>2
<1>25. \A r \in DOMAIN runs : r # n => Taken(r)' = Taken(r)
  BY <1>9, <1>14 DEF Taken
<1>26. Taken(n)' = due /\ Taken(n) = {}
  BY <1>6, <1>9, <1>14 DEF Taken
<1>27. \A r \in DOMAIN runs : r # n /\ runs[r].partOf = c /\ ~ HasPlan => Taken(r) = {}
  BY <1>1, <1>2, <1>5, NothingTakenYet
<1>28. PlanCovers'
  <2>1. CASE plan' = plan /\ (packages = {} \/ HasPlan) /\ (HasPlan => due = plan.due \intersect packages)
    <3>1. due # {} => plan # None /\ plan.cycle = c /\ due \subseteq plan.due
      BY <1>1, <1>6, <1>8, <2>1 DEF HasPlan
    <3>2. plan # None /\ plan.cycle = c => due \subseteq plan.due
      BY <3>1
    <3>3. \A r \in DOMAIN runs : Taken(r)' # {} => plan # None /\ runs[r].partOf <= plan.cycle
      BY <1>2, <1>6, <1>25, <1>26, <3>1 DEF CycleInv, PlanCovers
    <3>4. plan # None => \A r \in DOMAIN runs : runs[r].partOf = plan.cycle => Taken(r)' \subseteq plan.due
      BY <1>2, <1>25, <1>26, <3>2 DEF CycleInv, PlanCovers
    <3> QED
      BY <1>14, <1>15, <2>1, <3>3, <3>4 DEF CycleInv, PlanCovers
  <2>2. CASE ~ HasPlan /\ plan' = [cycle |-> c, due |-> due] /\ Cardinality(due) <= Budget
    <3>1. plan' # None /\ plan'.cycle = c /\ plan'.due = due
      BY <1>6, <1>7, <1>8, <2>2, CycleAssumption DEF Times
    <3>2. \A r \in DOMAIN runs : runs[r].partOf = c => Taken(r)' \subseteq due
      BY <1>25, <1>26, <1>27, <2>2
    <3>3. \A r \in DOMAIN runs : Taken(r)' # {} => runs[r].partOf <= c
      <4> SUFFICES ASSUME NEW r \in DOMAIN runs, Taken(r)' # {} PROVE runs[r].partOf <= c
        OBVIOUS
      <4>1. CASE r = n
        BY <1>2, <1>6, <4>1
      <4>2. CASE r # n
        <5>1. Taken(r) # {} /\ r < n
          BY <1>15, <1>25, <4>2
        <5>2. runs[r].partOf # None
          BY <5>1 DEF Taken, CycleInv, InHand, NamesItsCycle
        <5> QED
          BY <1>2, <1>6, <5>1, <5>2 DEF CycleInv, CyclesInOrder
      <4> QED
        BY <4>1, <4>2
    <3> QED
      BY <1>1, <1>2, <1>14, <1>15, <2>2, <3>1, <3>2, <3>3 DEF PlanCovers
  <2> QED
    BY <1>8, <2>1, <2>2
<1>29. \A r \in DOMAIN runs : CycleOf(r)' = CycleOf(r) /\ CycleOf(r) \subseteq DOMAIN runs
  BY <1>14, <1>15 DEF CycleOf
<1>30. Covered'
  <2> SUFFICES ASSUME NEW r \in DOMAIN runs, runs[r].partOf # None
               PROVE  \E most \in SUBSET Packages :
                          Cardinality(most) <= Budget /\ \A s \in CycleOf(r) : Taken(s)' \subseteq most
    BY <1>14, <1>15, <1>29 DEF Covered
  <2>1. CASE due = {} \/ runs[r].partOf # c
    <3>1. \A s \in CycleOf(r) : Taken(s)' \subseteq Taken(s)
      BY <1>2, <1>25, <1>26, <2>1 DEF CycleOf
    <3> QED
      BY <3>1 DEF CycleInv, Covered
  <2>2. CASE due # {} /\ runs[r].partOf = c
    <3>1. plan' # None /\ plan'.cycle = c
      <4>1. CASE plan' = plan /\ (packages = {} \/ HasPlan)
        BY <1>1, <1>6, <1>8, <2>2, <4>1 DEF HasPlan
      <4>2. CASE plan' = [cycle |-> c, due |-> due]
        BY <1>6, <1>7, <1>8, <4>2, CycleAssumption DEF Times
      <4> QED
        BY <1>8, <4>1, <4>2
    <3>2. plan'.due \in SUBSET Packages /\ Cardinality(plan'.due) <= Budget
      BY <1>10, <1>28, <3>1 DEF PlanCovers
    <3>3. \A s \in DOMAIN runs : runs[s].partOf = c => Taken(s)' \subseteq plan'.due
      BY <1>14, <1>15, <1>28, <3>1 DEF PlanCovers
    <3> QED
      BY <2>2, <3>2, <3>3 DEF CycleOf
  <2> QED
    BY <2>1, <2>2
<1>31. OwesTheRest'
  <2>1. \A r \in DOMAIN runs : Read(r)' = Read(r)
    <3>1. \A s \in DOMAIN runs : runs'[s].attempted = runs[s].attempted
      BY <1>14
    <3> QED
      BY <1>29, <3>1 DEF Read
  <2>2. CycleIsWhole'
    <3>1. \A r \in DOMAIN runs : runs'[r].ended = "ok" => runs[r].ended = "ok" /\ runs'[r].owed = runs[r].owed
      BY <1>6, <1>14, <1>16, CycleAssumption
    <3>2. \A r \in DOMAIN runs : runs[r].ended = "ok" => runs[r].owed \subseteq Read(r)
      BY DEF CycleInv, OwesTheRest, CycleIsWhole, Read
    <3>3. \A r \in DOMAIN runs : runs'[r].ended = "ok" => runs'[r].owed \subseteq Read(r)'
      BY <2>1, <3>1, <3>2
    <3> QED
      BY <1>15, <3>3 DEF CycleIsWhole, Read
  <2>3. Planned(plan', c) \subseteq Packages
    BY <1>10 DEF Planned
  <2>4. Planned(plan', c) \intersect packages \subseteq due
    <3> SUFFICES ASSUME NEW p \in packages, p \in Planned(plan', c) PROVE p \in due
      OBVIOUS
    <3>1. plan' # None /\ plan'.cycle = c /\ p \in plan'.due
      BY DEF Planned
    <3>2. CASE plan' = [cycle |-> c, due |-> due]
      BY <3>1, <3>2
    <3>3. CASE plan' = plan /\ HasPlan /\ due = plan.due \intersect packages
      BY <3>1, <3>3
    <3> QED
      BY <1>8, <3>2, <3>3
  <2>5. listed \subseteq Read(n) \union (listed \ Skipped)
    BY <1>1, <1>5, SkippedWasRead
  <2>6. owed \subseteq todo' \union lane'[n] \union Read(n)
    BY <1>3, <1>5, <1>9, <1>11, <2>3, <2>4, <2>5
  <2>7. runs'[n].owed \subseteq todo' \union lane'[n] \union Read(n)'
    BY <1>14, <2>1, <2>6
  <2> QED
    BY <1>15, <2>2, <2>7 DEF OwesTheRest
<1> QED
  BY <1>17, <1>18, <1>19, <1>20, <1>21, <1>22, <1>24, <1>28, <1>30, <1>31 DEF CycleInv

-----------------------------------------------------------------------------
LEMMA CycleInvInit == Init => CycleInv
<1> SUFFICES ASSUME Init PROVE CycleInv
  OBVIOUS
<1>1. runs = <<>> /\ DOMAIN runs = {} /\ Len(runs) = 0 /\ runs \in Seq(Run)
  BY DEF Init
<1>2. TypeOK
  BY <1>1, CycleAssumption DEF Init, TypeOK, Times
<1>3. Finishing /\ InHand /\ NamesItsCycle /\ InOrder /\ CyclesInOrder /\ Apart
  BY <1>1, CycleAssumption DEF Init, Finishing, InHand, NamesItsCycle, InOrder, CyclesInOrder, Apart
<1>4. PlanCovers /\ Covered /\ OwesTheRest
  BY <1>1 DEF Init, PlanCovers, Covered, OwesTheRest, CycleIsWhole
<1> QED
  BY <1>2, <1>3, <1>4 DEF CycleInv

LEMMA CycleInvNext == ASSUME CycleInv, [Next]_vars PROVE CycleInv'
<1>1. CASE StartScheduled \/ StartByOperator
  <2>1. PICK withRemote : StartRun(withRemote) /\ withRemote \in BOOLEAN
    BY <1>1, CycleAssumption DEF StartScheduled, StartByOperator
  <2> QED
    BY <2>1, InvStartRun
<1>2. CASE CrawlNext
  BY <1>2, InvRecordCycle, InvHarvest, InvCommitEndpoint, InvLeaveBatch, InvEnds DEF CrawlNext
<1>3. CASE LaneNext
  BY <1>3, InvCommitPackage DEF LaneNext
<1>4. CASE TakeBatch \/ FailHarvest \/ FailBatch \/ FailPublish \/ Kill \/ Boot \/ RemoteTakes \/ RemoteLeaves \/ Tick
  BY <1>4, InvTakeBatch, InvEnds, InvKill, InvBoot, InvRemote, InvTick
<1>5. CASE \E r \in RunIds : FailLane(r)
  BY <1>5, InvFailLane
<1>6. CASE UNCHANGED vars
  <2>1. TypeOK'
    BY <1>6 DEF CycleInv, TypeOK, vars
  <2> QED
    BY <1>6, <2>1, InvQuiet, Basics DEF vars, CycleInv, InHand
<1> QED
  BY <1>1, <1>2, <1>3, <1>4, <1>5, <1>6 DEF Next

LEMMA CycleInvAddsUp == CycleInv => RunsAddUpToACycle
<1> SUFFICES ASSUME CycleInv PROVE RunsAddUpToACycle
  OBVIOUS
<1> USE Basics
<1>1. AttemptedOnce
  <2> SUFFICES ASSUME NEW s \in DOMAIN runs, runs[s].partOf # None, NEW r \in CycleOf(s), r < s,
                      runs[r].attempted \intersect runs[s].attempted # {}
               PROVE  runs[r].attempted \intersect runs[s].attempted \subseteq Packages /\ runs[r].ended = "failed"
    BY DEF AttemptedOnce
  <2>1. r \in DOMAIN runs /\ runs[r].partOf = runs[s].partOf
    BY DEF CycleOf
  <2> QED
    BY <2>1 DEF CycleInv, Apart
<1>2. BudgetIsOfTheCycle
  <2> SUFFICES ASSUME NEW r \in DOMAIN runs, runs[r].partOf # None
               PROVE  Cardinality((UNION {runs[s].attempted : s \in CycleOf(r)}) \intersect Packages) <= Budget
    BY DEF BudgetIsOfTheCycle
  <2>1. PICK most \in SUBSET Packages : Cardinality(most) <= Budget /\ \A s \in CycleOf(r) : Taken(s) \subseteq most
    BY DEF CycleInv, Covered
  <2>2. PICK spent : spent = (UNION {runs[s].attempted : s \in CycleOf(r)}) \intersect Packages
    OBVIOUS
  <2>3. spent \subseteq most
    <3>1. \A s \in CycleOf(r) : runs[s].attempted \intersect Packages \subseteq most
      BY <2>1 DEF Taken
    <3> SUFFICES ASSUME NEW t \in spent PROVE t \in most
      BY Zenon
    <3>2. t \in Packages /\ t \in UNION {runs[s].attempted : s \in CycleOf(r)}
      BY <2>2
    <3>3. PICK s \in CycleOf(r) : t \in runs[s].attempted
      BY <3>2
    <3> QED
      BY <3>1, <3>2, <3>3
  <2>4. IsFiniteSet(most)
    BY FS_Subset, CycleAssumption
  <2>5. Cardinality(spent) <= Cardinality(most) /\ Cardinality(spent) \in Nat /\ Cardinality(most) \in Nat
    BY <2>3, <2>4, FS_Subset, FS_CardinalityType
  <2> QED
    BY <2>1, <2>2, <2>5, CycleAssumption
<1>3. CycleIsWhole
  BY DEF CycleInv, OwesTheRest
<1> QED
  BY <1>1, <1>2, <1>3 DEF RunsAddUpToACycle

(***************************************************************************)
(* However often a cycle is killed, fails or is started again              *)
(* (crawler.py _run, _cycle_packages; store.py resume_point,               *)
(* attempted_since), its runs add up to one pass of the registry: no       *)
(* target twice, but for a lane nobody joined, no package over the budget, *)
(* none left out when it ends well.                                        *)
(***************************************************************************)
THEOREM CyclesAddUp == Spec => []RunsAddUpToACycle
BY CycleInvInit, CycleInvNext, CycleInvAddsUp, PTL DEF Spec

-----------------------------------------------------------------------------
(* A restart continues the cycle: until the next crawl records its own,    *)
(* nothing overwrites the row of the run that broke.                       *)

LastSaysHow ==
    \A r \in DOMAIN runs : (crawling = "no" /\ r = Current) \/ (crawling = "inserted" /\ r = Current - 1) =>
        runs[r].finishedAt = None \/ runs[r].error # "none" \/ runs[r].ended = "ok"

LEMMA LastSaysHowNext == ASSUME CycleInv, LastSaysHow, [Next]_vars PROVE LastSaysHow'
<1> USE Basics
<1>1. CASE StartScheduled \/ StartByOperator
  <2>1. PICK withRemote : StartRun(withRemote) /\ withRemote \in BOOLEAN
    BY <1>1, CycleAssumption DEF StartScheduled, StartByOperator
  <2>2. PICK n : n = Len(runs) + 1
    OBVIOUS
  <2>3. Len(runs') = n /\ DOMAIN runs' = DOMAIN runs \union {n} /\ \A s \in DOMAIN runs : runs'[s] = runs[s]
    BY <2>1, <2>2, RunAdded DEF CycleInv
  <2>4. crawling = "no" /\ crawling' = "inserted"
    BY <2>1 DEF StartRun
  <2>5. Current' = n /\ Current = n - 1 /\ n \in Nat
    BY <2>2, <2>3 DEF Current
  <2> QED
    BY <2>3, <2>4, <2>5 DEF LastSaysHow
<1>2. CASE FinishRun \/ FailOfLane \/ FailHarvest \/ FailBatch \/ FailPublish
  <2>1. crawling # "no"
    BY <1>2, CycleAssumption DEF FinishRun, FailOfLane, FailHarvest, FailBatch, FailPublish, Joined, CycleInv, InHand
  <2>2. PICK how \in {"ok", "failed"}, at \in Times \union {None} : Ended(how, at)
    BY <1>2 DEF FinishRun, FailOfLane, FailHarvest, FailBatch, FailPublish
  <2>3. PICK n \in DOMAIN runs : n = Current
    BY <2>1
  <2>4. SameTable /\ runs'[n].ended = how /\ runs'[n].error = IF how = "ok" THEN "none" ELSE how
    BY <2>2, <2>3, EndNoted DEF CycleInv
  <2>5. Current' = n /\ crawling' = "no"
    BY <2>2, <2>3, <2>4 DEF Ended, Current, SameTable
  <2> QED
    BY <2>4, <2>5 DEF LastSaysHow
<1>3. CASE \E n \in RunIds, p \in Packages : CommitPackage(n, p)
  <2>1. PICK n \in RunIds, p \in Packages : CommitPackage(n, p)
    BY <1>3
  <2>2. n \in DOMAIN runs /\ p \in Targets
    BY <2>1 DEF CommitPackage, CycleInv, InHand, Targets
  <2>3. PICK saved \in Checkpointed(Attempted(runs[n], p)) : runs' = [runs EXCEPT ![n] = saved]
    BY <2>1 DEF CommitPackage
  <2>4. /\ SameTable /\ Others(n)
        /\ runs'[n].error = runs[n].error \/ crawling \in {"recorded", "working"}
        /\ \A s \in DOMAIN runs : runs'[s].finishedAt = runs[s].finishedAt /\ runs'[s].ended = runs[s].ended
    BY <2>2, <2>3, AttemptNoted DEF CycleInv
  <2>5. Current' = Current /\ crawling' = crawling /\ DOMAIN runs' = DOMAIN runs
    BY <2>1, <2>4 DEF Current, SameTable, CommitPackage
  <2>6. \A s \in DOMAIN runs : crawling \in {"no", "inserted"} => runs'[s].error = runs[s].error
    BY <2>4 DEF Others
  <2> QED
    BY <2>4, <2>5, <2>6 DEF LastSaysHow
<1>4. CASE Boot
  <2>1. /\ SameTable
        /\ \A s \in DOMAIN runs :
              IF runs[s].finishedAt # None THEN runs'[s].error = runs[s].error /\ runs'[s].ended = runs[s].ended
              ELSE runs'[s].error = "interrupted"
    BY <1>4, RunsInterrupted DEF CycleInv
  <2>2. Current' = Current /\ crawling' = crawling /\ DOMAIN runs' = DOMAIN runs
    BY <1>4, <2>1 DEF Current, SameTable, Boot
  <2> QED
    BY <2>1, <2>2 DEF LastSaysHow
<1>5. CASE Kill
  <2>1. crawling' = "no" /\ UNCHANGED runs /\ Current' = Current
    BY <1>5 DEF Kill, Current
  <2> QED
    BY <2>1 DEF LastSaysHow
<1>6. CASE (RecordCycle /\ crawling' = "recorded") \/ (\E listed \in Listings : Harvest(listed) /\ crawling' = "working")
  BY <1>6 DEF LastSaysHow
<1>7. CASE (\E e \in Endpoints : CommitEndpoint(e)) \/ LeaveBatch \/ TakeBatch
  <2>1. crawling = "working" /\ crawling' = "working"
    BY <1>7 DEF CommitEndpoint, LeaveBatch, TakeBatch, CycleInv, TypeOK, InHand
  <2> QED
    BY <2>1 DEF LastSaysHow
<1>8. CASE (\E r \in RunIds : FailLane(r)) \/ RemoteTakes \/ RemoteLeaves \/ Tick \/ UNCHANGED vars
  <2>1. UNCHANGED <<runs, crawling>> /\ Current' = Current
    BY <1>8 DEF FailLane, RemoteTakes, RemoteLeaves, Tick, vars, process, Current
  <2> QED
    BY <2>1 DEF LastSaysHow
<1>9. RecordCycle => crawling' = "recorded"
  BY DEF RecordCycle
<1>10. \A listed \in Listings : Harvest(listed) => crawling' = "working"
  BY DEF Harvest
<1> QED
  BY <1>1, <1>2, <1>3, <1>4, <1>5, <1>6, <1>7, <1>8, <1>9, <1>10 DEF Next, CrawlNext, LaneNext

LEMMA MaxIsGreatest ==
    ASSUME NEW S \in SUBSET Times, NEW x \in S
    PROVE  Max(S) \in Times /\ x <= Max(S)
<1> DEFINE T == {y + 1 : y \in S}
<1>1. T \in SUBSET (1..MaxTime + 1) /\ T # {} /\ MaxTime + 1 \in Nat
  BY CycleAssumption DEF Times
<1>2. PICK t \in T : \A u \in T : u <= t
  <2> HIDE DEF T
  <2> QED
    BY <1>1, LastOfSome
<1>3. PICK y \in S : t = y + 1
  BY <1>2
<1>4. \A z \in S : z + 1 <= y + 1
  BY <1>2, <1>3
<1>5. \A z \in S : y >= z
  BY <1>3, <1>4 DEF Times
<1>6. Max(S) \in S /\ \A z \in S : Max(S) >= z
  BY <1>3, <1>5 DEF Max
<1> QED
  BY <1>6 DEF Times

\* The run before a broken one continues resumes the cycle that one was part of.
LEMMA ChainOfTheBroken ==
    ASSUME CycleInv, LastSaysHow, crawling = "inserted", NEW b, b = Current - 1, Current > 1,
           runs[b].ended # "ok", runs[b].partOf # None
    PROVE  b \in Chain(Current) /\ EarliestStart(Chain(Current)) = runs[b].partOf
<1> USE Basics
<1>1. b \in DOMAIN runs /\ b < Current /\ Current \in DOMAIN runs
  OBVIOUS
<1>2. runs[b].finishedAt # None /\ runs[b].error # "none"
  BY <1>1 DEF CycleInv, Finishing, LastSaysHow
<1>3. Continues(b, b + 1..Current - 1)
  BY <1>1, <1>2 DEF Continues
<1>4. b \in Chain(Current)
  BY <1>1, <1>3 DEF Chain
<1>5. PICK c : c = EarliestStart(Chain(Current))
  OBVIOUS
<1>6. c \in Times /\ runs[b].partOf <= c
  BY <1>1, <1>4, <1>5, ResumedIsLatest
<1>7. CycleStart(b) = runs[b].partOf
  BY <1>4, ChainMember
<1>8. Chain(Current) \in SUBSET DOMAIN runs
  BY DEF Chain
<1>9. c <= CycleStart(b)
  BY <1>4, <1>5, <1>8, StartsOfCycles
<1> QED
  BY <1>1, <1>4, <1>5, <1>6, <1>7, <1>9 DEF Times

\* Whatever moved in the cycle, the resume point has seen.
LEMMA MovedIsSeen ==
    ASSUME CycleInv, LastSaysHow, crawling = "inserted", NEW b, b = Current - 1, Current > 1,
           runs[b].ended # "ok", runs[b].partOf # None,
           NEW s \in CycleOf(b), NEW at \in {runs[s].startedAt, runs[s].attemptedAt}, at # None
    PROVE  LastMoved(Current) \in Times /\ at \in Times /\ at <= LastMoved(Current)
<1> USE Basics
<1>1. b \in DOMAIN runs /\ b < Current /\ Current \in DOMAIN runs /\ s \in DOMAIN runs /\ runs[s].partOf = runs[b].partOf
  BY DEF CycleOf
<1>2. PICK c : c = runs[b].partOf /\ c = EarliestStart(Chain(Current))
  BY ChainOfTheBroken
<1>3. PICK seen : seen = ({runs[q].attemptedAt : q \in Since(EarliestStart(Chain(Current)))}
            \union {runs[q].progressAt : q \in Chain(Current)}
            \union {runs[b].startedAt}) \ {None}
  OBVIOUS
<1>4. LastMoved(Current) = Max(seen)
  BY <1>3 DEF LastMoved
<1>5. \A q \in DOMAIN runs : /\ runs[q].startedAt \in Times /\ runs[q].attemptedAt \in Times \union {None}
                             /\ runs[q].progressAt \in Times \union {None}
  <2> TAKE q \in DOMAIN runs
  <2>1. runs[q] \in Run
    BY RowIsRun DEF CycleInv
  <2> QED
    BY <2>1 DEF Run
<1>6. seen \in SUBSET Times
  <2>1. Since(EarliestStart(Chain(Current))) \subseteq DOMAIN runs /\ Chain(Current) \subseteq DOMAIN runs
    BY DEF Since, Chain
  <2> QED
    BY <1>1, <1>3, <1>5, <2>1
<1>7. runs[b].startedAt \in seen
  BY <1>1, <1>3, <1>5, CycleAssumption DEF Times
<1>8. s \in Since(c)
  BY <1>1, <1>2 DEF Since, CycleInv, NamesItsCycle
<1>9. s <= b /\ runs[s].startedAt <= runs[b].startedAt
  <2>1. runs[Current].partOf = None
    BY DEF CycleInv, NamesItsCycle
  <2>2. s # Current
    BY <1>1, <2>1
  <2>3. s <= b
    BY <1>1, <2>2
  <2> QED
    BY <1>1, <2>3 DEF CycleInv, InOrder
<1>10. CASE at = runs[s].startedAt
  <2>1. at \in Times
    BY <1>1, <1>5, <1>10
  <2>2. Max(seen) \in Times /\ runs[b].startedAt <= Max(seen)
    BY <1>6, <1>7, MaxIsGreatest
  <2> QED
    BY <1>1, <1>4, <1>5, <1>9, <1>10, <2>1, <2>2 DEF Times
<1>11. CASE at = runs[s].attemptedAt
  <2>1. at \in seen
    BY <1>2, <1>3, <1>8, <1>11
  <2> QED
    BY <1>4, <1>6, <2>1, MaxIsGreatest
<1> QED
  BY <1>10, <1>11

LEMMA RecordContinues ==
    ASSUME CycleInv, LastSaysHow, [Next]_vars, crawling = "inserted", crawling' = "recorded", Current > 1,
           NEW before, before = runs[Current - 1],
           NEW moved, moved = {runs[s].startedAt : s \in CycleOf(Current - 1)}
                            \union {runs[s].attemptedAt : s \in CycleOf(Current - 1)},
           before.ended # "ok", before.partOf # None, \E at \in moved \ {None} : runs[Current].startedAt - at < Interval
    PROVE  runs'[Current].partOf = before.partOf
<1> USE Basics
<1>1. RecordCycle
  BY DEF Next, StartScheduled, StartByOperator, StartRun, CrawlNext, Harvest, CommitEndpoint, LeaveBatch, FinishRun, FailOfLane,
         Ended, TakeBatch, LaneNext, CommitPackage, FailHarvest, FailBatch, FailPublish, FailLane, Kill, Boot, RemoteTakes,
         RemoteLeaves, Tick, process, vars
<1>2. PICK n \in DOMAIN runs : n = Current
  OBVIOUS
<1>3. PICK b \in DOMAIN runs : b = Current - 1
  OBVIOUS
<1>4. PICK at \in moved \ {None} : runs[n].startedAt - at < Interval
  BY <1>2
<1>5. PICK s \in CycleOf(b) : at \in {runs[s].startedAt, runs[s].attemptedAt}
  BY <1>3, <1>4
<1>6. LastMoved(n) \in Times /\ at \in Times /\ at <= LastMoved(n)
  BY <1>2, <1>3, <1>4, <1>5, MovedIsSeen
<1>7. runs[n].startedAt - LastMoved(n) < Interval
  BY <1>2, <1>4, <1>6, CycleAssumption DEF Times
<1>8. b \in Chain(n) /\ EarliestStart(Chain(n)) = runs[b].partOf
  BY <1>2, <1>3, ChainOfTheBroken
<1>9. PICK c : c = runs[b].partOf
  OBVIOUS
<1>10. ResumePoint(n) = c /\ c # None
  BY <1>3, <1>7, <1>8, <1>9 DEF ResumePoint
<1>12. PICK a \in BOOLEAN : a = (ResumePoint(n) # None)
  BY Zenon
<1>13. runs' = [runs EXCEPT ![n].resumed = a, ![n].cycle = c, ![n].partOf = c]
  BY <1>1, <1>2, <1>10, <1>12 DEF RecordCycle
<1>14. PICK row : row = [runs[n] EXCEPT !.resumed = a, !.cycle = c, !.partOf = c]
  OBVIOUS
<1>15. runs' = [runs EXCEPT ![n] = row]
  BY <1>13, <1>14
<1>16. runs'[n].partOf = c
  <2>1. runs[n] \in Run
    BY RowIsRun DEF CycleInv
  <2>2. row.partOf = c
    BY <1>14, <2>1 DEF Run
  <2> QED
    BY <1>15, <2>2
<1> QED
  BY <1>2, <1>3, <1>9, <1>16

(***************************************************************************)
(* A restart does not throw a cycle away (store.py resume_point): a run    *)
(* after one that broke continues its cycle while any run of the cycle     *)
(* started or attempted something less than an interval before.            *)
(***************************************************************************)
THEOREM BrokenCyclesContinue == Spec => CycleIsContinued
<1> DEFINE Continued == crawling = "inserted" /\ crawling' = "recorded" /\ Current > 1 =>
           LET before == runs[Current - 1]
               moved == {runs[s].startedAt : s \in CycleOf(Current - 1)}
                            \union {runs[s].attemptedAt : s \in CycleOf(Current - 1)}
           IN before.ended # "ok" /\ before.partOf # None
                  /\ (\E at \in moved \ {None} : runs[Current].startedAt - at < Interval)
              => runs'[Current].partOf = before.partOf
<1>1. Init => LastSaysHow
  BY DEF Init, LastSaysHow
<1>2. CycleInv /\ LastSaysHow /\ [Next]_vars => Continued
  BY RecordContinues
<1>3. (Spec => [][Continued]_vars) => (Spec => CycleIsContinued)
  BY DEF CycleIsContinued
<1> HIDE DEF Continued
<1>4. Spec => [](CycleInv /\ LastSaysHow)
  BY CycleInvInit, CycleInvNext, <1>1, LastSaysHowNext, PTL DEF Spec
<1>5. Spec => [][Continued]_vars
  BY <1>2, <1>4, PTL DEF Spec
<1> QED
  BY <1>3, <1>5
=============================================================================
