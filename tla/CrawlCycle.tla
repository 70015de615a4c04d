----------------------------- MODULE CrawlCycle -----------------------------
(***************************************************************************)
(* The daily crawl of one service process: histor/crawler.py (run, _run,   *)
(* _cycle_packages, _remote_batch, _package_lane, _checkpoint), the run    *)
(* bookkeeping of histor/store.py and the scheduler of histor/service.py.  *)
(*                                                                         *)
(* A cycle is one pass over the registry, named by the time it started.    *)
(* It may take several runs: a run that was interrupted or failed is       *)
(* continued by the next one, which skips what the cycle already attempted *)
(* and takes what is left of the cycle's package plan.  Endpoints are read *)
(* in batches under _remote_lock, which the remote worker takes too;       *)
(* packages run in a lane, a thread of its own that the crawl joins at its *)
(* end -- unless the crawl fails first: then the lane goes on without it.  *)
(*                                                                         *)
(* One unit of time is any span in which at most one run starts.  Runs of  *)
(* kind 'remote' are in no query below (each has kind='crawl'), so of the  *)
(* remote worker only its hold on the lock is left.                        *)
(***************************************************************************)
EXTENDS Integers, Sequences, FiniteSets, FiniteSetsExt

CONSTANTS
    Endpoints,      \* remote targets
    Packages,       \* package targets
    Listings,       \* what the registry may list, each a set of targets
    Budget,         \* sandbox_max_per_crawl
    Interval,       \* crawl_interval_s
    Retry,          \* min(interval, 3600): the wait after a failed run
    Gap,            \* crawl_min_gap_s
    BatchSize,      \* crawl_batch
    WithRemote,     \* what the scheduler passes as include_remote
    MaxTime, MaxRuns, MaxFaults,   \* bounds of the model
    None

ASSUME CycleAssumption ==
    /\ Endpoints \intersect Packages = {} /\ IsFiniteSet(Packages)
    /\ Listings \subseteq SUBSET (Endpoints \union Packages)
    /\ WithRemote \in BOOLEAN
    /\ Interval \in Nat /\ Budget \in Nat /\ MaxTime \in Nat /\ MaxRuns \in Nat /\ MaxFaults \in Nat
    /\ None \notin 0..MaxTime
    /\ None \notin {"ok", "failed", "interrupted", "crawl", "remote"}
    /\ None \notin [cycle : 0..MaxTime, due : SUBSET Packages]

VARIABLES
    now,
    runs,           \* the runs table, kind 'crawl', oldest first; stats and crawl_attempts in the row
    plan,           \* the crawl_plans row
    up,             \* the process runs
    crawling,       \* where the crawl thread is
    todo,           \* endpoints it has not read
    batch,          \* endpoints of the batch in hand
    lock,           \* who holds _remote_lock
    lane,           \* run -> packages its lane has not committed
    laneFailed,     \* runs whose lane ended with an exception
    faults

vars == <<now, runs, plan, up, crawling, todo, batch, lock, lane, laneFailed, faults>>

process == <<up, crawling, todo, batch, lock, lane, laneFailed>>

Targets == Endpoints \union Packages

Times == 0..MaxTime

RunIds == 1..MaxRuns

Run == [startedAt : Times, finishedAt : Times \union {None},
        error : {"none", "failed", "interrupted"},
        cycle : Times \union {None}, resumed : BOOLEAN, withRemote : BOOLEAN,
        progressAt : Times \union {None},
        attempted : SUBSET Targets, attemptedAt : Times \union {None},
        \* What the row does not say: the cycle the run was part of, what it owed that
        \* cycle, and how it ended.
        partOf : Times \union {None}, owed : SUBSET Targets,
        ended : {None, "ok", "failed", "interrupted"}]

TypeOK ==
    /\ now \in Times
    /\ runs \in Seq(Run) /\ Len(runs) \in 0..MaxRuns
    /\ plan \in [cycle : Times, due : SUBSET Packages] \union {None}
    /\ up \in BOOLEAN
    /\ crawling \in {"no", "inserted", "recorded", "working"}
    /\ todo \subseteq Endpoints /\ batch \subseteq todo
    /\ lock \in {None, "crawl", "remote"}
    /\ batch # {} => lock = "crawl"
    /\ lane \in [RunIds -> SUBSET Packages]
    /\ laneFailed \subseteq RunIds
    /\ faults \in 0..MaxFaults

Init ==
    /\ now = 0 /\ runs = <<>> /\ plan = None
    /\ up = TRUE /\ crawling = "no" /\ todo = {} /\ batch = {} /\ lock = None
    /\ lane = [r \in RunIds |-> {}] /\ laneFailed = {}
    /\ faults = 0

-----------------------------------------------------------------------------
(* Queries of the runs table.                                              *)

Current == Len(runs)

Ok(r) == runs[r].finishedAt # None /\ runs[r].error = "none"

Finished == {r \in DOMAIN runs : runs[r].finishedAt # None}

\* The start of the cycle a broken run names, or its own start.
CycleStart(r) == IF runs[r].cycle = None THEN runs[r].startedAt ELSE runs[r].cycle

\* Mutant: a failed run is not retried.
DueAfterOk(last) ==
    \/ runs[last].error = "interrupted"
    \/ /\ Ok(last)
       /\ now - runs[last].finishedAt >= Gap
       /\ now - CycleStart(last) >= Interval

(***************************************************************************)
(* The scheduler's due(): a broken run is retried, at once after a         *)
(* restart; otherwise the interval is counted from the cycle's start and   *)
(* the gap from its end.  (The last finished run, if ok, is the last ok.)  *)
(***************************************************************************)
DueAfter(last) ==
    \/ runs[last].error = "interrupted"
    \/ runs[last].error = "failed" /\ now - runs[last].finishedAt >= Retry
    \/ /\ Ok(last)
       /\ now - runs[last].finishedAt >= Gap
       /\ now - CycleStart(last) >= Interval

Due == Finished = {} \/ \E last \in Finished : last = Max(Finished) /\ DueAfter(last)

EarliestStart(rs) == Min({CycleStart(r) : r \in rs})

\* One step of the walk back: r, after the runs later than it, is still of the chain.
Continues(r, later) ==
    /\ runs[r].finishedAt # None /\ runs[r].error # "none"
    /\ (\E s \in later : runs[s].cycle # None) => runs[r].startedAt >= EarliestStart(later)

\* The unbroken chain of runs that ended with an error, back from the run before r.
Chain(r) == {s \in 1..r - 1 : \A q \in s..r - 1 : Continues(q, q + 1..r - 1)}

\* Runs started at or after the start of a cycle.
Since(cycle) == {r \in DOMAIN runs : runs[r].startedAt >= cycle}

\* Store.attempted_since.
AttemptedSince(cycle) == UNION {runs[r].attempted : r \in Since(cycle)}

\* Mutant: a cycle is as old as its start.
MovedAtStart(r) == EarliestStart(Chain(r))

\* When the cycle of this chain last moved.
LastMoved(r) ==
    Max(({runs[s].attemptedAt : s \in Since(EarliestStart(Chain(r)))}
            \union {runs[s].progressAt : s \in Chain(r)}
            \union {runs[r - 1].startedAt}) \ {None})

\* Store.resume_point: the cycle run r continues, or None.
ResumePoint(r) ==
    IF Chain(r) # {} /\ runs[r].startedAt - LastMoved(r) < Interval
    THEN EarliestStart(Chain(r)) ELSE None

-----------------------------------------------------------------------------
(* The crawl thread.                                                       *)

\* Every fault leaves a run in reserve for its retry.
StartRun(withRemote) ==
    /\ up /\ crawling = "no"
    /\ Current + (MaxFaults - faults) < MaxRuns
    /\ \A r \in DOMAIN runs : runs[r].startedAt < now
    /\ runs' = Append(runs,
           [startedAt |-> now, finishedAt |-> None, error |-> "none", cycle |-> None,
            resumed |-> FALSE, withRemote |-> withRemote, progressAt |-> None,
            attempted |-> {}, attemptedAt |-> None,
            partOf |-> None, owed |-> {}, ended |-> None])
    /\ crawling' = "inserted"
    /\ UNCHANGED <<now, plan, up, todo, batch, lock, lane, laneFailed, faults>>

\* The scheduler's tick, and POST /api/v1/admin/crawl.
StartScheduled == Due /\ StartRun(WithRemote)
StartByOperator == \E withRemote \in BOOLEAN : StartRun(withRemote)

\* resume_point and the first set_run_stats: from here the run names its cycle.
RecordCycle ==
    /\ crawling = "inserted"
    /\ LET resume == ResumePoint(Current)
           cycle == IF resume # None THEN resume ELSE runs[Current].startedAt
       IN runs' = [runs EXCEPT ![Current].resumed = resume # None,
                               ![Current].cycle = cycle, ![Current].partOf = cycle]
    /\ crawling' = "recorded"
    /\ UNCHANGED <<now, plan, up, todo, batch, lock, lane, laneFailed, faults>>

\* What the cycle attempted, for a run that continues it.
Skipped == IF runs[Current].resumed THEN AttemptedSince(runs[Current].cycle) ELSE {}

HasPlan == runs[Current].resumed /\ plan # None /\ plan.cycle = runs[Current].cycle

\* The packages planned now: which ones the versions decide, how many the budget.
Plannable(listed, packages) ==
    LET left == IF runs[Current].resumed
                THEN Budget - Cardinality(listed \intersect Skipped \intersect Packages)
                ELSE Budget
    IN {due \in SUBSET packages : Cardinality(due) <= left \/ due = {}}

\* Mutant: every run plans its packages, and spends a whole budget.
PlannedAgain(listed, packages) ==
    \E due \in {some \in SUBSET packages : Cardinality(some) <= Budget} :
        /\ plan' = [cycle |-> runs[Current].cycle, due |-> due]
        /\ lane' = [lane EXCEPT ![Current] = due]

\* _cycle_packages: what is left of the cycle's plan, or a plan of its own.
CyclePackages(listed, packages) ==
    IF HasPlan
    THEN lane' = [lane EXCEPT ![Current] = plan.due \intersect packages] /\ UNCHANGED plan
    ELSE \E due \in Plannable(listed, packages) :
             /\ plan' = [cycle |-> runs[Current].cycle, due |-> due]
             /\ lane' = [lane EXCEPT ![Current] = due]

Planned(aPlan, cycle) == IF aPlan # None /\ aPlan.cycle = cycle THEN aPlan.due ELSE {}

\* The harvest gave these targets: choose what this run takes, and start its lane.
Harvest(listed) ==
    LET run == runs[Current]
        dialable == listed \ Skipped
        packages == dialable \intersect Packages
        remote == IF run.withRemote THEN Endpoints ELSE {}
    IN
    /\ crawling = "recorded"
    /\ IF packages = {} THEN UNCHANGED <<plan, lane>> ELSE CyclePackages(listed, packages)
    /\ todo' = dialable \intersect remote
    /\ runs' = [runs EXCEPT ![Current].owed =
                    listed \intersect (remote \union Planned(plan', run.cycle))]
    /\ crawling' = "working"
    /\ UNCHANGED <<now, up, batch, lock, laneFailed, faults>>

\* A batch waits for the lock the remote worker may hold.
TakeBatch ==
    /\ crawling = "working" /\ lock = None
    /\ \E some \in SUBSET todo :
           /\ Cardinality(some) = Min({BatchSize, Cardinality(todo)}) /\ some # {}
           /\ batch' = some
    /\ lock' = "crawl"
    /\ UNCHANGED <<now, runs, plan, up, crawling, todo, lane, laneFailed, faults>>

\* record_attempt, in the transaction that commits the observation.
Attempted(run, target) ==
    [run EXCEPT !.attempted = @ \union {target}, !.attemptedAt = now]

CommitEndpoint(e) ==
    /\ e \in batch
    /\ runs' = [runs EXCEPT ![Current] = Attempted(runs[Current], e)]
    /\ batch' = batch \ {e} /\ todo' = todo \ {e}
    /\ UNCHANGED <<now, plan, up, crawling, lock, lane, laneFailed, faults>>

(***************************************************************************)
(* _checkpoint, at most every 30 s: the stats of the crawl under way       *)
(* (_run_stats) with the progress so far are written to the row of the     *)
(* run that calls it.  Without a crawl under way nothing is written.       *)
(***************************************************************************)
Checkpointed(run) ==
    IF crawling \in {"recorded", "working"}
    THEN {run, [run EXCEPT !.progressAt = now, !.error = "none", !.cycle = runs[Current].cycle]}
    ELSE {run}

LeaveBatch ==
    /\ lock = "crawl" /\ batch = {}
    /\ \E saved \in Checkpointed(runs[Current]) : runs' = [runs EXCEPT ![Current] = saved]
    /\ lock' = None
    /\ UNCHANGED <<now, plan, up, crawling, todo, batch, lane, laneFailed, faults>>

\* The lane of run r commits one package.
CommitPackage(r, p) ==
    /\ p \in lane[r]
    /\ \E saved \in Checkpointed(Attempted(runs[r], p)) : runs' = [runs EXCEPT ![r] = saved]
    /\ lane' = [lane EXCEPT ![r] = @ \ {p}]
    /\ UNCHANGED <<now, plan, up, crawling, todo, batch, lock, laneFailed, faults>>

Ended(how, progressAt) ==
    /\ runs' = [runs EXCEPT ![Current].finishedAt = now, ![Current].ended = how,
                            ![Current].error = IF how = "ok" THEN "none" ELSE how,
                            ![Current].progressAt = progressAt]
    /\ crawling' = "no" /\ todo' = {} /\ batch' = {}
    /\ lock' = IF lock = "crawl" THEN None ELSE lock
    /\ UNCHANGED <<now, plan, up, lane, laneFailed>>

\* Every endpoint read and the lane joined.
Joined == crawling = "working" /\ todo = {} /\ lock # "crawl" /\ lane[Current] = {}

FinishRun == Joined /\ Current \notin laneFailed /\ Ended("ok", None) /\ UNCHANGED faults

\* The lane's exception, surfaced when the crawl joins it.
FailOfLane == Joined /\ Current \in laneFailed /\ Ended("failed", now) /\ UNCHANGED faults

-----------------------------------------------------------------------------
(* What fails.  The model's faults stop before time does.                  *)

Fault == faults < MaxFaults /\ now < MaxTime /\ faults' = faults + 1

\* No registry, no rule sets: before there is a tally.
FailHarvest == crawling = "recorded" /\ Fault /\ Ended("failed", None)

\* An endpoint batch raises; the lane is not joined.
FailBatch == lock = "crawl" /\ Fault /\ Ended("failed", now)

\* The last head is not published: the stats are already those of a finished run.
FailPublish == Joined /\ Current \notin laneFailed /\ Fault /\ Ended("failed", None)

FailLane(r) ==
    /\ lane[r] # {} /\ Fault
    /\ lane' = [lane EXCEPT ![r] = {}]
    /\ laneFailed' = laneFailed \union {r}
    /\ UNCHANGED <<now, runs, plan, up, crawling, todo, batch, lock>>

\* The process ends with every thread in it.
Kill ==
    /\ up /\ Fault
    /\ up' = FALSE /\ crawling' = "no" /\ todo' = {} /\ batch' = {} /\ lock' = None
    /\ lane' = [r \in RunIds |-> {}] /\ laneFailed' = {}
    /\ UNCHANGED <<now, runs, plan>>

\* mark_interrupted_runs, as the serving process starts.
Boot ==
    /\ ~ up /\ up' = TRUE
    /\ runs' = [r \in DOMAIN runs |->
           IF runs[r].finishedAt # None THEN runs[r]
           ELSE [runs[r] EXCEPT !.finishedAt = now, !.error = "interrupted", !.ended = "interrupted"]]
    /\ UNCHANGED <<now, plan, crawling, todo, batch, lock, lane, laneFailed, faults>>

\* poll_remote takes the lock only when it is free (a hold no batch waits for is left out).
RemoteTakes ==
    /\ todo # {} /\ lock = None /\ lock' = "remote"
    /\ UNCHANGED <<now, runs, plan, up, crawling, todo, batch, lane, laneFailed, faults>>

RemoteLeaves ==
    /\ lock = "remote" /\ lock' = None
    /\ UNCHANGED <<now, runs, plan, up, crawling, todo, batch, lane, laneFailed, faults>>

\* The model's last units of time are left for a retry.
Tick ==
    /\ now < MaxTime /\ (crawling # "no" => now + Retry < MaxTime)
    /\ now' = now + 1
    /\ UNCHANGED <<runs, plan, process, faults>>

-----------------------------------------------------------------------------
CrawlNext ==
    \/ RecordCycle
    \/ \E listed \in Listings : Harvest(listed)
    \/ \E e \in Endpoints : CommitEndpoint(e)
    \/ LeaveBatch
    \/ FinishRun \/ FailOfLane

LaneNext == \E r \in RunIds, p \in Packages : CommitPackage(r, p)

Next ==
    \/ StartScheduled \/ StartByOperator
    \/ CrawlNext \/ TakeBatch \/ LaneNext
    \/ FailHarvest \/ FailBatch \/ FailPublish \/ \E r \in RunIds : FailLane(r)
    \/ Kill \/ Boot
    \/ RemoteTakes \/ RemoteLeaves
    \/ Tick

Spec == Init /\ [][Next]_vars

(***************************************************************************)
(* Threads run, the container is restarted, the scheduler ticks.  A thread *)
(* waiting for _remote_lock gets it in one of the pauses the remote worker *)
(* makes between batches (service.remote_worker): strong fairness.         *)
(***************************************************************************)
LiveSpec ==
    /\ Spec
    /\ WF_vars(StartScheduled \/ CrawlNext \/ LaneNext \/ Boot \/ Tick)
    /\ WF_vars(RemoteLeaves) /\ SF_vars(TakeBatch)

-----------------------------------------------------------------------------
(* What must hold.                                                         *)

CycleOf(r) == {s \in DOMAIN runs : runs[s].partOf = runs[r].partOf}

(***************************************************************************)
(* What was read stays read (docs/operations.md:38): however often a cycle *)
(* is interrupted, none of its targets is attempted twice -- except a      *)
(* package in the lane of a run that failed, which nobody joined.          *)
(***************************************************************************)
AttemptedOnce ==
    \A s \in DOMAIN runs : runs[s].partOf # None =>
        \A r \in CycleOf(s) : r < s =>
            LET twice == runs[r].attempted \intersect runs[s].attempted IN
            twice # {} => twice \subseteq Packages /\ runs[r].ended = "failed"

(***************************************************************************)
(* The package budget is the cycle's, not each run's (operations.md:42).   *)
(***************************************************************************)
BudgetIsOfTheCycle ==
    \A r \in DOMAIN runs : runs[r].partOf # None =>
        Cardinality((UNION {runs[s].attempted : s \in CycleOf(r)}) \intersect Packages) <= Budget

(***************************************************************************)
(* A cycle that ends well is whole: whatever its last run skipped, an      *)
(* earlier run of the same cycle had attempted.                            *)
(***************************************************************************)
CycleIsWhole ==
    \A r \in DOMAIN runs : runs[r].ended = "ok" =>
        runs[r].owed \subseteq UNION {runs[s].attempted : s \in CycleOf(r)}

(***************************************************************************)
(* The runs of a cycle add up to one crawl: nothing twice, nothing over    *)
(* the budget, nothing left out.                                           *)
(***************************************************************************)
RunsAddUpToACycle == AttemptedOnce /\ BudgetIsOfTheCycle /\ CycleIsWhole

(***************************************************************************)
(* A restart does not throw a cycle away (store.py:711-715): the run after *)
(* a broken one continues its cycle if some run of the cycle started or    *)
(* attempted something less than an interval before.                       *)
(***************************************************************************)
CycleIsContinued ==
    [][crawling = "inserted" /\ crawling' = "recorded" /\ Current > 1 =>
           LET before == runs[Current - 1]
               moved == {runs[s].startedAt : s \in CycleOf(Current - 1)}
                            \union {runs[s].attemptedAt : s \in CycleOf(Current - 1)}
           IN before.ended # "ok" /\ before.partOf # None
                  /\ (\E at \in moved \ {None} : runs[Current].startedAt - at < Interval)
              => runs'[Current].partOf = before.partOf]_vars

(***************************************************************************)
(* A crawl that was started ends well in the end, by this run or one that  *)
(* continues it, although processes die, batches fail and the remote       *)
(* worker keeps taking the lock.                                           *)
(***************************************************************************)
CrawlCompletes ==
    crawling # "no" ~> Current # 0 /\ runs[Current].ended = "ok"

(***************************************************************************)
(* The row of a finished run says how it ended.  crawler.py:756 has "Only  *)
(* a crawl's own run is saved"; but the lane of a failed run saves the     *)
(* stats of the next crawl over the row of its own, and the error is gone. *)
(***************************************************************************)
RecordSaysHowItEnded ==
    \A r \in Finished : runs[r].error = "none" => runs[r].ended = "ok"
=============================================================================
