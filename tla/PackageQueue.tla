---------------------------- MODULE PackageQueue ----------------------------
(***************************************************************************)
(* Which packages a crawl runs in the sandbox: Crawler._packages_due, over *)
(* what each package's record asks for, the budget of a crawl, and the     *)
(* runs that change the records.  Packages are numbered by popularity.     *)
(***************************************************************************)
EXTENDS Integers, Sequences, FiniteSets

CONSTANTS Count,         \* packages
          PerCrawl,      \* sandbox_max_per_crawl
          MaxEvents      \* bound: new versions, releases of HISTOR's observer, runs without a result

ASSUME PackageQueueAssumption == {Count, PerCrawl, MaxEvents} \subseteq Nat

Ranks == 1..Count

VARIABLES
    record,    \* what the package's record says: see below
    stale,     \* packages whose registry has a version newer than the record's
    tried,     \* packages by last_attempt, the longest ago first
    asked,     \* packages given, at this version, everything they asked for
    plan,      \* crawl_plans: due and not run yet
    outrun,    \* those of them whose version is no longer the latest
    events     \* counted for the bound

queueing == <<record, stale, tried, asked, plan, outrun, events>>

Never == "never"            \* no version observed
Good == "good"              \* ok and complete: stands
Settled == "settled"        \* failed as it will again
Asks == "asks"              \* failed for a key, an argument, a runtime or a pin not given yet
Incomplete == "incomplete"  \* timed out, a trace with gaps, an observer too old for a page to stand
Misread == "misread"        \* an older reader got it wrong in public
Unread == "unread"          \* ok, by a reader that could not see renames and links
Renewable == "renewable"    \* failed under an older observer, or declined by an older MTL
Records == {Never, Good, Settled, Asks, Incomplete, Misread, Unread, Renewable}

QueueInit ==
    /\ record = [p \in Ranks |-> Never] /\ stale = {} /\ tried = << >> /\ asked = {}
    /\ plan = {} /\ outrun = {} /\ events = 0

Happens == events < MaxEvents /\ events' = events + 1

-----------------------------------------------------------------------------
(* Planning.                                                                *)
Known == {p \in Ranks : record[p] # Never}

AtLeast0(n) == IF n < 0 THEN 0 ELSE n

ByRank(set, n) == {p \in set : Cardinality({q \in set : q < p}) < n}

LastTry(p) == IF \E i \in DOMAIN tried : tried[i] = p THEN CHOOSE i \in DOMAIN tried : tried[i] = p ELSE 0

\* Mutant: "a permanently incomplete popular package occupies the budget every crawl".
PopularFirst(set, n) == ByRank(set, n)

LongestAgo(set, n) ==
    LET before(q, p) == LastTry(q) < LastTry(p) \/ (LastTry(q) = LastTry(p) /\ q < p)
    IN  {p \in set : Cardinality({q \in set : before(q, p)}) < n}

\* latest_version of every known package; one the registry does not answer for waits for the next crawl.
DueNow(unanswered) ==
    LET known == Known \ unanswered
        at(kind) == {p \in known \ stale : record[p] = kind}
        updates == known \cap stale
        first == at(Incomplete) \cup {p \in Ranks : record[p] = Never}
        retrace == ByRank(at(Misread), AtLeast0(PerCrawl - Cardinality(updates)))
        configured == ByRank(at(Asks), AtLeast0(PerCrawl - Cardinality(updates \cup retrace)))
        left == AtLeast0(PerCrawl - Cardinality(updates \cup retrace \cup configured))
        over == left - Cardinality(first)
        share == IF over > left \div 2 THEN over ELSE left \div 2
        renewed == ByRank(at(Renewable), share)
        reread == ByRank(at(Unread), AtLeast0(share - Cardinality(renewed)))
        chosen == LongestAgo(first, left - Cardinality(renewed \cup reread))
    IN  IF Cardinality(updates) >= PerCrawl THEN ByRank(updates, PerCrawl)
        ELSE updates \cup retrace \cup configured \cup renewed \cup reread \cup chosen

PlanCrawl(unanswered) ==
    /\ plan = {}
    /\ plan' = DueNow(unanswered) /\ outrun' = {}
    /\ UNCHANGED <<record, stale, tried, asked, events>>

-----------------------------------------------------------------------------
(* Running.                                                                 *)
\* Of the current observer, at the version planned, with what the package had asked for.
Outcomes(p) == {Good, Settled, Incomplete} \cup (IF p \in asked THEN {} ELSE {Asks})

Attempted(p) == tried' = Append(SelectSeq(tried, LAMBDA q : q # p), p)

RunPackage(p) ==
    /\ p \in plan /\ plan' = plan \ {p} /\ outrun' = outrun \ {p}
    /\ Attempted(p)
    /\ \E outcome \in Outcomes(p) :
          /\ record' = [record EXCEPT ![p] = outcome]
          /\ asked' = IF outcome = Asks /\ p \notin outrun THEN asked \cup {p} ELSE asked
    /\ stale' = IF p \in outrun THEN stale ELSE stale \ {p}
    /\ UNCHANGED events

\* A second run of a version that only starts with an older SDK, kept beside the record: it leaves
\* the version and the status, and says what it still asks for.
RunPinned(p) ==
    /\ p \in plan /\ plan' = plan \ {p} /\ outrun' = outrun \ {p}
    /\ record[p] = Asks /\ (p \in stale => p \in outrun)
    /\ Attempted(p)
    /\ \E outcome \in Outcomes(p) \cap {Settled, Asks} :
          /\ record' = [record EXCEPT ![p] = outcome]
          /\ asked' = IF outcome = Asks /\ p \notin outrun THEN asked \cup {p} ELSE asked
    /\ UNCHANGED <<stale, events>>

\* The version was not found in the sandbox: the attempt is all that is recorded.
RunUnversioned(p) ==
    /\ p \in plan /\ plan' = plan \ {p} /\ outrun' = outrun \ {p}
    /\ Attempted(p)
    /\ IF record[p] = Never THEN UNCHANGED events
       ELSE Happens
    /\ UNCHANGED <<record, stale, asked>>

\* The sandbox could not be asked: nothing is recorded.
RunFails(p) ==
    /\ p \in plan /\ plan' = plan \ {p} /\ outrun' = outrun \ {p}
    /\ Happens
    /\ UNCHANGED <<record, stale, tried, asked>>

\* A cycle that is not continued leaves the rest of its plan.
Abandon ==
    /\ plan # {} /\ plan' = {} /\ outrun' = {}
    /\ UNCHANGED <<record, stale, tried, asked, events>>

-----------------------------------------------------------------------------
(* The world.                                                               *)
Publish(p) ==
    /\ record[p] # Never
    /\ Happens
    /\ stale' = stale \cup {p} /\ asked' = asked \ {p}
    /\ outrun' = IF p \in plan THEN outrun \cup {p} ELSE outrun
    /\ UNCHANGED <<record, tried, plan>>

\* What a release of HISTOR makes of a record of the one before.
Becomes(kind) ==
    CASE kind = Never -> {Never}
      [] kind = Good  -> {Good, Unread, Misread, Incomplete}
      [] OTHER        -> {Renewable, Incomplete, Misread}

Upgrade ==
    /\ plan = {}
    /\ Happens
    /\ record' \in {r \in [Ranks -> Records] : \A p \in Ranks : r[p] \in Becomes(record[p])}
    /\ asked' = {}
    /\ UNCHANGED <<stale, tried, plan, outrun>>

Crawling == \E p \in Ranks : RunPackage(p) \/ RunPinned(p) \/ RunUnversioned(p) \/ RunFails(p)

Queueing ==
    \/ \E unanswered \in SUBSET Known : PlanCrawl(unanswered)
    \/ Crawling \/ Abandon
    \/ \E p \in Ranks : Publish(p)
    \/ Upgrade

-----------------------------------------------------------------------------
Wants(p) == p \in stale \/ record[p] \notin {Good, Settled}

\* "Never let a permanently incomplete popular package occupy the budget every crawl": a package
\* with something to run is taken, whatever the others fail at, as long as its registry answers.
EveryPackageRuns == \A p \in Ranks : []<>(~Wants(p) \/ p \in plan)

=============================================================================
