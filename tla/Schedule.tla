------------------------------ MODULE Schedule ------------------------------
(***************************************************************************)
(* What HISTOR reads next: remote servers from the durable queue (Targets) *)
(* and packages from a crawl's plan (PackageQueue).  A target is the one   *)
(* or the other, and the lanes share no state: a behaviour is of one lane. *)
(***************************************************************************)
EXTENDS Targets, PackageQueue

VARIABLE remote

ScheduleInit == Init /\ QueueInit /\ remote \in BOOLEAN /\ (~remote => registry = {})

OfRemote(A) == remote /\ A /\ UNCHANGED <<queueing, remote>>
OfPackages(A) == ~remote /\ A /\ UNCHANGED <<vars, remote>>

scheduled == <<vars, queueing, remote>>

ScheduleNext == OfRemote(Next) \/ OfPackages(Queueing)

\* The remote worker goes on, time passes, and the process is not restarted forever.
RemoteFairness ==
    /\ WF_scheduled(OfRemote(Worker)) /\ WF_scheduled(OfRemote(Tick))
    /\ <>[][~OfRemote(Restart)]_scheduled

\* Crawls go on, not every cycle is abandoned, and each package's registry answers now and then.
PackageFairness ==
    /\ WF_scheduled(OfPackages(Crawling))
    /\ \A p \in Ranks : SF_scheduled(OfPackages(\E unanswered \in SUBSET (Known \ {p}) : PlanCrawl(unanswered)))
    /\ <>[][~OfPackages(Abandon)]_scheduled

ScheduleSpec == ScheduleInit /\ [][ScheduleNext]_scheduled /\ RemoteFairness /\ PackageFairness

-----------------------------------------------------------------------------
\* Whatever fails, lags or is in front of it: every wanted endpoint is read again and again, and
\* every package with something to run is taken.
EveryTargetIsReached == EveryEndpointIsPolled /\ (remote \/ EveryPackageRuns)

=============================================================================
