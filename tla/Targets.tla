------------------------------ MODULE Targets ------------------------------
(***************************************************************************)
(* Which remote servers HISTOR reads, and when: the daily crawl's harvest  *)
(* of the registry and its sync of the targets table (registry.py,         *)
(* crawler.py), the operator's opt-out file, and the durable queue the     *)
(* remote worker drains (remote_schedule.py, Crawler.poll_remote).         *)
(*                                                                         *)
(* All endpoints are on one host, so one batch takes PerHost of them.  A   *)
(* tick is the shortest interval between two reads of an endpoint; longer  *)
(* delays (failures, logins, rate limits) are up to MaxDelay ticks.        *)
(***************************************************************************)
EXTENDS Integers, Sequences, FiniteSets, SequencesExt

CONSTANTS Endpoints,
          Curated,    \* HISTOR's own list, harvested whatever the registry says
          PerHost,    \* crawl_per_host: endpoints of a host in one batch
          MaxDelay,   \* bound: ticks until an endpoint is due again
          MaxEdits    \* bound: changes of the opt-out file

ASSUME TargetsAssumption == /\ Curated \subseteq Endpoints
                            /\ PerHost \in Nat \ {0} /\ MaxDelay \in Nat \ {0} /\ MaxEdits \in Nat

VARIABLES
    registry,  \* external: the endpoints the registry lists
    optOut,    \* external: the endpoints opt-out.txt names
    edits,     \* of opt-out.txt, counted for the bound
    listed,    \* targets with delisted = 0
    skipped,   \* targets with a skip_reason
    queue,     \* remote_schedule, in the order of next_due
    left,      \* ticks until next_due
    pause,     \* remote_host_backoff: ticks until `until_at'
    crawl,     \* a crawl between its harvest and its sync: what it harvested
    poll,      \* poll_remote: the batch, and the endpoints of it being read
    after      \* history: reads of an endpoint since opt-out.txt named it

vars == <<registry, optOut, edits, listed, skipped, queue, left, pause, crawl, poll, after>>

NoCrawl == [running |-> FALSE, list |-> {}, out |-> {}]
NoPoll == [at |-> "idle", batch |-> {}, reading |-> {}]

TypeOK ==
    /\ {registry, optOut, listed, skipped} \subseteq SUBSET Endpoints
    /\ queue \in Seq(Endpoints) /\ left \in [Endpoints -> 0..MaxDelay] /\ pause \in 0..MaxDelay
    /\ crawl \in [running : BOOLEAN, list : SUBSET Endpoints, out : SUBSET Endpoints]
    /\ poll \in [at : {"idle", "screen", "read"}, batch : SUBSET Endpoints, reading : SUBSET Endpoints]
    /\ after \in [Endpoints -> Nat]

Init ==
    /\ registry \in SUBSET Endpoints /\ optOut = {} /\ edits = 0
    /\ listed = {} /\ skipped = {} /\ queue = << >> /\ left = [e \in Endpoints |-> 0]
    /\ pause = 0 /\ crawl = NoCrawl /\ poll = NoPoll /\ after = [e \in Endpoints |-> 0]

-----------------------------------------------------------------------------
(* The crawl.                                                               *)
\* The registry page by page, with the opt-out file as it is now; or the harvest fails and nothing
\* is synchronised.  What the registry does not list, the curated list may.
Harvest ==
    /\ ~crawl.running
    /\ crawl' = [running |-> TRUE, list |-> registry \cup Curated, out |-> optOut]
    /\ UNCHANGED <<registry, optOut, edits, listed, skipped, queue, left, pause, poll, after>>

\* Everything harvested is listed and gets its skip_reason anew, everything else is delisted; a
\* target seen for the first time is due at once, unless it is skipped.
SyncTargets ==
    /\ crawl.running /\ crawl' = NoCrawl
    /\ listed' = crawl.list
    /\ skipped' = (skipped \ crawl.list) \cup (crawl.list \cap crawl.out)
    /\ \E new \in SetToSeqs((crawl.list \ crawl.out) \ ToSet(queue)) :
          queue' = SelectSeq(queue, LAMBDA e : left[e] = 0) \o new \o SelectSeq(queue, LAMBDA e : left[e] > 0)
    /\ UNCHANGED left   \* 0 for a target not in the queue
    /\ UNCHANGED <<registry, optOut, edits, pause, poll, after>>

-----------------------------------------------------------------------------
(* RemoteSchedule.                                                          *)
Eligible(e) == e \in listed /\ e \notin skipped

\* The endpoints due longest, of a host that is not paused.
Due ==
    LET ready == SelectSeq(queue, LAMBDA e : Eligible(e) /\ left[e] = 0)
    IN  IF pause > 0 THEN {} ELSE {ready[i] : i \in {j \in DOMAIN ready : j <= PerHost}}

\* Due again after `delay' ticks: behind everything due before that.
RecordDue(e, delay) ==
    LET others == SelectSeq(queue, LAMBDA f : f # e)
    IN  /\ left' = [left EXCEPT ![e] = delay]
        /\ queue' = SelectSeq(others, LAMBDA f : left[f] <= delay) \o <<e>>
                        \o SelectSeq(others, LAMBDA f : left[f] > delay)

-----------------------------------------------------------------------------
(* The remote worker.                                                       *)
Pick ==
    /\ poll.at = "idle" /\ Due # {}
    /\ poll' = [at |-> "screen", batch |-> Due, reading |-> {}]
    /\ UNCHANGED <<registry, optOut, edits, listed, skipped, queue, left, pause, crawl, after>>

\* Mutant: the opt-out file is left to the next crawl.
ScreenNothing ==
    /\ poll.at = "screen"
    /\ poll' = [poll EXCEPT !.at = "read"]
    /\ UNCHANGED <<registry, optOut, edits, listed, skipped, queue, left, pause, crawl, after>>

\* poll_remote reads the opt-out file itself, and marks what it excludes.
Screen ==
    /\ poll.at = "screen"
    /\ LET wanted == poll.batch \ optOut
       IN  poll' = IF wanted = {} THEN NoPoll ELSE [poll EXCEPT !.at = "read", !.batch = wanted]
    /\ skipped' = skipped \cup (poll.batch \cap optOut)
    /\ UNCHANGED <<registry, optOut, edits, listed, queue, left, pause, crawl, after>>

\* _observe: the endpoints of the batch are read side by side.
Read(e) ==
    /\ poll.at = "read" /\ e \in poll.batch \ poll.reading
    /\ poll' = [poll EXCEPT !.reading = @ \cup {e}]
    /\ after' = [after EXCEPT ![e] = IF e \in optOut THEN @ + 1 ELSE @]
    /\ UNCHANGED <<registry, optOut, edits, listed, skipped, queue, left, pause, crawl>>

\* _settle and record.  A failure waits up to MaxDelay; a 429 pauses the host for as long.
SettleEndpoint(e) ==
    /\ e \in poll.reading
    /\ poll' = IF poll.batch = {e} THEN NoPoll
               ELSE [poll EXCEPT !.batch = @ \ {e}, !.reading = @ \ {e}]
    /\ \E delay \in 1..MaxDelay :
          /\ RecordDue(e, delay)
          /\ pause' = pause \/ pause' = (IF delay > pause THEN delay ELSE pause)
    /\ UNCHANGED <<registry, optOut, edits, listed, skipped, crawl, after>>

-----------------------------------------------------------------------------
(* The world.                                                               *)
RegistryChanges ==
    /\ registry' \in SUBSET Endpoints
    /\ UNCHANGED <<optOut, edits, listed, skipped, queue, left, pause, crawl, poll, after>>

OperatorEdits(e) ==
    /\ edits < MaxEdits /\ edits' = edits + 1
    /\ optOut' = IF e \in optOut THEN optOut \ {e} ELSE optOut \cup {e}
    /\ after' = [after EXCEPT ![e] = 0]
    /\ UNCHANGED <<registry, listed, skipped, queue, left, pause, crawl, poll>>

Tick ==
    /\ left' = [e \in Endpoints |-> IF left[e] = 0 THEN 0 ELSE left[e] - 1]
    /\ pause' = IF pause = 0 THEN 0 ELSE pause - 1
    /\ UNCHANGED <<registry, optOut, edits, listed, skipped, queue, crawl, poll, after>>

\* The process stops, or the batch fails: what was read and not recorded is due still.
Restart ==
    /\ crawl' = NoCrawl /\ poll' = NoPoll
    /\ UNCHANGED <<registry, optOut, edits, listed, skipped, queue, left, pause, after>>

Worker == Pick \/ Screen \/ \E e \in Endpoints : Read(e) \/ SettleEndpoint(e)

Next ==
    \/ Harvest \/ SyncTargets
    \/ Worker
    \/ RegistryChanges
    \/ \E e \in Endpoints : OperatorEdits(e)
    \/ Tick \/ Restart

Spec == Init /\ [][Next]_vars

-----------------------------------------------------------------------------
\* Once the operator's file names an endpoint, the remote worker starts at most one more read of
\* it, although the crawl that is under way writes back what it knew at its harvest.
OptOutStops == \A e \in Endpoints : after[e] <= 1

\* "drain past it, rather than letting these oldest entries hold the entire queue": an endpoint
\* that stays listed and wanted is read again and again, whatever becomes of the others.
EveryEndpointIsPolled == \A e \in Endpoints : []<>(~Eligible(e) \/ e \in optOut) \/ []<>(e \in poll.reading)

=============================================================================
