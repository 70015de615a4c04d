-------------------------- MODULE WebhookDelivery --------------------------
(***************************************************************************)
(* Ordered webhook delivery (security_events.deliver) as the paid Watch    *)
(* uses it (watch_paid.deliver_paid, _start_cursor, set_servers): workers  *)
(* of several processes send one subscription the changes of the servers   *)
(* it follows, each guarded by a lease in webhook_cursors.                 *)
(*                                                                         *)
(* The endpoint is external: it may take an event and its answer be lost.  *)
(***************************************************************************)
EXTENDS Integers, Sequences, FiniteSetsExt

CONSTANTS Workers,     \* processes whose worker() thread delivers
          Watched,     \* servers that change
          Lists,       \* the lists of them a team may follow
          MaxChanges   \* bound on the changes journal

ASSUME DeliveryAssumption == MaxChanges \in Nat /\ Lists \subseteq (SUBSET Watched) \ {{}}

NoHolder == "none"

VARIABLES
    journal,   \* changes: the server of each change, in id order
    active, watch,                      \* the subscription: paid for now, server ids
    cursor, token, leased, backoff,     \* webhook_cursors
    worker,                             \* per process: the pass under way
    received                            \* changes the endpoint has taken

row == <<cursor, token, leased, backoff>>
delivery == <<journal, active, watch, row, worker, received>>

Resting == [at |-> "resting", list |-> {}, from |-> 0, item |-> 0, ok |-> FALSE]
InPass(list) == [Resting EXCEPT !.at = "pass", !.list = list]

DeliveryInit ==
    /\ journal = << >>
    /\ active = FALSE /\ watch \in Lists
    /\ cursor = 0 /\ token = NoHolder /\ leased = FALSE /\ backoff = FALSE
    /\ worker = [w \in Workers |-> Resting]
    /\ received = {}

ServerChanges(v) ==
    /\ Len(journal) < MaxChanges
    /\ journal' = Append(journal, v)
    /\ UNCHANGED <<active, watch, row, worker, received>>

SetServers ==
    /\ watch' \in Lists
    /\ UNCHANGED <<journal, active, row, worker, received>>

\* The period runs out, or is taken back.
Lapse ==
    /\ active /\ active' = FALSE
    /\ UNCHANGED <<journal, watch, row, worker, received>>

\* A payment settles after a gap: the cursor starts at the newest change; a lease is kept.
Renew ==
    /\ ~active /\ active' = TRUE
    /\ cursor' = Len(journal) /\ backoff' = FALSE
    /\ UNCHANGED <<journal, watch, token, leased, worker, received>>

(***************************************************************************)
(* A pass reads the active subscription once and then makes deliveries     *)
(* until one does not succeed.  Each takes the lease and reads the cursor, *)
(* looks for the next followed change, posts it, and moves the cursor if   *)
(* the lease is still its own.  A lease may run out while its holder is    *)
(* posting: it is dated from the start of the pass.                        *)
(***************************************************************************)
StartPass(w) ==
    /\ worker[w].at = "resting" /\ active
    /\ worker' = [worker EXCEPT ![w] = InPass(watch)]
    /\ UNCHANGED <<journal, active, watch, row, received>>

\* Another delivery holds the lease, a retry is not due, or the pass made its twenty.
EndPass(w) ==
    /\ worker[w].at = "pass"
    /\ worker' = [worker EXCEPT ![w] = Resting]
    /\ UNCHANGED <<journal, active, watch, row, received>>

TakeLease(w) ==
    /\ worker[w].at = "pass" /\ ~leased /\ ~backoff
    /\ leased' = TRUE /\ token' = w
    /\ worker' = [worker EXCEPT ![w].at = "leased", ![w].from = cursor]
    /\ UNCHANGED <<journal, active, watch, cursor, backoff, received>>

\* Mutant: the cursor's own change again.
FollowingFrom(w) == {n \in 1..Len(journal) : n >= worker[w].from /\ journal[n] \in worker[w].list}

Following(w) == {n \in 1..Len(journal) : n > worker[w].from /\ journal[n] \in worker[w].list}

\* Nothing new to send: the lease is given back, if it is still this delivery's.
Idle(w) ==
    /\ worker[w].at = "leased" /\ Following(w) = {}
    /\ leased' = (leased /\ token # w)
    /\ worker' = [worker EXCEPT ![w] = Resting]
    /\ UNCHANGED <<journal, active, watch, cursor, token, backoff, received>>

\* The endpoint takes the event and says so, or the answer is lost, or nothing arrives.
Post(w, arrives, ok) ==
    /\ worker[w].at = "leased" /\ Following(w) # {}
    /\ ok => arrives
    /\ worker' = [worker EXCEPT ![w].at = "posted", ![w].item = Min(Following(w)), ![w].ok = ok]
    /\ received' = received \cup (IF arrives THEN {Min(Following(w))} ELSE {})
    /\ UNCHANGED <<journal, active, watch, row>>

\* Mutant: the cursor is moved whoever holds the lease by then, and past a failed post.
FinishAlways(w) ==
    /\ worker[w].at = "posted"
    /\ worker' = [worker EXCEPT ![w] = IF worker[w].ok THEN InPass(worker[w].list) ELSE Resting]
    /\ cursor' = worker[w].item /\ backoff' = ~worker[w].ok /\ leased' = FALSE
    /\ UNCHANGED <<journal, active, watch, token, received>>

Finish(w) ==
    /\ worker[w].at = "posted"
    /\ worker' = [worker EXCEPT ![w] = IF worker[w].ok THEN InPass(worker[w].list) ELSE Resting]
    /\ IF token = w
       THEN /\ cursor' = IF worker[w].ok THEN worker[w].item ELSE worker[w].from
            /\ backoff' = ~worker[w].ok
            /\ leased' = FALSE
       ELSE UNCHANGED <<cursor, backoff, leased>>
    /\ UNCHANGED <<journal, active, watch, token, received>>

LeaseRunsOut ==
    /\ leased /\ leased' = FALSE
    /\ UNCHANGED <<journal, active, watch, cursor, token, backoff, worker, received>>

BackoffEnds ==
    /\ backoff /\ backoff' = FALSE
    /\ UNCHANGED <<journal, active, watch, cursor, token, leased, worker, received>>

Kill(w) ==
    /\ worker[w].at # "resting"
    /\ worker' = [worker EXCEPT ![w] = Resting]
    /\ UNCHANGED <<journal, active, watch, row, received>>

Deliver(w) ==
    \/ StartPass(w) \/ EndPass(w) \/ TakeLease(w) \/ Idle(w) \/ Finish(w)
    \/ \E arrives, ok \in BOOLEAN : Post(w, arrives, ok)

Delivering ==
    \/ \E v \in Watched : ServerChanges(v)
    \/ SetServers \/ Lapse \/ Renew
    \/ \E w \in Workers : Deliver(w) \/ Kill(w)
    \/ LeaseRunsOut \/ BackoffEnds

\* A live worker() loops every 20 seconds and tries before it ends a pass; leases and back-offs
\* are bounded in time; an endpoint posted to again and again answers 2xx some day.
Fairness ==
    /\ \A w \in Workers : /\ WF_delivery(StartPass(w)) /\ SF_delivery(TakeLease(w)) /\ WF_delivery(Idle(w))
                          /\ SF_delivery(Post(w, TRUE, TRUE)) /\ WF_delivery(Finish(w))
    /\ WF_delivery(LeaseRunsOut) /\ WF_delivery(BackoffEnds)

\* No process dies, and no lease (60 seconds) ends before its post (10 seconds at most).
Calm ==
    /\ \A w \in Workers : ~Kill(w)
    /\ LeaseRunsOut => \A w \in Workers : token = w => worker[w].at \in {"resting", "pass"}

DeliverySpec == DeliveryInit /\ [][Delivering]_delivery /\ Fairness /\ <>[][Calm]_delivery

-----------------------------------------------------------------------------
\* A delivery moves the cursor only past changes that were received or that the server list of
\* its pass does not follow: a lease that ran out, a kill or a lost answer skips none.
NothingSkipped ==
    [][\A w \in Workers : Finish(w) =>
          \A n \in (cursor + 1)..cursor' : n \in received \/ journal[n] \notin worker[w].list]_delivery

\* A followed change reaches the endpoint while the subscription stays active, once processes
\* stop dying.
Owed(n) == active /\ n \in (cursor + 1)..Len(journal) /\ journal[n] \in watch

EveryChangeArrives ==
    \A n \in 1..MaxChanges : Owed(n) ~> (n \in received \/ ~Owed(n))

=============================================================================
