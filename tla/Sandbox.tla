------------------------------ MODULE Sandbox ------------------------------
(***************************************************************************)
(* Package observation: SandboxPool's threads (packages.py) and the hosts  *)
(* they ask (sandbox/histor_observe.py serve, observe, run), with the DNS  *)
(* logger and the traps (histor_sink.py) that know a run by its address.   *)
(*                                                                         *)
(* Docker is external: it gives a container any free address, and the      *)
(* address of a container that is gone to the next one.  What a package    *)
(* sends is a lookup and a request carrying a decoy of its own run; what   *)
(* the conversation with it answers is McpReading's.                       *)
(***************************************************************************)
EXTENDS Integers, FiniteSets, TLC

CONSTANTS Threads,     \* lanes' workers, each observing one package
          Hosts,       \* configured sandbox hosts
          Inside,      \* those modelled inside; of the others, only what they answer
          PoolSlots,   \* slots HISTOR configures per host
          Slots,       \* observations at once on a host
          Addresses,   \* of the internal network
          MaxFaults    \* bound: infrastructure failures

ASSUME SandboxAssumption ==
    Inside \subseteq Hosts /\ PoolSlots \in Nat \ {0} /\ Slots \in Nat \ {0} /\ MaxFaults \in Nat

None == "none"
Jobs == Threads \X {1, 2}      \* a host's request: the first or the second attempt

VARIABLES
    thread,    \* SandboxPool.observe: where it is, the attempt and its host, what it returned
    free,      \* free client slots per host
    job,       \* do_POST and observe, per request
    address,   \* Docker: address of the job's container, while it exists
    heard,     \* lookups logged and requests recorded inside a job's window
    opening,   \* connections accepted by a trap, their record not yet written
    faults     \* counted for the bound

pool == <<thread, free, faults>>
vars == <<pool, job, address, heard, opening>>

NoJob == [at |-> None, host |-> None, ip |-> None, known |-> FALSE,
          complete |-> FALSE, evidence |-> {}, sent |-> {}]
NoThread == [at |-> "idle", try |-> 1, host |-> None, result |-> None]

Init ==
    /\ thread = [t \in Threads |-> NoThread]
    /\ free = [h \in Hosts |-> PoolSlots]
    /\ job = [j \in Jobs |-> NoJob]
    /\ address = [j \in Jobs |-> None]
    /\ heard = [j \in Jobs |-> {}]
    /\ opening = {}
    /\ faults = 0

Waiting == {"gate"}
Observing == {"slot", "run", "up", "removed"}
On(h, stages) == {j \in Jobs : job[j].host = h /\ job[j].at \in stages}

hostSide == <<address, heard, opening>>

-----------------------------------------------------------------------------
(***************************************************************************)
(* The pool.  An observation takes a free slot, of any host (which one the *)
(* pool prefers is a matter of time: it is left open); one that failed as  *)
(* infrastructure is tried once more on another host.                      *)
(***************************************************************************)
Choices(skip) == {h \in Hosts \ {skip} : free[h] > 0}

Take(t) ==
    /\ thread[t].at \in {"idle", "retry"}
    /\ \E h \in Choices(thread[t].host) :
          /\ thread' = [thread EXCEPT ![t].at = "call", ![t].host = h]
          /\ free' = [free EXCEPT ![h] = @ - 1]
          /\ job' = [job EXCEPT ![<<t, thread[t].try>>] = [NoJob EXCEPT !.at = "sent", !.host = h]]
    /\ UNCHANGED <<faults, hostSide>>

\* _run and observe after an answer: a fault is the host's, and counts against it.
Return(t, result) ==
    LET h == thread[t].host
        again == result = "error" /\ thread[t].try = 1 /\ Cardinality(Hosts) > 1
    IN  /\ result = "error" => faults < MaxFaults
        /\ faults' = IF result = "error" THEN faults + 1 ELSE faults
        /\ free' = [free EXCEPT ![h] = @ + 1]
        /\ thread' = IF again
                     THEN [thread EXCEPT ![t].at = "retry", ![t].try = 2]
                     ELSE [thread EXCEPT ![t].at = "done", ![t].result = result]

\* The answer reaches the client, if it still waits for it.
Answered(j, result) ==
    IF thread[j[1]].at = "call" /\ thread[j[1]].try = j[2]
    THEN Return(j[1], result)
    ELSE UNCHANGED pool

\* Mutant: the slot is not released when the call raises.
GiveUpHoldingSlot(t) ==
    /\ thread[t].at = "call" /\ faults < MaxFaults
    /\ thread' = [thread EXCEPT ![t].at = "retry", ![t].try = 2]
    /\ faults' = faults + 1
    /\ UNCHANGED <<free, job, hostSide>>

\* The client's timeout: the host is not told.
GiveUp(t) ==
    /\ thread[t].at = "call"
    /\ Return(t, "error")
    /\ UNCHANGED <<job, hostSide>>

-----------------------------------------------------------------------------
(***************************************************************************)
(* A host.  Its gate admits 2 * SLOTS requests, SLOTS of them observe.     *)
(***************************************************************************)
Ends(j, result) ==
    /\ job' = [job EXCEPT ![j] = [NoJob EXCEPT !.at = "over", !.host = job[j].host]]
    /\ Answered(j, result)

\* Unreachable, runsc not registered, or the gate is full.
Refuse(j) ==
    /\ job[j].at = "sent"
    /\ Ends(j, "error")
    /\ UNCHANGED hostSide

AnsweredOutside(j) ==
    /\ job[j].at = "sent" /\ job[j].host \notin Inside
    /\ \E result \in {"fact", "observed"} : Ends(j, result)
    /\ UNCHANGED hostSide

Admit(j) ==
    /\ job[j].at = "sent" /\ job[j].host \in Inside
    /\ Cardinality(On(job[j].host, Waiting \cup Observing)) < 2 * Slots
    /\ job' = [job EXCEPT ![j].at = "gate"]
    /\ UNCHANGED <<pool, hostSide>>

\* not-found, no runnable Python, no wheel: a fact of the package, before any slot.
FactBeforeRun(j) ==
    /\ job[j].at = "gate"
    /\ Ends(j, "fact")
    /\ UNCHANGED hostSide

TakeSlot(j) ==
    /\ job[j].at = "gate"
    /\ Cardinality(On(job[j].host, Observing)) < Slots
    /\ job' = [job EXCEPT ![j].at = "slot"]
    /\ UNCHANGED <<pool, hostSide>>

SlotTimeout(j) ==
    /\ job[j].at = "gate"
    /\ Cardinality(On(job[j].host, Observing)) = Slots
    /\ Ends(j, "error")
    /\ UNCHANGED hostSide

\* install-failed or no-entry-point; or an exception on the way.
SlotEndsEarly(j) ==
    /\ job[j].at = "slot"
    /\ \E result \in {"fact", "error"} : Ends(j, result)
    /\ UNCHANGED hostSide

\* Popen of docker run: the window opens before the container exists.
DockerRun(j) ==
    /\ job[j].at = "slot"
    /\ job' = [job EXCEPT ![j].at = "run"]
    /\ UNCHANGED <<pool, hostSide>>

Held(h) == {address[k] : k \in {m \in Jobs : job[m].host = h}}

\* The container gets an address; Docker may not say which, or when it started.
ContainerStarts(j) ==
    /\ job[j].at = "run"
    /\ \E ip \in Addresses \ Held(job[j].host) :
          /\ address' = [address EXCEPT ![j] = ip]
          /\ \/ \E known \in BOOLEAN :
                   job' = [job EXCEPT ![j].at = "up", ![j].ip = ip, ![j].known = known]
             \/ job' = [job EXCEPT ![j].at = "up"]
    /\ UNCHANGED <<pool, heard, opening>>

\* The jobs whose window a moment falls in, each with whether its container had started.
Windows(h) == {[job |-> j, early |-> job[j].at = "run"] : j \in On(h, {"run", "up"})}

Entry(j, kind, k, ip, windows) ==
    {[kind |-> kind, of |-> k, ip |-> ip, early |-> w.early] : w \in {x \in windows : x.job = j}}

Sends(k, kind) ==
    /\ address[k] # None /\ job[k].sent = {}
    /\ job' = [job EXCEPT ![k].sent = {kind}]
    /\ UNCHANGED <<pool, address>>

\* DnsLogger._loop: written down as it is received, known by its source address alone.
LookUp(k) ==
    /\ Sends(k, "lookup")
    /\ heard' = [j \in Jobs |-> heard[j] \cup Entry(j, "lookup", k, address[k], Windows(job[k].host))]
    /\ UNCHANGED opening

\* A trap accepts a connection; its record is written once the body is read or 5 seconds passed.
Connect(k) ==
    /\ Sends(k, "request")
    /\ opening' = opening \cup {[of |-> k, ip |-> address[k], during |-> Windows(job[k].host)]}
    /\ UNCHANGED heard

Record(c) ==
    /\ opening' = opening \ {c}
    /\ heard' = [j \in Jobs |-> IF job[j].at = "over" THEN heard[j]
                                ELSE heard[j] \cup Entry(j, "request", c.of, c.ip, c.during)]
    /\ UNCHANGED <<pool, job, address>>

\* Run with --rm: a container that ends by itself is gone, and its address free, unnoticed.
ContainerExits(j) ==
    /\ address[j] # None
    /\ address' = [address EXCEPT ![j] = None]
    /\ UNCHANGED <<pool, job, heard, opening>>

\* run's finally: docker rm -f, and the window closes after it.
Remove(j) ==
    /\ job[j].at = "up"
    /\ address' = [address EXCEPT ![j] = None]
    /\ job' = [job EXCEPT ![j].at = "removed"]
    /\ UNCHANGED <<pool, heard, opening>>

\* docker rm timed out: inspection-failed, and the container stays for a while.
RemoveFails(j) ==
    /\ job[j].at = "up"
    /\ Ends(j, "error")
    /\ UNCHANGED hostSide

\* Rows at this address inside the window, from the start of the container if it is known.
Rows(j) == {r \in heard[j] : r.ip = job[j].ip /\ (job[j].known => ~r.early)}

Foreign(j) == {r \in Rows(j) : r.kind = "request" /\ r.of # j}

\* Collector.phase and DnsLogger.names: a request names its run by the decoy it carries.
Evidence(j) == Rows(j) \ Foreign(j)

\* read_trace, _attribution, merge_sink and the end of observe; a trace may have gaps of its own,
\* and a conversation that failed is not complete either.
Report(j) ==
    /\ job[j].at = "removed"
    /\ \E clean \in BOOLEAN :
          job' = [job EXCEPT ![j].at = "over", ![j].ip = None, ![j].known = FALSE,
                             ![j].evidence = Evidence(j),
                             ![j].complete = clean /\ job[j].known /\ Foreign(j) = {}]
    /\ Answered(j, "observed")
    /\ heard' = [heard EXCEPT ![j] = {}]
    /\ UNCHANGED <<address, opening>>

-----------------------------------------------------------------------------
Host(j) ==
    \/ Refuse(j) \/ AnsweredOutside(j) \/ Admit(j) \/ FactBeforeRun(j) \/ TakeSlot(j) \/ SlotTimeout(j) \/ SlotEndsEarly(j)
    \/ DockerRun(j) \/ ContainerStarts(j) \/ Remove(j) \/ RemoveFails(j) \/ Report(j)

Next ==
    \/ \E t \in Threads : Take(t) \/ GiveUp(t)
    \/ \E j \in Jobs : Host(j) \/ LookUp(j) \/ Connect(j) \/ ContainerExits(j)
    \/ \E c \in opening : Record(c)

Spec == Init /\ [][Next]_vars

-----------------------------------------------------------------------------
\* No decoy of another run is reported as this package's doing, whatever address Docker reuses
\* and whenever the trap writes its record (the red-team leak of container_started's comment).
DecoysAreItsOwn == \A j \in Jobs : \A r \in job[j].evidence : r.kind = "request" => r.of = j

\* A complete observation holds nothing of the container that had the address before.
NothingOfTheFormerHolder == \A j \in Jobs : job[j].complete => \A r \in job[j].evidence : ~r.early

\* What is reported of a package is of its own run (histor_observe.py's container_started: a
\* neighbour's traffic must not become this package's doing).
EvidenceIsItsOwn == DecoysAreItsOwn /\ NothingOfTheFormerHolder

\* Whatever fails, the client's slots are those of the calls under way: none is lost or doubled.
SlotsComeBack == \A h \in Hosts :
    free[h] + Cardinality({t \in Threads : thread[t].at = "call" /\ thread[t].host = h}) = PoolSlots

\* Names are matched by address "never before it started or after it was removed".
LookupsAreItsOwn == \A j \in Jobs : job[j].complete => \A r \in job[j].evidence : r.of = j

Symmetry == Permutations(Threads) \cup Permutations(Addresses)

=============================================================================
