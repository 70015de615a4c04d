------------------------------- MODULE Limits -------------------------------
(***************************************************************************)
(* What one caller may ask of /check (app.py RateLimiter, limit_key,       *)
(* allow_all, run_check; check.py _scan): requests in a thread pool charge *)
(* sliding windows one bucket at a time; a scan takes the only slot.  Hub  *)
(* and buyer are headers, which a caller may forge.                        *)
(***************************************************************************)
EXTENDS Integers, Sequences, FiniteSets

CONSTANTS Threads,    \* requests under way at a time
          Hubs,       \* values of X-AIMarket-Routing-Hub
          Buyers,     \* values of X-AIMarket-Buyer
          Rate,       \* check_rate_per_min; a hub's address may have Wide times it
          Wide,
          ScanRate,   \* check_scan_rate_per_hour
          Window,     \* how long a "check", a "scan" and a "report" count, in ticks
          MaxKeys,    \* max_keys
          Tickets,    \* numbers that tell one caller's requests of a tick apart, more than its windows hold
          MaxTime     \* bound: ticks of the clock

Kinds == {"check", "scan", "report"}

ASSUME LimitsAssumption ==
    /\ {Rate, ScanRate, MaxKeys, MaxTime} \subseteq Nat /\ Wide \in Nat \ {0}
    /\ Window \in [Kinds -> Nat] /\ \A kind \in Kinds : Window[kind] <= Window["report"]

VARIABLES
    hits,     \* RateLimiter._hits: bucket -> hits, each of a time, a caller and a ticket
    swept,    \* RateLimiter._swept
    now,
    asks,     \* "check", "scan" or "report": kinds share no bucket, so a behaviour is of one
    request,  \* per thread: where it is, the buckets still to charge, its hit
    slot,     \* _SCAN_SLOT: the thread that scans, or Nobody
    stored,   \* of the set asked about: HISTOR observed it; its scan under the patterns in use is cached
    served    \* history: the hits of those let through in the window that ends now

limits == <<hits, swept, now, asks, request, slot, stored, served>>

Nobody == "nobody"
Address == "address"  \* all callers share one
NoCall == [at |-> "idle", todo |-> << >>, hit |-> << >>]

\* What a request names: the address it comes from, a hub, a buyer of the hub.
Callers == {<<Address>>} \cup {<<Address, h>> : h \in Hubs} \cup {<<Address, h, b>> : h \in Hubs, b \in Buyers}

LimitsInit ==
    /\ hits = << >> /\ swept = 0 /\ now = 0 /\ slot = Nobody /\ served = {}
    /\ asks \in Kinds /\ request = [r \in Threads |-> NoCall]
    /\ stored = [observed |-> FALSE, cached |-> FALSE]

-----------------------------------------------------------------------------
\* Mutant: a hub's ceiling stands for its address's.
HubIsTheCeiling(who) ==
    LET own == [key |-> <<asks, who>>, limit |-> IF asks = "scan" THEN ScanRate ELSE Rate]
        hub == [key |-> <<asks, <<who[1], who[2]>>>>, limit |-> Rate * Wide]
    IN  IF Len(who) = 1 THEN <<own>> ELSE IF Len(who) = 2 THEN <<hub>> ELSE <<own, hub>>

\* limit_key, the narrowest bucket first as allow_all takes them; may_scan and may_contribute, asked
\* by a check that was let through.  The last bucket is always the bare address.
Buckets(who) ==
    LET of(name, limit) == [key |-> <<asks, name>>, limit |-> limit]
        address(limit) == of(<<Address>>, limit)
        hub == of(<<who[1], who[2]>>, Rate * Wide)
    IN  CASE asks = "report" -> <<address(1)>>
          [] asks = "scan"  /\ Len(who) = 1 -> <<address(ScanRate)>>
          [] asks = "scan"  /\ Len(who) > 1 -> <<of(who, ScanRate), address(ScanRate * Wide)>>
          [] asks = "check" /\ Len(who) = 1 -> <<address(Rate)>>
          [] asks = "check" /\ Len(who) = 2 -> <<hub, address(Rate * Wide)>>
          [] asks = "check" /\ Len(who) = 3 -> <<of(who, Rate), hub, address(Rate * Wide)>>

Longest == Window["report"]

\* RateLimiter.allow, under its lock: the sweep, the window, and the hit if there is room.
Kept ==
    LET stale == {k \in DOMAIN hits : \A h \in hits[k] : now - h[1] > Longest}
    IN  IF Cardinality(DOMAIN hits) > MaxKeys /\ now - swept > 1 THEN DOMAIN hits \ stale ELSE DOMAIN hits

InWindow(b) ==
    IF b.key \in Kept THEN {h \in hits[b.key] : now - h[1] <= Window[b.key[1]]} ELSE {}

Room(b) == Cardinality(InWindow(b)) < b.limit

Allow(b, hit) ==
    /\ hits' = [k \in Kept \cup {b.key} |->
                  IF k # b.key THEN hits[k] ELSE IF Room(b) THEN InWindow(b) \cup {hit} ELSE InWindow(b)]
    /\ swept' = IF Cardinality(DOMAIN hits) > MaxKeys /\ now - swept > 1 THEN now ELSE swept

-----------------------------------------------------------------------------
\* The deques keep times, equal ones too; here a ticket tells them apart, so that they are sets.
Free(who) ==
    {n \in Tickets : /\ \A k \in DOMAIN hits : <<now, who, n>> \notin hits[k]
                     /\ \A r \in Threads : request[r].hit # <<now, who, n>>}

\* A scan is asked for when none is cached.
Arrive(r, who) ==
    /\ request[r].at = "idle" /\ (asks = "scan" => ~stored.cached) /\ Free(who) # {}
    /\ request' = [request EXCEPT ![r] = [at |-> "limits", todo |-> Buckets(who),
                                          hit |-> <<now, who, CHOOSE n \in Free(who) : TRUE>>]]
    /\ UNCHANGED <<hits, swept, now, asks, slot, stored, served>>

Answered(r) == request' = [request EXCEPT ![r] = NoCall]

\* One bucket; after the last, what was asked is let through.
Charge(r) ==
    LET b == Head(request[r].todo)
        through == Room(b) /\ Len(request[r].todo) = 1
    IN  /\ request[r].at = "limits"
        /\ Allow(b, request[r].hit)
        /\ served' = IF through THEN served \cup {request[r].hit} ELSE served
        /\ IF ~Room(b) \/ (through /\ asks # "scan") THEN Answered(r)
           ELSE request' = [request EXCEPT ![r].at = IF through THEN "slot" ELSE @, ![r].todo = Tail(@),
                                           ![r].hit = IF through THEN << >> ELSE @]
        /\ UNCHANGED <<now, asks, slot, stored>>

\* _SCAN_SLOT, not waited for: "busy" ends it.
TakeScanSlot(r) ==
    /\ request[r].at = "slot"
    /\ IF slot = Nobody THEN slot' = r /\ request' = [request EXCEPT ![r].at = "scanning"]
       ELSE Answered(r) /\ UNCHANGED slot
    /\ UNCHANGED <<hits, swept, now, asks, stored, served>>

\* A stranger's set is scanned for them and forgotten; a scan may fail.
Scanned(r) ==
    /\ request[r].at = "scanning" /\ slot' = Nobody /\ Answered(r)
    /\ \E succeeds \in BOOLEAN : stored' = [stored EXCEPT !.cached = @ \/ (succeeds /\ stored.observed)]
    /\ UNCHANGED <<hits, swept, now, asks, served>>

\* The charges of one request, in memory, are of one moment.
Minute ==
    /\ now < MaxTime /\ now' = now + 1
    /\ \A r \in Threads : request[r].at \in {"idle", "slot", "scanning"}
    /\ served' = {h \in served : now' - h[1] <= Window[asks]}
    /\ UNCHANGED <<hits, swept, asks, request, slot, stored>>

\* A crawl observes and scans the set; a release of WARDEN brings other patterns.
Scans(new) == asks = "scan" /\ stored' = new /\ UNCHANGED <<hits, swept, now, asks, request, slot, served>>
Crawled == Scans([observed |-> TRUE, cached |-> TRUE])
NewPatterns == Scans([stored EXCEPT !.cached = FALSE])

Limiting ==
    \/ \E r \in Threads :
          \/ \E who \in Callers : Arrive(r, who)
          \/ Charge(r) \/ TakeScanSlot(r) \/ Scanned(r)
    \/ Minute \/ Crawled \/ NewPatterns

LimitsSpec == LimitsInit /\ [][Limiting]_limits

-----------------------------------------------------------------------------
\* What was let through for callers of a set, in the window that ends now.
Count(callers) == Cardinality({h \in served : h[2] \in callers})

Ceiling == CASE asks = "check" -> Rate * Wide [] asks = "scan" -> ScanRate * Wide [] asks = "report" -> 1
OwnRate == CASE asks = "check" -> Rate [] asks = "scan" -> ScanRate [] asks = "report" -> 1

\* "Both headers can be forged": in no window does one address have more than the ceiling served,
\* whatever names it gives, in however many threads; nor a buyer, nor an address without a hub, more
\* than its own rate; a report counts once a day.  "A refused buyer does not also spend the shared
\* ceiling": the address is charged for what was served and nothing else.  And the cache of scans
\* holds no stranger's set.
LimitsHold ==
    /\ Count(Callers) <= Ceiling
    /\ \A who \in Callers : (asks = "check" /\ Len(who) = 2) \/ Count({who}) <= OwnRate
    /\ Cardinality(InWindow([key |-> <<asks, <<Address>>>>, limit |-> 0])) = Count(Callers)
    /\ stored.cached => stored.observed

=============================================================================
