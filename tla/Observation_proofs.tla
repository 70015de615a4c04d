------------------------- MODULE Observation_proofs -------------------------
(***************************************************************************)
(* Theorems about Observation and its parts: what a reading reports, what  *)
(* a check answers, what robots.txt means and closes, what two tool lists  *)
(* are judged by, which declarations are withdrawn; about Cards; and about *)
(* Limits.  For every server, however long its list, every robots.txt,     *)
(* every set of tools, all the periods of the policy and any number of     *)
(* callers.                                                                *)
(***************************************************************************)
EXTENDS Observation, Cards, Limits, FiniteSetTheorems, SequenceTheorems, WellFoundedInduction, TLAPS

-----------------------------------------------------------------------------
(* A reading.  Over HTTP the pages kept are the first ones of the server's  *)
(* list, up to the one its cursor asks for, until the reading is done; and  *)
(* over stdio a modern error that was recognised leaves one way on, the     *)
(* second probe, after which no answer leads back to initialize.            *)

Requests == {"server/discover", "initialize", "tools/list", "tools/call"}

First(n) == [i \in 1..n |-> i]

ReadingInv ==
    /\ transport \in {"http", "stdio"} /\ at \in Requests \cup {"idle", "done"}
    /\ pages \in Seq(Nat) /\ page \in Nat \ {0} /\ length \in Nat \ {0}
    /\ at # "done" => status = None
    /\ at \in {"idle", "server/discover", "initialize"} => pages = << >> /\ page = 1
    /\ at \in {"idle", "server/discover"} => modern
    /\ at = "idle" => ~committed
    /\ transport = "http" /\ at = "tools/list" => pages = First(page - 1) /\ page <= length
    /\ transport = "http" => at # "tools/call"
    /\ transport = "stdio" /\ committed => modern /\ (at = "server/discover" => retried)
    /\ OkIsWhole

LEMMA NothingRead == << >> = First(0) /\ << >> \in Seq(Nat)
BY DEF First

\* The page after the first ones.
LEMMA OneMorePage ==
    ASSUME NEW n \in Nat
    PROVE  Append(First(n), n + 1) = First(n + 1) /\ First(n) \in Seq(Nat) /\ Len(First(n)) = n
<1>1. First(n) \in Seq(Nat) /\ Len(First(n)) = n
  BY DEF First
<1>2. Append(First(n), n + 1) \in Seq(Nat) /\ Len(Append(First(n), n + 1)) = n + 1
  BY <1>1
<1>3. \A i \in 1..n + 1 : Append(First(n), n + 1)[i] = i
  BY <1>1 DEF First
<1>4. First(n + 1) \in Seq(Nat) /\ Len(First(n + 1)) = n + 1 /\ \A i \in 1..n + 1 : First(n + 1)[i] = i
  BY DEF First
<1>5. Append(First(n), n + 1) = First(n + 1)
  BY <1>2, <1>3, <1>4, SeqEqual
<1> QED
  BY <1>1, <1>5

LEMMA ReadingInvInit == ReadingInit => ReadingInv
BY NothingRead DEF ReadingInit, Idle, ReadingInv, Requests, OkIsWhole, None

LEMMA ReadingInvStart ==
    ASSUME ReadingInv, NEW t \in {"http", "stdio"}, NEW n \in Nat \ {0}, StartReading(t, n)
    PROVE  ReadingInv'
BY DEF StartReading, ReadingInv, Requests, OkIsWhole, None

\* A reading that stops with anything but "ok" is done.
LEMMA ReadingInvStop ==
    ASSUME ReadingInv, NEW s, s # "ok", Stop(s)
    PROVE  ReadingInv'
BY DEF Stop, ReadingInv, Requests, OkIsWhole

LEMMA ReadingInvLegacy ==
    ASSUME ReadingInv, GoLegacy, transport = "stdio" => ~committed', at # "done"
    PROVE  ReadingInv'
BY NothingRead DEF GoLegacy, ReadingInv, Requests, OkIsWhole, None

LEMMA ReadingInvModern == ASSUME ReadingInv, at = "server/discover", Modern PROVE ReadingInv'
BY NothingRead DEF Modern, ReadingInv, Requests, OkIsWhole, None

LEMMA ReadingInvDiscover == ASSUME ReadingInv, Discover PROVE ReadingInv'
<1>0. at = "server/discover"
  BY DEF Discover, SilentProbe, LegacyError, NotDiscovery, ModernError, Discovered, Unsupported
<1>1. CASE SilentProbe
  BY <1>1, ReadingInvLegacy DEF SilentProbe, ReadingInv
<1>2. CASE LegacyError
  BY <1>2, ReadingInvLegacy, ReadingInvStop DEF LegacyError, ReadingInv
<1>3. CASE NotDiscovery
  BY <1>3, ReadingInvLegacy, ReadingInvStop DEF NotDiscovery
<1>4. CASE ModernError
  BY <1>4 DEF ModernError, ReadingInv, Requests, OkIsWhole
<1>5. ASSUME NEW versions \in SUBSET Versions, Discovered(versions) PROVE ReadingInv'
  BY <1>5, ReadingInvLegacy, ReadingInvStop, ReadingInvModern DEF Discovered
<1>6. ASSUME NEW versions \in SUBSET Versions, Unsupported(versions) PROVE ReadingInv'
  <2>1. CASE transport = "http" /\ "legacy" \in versions
    BY <1>0, <1>6, <2>1, ReadingInvLegacy DEF Unsupported
  <2>2. CASE transport = "stdio" /\ "ours" \in versions /\ ~retried
    <3>1. /\ retried' = TRUE /\ committed' = TRUE
          /\ UNCHANGED <<transport, at, modern, pages, page, length, unanswered, calls, status>>
      BY <1>6, <2>2 DEF Unsupported
    <3> QED
      BY <1>0, <3>1 DEF ReadingInv, OkIsWhole
  <2>3. CASE ~(transport = "http" /\ "legacy" \in versions) /\ ~(transport = "stdio" /\ "ours" \in versions /\ ~retried)
    <3>1. /\ at' = "done" /\ status' = "protocol" /\ committed' = TRUE
          /\ UNCHANGED <<transport, modern, retried, pages, page, length, unanswered, calls>>
      BY <1>6, <2>3 DEF Unsupported
    <3> QED
      BY <1>0, <3>1 DEF ReadingInv, OkIsWhole, Requests
  <2> QED
    BY <2>1, <2>2, <2>3
<1> QED
  BY <1>1, <1>2, <1>3, <1>4, <1>5, <1>6 DEF Discover

\* Over HTTP the page appended is the one after the first ones, the last ends the list, and a cursor
\* that leads back to one of them has been followed before.
LEMMA ReadingInvPage == ASSUME ReadingInv, Page PROVE ReadingInv'
<1>1. /\ at = "tools/list" /\ pages' = Append(pages, page) /\ Leads
      /\ UNCHANGED <<transport, modern, retried, length, unanswered, calls, committed>>
  BY DEF Page
<1>2. page \in Nat \ {0} /\ length \in Nat \ {0} /\ pages' \in Seq(Nat) /\ status = None
  BY <1>1 DEF ReadingInv
<1>3. at' \in {"done", "tools/call", "tools/list"} /\ page' \in Nat \ {0} /\ (at' # "done" => status' = None)
  BY <1>1, <1>2 DEF Leads, Ended, Follow
<1>4. CASE transport = "stdio"
  BY <1>1, <1>2, <1>3, <1>4 DEF ReadingInv, Requests, OkIsWhole
<1>5. CASE transport = "http"
  <2>0. PICK n \in Nat : page = n + 1 /\ page - 1 = n
    <3>1. page - 1 \in Nat /\ page = (page - 1) + 1
      BY <1>2
    <3> QED
      BY <3>1
  <2>1. pages = First(page - 1) /\ page <= length /\ pages' = First(page)
    <3>1. pages = First(page - 1) /\ page <= length
      BY <1>1, <1>5 DEF ReadingInv
    <3>2. pages' = Append(First(n), n + 1)
      BY <1>1, <2>0, <3>1
    <3> QED
      BY <2>0, <3>1, <3>2, OneMorePage
  <2>2. CASE page = length /\ Ended /\ UNCHANGED page
    BY <1>1, <1>2, <1>5, <2>1, <2>2 DEF Ended, ReadingInv, Requests, OkIsWhole, First
  <2>3. CASE page < length /\ Follow(page + 1)
    <3>1. page' = page + 1 /\ ((at' = "done" /\ status' = "partial") \/ UNCHANGED <<at, status>>)
      BY <2>3 DEF Follow
    <3>2. page' - 1 = page /\ page' <= length
      BY <1>2, <2>3, <3>1
    <3>3. pages' = First(page' - 1)
      BY <2>1, <3>2
    <3>4. page' \in Nat \ {0}
      BY <1>2, <3>1
    <3>5. CASE at' = "done" /\ status' = "partial"
      BY <1>1, <1>2, <1>5, <3>4, <3>5 DEF ReadingInv, Requests, OkIsWhole
    <3>6. CASE UNCHANGED <<at, status>>
      <4>1. at' = "tools/list" /\ transport' = "http" /\ status' = None /\ length' \in Nat \ {0}
        BY <1>1, <1>2, <1>5, <3>6
      <4> QED
        BY <1>2, <3>2, <3>3, <3>4, <4>1, <1>1 DEF ReadingInv, OkIsWhole, Requests, None
    <3> QED
      BY <3>1, <3>5, <3>6
  <2>4. ASSUME NEW back \in 2..page, Follow(back) PROVE ReadingInv'
    <3>1. Len(pages) = page - 1 /\ \A i \in 1..page - 1 : pages[i] = i
      BY <1>2, <2>1, OneMorePage DEF First
    <3>2. back \in Followed
      BY <1>2, <2>4, <3>1 DEF Followed
    <3>3. page' = back /\ at' = "done" /\ status' = "partial"
      BY <1>5, <2>4, <3>2 DEF Follow
    <3> QED
      BY <1>1, <1>2, <1>3, <1>5, <3>3 DEF ReadingInv, Requests, OkIsWhole
  <2> QED
    BY <1>1, <2>2, <2>3, <2>4 DEF Leads
<1> QED
  BY <1>4, <1>5 DEF ReadingInv

LEMMA ReadingInvConverse == ASSUME ReadingInv, Converse PROVE ReadingInv'
<1>1. CASE Breaks \/ Silence
  BY <1>1, ReadingInvStop DEF Breaks, Silence, HttpRefuses, Malformed, TooLarge, HangsUp
<1>2. CASE Initialized
  BY <1>2, NothingRead DEF Initialized, ReadingInv, Requests, OkIsWhole
<1>3. CASE Incomplete
  BY <1>3, ReadingInvStop DEF Incomplete
<1>4. CASE FirstPageRefused
  BY <1>4, ReadingInvLegacy DEF FirstPageRefused
<1>5. ASSUME NEW outcome \in {"success", "error", "timeout", "skipped"}, Called(outcome) PROVE ReadingInv'
  BY <1>5 DEF Called, ReadingInv, OkIsWhole
<1>6. CASE CallsEnd
  BY <1>6 DEF CallsEnd, ReadingInv, Requests, OkIsWhole
<1>7. ASSUME NEW method \in unanswered, LateAnswer(method) PROVE ReadingInv'
  BY <1>7 DEF LateAnswer, ReadingInv, Requests, OkIsWhole
<1> QED
  BY <1>1, <1>2, <1>3, <1>4, <1>5, <1>6, <1>7, ReadingInvDiscover, ReadingInvPage DEF Converse

LEMMA ReadingInvNext == ASSUME ReadingInv, [Next]_vars PROVE ReadingInv'
<1>1. CASE Reading
  BY <1>1, ReadingInvStart, ReadingInvConverse, ObservationAssumption DEF Reading
<1>2. CASE Record
  BY <1>2, NothingRead DEF Record, ReadingInv, Requests, OkIsWhole, None
<1>3. CASE UNCHANGED conversation
  BY <1>3 DEF conversation, ReadingInv, OkIsWhole
<1> QED
  BY <1>1, <1>2, <1>3 DEF Next, vars, Answer, Served, Ask

\* What a server lists is reported whole or not at all over HTTP, whichever pages its cursors repeat,
\* and no server is talked down to initialize over stdio after it answered as a modern one.
THEOREM ReadingStands == Spec => []ReadingIsHonest
<1>1. Init => ReadingInv
  BY ReadingInvInit DEF Init
<1>2. ReadingInv /\ [Next]_vars => ReadingInv'
  BY ReadingInvNext
<1>3. ReadingInv => ReadingIsHonest
  BY DEF ReadingInv, ReadingIsHonest, NeverDowngraded
<1> QED
  BY <1>1, <1>2, <1>3, PTL DEF Spec

-----------------------------------------------------------------------------
(* A check.  Between the row and the observations a set may be recorded;    *)
(* the set sent may then be one that was seen, but what the row alone says  *)
(* of it was so when it was read, and the observations are only added to.   *)

Answers == {"not-observed", "same", "previously-observed", "different"}

Queries == [at : {None, "row", "answered"}, sent : Sets \cup {None}, row : Sets \cup {None},
            answer : Answers \cup {None}, truths : SUBSET Answers]

RowSpeaks(q, ever) ==
    /\ q.row = None => "not-observed" \in q.truths
    /\ (q.row # None /\ q.sent = q.row) => "same" \in q.truths
    /\ (q.row # None /\ q.sent # q.row /\ q.sent \notin ever) => "different" \in q.truths

CheckInv ==
    /\ query \in Queries /\ current \in Sets \cup {None}
    /\ query.at = "row" => RowSpeaks(query, seen)
    /\ CheckIsTrue

LEMMA TruthIsAnswer ==
    ASSUME NEW set, NEW latest, NEW ever
    PROVE  Truth(set, latest, ever) \in Answers
BY DEF Truth, Answers

LEMMA CheckInvInit == Init => CheckInv
BY DEF Init, NoQuery, CheckInv, CheckIsTrue, Queries, Answers, None

LEMMA CheckInvNext == ASSUME CheckInv, [Next]_vars PROVE CheckInv'
<1>1. ASSUME NEW set \in Sets, Ask(set) PROVE CheckInv'
  <2>1. query' = [at |-> "row", sent |-> set, row |-> current, answer |-> None,
                  truths |-> {Truth(set, current, seen)}] /\ UNCHANGED <<current, seen>>
    BY <1>1 DEF Ask
  <2>2. query' \in Queries
    BY <2>1, TruthIsAnswer DEF CheckInv, Queries
  <2>3. RowSpeaks(query', seen')
    BY <1>1, <2>1 DEF RowSpeaks, Truth
  <2> QED
    BY <2>1, <2>2, <2>3 DEF CheckInv, CheckIsTrue, RowSpeaks, None
<1>2. CASE Answer
  <2>1. PICK said \in Answers : said = IF query.row = None THEN "not-observed"
                                       ELSE IF query.sent = query.row THEN "same"
                                       ELSE IF query.sent \in seen THEN "previously-observed" ELSE "different"
    BY DEF Answers
  <2>2. query' = [query EXCEPT !.at = "answered", !.answer = said] /\ query.at = "row" /\ UNCHANGED <<current, seen>>
    BY <1>2, <2>1 DEF Answer
  <2>3. query' \in Queries /\ query'.at = "answered" /\ query'.answer = said /\ query'.truths = query.truths
    BY <2>2 DEF CheckInv, Queries
  <2>4. said \in {"same", "different", "not-observed"} => said \in query.truths
    BY <2>1, <2>2 DEF CheckInv, RowSpeaks
  <2> QED
    BY <2>2, <2>3, <2>4 DEF CheckInv, CheckIsTrue
<1>3. CASE Served
  BY <1>3 DEF Served, NoQuery, CheckInv, CheckIsTrue, Queries, Answers, None
<1>4. CASE Record /\ status = "ok"
  <2>1. PICK set \in Sets :
            /\ current' = set /\ seen' = seen \cup {set}
            /\ query' = IF query.at = None THEN query
                         ELSE [query EXCEPT !.truths = @ \cup {Truth(query.sent, set, seen')}]
    BY <1>4 DEF Record
  <2>2. query' \in Queries /\ UNCHANGED <<query.at, query.sent, query.row, query.answer>> /\ query.truths \subseteq query'.truths
    BY <2>1, TruthIsAnswer DEF CheckInv, Queries
  <2> QED
    BY <2>1, <2>2 DEF CheckInv, CheckIsTrue, RowSpeaks
<1>5. CASE UNCHANGED <<current, seen, query>>
  BY <1>5 DEF CheckInv, CheckIsTrue, RowSpeaks
<1> QED
  BY <1>1, <1>2, <1>3, <1>4, <1>5 DEF Next, vars, Record

\* Whatever is recorded between the two transactions of a check, it never calls a set the server's own
\* when it is not, nor a set unknown that was observed before it was asked.
THEOREM ChecksAreTrue == Spec => []CheckIsTrue
<1>1. Init => CheckInv
  BY CheckInvInit
<1>2. CheckInv /\ [Next]_vars => CheckInv'
  BY CheckInvNext
<1>3. CheckInv => CheckIsTrue
  BY DEF CheckInv
<1> QED
  BY <1>1, <1>2, <1>3, PTL DEF Spec

-----------------------------------------------------------------------------
(* robots.txt.  While the site closes the path, what the policy or its row  *)
(* says otherwise was read before, so is at least as old as the closing.    *)

Bodies == {"allow", "disallow", NoFile}
States == [kind : {"unknown", "ok", "unavailable", "unreachable"}, body : Bodies, age : 0..Fresh, since : 0..GiveUp]

SaysClosed(s) == s.kind = "unknown" \/ (s.kind = "ok" /\ s.body = "disallow")

RobotsInv ==
    /\ state \in States /\ row \in States /\ standing \in 0..Fresh
    /\ site \in {"allow", "disallow", "absent", "down"}
    /\ state.kind = "unknown" => state.body = NoFile
    /\ row.kind = "unknown" => row.body = NoFile
    /\ site = "disallow" => /\ SaysClosed(state) \/ state.age >= standing
                            /\ SaysClosed(row) \/ row.age >= standing
    /\ ClosedIsNotRead

LEMMA RobotsInvInit == Init => RobotsInv
<1>1. 0 \in 0..Fresh /\ 0 \in 0..GiveUp
  BY RobotsAssumption
<1> QED
  BY <1>1 DEF Init, RobotsInit, Unknown, RobotsInv, States, Bodies, SaysClosed, ClosedIsNotRead

\* A state grows older as the closing does.
LEMMA StatesAge ==
    ASSUME NEW s \in States, standing \in 0..Fresh, standing' = Older(standing, Fresh)
    PROVE  /\ OlderState(s) \in States /\ OlderState(s).kind = s.kind /\ OlderState(s).body = s.body
           /\ standing' \in 0..Fresh
           /\ s.age >= standing => OlderState(s).age >= standing'
<1>1. Fresh \in Nat /\ GiveUp \in Nat
  BY RobotsAssumption
<1>2. Older(s.age, Fresh) \in 0..Fresh /\ Older(s.since, GiveUp) \in 0..GiveUp /\ Older(standing, Fresh) \in 0..Fresh
  BY <1>1 DEF States, Older
<1>3. s.age >= standing => Older(s.age, Fresh) >= Older(standing, Fresh)
  BY <1>1 DEF States, Older
<1>4. PICK since \in 0..GiveUp : since = IF s.kind = "unreachable" THEN Older(s.since, GiveUp) ELSE s.since
  BY <1>2 DEF States
<1>5. OlderState(s) = [s EXCEPT !.age = Older(s.age, Fresh), !.since = since]
  BY <1>4 DEF OlderState
<1> QED
  BY <1>2, <1>3, <1>5 DEF States

\* A file read now says what the site says.
LEMMA FetchedNow ==
    ASSUME RobotsInv
    PROVE  Fetched \in States /\ Fetched.kind # "unknown" /\ (site = "disallow" => SaysClosed(Fetched) /\ ~Allows(Fetched))
<1>1. 0 \in 0..Fresh /\ 0 \in 0..GiveUp
  BY RobotsAssumption
<1>2. PICK since \in 0..GiveUp : since = IF state.kind = "unreachable" THEN state.since ELSE 0
  BY <1>1 DEF RobotsInv, States
<1>3. state.body \in Bodies
  BY DEF RobotsInv, States
<1>4. CASE site \in {"allow", "disallow"}
  BY <1>1, <1>4 DEF Fetched, States, Bodies, SaysClosed, Allows
<1>5. CASE site = "absent"
  BY <1>1, <1>5 DEF Fetched, States, Bodies
<1>6. CASE site = "down"
  BY <1>1, <1>2, <1>3, <1>6 DEF Fetched, States
<1> QED
  BY <1>4, <1>5, <1>6 DEF RobotsInv

LEMMA RobotsInvNext == ASSUME RobotsInv, [Next]_vars PROVE RobotsInv'
<1>0. {Retry, Fresh, GiveUp} \subseteq Nat /\ Retry < Fresh
  BY RobotsAssumption
<1>1. CASE Decide /\ Stale
  <2>1. state' = Fetched /\ decided' = (IF Allows(state') THEN "allowed" ELSE "refused") /\ UNCHANGED <<site, standing, row>>
    BY <1>1 DEF Decide
  <2>2. site = "disallow" => decided' = "refused"
    BY <2>1, FetchedNow
  <2> QED
    BY <2>1, <2>2, FetchedNow DEF RobotsInv, SaysClosed, ClosedIsNotRead
<1>2. CASE Decide /\ ~Stale
  <2>1. decided' = (IF Allows(state) THEN "allowed" ELSE "refused") /\ UNCHANGED <<site, standing, row, state>>
    BY <1>2 DEF Decide
  <2>2. state.kind # "unknown" /\ state.age < Fresh
    BY <1>0, <1>2 DEF Stale, RobotsInv, States
  <2>3. site = "disallow" /\ Allows(state) => standing < Fresh
    <3> SUFFICES ASSUME site = "disallow", Allows(state) PROVE standing < Fresh
      OBVIOUS
    <3>1. ~SaysClosed(state)
      BY <2>2 DEF Allows, SaysClosed
    <3> QED
      BY <1>0, <2>2, <3>1 DEF RobotsInv, States
  <2> QED
    BY <2>1, <2>3 DEF RobotsInv, SaysClosed, ClosedIsNotRead
<1>3. CASE SaveRobots \/ LoadRobots
  BY <1>3 DEF SaveRobots, LoadRobots, RobotsInv, SaysClosed, ClosedIsNotRead
<1>4. CASE Tick
  <2>1. standing' = Older(standing, Fresh) /\ state' = OlderState(state) /\ row' = OlderState(row)
        /\ decided' = "nothing" /\ UNCHANGED site
    BY <1>4 DEF Tick
  <2>2. state \in States /\ row \in States /\ standing \in 0..Fresh
    BY DEF RobotsInv
  <2> QED
    BY <2>1, <2>2, StatesAge DEF RobotsInv, SaysClosed, ClosedIsNotRead
<1>5. CASE SiteChanges
  <2>1. 0 \in 0..Fresh /\ state.age >= 0 /\ row.age >= 0
    BY <1>0 DEF RobotsInv, States
  <2> QED
    BY <1>5, <2>1 DEF SiteChanges, RobotsInv, SaysClosed, ClosedIsNotRead
<1>6. CASE UNCHANGED robots
  BY <1>6 DEF robots, RobotsInv, SaysClosed, ClosedIsNotRead
<1> QED
  BY <1>1, <1>2, <1>3, <1>4, <1>5, <1>6 DEF Next, vars, Policing, Record, Answer, Served, Ask

\* A path that its site has kept closed for a day is not read, whatever the policy saved, lost in a
\* restart or could not fetch before, for all the periods it goes by.
THEOREM ClosedStaysUnread == Spec => []ClosedIsNotRead
<1>1. Init => RobotsInv
  BY RobotsInvInit
<1>2. RobotsInv /\ [Next]_vars => RobotsInv'
  BY RobotsInvNext
<1>3. RobotsInv => ClosedIsNotRead
  BY DEF RobotsInv
<1> QED
  BY <1>1, <1>2, <1>3, PTL DEF Spec

-----------------------------------------------------------------------------
(* What robots.txt says.  The file is read line by line, so the argument is *)
(* an induction over its lines, and what was read is a function given by    *)
(* recursion: the prover has neither, and they come first, from the order   *)
(* of the numbers alone.                                                    *)

\* A set of numbers that is not empty has a least one.
LEMMA LeastNatural ==
    ASSUME NEW T \in SUBSET Nat, T # {}
    PROVE  \E m \in T : \A k \in T : m <= k
<1> DEFINE R == {ss \in Nat \X Nat : ss[1] < ss[2]}
<1>1. IsWellFoundedOn(R, Nat)
  BY NatLessThanWellFounded DEF OpToRel
<1>2. \E x \in T : \A y \in T : ~ (<<y, x>> \in R)
  <2> HIDE DEF R
  <2> QED BY <1>1, WFMin
<1>3. PICK x \in T : \A y \in T : ~ (<<y, x>> \in R)
  BY <1>2
<1>4. \A y \in T : ~(y < x)
  BY <1>3
<1> QED BY <1>4

\* Induction: a set that has every number whose predecessors it has, has all of them.
LEMMA AllNaturals ==
    ASSUME NEW T \in SUBSET Nat, \A n \in Nat : (\A k \in 0..n - 1 : k \in T) => n \in T
    PROVE  \A n \in Nat : n \in T
<1> SUFFICES ASSUME Nat \ T # {} PROVE FALSE
  OBVIOUS
<1>1. PICK m \in Nat \ T : \A k \in Nat \ T : m <= k
  BY LeastNatural
<1>2. \A k \in 0..m - 1 : k \in T
  BY <1>1
<1> QED BY <1>1, <1>2

\* H gives a value at each number, in terms of the values before.
Recursive(A, H) ==
    /\ H \in [Nat -> [[Nat -> A] -> A]]
    /\ \A n \in Nat : \A g, h \in [Nat -> A] : (\A i \in 0..n - 1 : g[i] = h[i]) => H[n][g] = H[n][h]

HasValues(A, H) == \E f \in [Nat -> A] : \A n \in Nat : f[n] = H[n][f]

\* What is given at each number in terms of what comes before is a function.
LEMMA Recursion ==
    ASSUME NEW A, NEW a \in A, NEW H, Recursive(A, H)
    PROVE  HasValues(A, H)
<1> USE DEF Recursive, HasValues
<1> DEFINE Q(n, g) == g \in [Nat -> A] /\ \A i \in 0..n : g[i] = H[i][g]
<1>1. ASSUME NEW n \in Nat, NEW m \in Nat, m <= n, NEW g, NEW h, Q(m, g), Q(n, h)
      PROVE  \A i \in 0..m : g[i] = h[i]
  <2> DEFINE T == {i \in Nat : i <= m => g[i] = h[i]}
  <2>1. ASSUME NEW i \in Nat, \A k \in 0..i - 1 : k \in T PROVE i \in T
    <3>1. CASE i <= m
      <4>1. \A k \in 0..i - 1 : g[k] = h[k]
        BY <2>1, <3>1
      <4>2. H[i][g] = H[i][h]
        BY <1>1, <4>1
      <4> QED BY <4>2, <3>1, <1>1
    <3> QED BY <3>1
  <2>2. \A i \in Nat : i \in T
    <3> T \subseteq Nat
      OBVIOUS
    <3> HIDE DEF T
    <3> QED BY <2>1, AllNaturals
  <2> QED BY <2>2
<1>2. ASSUME NEW n \in Nat PROVE \E g : Q(n, g)
  <2> DEFINE T == {i \in Nat : \E g : Q(i, g)}
  <2>1. ASSUME NEW i \in Nat, \A k \in 0..i - 1 : k \in T PROVE i \in T
    <3>1. \E g \in [Nat -> A] : \A k \in 0..i - 1 : g[k] = H[k][g]
      <4>1. CASE i = 0
        <5>1. [k \in Nat |-> a] \in [Nat -> A]
          OBVIOUS
        <5>2. 0..i - 1 = {}
          BY <4>1
        <5> QED BY <5>1, <5>2
      <4>2. CASE i > 0
        <5>1. i - 1 \in 0..i - 1
          BY <4>2
        <5>2. PICK g : Q(i - 1, g)
          BY <5>1, <2>1
        <5> QED BY <5>2
      <4> QED BY <4>1, <4>2
    <3>2. PICK g \in [Nat -> A] : \A k \in 0..i - 1 : g[k] = H[k][g]
      BY <3>1
    <3> DEFINE h == [k \in Nat |-> IF k = i THEN H[i][g] ELSE g[k]]
    <3>3. h \in [Nat -> A] /\ (\A k \in 0..i - 1 : h[k] = g[k]) /\ h[i] = H[i][g]
      OBVIOUS
    <3> HIDE DEF h
    <3>4. ASSUME NEW k \in 0..i PROVE h[k] = H[k][h]
      <4>1. h[k] = H[k][g]
        BY k = i \/ k \in 0..i - 1, <3>2, <3>3
      <4>2. k \in Nat /\ \A l \in 0..k - 1 : g[l] = h[l]
        BY <3>3
      <4>3. H[k][g] = H[k][h]
        BY <4>2, <3>3
      <4> QED BY <4>1, <4>3
    <3>5. Q(i, h)
      BY <3>3, <3>4
    <3> QED BY <3>5
  <2>2. \A i \in Nat : i \in T
    <3> T \subseteq Nat
      OBVIOUS
    <3> HIDE DEF T
    <3> QED BY <2>1, AllNaturals
  <2> QED BY <2>2
<1> DEFINE G(n) == CHOOSE g : Q(n, g)
           F == [n \in Nat |-> G(n)[n]]
<1>3. \A n \in Nat : Q(n, G(n))
  BY <1>2
<1>4. F \in [Nat -> A]
  BY <1>3
<1> HIDE DEF G
<1>5. ASSUME NEW n \in Nat PROVE F[n] = H[n][F]
  <2>1. \A i \in 0..n : G(i)[i] = G(n)[i]
    <3> HIDE DEF Q
    <3> QED BY <1>1, <1>3
  <2>2. \A i \in 0..n - 1 : F[i] = G(n)[i]
    BY <2>1
  <2>3. H[n][F] = H[n][G(n)]
    <3> HIDE DEF F
    <3> QED BY <2>2, <1>3, <1>4
  <2> QED BY <2>3, <1>3
<1> QED BY <1>4, <1>5

GroupSet == [agents : SUBSET Agents, rules : SUBSET Lines]
ReadStates == [groups : SUBSET GroupSet, inRules : BOOLEAN, open : GroupSet]

NoLineRead == [groups |-> {}, inRules |-> FALSE, open |-> [agents |-> {}, rules |-> {}]]

ReadLine(read, line) == IF line.key = "user-agent" THEN ReadAgent(read, line) ELSE ReadRule(read, line)

\* What a line makes of what was read before it.
LEMMA ReadAgentIs ==
    ASSUME NEW read \in ReadStates, NEW line \in Lines, line.key = "user-agent"
    PROVE  LET new == ReadLine(read, line)
           IN  /\ new \in ReadStates /\ new.inRules = FALSE
               /\ read.inRules => /\ new.groups = read.groups \cup {read.open}
                                  /\ new.open.agents = {line.value} /\ new.open.rules = {}
               /\ ~ read.inRules => /\ new.groups = read.groups
                                    /\ new.open.agents = read.open.agents \cup {line.value} /\ new.open.rules = read.open.rules
<1>1. line.value \in Agents
  BY DEF Lines
<1>2. CASE read.inRules
  BY <1>1, <1>2 DEF ReadLine, ReadAgent, ReadStates, GroupSet
<1>3. CASE ~ read.inRules
  <2>1. ReadLine(read, line) = [read EXCEPT !.open.agents = @ \cup {line.value}]
    BY <1>3 DEF ReadLine, ReadAgent
  <2> QED BY <1>1, <1>3, <2>1 DEF ReadStates, GroupSet
<1> QED BY <1>2, <1>3

LEMMA ReadRuleIs ==
    ASSUME NEW read \in ReadStates, NEW line \in Lines, line.key # "user-agent"
    PROVE  LET new == ReadLine(read, line)
           IN  /\ new \in ReadStates
               /\ read.open.agents = {} => new = read
               /\ read.open.agents # {} => /\ new.inRules = TRUE /\ new.groups = read.groups
                                           /\ new.open.agents = read.open.agents
                                           /\ new.open.rules = read.open.rules \cup (IF line.value = 0 THEN {} ELSE {line})
<1>1. CASE read.open.agents = {}
  BY <1>1 DEF ReadLine, ReadRule
<1>2. CASE read.open.agents # {}
  <2> DEFINE more == IF line.value = 0 THEN {} ELSE {line}
  <2>1. more \subseteq Lines
    OBVIOUS
  <2>2. PICK o : o = [read.open EXCEPT !.rules = @ \cup more]
    OBVIOUS
  <2>3. ReadLine(read, line) = [groups |-> read.groups, inRules |-> TRUE, open |-> o]
    BY <1>2, <2>2 DEF ReadLine, ReadRule
  <2> HIDE DEF more
  <2>4. o \in GroupSet /\ o.agents = read.open.agents /\ o.rules = read.open.rules \cup more
    BY <2>1, <2>2 DEF ReadStates, GroupSet
  <2>6. ReadLine(read, line) \in ReadStates
    BY <2>3, <2>4 DEF ReadStates
  <2>7. /\ ReadLine(read, line).inRules = TRUE /\ ReadLine(read, line).groups = read.groups
        /\ ReadLine(read, line).open.agents = read.open.agents
        /\ ReadLine(read, line).open.rules = read.open.rules \cup more
    BY <2>3, <2>4
  <2> QED BY <1>2, <2>6, <2>7 DEF more
<1> QED BY <1>1, <1>2

\* The equations of the reading of a file.
LEMMA LinesReadDef ==
    ASSUME NEW text \in Seq(Lines)
    PROVE  LET read == LinesRead(text)
           IN  /\ read[0] = NoLineRead
               /\ \A i \in 1..Len(text) : read[i] = ReadLine(read[i - 1], text[i])
               /\ \A i \in 0..Len(text) : read[i] \in ReadStates
<1> DEFINE E(g, i) == IF i = 0 THEN NoLineRead ELSE ReadLine(g[i - 1], text[i])
           H == [i \in Nat |-> [g \in [Nat -> ReadStates] |-> IF i \in 0..Len(text) THEN E(g, i) ELSE NoLineRead]]
<1>0. NoLineRead \in ReadStates /\ Len(text) \in Nat
  BY DEF NoLineRead, ReadStates, GroupSet
<1>1. ASSUME NEW read \in ReadStates, NEW line \in Lines PROVE ReadLine(read, line) \in ReadStates
  BY ReadAgentIs, ReadRuleIs
<1>2. ASSUME NEW i \in 0..Len(text), NEW g, \A j \in 0..i - 1 : g[j] \in ReadStates PROVE E(g, i) \in ReadStates
  <2>1. CASE i = 0
    BY <2>1, <1>0
  <2>2. CASE i # 0
    <3>1. i - 1 \in 0..i - 1 /\ i \in 1..Len(text)
      BY <2>2
    <3>2. text[i] \in Lines /\ g[i - 1] \in ReadStates
      BY <3>1, <1>2
    <3> QED BY <2>2, <3>2, <1>1
  <2> QED BY <2>1, <2>2
<1>3. ASSUME NEW i \in Nat, NEW f, NEW g, \A j \in 0..i - 1 : f[j] = g[j] PROVE E(f, i) = E(g, i)
  BY <1>3
<1>4. Recursive(ReadStates, H)
  <2> HIDE DEF E
  <2>1. ASSUME NEW i \in Nat, NEW g \in [Nat -> ReadStates] PROVE H[i][g] \in ReadStates
    <3>1. CASE i \in 0..Len(text)
      <4>1. \A j \in 0..i - 1 : g[j] \in ReadStates
        BY <3>1
      <4> QED BY <3>1, <4>1, <1>2
    <3>2. CASE i \notin 0..Len(text)
      BY <3>2, <1>0
    <3> QED BY <3>1, <3>2
  <2>2. ASSUME NEW i \in Nat, NEW f \in [Nat -> ReadStates], NEW g \in [Nat -> ReadStates], \A j \in 0..i - 1 : f[j] = g[j]
        PROVE  H[i][f] = H[i][g]
    <3>1. E(f, i) = E(g, i)
      BY <1>3, <2>2
    <3> QED BY <3>1
  <2>3. H \in [Nat -> [[Nat -> ReadStates] -> ReadStates]]
    BY <2>1
  <2> HIDE DEF H
  <2> QED BY <2>2, <2>3 DEF Recursive
<1>5. HasValues(ReadStates, H)
  <2> HIDE DEF H
  <2> QED BY <1>0, <1>4, Recursion, Zenon
<1>6. PICK f \in [Nat -> ReadStates] : \A i \in Nat : f[i] = H[i][f]
  <2> HIDE DEF H
  <2> QED BY <1>5 DEF HasValues
<1> HIDE DEF E
<1>7. \A i \in 0..Len(text) : f[i] = E(f, i)
  BY <1>6, <1>0
<1> DEFINE g == [i \in 0..Len(text) |-> f[i]]
<1>8. g = [i \in 0..Len(text) |-> E(g, i)]
  <2>1. ASSUME NEW i \in 0..Len(text) PROVE f[i] = E(g, i)
    <3>1. \A j \in 0..i - 1 : f[j] = g[j]
      BY <1>0
    <3> HIDE DEF g
    <3>2. i \in Nat
      BY <1>0
    <3> QED BY <3>1, <3>2, <1>3, <1>7
  <2> QED BY <2>1
<1>9. LinesRead(text) = [i \in 0..Len(text) |-> E(LinesRead(text), i)]
  <2>1. \E h : h = [i \in 0..Len(text) |-> E(h, i)]
    BY <1>8
  <2> QED BY <2>1 DEF LinesRead, E, ReadLine, NoLineRead
<1> DEFINE R == LinesRead(text)
<1> HIDE DEF R, g
<1>10. \A i \in 0..Len(text) : R[i] = E(R, i)
  BY <1>9 DEF R
<1>11. R[0] = NoLineRead
  <2>1. 0 \in 0..Len(text)
    BY <1>0
  <2> QED BY <2>1, <1>10 DEF E
<1>12. ASSUME NEW i \in 1..Len(text) PROVE R[i] = ReadLine(R[i - 1], text[i])
  <2>1. i \in 0..Len(text) /\ i # 0
    OBVIOUS
  <2> QED BY <2>1, <1>10 DEF E
<1> DEFINE T == {i \in Nat : i <= Len(text) => R[i] \in ReadStates}
<1>13. ASSUME NEW i \in Nat, \A j \in 0..i - 1 : j \in T PROVE i \in T
  <2>1. SUFFICES ASSUME i <= Len(text) PROVE R[i] \in ReadStates
    OBVIOUS
  <2>2. i \in 0..Len(text) /\ \A j \in 0..i - 1 : R[j] \in ReadStates
    BY <2>1, <1>0, <1>13
  <2>3. E(R, i) \in ReadStates
    BY <2>2, <1>2
  <2> QED BY <2>2, <2>3, <1>10
<1>14. \A i \in Nat : i \in T
  <2> T \subseteq Nat
    OBVIOUS
  <2> HIDE DEF T
  <2> QED BY <1>13, AllNaturals
<1>15. \A i \in 0..Len(text) : R[i] \in ReadStates
  BY <1>14, <1>0
<1> QED BY <1>11, <1>12, <1>15 DEF R

\* Of a rule, who is meant is who was meant by the lines before it; a user-agent line adds to the
\* run it is in, and opens a new one after a rule.
LEMMA NamedAfterRule ==
    ASSUME lines \in Seq(Lines), NEW i \in 1..Len(lines), NEW agent, lines[i].key # "user-agent"
    PROVE  NamedFor(agent, i + 1) <=> NamedFor(agent, i)
<1>1. Len(lines) \in Nat /\ (i + 1) - 1 = i
  OBVIOUS
<1>2. ASSUME NamedFor(agent, i + 1) PROVE NamedFor(agent, i)
  <2>1. PICK j \in 1..i : /\ lines[j] = [key |-> "user-agent", value |-> agent]
                          /\ \A k \in j..i : lines[k].key = "user-agent" => \A l \in j..k : lines[l].key = "user-agent"
    BY <1>1, <1>2 DEF NamedFor
  <2>2. j \in 1..i - 1
    BY <2>1
  <2> QED BY <2>1, <2>2 DEF NamedFor
<1>3. ASSUME NamedFor(agent, i) PROVE NamedFor(agent, i + 1)
  <2>1. PICK j \in 1..i - 1 : /\ lines[j] = [key |-> "user-agent", value |-> agent]
                              /\ \A k \in j..i - 1 : lines[k].key = "user-agent" => \A l \in j..k : lines[l].key = "user-agent"
    BY <1>3 DEF NamedFor
  <2>2. \A k \in j..(i + 1) - 1 : k = i \/ k \in j..i - 1
    OBVIOUS
  <2>3. j \in 1..(i + 1) - 1
    OBVIOUS
  <2> QED BY <2>1, <2>2, <2>3 DEF NamedFor
<1> QED BY <1>2, <1>3

LEMMA NamedInRun ==
    ASSUME lines \in Seq(Lines), NEW i \in 1..Len(lines), NEW agent, lines[i].key = "user-agent",
           i = 1 \/ lines[i - 1].key = "user-agent"
    PROVE  NamedFor(agent, i + 1) <=> NamedFor(agent, i) \/ lines[i].value = agent
<1>1. Len(lines) \in Nat /\ (i + 1) - 1 = i /\ lines[i] \in Lines
  OBVIOUS
<1>2. ASSUME NamedFor(agent, i + 1), lines[i].value # agent PROVE NamedFor(agent, i)
  <2>1. PICK j \in 1..i : /\ lines[j] = [key |-> "user-agent", value |-> agent]
                          /\ \A k \in j..i : lines[k].key = "user-agent" => \A l \in j..k : lines[l].key = "user-agent"
    BY <1>1, <1>2 DEF NamedFor
  <2>2. j # i
    BY <2>1, <1>2
  <2> QED BY <2>1, <2>2 DEF NamedFor
<1>3. ASSUME NamedFor(agent, i) PROVE NamedFor(agent, i + 1)
  <2>1. PICK j \in 1..i - 1 : /\ lines[j] = [key |-> "user-agent", value |-> agent]
                              /\ \A k \in j..i - 1 : lines[k].key = "user-agent" => \A l \in j..k : lines[l].key = "user-agent"
    BY <1>3 DEF NamedFor
  <2>2. i - 1 \in j..i - 1 /\ lines[i - 1].key = "user-agent"
    BY <2>1
  <2>3. \A l \in j..i - 1 : lines[l].key = "user-agent"
    BY <2>1, <2>2
  <2>4. \A l \in j..i : lines[l].key = "user-agent"
    BY <2>3
  <2>5. j \in 1..(i + 1) - 1
    OBVIOUS
  <2> QED BY <2>1, <2>4, <2>5, <1>1 DEF NamedFor
<1>4. ASSUME lines[i].value = agent PROVE NamedFor(agent, i + 1)
  <2>1. lines[i] = [key |-> "user-agent", value |-> agent]
    BY <1>1, <1>4 DEF Lines
  <2> QED BY <2>1, <1>1 DEF NamedFor
<1> QED BY <1>2, <1>3, <1>4

LEMMA NamedAnew ==
    ASSUME lines \in Seq(Lines), NEW i \in 1..Len(lines), NEW agent, lines[i].key = "user-agent",
           i > 1, lines[i - 1].key # "user-agent"
    PROVE  NamedFor(agent, i + 1) <=> lines[i].value = agent
<1>1. Len(lines) \in Nat /\ (i + 1) - 1 = i /\ lines[i] \in Lines
  OBVIOUS
<1>2. ASSUME NamedFor(agent, i + 1), lines[i].value # agent PROVE FALSE
  <2>1. PICK j \in 1..i : /\ lines[j] = [key |-> "user-agent", value |-> agent]
                          /\ \A k \in j..i : lines[k].key = "user-agent" => \A l \in j..k : lines[l].key = "user-agent"
    BY <1>1, <1>2 DEF NamedFor
  <2>2. j # i /\ i - 1 \in j..i /\ i \in j..i
    BY <2>1, <1>2
  <2> QED BY <2>1, <2>2
<1>3. ASSUME lines[i].value = agent PROVE NamedFor(agent, i + 1)
  <2>1. lines[i] = [key |-> "user-agent", value |-> agent]
    BY <1>1, <1>3 DEF Lines
  <2> QED BY <2>1, <1>1 DEF NamedFor
<1> QED BY <1>2, <1>3

\* Some group is for the agent; and has the rule.
NamedIn(groups, agent) == \E g \in groups : agent \in g.agents
RuleIn(groups, agent, rule) == \E g \in groups : agent \in g.agents /\ rule \in g.rules

IsAgent(j, agent) == lines[j] = [key |-> "user-agent", value |-> agent]
IsRule(j, agent, rule) ==
    lines[j] = rule /\ rule.key # "user-agent" /\ rule.value > 0 /\ NamedFor(agent, j)

\* What has been read after i lines is what those lines say.
SaysUpTo(i, read) ==
    /\ \A a \in Agents : a \in read.open.agents <=> NamedFor(a, i + 1)
    /\ read.inRules <=> read.open.agents # {} /\ i > 0 /\ lines[i].key # "user-agent"
    /\ ~ read.inRules => read.open.rules = {}
    /\ \A a \in Agents : NamedIn(read.groups \cup {read.open}, a) <=> \E j \in 1..i : IsAgent(j, a)
    /\ \A a \in Agents, r \in Lines :
          RuleIn(read.groups \cup {read.open}, a, r) <=> \E j \in 1..i : IsRule(j, a, r)

LEMMA NothingSaid ==
    ASSUME lines \in Seq(Lines)
    PROVE  SaysUpTo(0, NoLineRead)
<1>1. \A a : ~ NamedFor(a, 0 + 1)
  BY DEF NamedFor
<1> QED BY <1>1 DEF SaysUpTo, NoLineRead, NamedIn, RuleIn

LEMMA RuleSaid ==
    ASSUME lines \in Seq(Lines), NEW i \in 1..Len(lines), NEW read \in ReadStates, SaysUpTo(i - 1, read),
           lines[i].key # "user-agent"
    PROVE  SaysUpTo(i, ReadLine(read, lines[i]))
<1> DEFINE new == ReadLine(read, lines[i]) line == lines[i]
<1>1. line \in Lines /\ i - 1 \in Nat /\ (i - 1) + 1 = i /\ i > 0
  OBVIOUS
<1>2. /\ new \in ReadStates
      /\ read.open.agents = {} => new = read
      /\ read.open.agents # {} => /\ new.inRules = TRUE /\ new.groups = read.groups
                                  /\ new.open.agents = read.open.agents
                                  /\ new.open.rules = read.open.rules \cup (IF line.value = 0 THEN {} ELSE {line})
  BY <1>1, ReadRuleIs
<1>3. \A a \in Agents : a \in read.open.agents <=> NamedFor(a, i)
  BY <1>1 DEF SaysUpTo
<1>4. \A a \in Agents : NamedFor(a, i + 1) <=> NamedFor(a, i)
  BY NamedAfterRule
<1>5. new.open.agents = read.open.agents
  BY <1>2
<1>6. \A a : ~ IsAgent(i, a)
  BY DEF IsAgent
<1>7. \A j \in 1..i : j = i \/ j \in 1..i - 1
  OBVIOUS
<1>8. ASSUME NEW a \in Agents
      PROVE  NamedIn(new.groups \cup {new.open}, a) <=> \E j \in 1..i : IsAgent(j, a)
  <2>1. NamedIn(new.groups \cup {new.open}, a) <=> NamedIn(read.groups \cup {read.open}, a)
    BY <1>2 DEF NamedIn
  <2>2. (\E j \in 1..i - 1 : IsAgent(j, a)) <=> \E j \in 1..i : IsAgent(j, a)
    BY <1>6, <1>7
  <2> QED BY <2>1, <2>2 DEF SaysUpTo
<1>9. ASSUME NEW a \in Agents, NEW r \in Lines
      PROVE  RuleIn(new.groups \cup {new.open}, a, r) <=> \E j \in 1..i : IsRule(j, a, r)
  <2>1. RuleIn(read.groups \cup {read.open}, a, r) <=> \E j \in 1..i - 1 : IsRule(j, a, r)
    BY DEF SaysUpTo
  <2>2. IsRule(i, a, r) <=> line = r /\ r.value > 0 /\ a \in read.open.agents
    BY <1>3 DEF IsRule
  <2>3. line.value > 0 <=> line.value # 0
    BY <1>1 DEF Lines
  <2> HIDE DEF new, line
  <2>4. RuleIn(new.groups \cup {new.open}, a, r) <=> RuleIn(read.groups \cup {read.open}, a, r) \/ IsRule(i, a, r)
    <3>1. CASE read.open.agents = {}
      BY <3>1, <1>2, <2>2
    <3>2. CASE read.open.agents # {}
      <4>1. new.groups = read.groups /\ new.open.agents = read.open.agents
        BY <1>2, <3>2
      <4>2. r \in new.open.rules <=> r \in read.open.rules \/ (r = line /\ r.value > 0)
        BY <1>2, <3>2, <2>3
      <4> QED BY <4>1, <4>2, <2>2 DEF RuleIn
    <3> QED BY <3>1, <3>2
  <2>5. (\E j \in 1..i : IsRule(j, a, r)) <=> (\E j \in 1..i - 1 : IsRule(j, a, r)) \/ IsRule(i, a, r)
    BY <1>7
  <2> QED BY <2>1, <2>4, <2>5
<1>10. new.inRules <=> new.open.agents # {} /\ i > 0 /\ line.key # "user-agent"
  <2>1. CASE read.open.agents = {}
    BY <2>1, <1>2 DEF SaysUpTo
  <2>2. CASE read.open.agents # {}
    BY <2>2, <1>1, <1>2
  <2> QED BY <2>1, <2>2
<1>11. ~ new.inRules => new.open.rules = {}
  BY <1>2 DEF SaysUpTo
<1>12. \A a \in Agents : a \in new.open.agents <=> NamedFor(a, i + 1)
  BY <1>3, <1>4, <1>5
<1> HIDE DEF new
<1>13. SaysUpTo(i, new)
  BY <1>8, <1>9, <1>10, <1>11, <1>12 DEF SaysUpTo
<1> QED BY <1>13 DEF new

LEMMA AgentSaid ==
    ASSUME lines \in Seq(Lines), NEW i \in 1..Len(lines), NEW read \in ReadStates, SaysUpTo(i - 1, read),
           lines[i].key = "user-agent"
    PROVE  SaysUpTo(i, ReadLine(read, lines[i]))
<1> DEFINE new == ReadLine(read, lines[i]) line == lines[i]
<1>1. line \in Lines /\ i - 1 \in Nat /\ (i - 1) + 1 = i /\ i > 0
  OBVIOUS
<1>2. /\ new \in ReadStates /\ new.inRules = FALSE
      /\ read.inRules => /\ new.groups = read.groups \cup {read.open}
                         /\ new.open.agents = {line.value} /\ new.open.rules = {}
      /\ ~ read.inRules => /\ new.groups = read.groups
                           /\ new.open.agents = read.open.agents \cup {line.value} /\ new.open.rules = read.open.rules
  BY <1>1, ReadAgentIs
<1>3. \A a \in Agents : a \in read.open.agents <=> NamedFor(a, i)
  BY <1>1 DEF SaysUpTo
<1>4. read.inRules <=> read.open.agents # {} /\ i - 1 > 0 /\ lines[i - 1].key # "user-agent"
  BY DEF SaysUpTo
<1>5. ~ read.inRules => read.open.rules = {}
  BY DEF SaysUpTo
<1>6. new.open.rules = {}
  BY <1>2, <1>5
<1>7. \A j \in 1..i : j = i \/ j \in 1..i - 1
  OBVIOUS
<1>8. \A a : IsAgent(i, a) <=> line.value = a
  BY <1>1 DEF IsAgent, Lines
<1> HIDE DEF new
<1>9. ASSUME NEW a \in Agents
      PROVE  NamedIn(new.groups \cup {new.open}, a) <=> \E j \in 1..i : IsAgent(j, a)
  <2>1. NamedIn(new.groups \cup {new.open}, a) <=> NamedIn(read.groups \cup {read.open}, a) \/ IsAgent(i, a)
    <3>1. CASE read.inRules
      BY <3>1, <1>2, <1>8 DEF NamedIn
    <3>2. CASE ~ read.inRules
      BY <3>2, <1>2, <1>8 DEF NamedIn
    <3> QED BY <3>1, <3>2
  <2>2. NamedIn(read.groups \cup {read.open}, a) <=> \E j \in 1..i - 1 : IsAgent(j, a)
    BY DEF SaysUpTo
  <2>3. (\E j \in 1..i : IsAgent(j, a)) <=> (\E j \in 1..i - 1 : IsAgent(j, a)) \/ IsAgent(i, a)
    BY <1>7
  <2> QED BY <2>1, <2>2, <2>3
<1>10. ASSUME NEW a \in Agents, NEW r \in Lines
      PROVE  RuleIn(new.groups \cup {new.open}, a, r) <=> \E j \in 1..i : IsRule(j, a, r)
  <2>1. RuleIn(new.groups \cup {new.open}, a, r) <=> RuleIn(read.groups \cup {read.open}, a, r)
    <3>1. CASE read.inRules
      BY <3>1, <1>2 DEF RuleIn
    <3>2. CASE ~ read.inRules
      BY <3>2, <1>2, <1>5 DEF RuleIn
    <3> QED BY <3>1, <3>2
  <2>2. RuleIn(read.groups \cup {read.open}, a, r) <=> \E j \in 1..i - 1 : IsRule(j, a, r)
    BY DEF SaysUpTo
  <2>3. ~ IsRule(i, a, r)
    BY DEF IsRule
  <2>4. (\E j \in 1..i : IsRule(j, a, r)) <=> (\E j \in 1..i - 1 : IsRule(j, a, r))
    BY <1>7, <2>3
  <2> QED BY <2>1, <2>2, <2>4
<1>11. ASSUME NEW a \in Agents
       PROVE  a \in new.open.agents <=> NamedFor(a, i + 1)
  <2>1. CASE i = 1 \/ lines[i - 1].key = "user-agent"
    <3>1. ~ read.inRules
      BY <2>1, <1>4
    <3>2. NamedFor(a, i + 1) <=> NamedFor(a, i) \/ line.value = a
      BY <2>1, NamedInRun
    <3> QED BY <3>1, <3>2, <1>2, <1>3
  <2>2. CASE ~ (i = 1 \/ lines[i - 1].key = "user-agent")
    <3>1. NamedFor(a, i + 1) <=> line.value = a
      BY <2>2, NamedAnew
    <3>2. CASE read.inRules
      BY <3>1, <3>2, <1>2
    <3>3. CASE ~ read.inRules
      <4>1. read.open.agents = {}
        BY <3>3, <2>2, <1>4
      <4> QED BY <4>1, <3>1, <3>3, <1>2
    <3> QED BY <3>2, <3>3
  <2> QED BY <2>1, <2>2
<1>12. SaysUpTo(i, new)
  BY <1>2, <1>6, <1>9, <1>10, <1>11 DEF SaysUpTo
<1> QED BY <1>12 DEF new

\* The whole file.
LEMMA AllSaid ==
    ASSUME lines \in Seq(Lines)
    PROVE  SaysUpTo(Len(lines), LinesRead(lines)[Len(lines)]) /\ LinesRead(lines)[Len(lines)] \in ReadStates
<1> DEFINE R == LinesRead(lines)
           T == {i \in Nat : i <= Len(lines) => SaysUpTo(i, R[i])}
<1>1. /\ R[0] = NoLineRead
      /\ \A i \in 1..Len(lines) : R[i] = ReadLine(R[i - 1], lines[i])
      /\ \A i \in 0..Len(lines) : R[i] \in ReadStates
  BY LinesReadDef
<1> HIDE DEF R
<1>2. ASSUME NEW i \in Nat, \A k \in 0..i - 1 : k \in T PROVE i \in T
  <2>1. CASE i = 0
    BY <2>1, <1>1, NothingSaid
  <2>2. CASE i > 0 /\ i <= Len(lines)
    <3>1. i - 1 \in 0..i - 1 /\ i \in 1..Len(lines) /\ i - 1 \in 0..Len(lines)
      BY <2>2
    <3>2. SaysUpTo(i - 1, R[i - 1]) /\ R[i - 1] \in ReadStates
      BY <3>1, <1>1, <1>2
    <3>3. SaysUpTo(i, ReadLine(R[i - 1], lines[i]))
      BY <3>1, <3>2, RuleSaid, AgentSaid
    <3> QED BY <3>1, <3>3, <1>1
  <2>3. CASE i > Len(lines)
    BY <2>3
  <2> QED BY <2>1, <2>2, <2>3
<1>3. \A i \in Nat : i \in T
  <2> T \subseteq Nat
    OBVIOUS
  <2> HIDE DEF T
  <2> QED BY <1>2, AllNaturals
<1>4. Len(lines) \in Nat
  OBVIOUS
<1> QED BY <1>1, <1>3, <1>4 DEF R

\* The rules that are used are those a reader of RFC 9309 would use.
LEMMA RulesForIs ==
    ASSUME lines \in Seq(Lines)
    PROVE  \E agent \in Agents :
              /\ agent = IF \E i \in DOMAIN lines : IsAgent(i, Histor) THEN Histor ELSE Star
              /\ RulesFor(lines) \subseteq Lines
              /\ \A r \in Lines : r \in RulesFor(lines) <=> \E j \in DOMAIN lines : IsRule(j, agent, r)
<1> DEFINE end == LinesRead(lines)[Len(lines)]
           S == end.groups \cup {end.open}
<1>1. SaysUpTo(Len(lines), end) /\ end \in ReadStates
  BY AllSaid
<1>2. Groups(lines) = S
  BY DEF Groups
<1>3. S \subseteq GroupSet
  BY <1>1 DEF ReadStates
<1> HIDE DEF end
<1>30. DOMAIN lines = 1..Len(lines)
  OBVIOUS
<1>4. \A a \in Agents : NamedIn(S, a) <=> \E j \in DOMAIN lines : IsAgent(j, a)
  BY <1>1, <1>30 DEF SaysUpTo
<1>5. \A a \in Agents, r \in Lines : RuleIn(S, a, r) <=> \E j \in DOMAIN lines : IsRule(j, a, r)
  BY <1>1, <1>30 DEF SaysUpTo
<1> HIDE DEF S
<1>6. PICK agent \in Agents : agent = IF GroupsOf(Histor, lines) # {} THEN Histor ELSE Star
  BY DEF Agents
<1>7. Histor \in Agents
  BY DEF Agents
<1>8. GroupsOf(Histor, lines) # {} <=> NamedIn(S, Histor)
  BY <1>2 DEF GroupsOf, NamedIn
<1>9. agent = IF \E i \in DOMAIN lines : IsAgent(i, Histor) THEN Histor ELSE Star
  BY <1>4, <1>6, <1>7, <1>8
<1>10. RulesFor(lines) = UNION {g.rules : g \in {h \in S : agent \in h.agents}}
  BY <1>2, <1>6 DEF RulesFor, GroupsOf
<1>11. \A r : r \in RulesFor(lines) <=> RuleIn(S, agent, r)
  BY <1>10 DEF RuleIn
<1>12. RulesFor(lines) \subseteq Lines
  BY <1>3, <1>10 DEF GroupSet
<1> QED BY <1>5, <1>9, <1>11, <1>12

\* Among rules of one octet or two, one that allows is of the longest exactly if each that closes has
\* one that allows and is no shorter.
LEMMA LongestDecides ==
    ASSUME NEW rules \in SUBSET [key : {"allow", "disallow"}, value : 1..2]
    PROVE  (rules = {} \/ \E r \in rules : r.key = "allow" /\ \A s \in rules : s.value <= r.value)
              <=> \A r \in rules : r.key = "disallow" => \E s \in rules : s.key = "allow" /\ s.value >= r.value
<1>0. \A r \in rules : r.value \in 1..2 /\ r.key \in {"allow", "disallow"}
  OBVIOUS
<1>1. ASSUME \A r \in rules : r.key = "disallow" => \E s \in rules : s.key = "allow" /\ s.value >= r.value, rules # {}
      PROVE  \E r \in rules : r.key = "allow" /\ \A s \in rules : s.value <= r.value
  <2>1. PICK m \in rules : \A s \in rules : s.value <= m.value
    <3>1. CASE \E r \in rules : r.value = 2
      BY <1>0, <3>1
    <3>2. CASE ~ \E r \in rules : r.value = 2
      BY <1>0, <1>1, <3>2
    <3> QED BY <3>1, <3>2
  <2>2. CASE m.key = "allow"
    BY <2>1, <2>2
  <2>3. CASE m.key = "disallow"
    <3>1. PICK k \in rules : k.key = "allow" /\ k.value >= m.value
      BY <1>1, <2>3
    <3>2. \A s \in rules : s.value <= k.value
      BY <1>0, <2>1, <3>1
    <3> QED BY <3>1, <3>2
  <2> QED BY <1>0, <2>2, <2>3
<1>2. ASSUME NEW r \in rules, r.key = "allow", \A s \in rules : s.value <= r.value, NEW t \in rules
      PROVE  \E s \in rules : s.key = "allow" /\ s.value >= t.value
  BY <1>0, <1>2
<1> QED BY <1>1, <1>2

LEMMA FileIsUnderstood ==
    ASSUME lines \in Seq(Lines)
    PROVE  FileMeansWhatItSays
<1>1. PICK agent \in Agents :
              /\ agent = IF \E i \in DOMAIN lines : IsAgent(i, Histor) THEN Histor ELSE Star
              /\ RulesFor(lines) \subseteq Lines
              /\ \A r \in Lines : r \in RulesFor(lines) <=> \E j \in DOMAIN lines : IsRule(j, agent, r)
  BY RulesForIs
<1> DEFINE named == \E i \in DOMAIN lines : lines[i] = [key |-> "user-agent", value |-> Histor]
           meant == {j \in DOMAIN lines : /\ lines[j].key # "user-agent" /\ lines[j].value > 0
                                          /\ NamedFor(IF named THEN Histor ELSE Star, j)}
           rules == RulesFor(lines)
<1>2. agent = IF named THEN Histor ELSE Star
  BY <1>1 DEF IsAgent
<1>3. meant = {j \in DOMAIN lines : lines[j].key # "user-agent" /\ lines[j].value > 0 /\ NamedFor(agent, j)}
  BY <1>2
<1> HIDE DEF named
<1>4. \A j \in DOMAIN lines : lines[j] \in Lines
  OBVIOUS
<1>5. \A j \in meant : lines[j] \in rules
  BY <1>1, <1>3, <1>4 DEF IsRule
<1>6. \A r \in rules : \E j \in meant : lines[j] = r
  BY <1>1, <1>3 DEF IsRule
<1> HIDE DEF meant
<1>7. rules \subseteq [key : {"allow", "disallow"}, value : 1..2]
  <2>1. ASSUME NEW r \in rules PROVE r \in [key : {"allow", "disallow"}, value : 1..2]
    <3>1. r \in Lines /\ r.key # "user-agent" /\ r.value > 0
      BY <1>1 DEF IsRule
    <3> QED BY <3>1 DEF Lines
  <2> QED BY <2>1
<1>8. DecidePath(lines) <=> \A r \in rules : r.key = "disallow" => \E s \in rules : s.key = "allow" /\ s.value >= r.value
  BY <1>7, LongestDecides DEF DecidePath
<1> HIDE DEF rules
<1>9. DecidePath(lines) <=> \A j \in meant : lines[j].key = "disallow" =>
                               \E k \in meant : lines[k].key = "allow" /\ lines[k].value >= lines[j].value
  BY <1>5, <1>6, <1>8
<1> QED BY <1>9 DEF FileMeansWhatItSays, meant, named

\* The file is never written here.
LEMMA LinesStay == lines \in Seq(Lines) /\ [Next]_vars => (lines \in Seq(Lines))'
<1>1. [Next]_vars => UNCHANGED lines
  BY DEF Next, vars, Policing, Decide, SaveRobots, LoadRobots, Tick, SiteChanges, robots, Record, Answer, Served, Ask
<1> QED BY <1>1

LEMMA LinesAreAFile == Init => lines \in Seq(Lines)
<1>1. ASSUME NEW text \in BoundedSeq(Lines, MaxLines) PROVE text \in Seq(Lines)
  <2>1. PICK n \in 0..MaxLines : text \in [1..n -> Lines]
    BY DEF BoundedSeq, SeqOf
  <2>2. n \in Nat
    BY RobotsAssumption
  <2> QED BY <2>1, <2>2
<1> QED BY <1>1 DEF Init, RobotsInit

\* Whatever lines a robots.txt has, HISTOR reads from it what RFC 9309 says it means (rules_for and
\* decide_path), and a path that its site has kept closed for a day is not read.
THEOREM RobotsStand == Spec => []RobotsAreObeyed
<1>1. Init => lines \in Seq(Lines)
  BY LinesAreAFile
<1>2. (lines \in Seq(Lines)) /\ [Next]_vars => (lines \in Seq(Lines))'
  BY LinesStay
<1>3. lines \in Seq(Lines) => FileMeansWhatItSays
  BY FileIsUnderstood
<1>4. Spec => []ClosedIsNotRead
  BY ClosedStaysUnread
<1>5. FileMeansWhatItSays /\ ClosedIsNotRead => RobotsAreObeyed
  BY DEF RobotsAreObeyed
<1> QED BY <1>1, <1>2, <1>3, <1>4, <1>5, PTL DEF Spec

-----------------------------------------------------------------------------
(* A list and its digest.  The canonical list is the list itself in another *)
(* order, one place an entry (PlacesAre), and its keys never go down        *)
(* (CanonicalIsSorted).  Two sorted lists whose entries pair off by key are *)
(* equal key by key: at a first difference one side would need more places *)
(* than it has, so the pigeonholes decide (PairedAlike).                    *)

\* What is digested of a tool, and its order.
KeyOf(t) == <<t.name, Bytes(t)>>

KeyBefore(k, l) == k[1] < l[1] \/ (k[1] = l[1] /\ Before(k[2], l[2]))

ToolKeys == Nat \X (Nat \X Nat)

\* Names and canonical bytes are numbers.
LEMMA KeysAre ==
    ASSUME NEW t \in Tools
    PROVE  KeyOf(t) \in ToolKeys /\ t.name = KeyOf(t)[1] /\ Bytes(t) = KeyOf(t)[2]
<1>1. t.name \in Nat /\ t.description \in Nat /\ t.schema \in Nat
  <2>1. t.name \in Names /\ t.description \in Texts /\ t.schema \in Values
    BY DEF Tools
  <2>2. Values \subseteq Nat
    BY DEF Values, Absent, True, One, OneFloat
  <2> QED
    BY <2>1, <2>2, JudgementAssumption
<1>2. AsDouble(t.schema) \in Nat
  BY <1>1 DEF AsDouble, OneFloat, One
<1> QED
  BY <1>1, <1>2 DEF KeyOf, ToolKeys, Bytes

\* It is a strict total order of the keys.
LEMMA KeysAreOrdered ==
    ASSUME NEW k \in ToolKeys, NEW l \in ToolKeys
    PROVE  /\ ~KeyBefore(k, k)
           /\ KeyBefore(k, l) => ~KeyBefore(l, k)
           /\ k = l \/ KeyBefore(k, l) \/ KeyBefore(l, k)
<1>1. PICK k1 \in Nat, k2 \in Nat, k3 \in Nat : k = <<k1, <<k2, k3>>>>
  BY DEF ToolKeys
<1>2. PICK l1 \in Nat, l2 \in Nat, l3 \in Nat : l = <<l1, <<l2, l3>>>>
  BY DEF ToolKeys
<1> QED
  BY <1>1, <1>2 DEF KeyBefore, Before

\* What is before one key is before whatever is not before that one.
LEMMA KeysFollow ==
    ASSUME NEW k \in ToolKeys, NEW l \in ToolKeys, NEW m \in ToolKeys, KeyBefore(k, l), ~KeyBefore(m, l)
    PROVE  KeyBefore(k, m)
<1>1. PICK k1 \in Nat, k2 \in Nat, k3 \in Nat : k = <<k1, <<k2, k3>>>>
  BY DEF ToolKeys
<1>2. PICK l1 \in Nat, l2 \in Nat, l3 \in Nat : l = <<l1, <<l2, l3>>>>
  BY DEF ToolKeys
<1>3. PICK m1 \in Nat, m2 \in Nat, m3 \in Nat : m = <<m1, <<m2, m3>>>>
  BY DEF ToolKeys
<1> QED
  BY <1>1, <1>2, <1>3 DEF KeyBefore, Before

\* An entry is before another in the sort when its key is before, or when the keys are the same
\* and it came first: whether or not a name is repeated.
LEMMA PrecedesIs ==
    ASSUME NEW n \in Nat, NEW list \in [1..n -> Tools], NEW i \in 1..n, NEW j \in 1..n
    PROVE  Precedes(list, j, i) <=>
             (KeyBefore(KeyOf(list[j]), KeyOf(list[i])) \/ (KeyOf(list[j]) = KeyOf(list[i]) /\ j < i))
<1>1. /\ KeyOf(list[i]) \in ToolKeys /\ list[i].name = KeyOf(list[i])[1] /\ Bytes(list[i]) = KeyOf(list[i])[2]
      /\ KeyOf(list[j]) \in ToolKeys /\ list[j].name = KeyOf(list[j])[1] /\ Bytes(list[j]) = KeyOf(list[j])[2]
  BY KeysAre
<1>2. /\ Sorts(list, list[j], list[i]) => KeyBefore(KeyOf(list[j]), KeyOf(list[i]))
      /\ Sorts(list, list[i], list[j]) => KeyBefore(KeyOf(list[i]), KeyOf(list[j]))
  BY <1>1 DEF Sorts, KeyBefore
<1>3. CASE ~DistinctNames(list)
  <2>1. /\ Sorts(list, list[j], list[i]) <=> KeyBefore(KeyOf(list[j]), KeyOf(list[i]))
        /\ Sorts(list, list[i], list[j]) <=> KeyBefore(KeyOf(list[i]), KeyOf(list[j]))
    BY <1>1, <1>3 DEF Sorts, KeyBefore
  <2> QED
    BY <1>1, <2>1, KeysAreOrdered DEF Precedes
<1>4. CASE DistinctNames(list)
  <2>1. CASE i = j
    BY <1>1, <2>1, <1>2, KeysAreOrdered DEF Precedes
  <2>2. CASE i # j
    <3>1. list[i].name # list[j].name
      BY <1>4, <2>2 DEF DistinctNames
    <3>2. KeyOf(list[i])[1] \in Nat /\ KeyOf(list[j])[1] \in Nat
      BY <1>1 DEF ToolKeys
    <3>3. /\ Sorts(list, list[j], list[i]) <=> KeyBefore(KeyOf(list[j]), KeyOf(list[i]))
          /\ Sorts(list, list[i], list[j]) <=> KeyBefore(KeyOf(list[i]), KeyOf(list[j]))
      BY <1>1, <3>1 DEF Sorts, KeyBefore
    <3>4. KeyBefore(KeyOf(list[j]), KeyOf(list[i])) \/ KeyBefore(KeyOf(list[i]), KeyOf(list[j]))
      BY <1>1, <3>1, <3>2 DEF KeyBefore
    <3> QED
      BY <1>1, <3>1, <3>3, <3>4, KeysAreOrdered DEF Precedes
  <2> QED
    BY <2>1, <2>2
<1> QED
  BY <1>3, <1>4

\* Of two entries one is before the other, and stays behind all that are before it.
LEMMA PlacesFollow ==
    ASSUME NEW n \in Nat, NEW list \in [1..n -> Tools], NEW i \in 1..n, NEW j \in 1..n,
           Precedes(list, j, i)
    PROVE  Place(list, j) \in Nat /\ Place(list, i) \in Nat /\ Place(list, j) < Place(list, i)
<1> DEFINE Ahead(k) == {m \in 1..n : Precedes(list, m, k)}
<1>1. DOMAIN list = 1..n /\ IsFiniteSet(1..n)
  BY FS_Interval
<1>2. \A k \in 1..n : IsFiniteSet(Ahead(k)) /\ Cardinality(Ahead(k)) \in Nat
  <2> TAKE k \in 1..n
  <2>1. Ahead(k) \subseteq 1..n
    OBVIOUS
  <2>2. IsFiniteSet(Ahead(k))
    BY <1>1, <2>1, FS_Subset
  <2> QED
    BY <2>2, FS_CardinalityType
<1>3. \A m \in 1..n : Precedes(list, m, j) => Precedes(list, m, i)
  <2> SUFFICES ASSUME NEW m \in 1..n, Precedes(list, m, j) PROVE Precedes(list, m, i)
    OBVIOUS
  <2>1. KeyOf(list[m]) \in ToolKeys /\ KeyOf(list[j]) \in ToolKeys /\ KeyOf(list[i]) \in ToolKeys
    BY KeysAre
  <2>2. KeyBefore(KeyOf(list[m]), KeyOf(list[j])) \/ (KeyOf(list[m]) = KeyOf(list[j]) /\ m < j)
    BY PrecedesIs
  <2>3. KeyBefore(KeyOf(list[j]), KeyOf(list[i])) \/ (KeyOf(list[j]) = KeyOf(list[i]) /\ j < i)
    BY PrecedesIs
  <2>4. KeyBefore(KeyOf(list[m]), KeyOf(list[i])) \/ (KeyOf(list[m]) = KeyOf(list[i]) /\ m < i)
    <3>1. CASE KeyBefore(KeyOf(list[m]), KeyOf(list[j])) /\ KeyBefore(KeyOf(list[j]), KeyOf(list[i]))
      BY <2>1, <3>1, KeysAreOrdered, KeysFollow
    <3>2. CASE ~(KeyBefore(KeyOf(list[m]), KeyOf(list[j])) /\ KeyBefore(KeyOf(list[j]), KeyOf(list[i])))
      BY <2>2, <2>3, <3>2
    <3> QED
      BY <3>1, <3>2
  <2> QED
    BY <2>4, PrecedesIs
<1>4. ~Precedes(list, j, j)
  <2>1. KeyOf(list[j]) \in ToolKeys
    BY KeysAre
  <2>2. ~KeyBefore(KeyOf(list[j]), KeyOf(list[j]))
    BY <2>1, KeysAreOrdered
  <2> QED
    BY <2>2, PrecedesIs
<1>5. Ahead(j) \subseteq Ahead(i) /\ j \in Ahead(i) /\ j \notin Ahead(j)
  BY <1>3, <1>4
<1>6. Place(list, i) = 1 + Cardinality(Ahead(i)) /\ Place(list, j) = 1 + Cardinality(Ahead(j))
  BY <1>1 DEF Place
<1> HIDE DEF Ahead
<1>7. Cardinality(Ahead(j)) < Cardinality(Ahead(i))
  <2>1. Ahead(j) # Ahead(i)
    BY <1>5
  <2> QED
    BY <1>2, <1>5, <2>1, FS_Subset
<1> QED
  BY <1>2, <1>6, <1>7

\* The places of a list are its positions, each taken once.
LEMMA PlacesAre ==
    ASSUME NEW n \in Nat, NEW list \in [1..n -> Tools]
    PROVE  /\ \A i \in 1..n : Place(list, i) \in 1..n
           /\ \A i, j \in 1..n : Place(list, i) = Place(list, j) => i = j
           /\ \A p \in 1..n : \E i \in 1..n : Place(list, i) = p
<1>1. DOMAIN list = 1..n /\ IsFiniteSet(1..n) /\ Cardinality(1..n) = n
  BY FS_Interval
<1>2. \A i, j \in 1..n : Place(list, i) = Place(list, j) => i = j
  <2> SUFFICES ASSUME NEW i \in 1..n, NEW j \in 1..n, i # j PROVE Place(list, i) # Place(list, j)
    OBVIOUS
  <2>1. KeyOf(list[j]) \in ToolKeys /\ KeyOf(list[i]) \in ToolKeys
    BY KeysAre
  <2>2. Precedes(list, j, i) \/ Precedes(list, i, j)
    BY <2>1, KeysAreOrdered, PrecedesIs
  <2> QED
    BY <2>2, PlacesFollow
<1>3. \A i \in 1..n : Place(list, i) \in 1..n
  <2> TAKE i \in 1..n
  <2> DEFINE Ahead == {m \in 1..n : Precedes(list, m, i)}
  <2>1. ~Precedes(list, i, i)
    <3>1. KeyOf(list[i]) \in ToolKeys
      BY KeysAre
    <3>2. ~KeyBefore(KeyOf(list[i]), KeyOf(list[i]))
      BY <3>1, KeysAreOrdered
    <3> QED
      BY <3>2, PrecedesIs
  <2>2. Ahead \subseteq 1..n /\ i \notin Ahead
    BY <2>1
  <2>3. Place(list, i) = 1 + Cardinality(Ahead)
    BY <1>1 DEF Place
  <2> HIDE DEF Ahead
  <2>4. Ahead # 1..n /\ IsFiniteSet(Ahead)
    BY <1>1, <2>2, FS_Subset
  <2>5. Cardinality(Ahead) \in Nat /\ Cardinality(Ahead) < n
    <3>1. Cardinality(Ahead) <= Cardinality(1..n) /\ Cardinality(Ahead) # Cardinality(1..n)
      BY <1>1, <2>2, <2>4, FS_Subset
    <3>2. Cardinality(Ahead) \in Nat
      BY <2>4, FS_CardinalityType
    <3> QED
      BY <1>1, <3>1, <3>2
  <2> QED
    BY <2>3, <2>5
<1>4. \A p \in 1..n : \E i \in 1..n : Place(list, i) = p
  <2> SUFFICES ASSUME NEW p \in 1..n, \A i \in 1..n : Place(list, i) # p PROVE FALSE
    OBVIOUS
  <2> DEFINE f == [i \in 1..n |-> Place(list, i)]
  <2>1. f \in [1..n -> (1..n) \ {p}]
    BY <1>3
  <2>2. IsFiniteSet((1..n) \ {p}) /\ Cardinality((1..n) \ {p}) = n - 1
    BY <1>1, FS_RemoveElement
  <2>3. \A i \in 1..n : f[i] = Place(list, i)
    OBVIOUS
  <2> HIDE DEF f
  <2>4. PICK i \in 1..n, j \in 1..n : i # j /\ f[i] = f[j]
    <3>1. Cardinality((1..n) \ {p}) < Cardinality(1..n)
      BY <1>1, <2>2
    <3> QED
      BY <1>1, <2>1, <2>2, <3>1, FS_PigeonHole
  <2> QED
    BY <1>2, <2>3, <2>4
<1> QED
  BY <1>2, <1>3, <1>4

\* The canonical list holds the list's entries, each at its place ...
LEMMA CanonicalAt ==
    ASSUME NEW n \in Nat, NEW list \in [1..n -> Tools]
    PROVE  /\ CanonicalToolSet(list) \in [1..n -> Tools]
           /\ \A i \in 1..n : CanonicalToolSet(list)[Place(list, i)] = list[i]
           /\ \A p \in 1..n : \E i \in 1..n : Place(list, i) = p /\ CanonicalToolSet(list)[p] = list[i]
<1> DEFINE From(p) == CHOOSE i \in 1..n : Place(list, i) = p
<1>1. DOMAIN list = 1..n
  OBVIOUS
<1>2. \A p \in 1..n : From(p) \in 1..n /\ Place(list, From(p)) = p
  BY PlacesAre
<1>3. CanonicalToolSet(list) = [p \in 1..n |-> list[From(p)]]
  BY <1>1 DEF CanonicalToolSet
<1> HIDE DEF From
<1>4. \A p \in 1..n : CanonicalToolSet(list)[p] = list[From(p)]
  BY <1>3
<1>5. \A i \in 1..n : Place(list, i) \in 1..n
  BY PlacesAre
<1>6. \A i \in 1..n : From(Place(list, i)) = i
  <2> TAKE i \in 1..n
  <2>1. Place(list, From(Place(list, i))) = Place(list, i) /\ From(Place(list, i)) \in 1..n
    BY <1>2, <1>5
  <2> QED
    BY <2>1, PlacesAre
<1>7. CanonicalToolSet(list) \in [1..n -> Tools]
  BY <1>2, <1>3
<1>8. \A i \in 1..n : CanonicalToolSet(list)[Place(list, i)] = list[i]
  BY <1>4, <1>5, <1>6
<1>9. \A p \in 1..n : \E i \in 1..n : Place(list, i) = p /\ CanonicalToolSet(list)[p] = list[i]
  BY <1>2, <1>4
<1> QED
  BY <1>7, <1>8, <1>9

\* ... by key: no entry has a key before that of an earlier one.
LEMMA CanonicalIsSorted ==
    ASSUME NEW n \in Nat, NEW list \in [1..n -> Tools], NEW p \in 1..n, NEW q \in 1..n, p < q
    PROVE  ~KeyBefore(KeyOf(CanonicalToolSet(list)[q]), KeyOf(CanonicalToolSet(list)[p]))
<1>1. PICK i \in 1..n : Place(list, i) = p /\ CanonicalToolSet(list)[p] = list[i]
  BY CanonicalAt
<1>2. PICK j \in 1..n : Place(list, j) = q /\ CanonicalToolSet(list)[q] = list[j]
  BY CanonicalAt
<1>3. SUFFICES ASSUME KeyBefore(KeyOf(list[j]), KeyOf(list[i])) PROVE FALSE
  BY <1>1, <1>2
<1>4. Precedes(list, j, i)
  BY <1>3, PrecedesIs
<1> QED
  BY <1>1, <1>2, <1>4, PlacesFollow

\* Lists whose entries have the keys of one another's, each answered by one of its own, are
\* digested alike: where the first difference fell, more entries would have to fit than there are.
LEMMA PairedAlike ==
    ASSUME NEW n \in Nat, NEW a \in [1..n -> Tools], NEW b \in [1..n -> Tools],
           NEW g \in [1..n -> 1..n], \A i, j \in 1..n : g[i] = g[j] => i = j,
           \A i \in 1..n : KeyOf(b[g[i]]) = KeyOf(a[i])
    PROVE  ToolSetDigest(a) = ToolSetDigest(b)
<1> DEFINE c == CanonicalToolSet(a)
           d == CanonicalToolSet(b)
           From(p) == CHOOSE i \in 1..n : Place(a, i) = p /\ c[p] = a[i]
           h == [p \in 1..n |-> Place(b, g[From(p)])]
<1>1. \A p \in 1..n : From(p) \in 1..n /\ Place(a, From(p)) = p /\ c[p] = a[From(p)]
  <2> TAKE p \in 1..n
  <2>1. \E i \in 1..n : Place(a, i) = p /\ c[p] = a[i]
    BY CanonicalAt
  <2> HIDE DEF c
  <2> QED
    BY <2>1
<1>2. \A i \in 1..n : d[Place(b, i)] = b[i] /\ Place(b, i) \in 1..n
  <2>1. \A i \in 1..n : d[Place(b, i)] = b[i]
    BY CanonicalAt
  <2>2. \A i \in 1..n : Place(b, i) \in 1..n
    BY PlacesAre
  <2> HIDE DEF d
  <2> QED
    BY <2>1, <2>2
<1>3. c \in [1..n -> Tools] /\ d \in [1..n -> Tools]
  BY CanonicalAt
<1>4. \A p, q \in 1..n : p < q => ~KeyBefore(KeyOf(c[q]), KeyOf(c[p])) /\ ~KeyBefore(KeyOf(d[q]), KeyOf(d[p]))
  BY CanonicalIsSorted
<1> HIDE DEF c, d, From
<1>5. h \in [1..n -> 1..n] /\ \A p \in 1..n : h[p] = Place(b, g[From(p)])
  BY <1>1, <1>2
<1>6. \A p \in 1..n : KeyOf(d[h[p]]) = KeyOf(c[p])
  <2> HIDE DEF h
  <2> TAKE p \in 1..n
  <2>1. From(p) \in 1..n /\ c[p] = a[From(p)]
    BY <1>1
  <2>2. g[From(p)] \in 1..n /\ KeyOf(b[g[From(p)]]) = KeyOf(a[From(p)])
    BY <2>1
  <2>3. d[h[p]] = b[g[From(p)]]
    BY <1>2, <1>5, <2>2
  <2> QED
    BY <2>1, <2>2, <2>3
<1>7. \A p, q \in 1..n : h[p] = h[q] => p = q
  <2> SUFFICES ASSUME NEW p \in 1..n, NEW q \in 1..n, h[p] = h[q] PROVE p = q
    OBVIOUS
  <2>1. From(p) \in 1..n /\ From(q) \in 1..n /\ g[From(p)] \in 1..n /\ g[From(q)] \in 1..n
    BY <1>1
  <2>2. g[From(p)] = g[From(q)]
    <3> HIDE DEF h
    <3>1. Place(b, g[From(p)]) = Place(b, g[From(q)])
      BY <1>5
    <3>2. \A i, j \in 1..n : Place(b, i) = Place(b, j) => i = j
      BY PlacesAre
    <3> QED
      BY <2>1, <3>1, <3>2
  <2>3. From(p) = From(q)
    BY <2>1, <2>2
  <2> QED
    BY <1>1, <2>3
<1> HIDE DEF h
<1>8. \A p \in 1..n : KeyOf(c[p]) \in ToolKeys /\ KeyOf(d[p]) \in ToolKeys /\ h[p] \in 1..n
  BY <1>3, <1>5, KeysAre
    \* Not before: the first p of the one go before p in the other.
<1>9. ASSUME NEW p \in 1..n, KeyBefore(KeyOf(c[p]), KeyOf(d[p])) PROVE FALSE
  <2>1. \A q \in 1..p : h[q] \in 1..p - 1
    <3> TAKE q \in 1..p
    <3>1. q \in 1..n /\ h[q] \in 1..n
      BY <1>8
    <3>2. ~KeyBefore(KeyOf(c[p]), KeyOf(c[q]))
      BY <1>4, <1>8, <3>1, KeysAreOrdered
    <3>3. KeyBefore(KeyOf(c[q]), KeyOf(d[p]))
      <4>1. KeyOf(c[q]) = KeyOf(c[p]) \/ KeyBefore(KeyOf(c[q]), KeyOf(c[p]))
        BY <1>8, <3>1, <3>2, KeysAreOrdered
      <4>2. ~KeyBefore(KeyOf(d[p]), KeyOf(c[p]))
        BY <1>8, <1>9, KeysAreOrdered
      <4> QED
        BY <1>8, <1>9, <3>1, <4>1, <4>2, KeysFollow
    <3>4. KeyBefore(KeyOf(d[h[q]]), KeyOf(d[p]))
      BY <1>6, <3>1, <3>3
    <3>5. h[q] # p /\ ~(p < h[q])
      BY <1>4, <1>8, <3>1, <3>4, KeysAreOrdered
    <3> QED
      BY <3>1, <3>5
  <2> DEFINE few == [q \in 1..p |-> h[q]]
  <2>2. \A q \in 1..p : few[q] = h[q] /\ q \in 1..n
    OBVIOUS
  <2>3. few \in [1..p -> 1..p - 1]
    BY <2>1
  <2> HIDE DEF few
  <2>4. IsFiniteSet(1..p) /\ IsFiniteSet(1..p - 1) /\ Cardinality(1..p - 1) < Cardinality(1..p)
    <3>1. IsFiniteSet(1..p) /\ Cardinality(1..p) = p
      BY FS_Interval
    <3>2. IsFiniteSet(1..p - 1) /\ Cardinality(1..p - 1) = p - 1
      BY FS_Interval
    <3> QED
      BY <3>1, <3>2
  <2>5. PICK i \in 1..p, j \in 1..p : i # j /\ few[i] = few[j]
    BY <2>4, <2>3, FS_PigeonHole
  <2> QED
    BY <1>7, <2>2, <2>5
    \* Not after: those from p on go after p in the other.
<1>10. ASSUME NEW p \in 1..n, KeyBefore(KeyOf(d[p]), KeyOf(c[p])) PROVE FALSE
  <2>1. \A q \in p..n : h[q] \in p + 1..n
    <3> TAKE q \in p..n
    <3>1. q \in 1..n /\ h[q] \in 1..n
      BY <1>8
    <3>2. ~KeyBefore(KeyOf(c[q]), KeyOf(c[p]))
      BY <1>4, <1>8, <3>1, KeysAreOrdered
    <3>3. KeyBefore(KeyOf(d[p]), KeyOf(c[q]))
      BY <1>8, <1>10, <3>1, <3>2, KeysFollow
    <3>4. KeyBefore(KeyOf(d[p]), KeyOf(d[h[q]]))
      BY <1>6, <3>1, <3>3
    <3>5. h[q] # p /\ ~(h[q] < p)
      BY <1>4, <1>8, <3>1, <3>4, KeysAreOrdered
    <3> QED
      BY <3>1, <3>5
  <2> DEFINE few == [q \in p..n |-> h[q]]
  <2>2. \A q \in p..n : few[q] = h[q] /\ q \in 1..n
    OBVIOUS
  <2>3. few \in [p..n -> p + 1..n]
    BY <2>1
  <2> HIDE DEF few
  <2>4. IsFiniteSet(p..n) /\ IsFiniteSet(p + 1..n) /\ Cardinality(p + 1..n) < Cardinality(p..n)
    <3>1. IsFiniteSet(p..n) /\ Cardinality(p..n) = n - p + 1
      BY FS_Interval
    <3>2. IsFiniteSet(p + 1..n) /\ Cardinality(p + 1..n) = n - p
      BY FS_Interval
    <3> QED
      BY <3>1, <3>2
  <2>5. PICK i \in p..n, j \in p..n : i # j /\ few[i] = few[j]
    BY <2>4, <2>3, FS_PigeonHole
  <2> QED
    BY <1>7, <2>2, <2>5
<1>11. \A p \in 1..n : KeyOf(c[p]) = KeyOf(d[p])
  BY <1>8, <1>9, <1>10, KeysAreOrdered
<1>12. ToolSetDigest(a) = [p \in 1..n |-> KeyOf(c[p])] /\ ToolSetDigest(b) = [p \in 1..n |-> KeyOf(d[p])]
  BY DEF ToolSetDigest, KeyOf, c, d
<1> QED
  BY <1>11, <1>12

\* Two lists of one digest hold the same tools ...
LEMMA OneDigestOneSet ==
    ASSUME NEW n \in Nat, NEW m \in Nat, NEW a \in [1..n -> Tools], NEW b \in [1..m -> Tools],
           ToolSetDigest(a) = ToolSetDigest(b)
    PROVE  SameTools(a, b)
<1> DEFINE c == CanonicalToolSet(a)
           d == CanonicalToolSet(b)
<1>1. /\ ToolSetDigest(a) = [p \in 1..n |-> KeyOf(c[p])] /\ ToolSetDigest(b) = [p \in 1..m |-> KeyOf(d[p])]
      /\ DOMAIN a = 1..n /\ DOMAIN b = 1..m
  BY DEF ToolSetDigest, KeyOf
<1> HIDE DEF c, d
<1>2. n = m /\ \A p \in 1..n : KeyOf(c[p]) = KeyOf(d[p])
  <2>1. DOMAIN ToolSetDigest(a) = 1..n /\ DOMAIN ToolSetDigest(b) = 1..m
    BY <1>1
  <2>2. 1..n = 1..m
    BY <2>1
  <2>3. n = m
    BY <2>2
  <2>4. \A p \in 1..n : ToolSetDigest(a)[p] = KeyOf(c[p]) /\ ToolSetDigest(b)[p] = KeyOf(d[p])
    BY <1>1, <2>2
  <2> QED
    BY <2>3, <2>4
<1>3. Len(a) = n /\ Len(b) = n
  BY <1>1, <1>2
<1>4. ASSUME NEW i \in 1..n
      PROVE  \E f \in [Occurrences(a, a[i]) -> Occurrences(b, a[i])] :
                \A j, k \in DOMAIN f : f[j] = f[k] => j = k
  <2> DEFINE To(j) == CHOOSE k \in 1..n : Place(b, k) = Place(a, j) /\ d[Place(a, j)] = b[k]
             f == [j \in Occurrences(a, a[i]) |-> To(j)]
  <2>1. \A j \in 1..n : Place(a, j) \in 1..n /\ c[Place(a, j)] = a[j]
    <3>1. \A j \in 1..n : Place(a, j) \in 1..n
      BY PlacesAre
    <3>2. \A j \in 1..n : c[Place(a, j)] = a[j]
      BY CanonicalAt DEF c
    <3> QED
      BY <3>1, <3>2
  <2>2. \A j \in 1..n : To(j) \in 1..n /\ Place(b, To(j)) = Place(a, j) /\ d[Place(a, j)] = b[To(j)]
    <3> TAKE j \in 1..n
    <3>1. b \in [1..n -> Tools]
      BY <1>2
    <3>2. \E k \in 1..n : Place(b, k) = Place(a, j) /\ d[Place(a, j)] = b[k]
      BY <2>1, <3>1, CanonicalAt DEF d
    <3> QED
      BY <3>2
  <2> HIDE DEF To
  <2>3. \A j \in 1..n : KeyOf(b[To(j)]) = KeyOf(a[j])
    BY <1>2, <2>1, <2>2
  <2>4. \A j, k \in 1..n : To(j) = To(k) => j = k
    BY <2>2, PlacesAre
  <2>5. \A j \in 1..n : /\ j \in Occurrences(a, a[i]) <=> KeyOf(a[j]) = KeyOf(a[i])
                        /\ j \in Occurrences(b, a[i]) <=> KeyOf(b[j]) = KeyOf(a[i])
    BY <1>1, <1>2 DEF Occurrences, KeyOf
  <2>6. Occurrences(a, a[i]) \subseteq 1..n
    BY <1>1 DEF Occurrences
  <2>7. f \in [Occurrences(a, a[i]) -> Occurrences(b, a[i])]
    BY <2>2, <2>3, <2>5, <2>6
  <2>8. \A j, k \in DOMAIN f : f[j] = f[k] => j = k
    BY <2>4, <2>6
  <2> QED
    BY <2>7, <2>8
<1> QED
  BY <1>1, <1>3, <1>4 DEF SameTools

\* ... and two lists of the same tools have one digest.
LEMMA OneSetOneDigest ==
    ASSUME NEW n \in Nat, NEW m \in Nat, NEW a \in [1..n -> Tools], NEW b \in [1..m -> Tools],
           SameTools(a, b)
    PROVE  ToolSetDigest(a) = ToolSetDigest(b)
<1>1. DOMAIN a = 1..n /\ DOMAIN b = 1..m /\ Len(a) = n /\ Len(b) = m
  OBVIOUS
<1>2. n = m
  BY <1>1 DEF SameTools
    \* One pairing for each key, chosen alike for every tool that has it.
<1> DEFINE Having(e, k) == {i \in 1..n : KeyOf(e[i]) = k}
           Pairs(k) == {f \in [Having(a, k) -> Having(b, k)] : \A i, j \in DOMAIN f : f[i] = f[j] => i = j}
           For(k) == CHOOSE f \in Pairs(k) : TRUE
           g == [i \in 1..n |-> For(KeyOf(a[i]))[i]]
<1>3. \A i \in 1..n : Occurrences(a, a[i]) = Having(a, KeyOf(a[i])) /\ Occurrences(b, a[i]) = Having(b, KeyOf(a[i]))
  BY <1>1, <1>2 DEF Occurrences, KeyOf
<1>4. \A i \in 1..n : Pairs(KeyOf(a[i])) # {}
  <2> TAKE i \in 1..n
  <2>1. PICK f \in [Occurrences(a, a[i]) -> Occurrences(b, a[i])] : \A j, k \in DOMAIN f : f[j] = f[k] => j = k
    BY <1>1 DEF SameTools
  <2>2. f \in Pairs(KeyOf(a[i]))
    BY <1>3, <2>1
  <2> QED
    BY <2>2
<1>5. \A i \in 1..n : For(KeyOf(a[i])) \in Pairs(KeyOf(a[i]))
  <2> HIDE DEF Pairs
  <2> QED
    BY <1>4
<1> HIDE DEF For
<1>6. \A i \in 1..n : g[i] = For(KeyOf(a[i]))[i]
  OBVIOUS
<1>7. \A i \in 1..n : i \in Having(a, KeyOf(a[i])) /\ g[i] \in Having(b, KeyOf(a[i]))
  BY <1>5, <1>6
<1>8. g \in [1..n -> 1..n] /\ \A i \in 1..n : KeyOf(b[g[i]]) = KeyOf(a[i])
  BY <1>7
<1>9. \A i, j \in 1..n : g[i] = g[j] => i = j
  <2> SUFFICES ASSUME NEW i \in 1..n, NEW j \in 1..n, g[i] = g[j] PROVE i = j
    OBVIOUS
  <2>1. KeyOf(a[i]) = KeyOf(a[j])
    BY <1>8
  <2>2. For(KeyOf(a[i]))[i] = For(KeyOf(a[i]))[j]
    BY <1>6, <2>1
  <2>3. i \in Having(a, KeyOf(a[i])) /\ j \in Having(a, KeyOf(a[i]))
    BY <2>1
  <2> QED
    BY <1>5, <2>2, <2>3
<1> HIDE DEF g, Having, Pairs
<1>10. b \in [1..n -> Tools]
  BY <1>2
<1>11. g \in [1..n -> 1..n]
  BY <1>8
<1> QED
  BY <1>8, <1>9, <1>10, <1>11, PairedAlike

\* A dict of a list that repeats no name has its entries.
LEMMA ByNameIs ==
    ASSUME NEW n \in Nat, NEW list \in [1..n -> Tools], DistinctNames(list), NEW i \in 1..n
    PROVE  ByName(CanonicalToolSet(list), list[i].name) = list[i]
<1> DEFINE c == CanonicalToolSet(list)
           key == list[i].name
           IsTheLast(p) == c[p].name = key /\ \A q \in DOMAIN c : c[q].name = key => q <= p
<1>1. c \in [1..n -> Tools] /\ \A p \in 1..n : \E j \in 1..n : Place(list, j) = p /\ c[p] = list[j]
  BY CanonicalAt
<1>2. c[Place(list, i)] = list[i]
  BY CanonicalAt
<1>3. Place(list, i) \in 1..n
  BY PlacesAre
<1> HIDE DEF c
<1>4. \A p \in 1..n : c[p].name = key => p = Place(list, i)
  <2> SUFFICES ASSUME NEW p \in 1..n, c[p].name = key PROVE p = Place(list, i)
    OBVIOUS
  <2>1. PICK j \in 1..n : Place(list, j) = p /\ c[p] = list[j]
    BY <1>1
  <2> QED
    BY <2>1 DEF DistinctNames
<1>5. DOMAIN c = 1..n
  BY <1>1
<1>6. IsTheLast(Place(list, i))
  BY <1>2, <1>3, <1>4, <1>5
<1>7. \A p \in DOMAIN c : IsTheLast(p) => p = Place(list, i)
  BY <1>4, <1>5
<1>8. (CHOOSE p \in DOMAIN c : IsTheLast(p)) = Place(list, i)
  <2> HIDE DEF IsTheLast
  <2> QED
    BY <1>3, <1>5, <1>6, <1>7
<1>9. ByName(c, key) = c[CHOOSE p \in DOMAIN c : IsTheLast(p)]
  BY DEF ByName
<1> QED
  BY <1>2, <1>8, <1>9 DEF c

\* The summary of the change says nothing of this tool.
IsUnnamed(a, b, t) == t.name \notin ToolSetDiff(a, b).removed /\ t.name \notin ToolSetDiff(a, b).modified

\* An equal one is in the other list.
LEMMA UnnamedStays ==
    ASSUME NEW n \in Nat, NEW m \in Nat, NEW a \in [1..n -> Tools], NEW b \in [1..m -> Tools],
           DistinctNames(a), DistinctNames(b), NEW i \in 1..n,
           IsUnnamed(a, b, a[i])
    PROVE  \E j \in 1..m : KeyOf(b[j]) = KeyOf(a[i])
<1>1. DOMAIN a = 1..n /\ DOMAIN b = 1..m
  OBVIOUS
<1>2. /\ ToolSetDiff(a, b).removed = NamesOf(a) \ NamesOf(b)
      /\ ToolSetDiff(a, b).modified = {x \in NamesOf(a) \cap NamesOf(b) :
             Moved(ByName(CanonicalToolSet(a), x), ByName(CanonicalToolSet(b), x))}
  BY DEF ToolSetDiff
<1>3. a[i].name \in NamesOf(a)
  BY <1>1 DEF NamesOf
<1>4. a[i].name \in NamesOf(b)
  BY <1>2, <1>3 DEF IsUnnamed
<1>5. PICK j \in 1..m : b[j].name = a[i].name
  BY <1>1, <1>4 DEF NamesOf
<1>6. ByName(CanonicalToolSet(a), a[i].name) = a[i]
  BY ByNameIs
<1>7. ByName(CanonicalToolSet(b), b[j].name) = b[j]
  BY ByNameIs
<1>8. ~Moved(a[i], b[j])
  BY <1>2, <1>3, <1>4, <1>5, <1>6, <1>7 DEF IsUnnamed
<1> QED
  BY <1>5, <1>8 DEF Moved, KeyOf, Bytes

\* The pigeonholes, of positions.
LEMMA FitsIn ==
    ASSUME NEW n \in Nat, NEW m \in Nat, NEW g \in [1..n -> 1..m],
           \A i, j \in 1..n : g[i] = g[j] => i = j
    PROVE  n <= m
<1>1. SUFFICES ASSUME m < n PROVE FALSE
  OBVIOUS
<1>2. IsFiniteSet(1..n) /\ Cardinality(1..n) = n
  BY FS_Interval
<1>3. IsFiniteSet(1..m) /\ Cardinality(1..m) = m
  BY FS_Interval
<1>4. Cardinality(1..m) < Cardinality(1..n)
  BY <1>1, <1>2, <1>3
<1>5. PICK i \in 1..n, j \in 1..n : i # j /\ g[i] = g[j]
  BY <1>2, <1>3, <1>4, FS_PigeonHole
<1> QED
  BY <1>5

\* g finds each entry's name in the other list.
FindsNames(n, b, g, a) == \A i \in 1..n : b[g[i]].name = a[i].name

\* Such a list is no longer than the other, when it repeats no name.
LEMMA AnsweredIsNoLonger ==
    ASSUME NEW n \in Nat, NEW m \in Nat, NEW a \in [1..n -> Tools], NEW b \in [1..m -> Tools],
           DistinctNames(a), NEW g \in [1..n -> 1..m], FindsNames(n, b, g, a)
    PROVE  n <= m
<1>1. \A i, j \in 1..n : g[i] = g[j] => i = j
  BY DEF DistinctNames, FindsNames
<1> QED
  BY <1>1, FitsIn

\* The summary is empty.
NothingNamed(a, b) == \A x : /\ x \notin ToolSetDiff(a, b).added
                             /\ x \notin ToolSetDiff(a, b).removed
                             /\ x \notin ToolSetDiff(a, b).modified

\* Of lists whose summary names nothing, each tool answers one of the other's.
LEMMA ChangesAreNamed ==
    ASSUME NEW n \in Nat, NEW m \in Nat, NEW a \in [1..n -> Tools], NEW b \in [1..m -> Tools],
           DistinctNames(a), DistinctNames(b), NothingNamed(a, b)
    PROVE  ToolSetDigest(a) = ToolSetDigest(b)
<1>1. DOMAIN a = 1..n /\ DOMAIN b = 1..m
  OBVIOUS
<1>2. \A i \in 1..n : \E j \in 1..m : KeyOf(b[j]) = KeyOf(a[i])
  <2> TAKE i \in 1..n
  <2>1. IsUnnamed(a, b, a[i])
    BY DEF NothingNamed, IsUnnamed
  <2> QED
    BY <2>1, UnnamedStays
<1>3. \A j \in 1..m : \E i \in 1..n : a[i].name = b[j].name
  <2> TAKE j \in 1..m
  <2>1. NamesOf(b) \ NamesOf(a) = {} /\ b[j].name \in NamesOf(b)
    BY <1>1 DEF NothingNamed, ToolSetDiff, NamesOf
  <2> QED
    BY <1>1, <2>1 DEF NamesOf
<1> DEFINE g == [i \in 1..n |-> CHOOSE j \in 1..m : KeyOf(b[j]) = KeyOf(a[i])]
           h == [j \in 1..m |-> CHOOSE i \in 1..n : a[i].name = b[j].name]
<1>4. g \in [1..n -> 1..m] /\ \A i \in 1..n : KeyOf(b[g[i]]) = KeyOf(a[i])
  BY <1>2
<1>5. h \in [1..m -> 1..n] /\ \A j \in 1..m : a[h[j]].name = b[j].name
  BY <1>3
<1> HIDE DEF g, h
<1>6. FindsNames(n, b, g, a)
  BY <1>4 DEF KeyOf, FindsNames
<1>7. g \in [1..n -> 1..m] /\ h \in [1..m -> 1..n]
  BY <1>4, <1>5
<1>8. n <= m
  <2>1. g \in [1..n -> 1..m]
    BY <1>7
  <2> QED
    BY <1>6, <2>1, AnsweredIsNoLonger
<1>9. m <= n
  <2>1. h \in [1..m -> 1..n]
    BY <1>7
  <2>2. FindsNames(m, a, h, b)
    BY <1>5 DEF FindsNames
  <2> QED
    BY <2>1, <2>2, AnsweredIsNoLonger
<1>10. n = m
  BY <1>8, <1>9
<1>11. b \in [1..n -> Tools]
  BY <1>10
<1>12. g \in [1..n -> 1..n]
  BY <1>7, <1>10
<1>13. \A i, j \in 1..n : g[i] = g[j] => i = j
  BY <1>6 DEF FindsNames, DistinctNames
<1>14. \A i \in 1..n : KeyOf(b[g[i]]) = KeyOf(a[i])
  BY <1>4
<1> QED
  BY <1>11, <1>12, <1>13, <1>14, PairedAlike

\* Two lists of tools, as a behaviour begins with them and keeps them.
TwoLists == \E n, m \in Nat : former \in [1..n -> Tools] /\ latter \in [1..m -> Tools]

\* Finite lists, the empty one included.
LEMMA ListsAreLists == Init => TwoLists
<1>1. ASSUME NEW V \in SUBSET Tools, NEW list \in BoundedSeq(V, MaxTools)
      PROVE  \E n \in Nat : list \in [1..n -> Tools]
  <2>1. PICK n \in 0..MaxTools : list \in [1..n -> V]
    BY DEF BoundedSeq, SeqOf
  <2> QED
    BY <2>1, JudgementAssumption
<1>2. ASSUME NEW t \in Tools PROVE \E n \in Nat : <<t>> \in [1..n -> Tools]
  <2>1. <<t>> \in [1..1 -> Tools]
    OBVIOUS
  <2> QED
    BY <2>1
<1>3. \E n \in Nat : << >> \in [1..n -> Tools]
  <2>1. << >> \in [1..0 -> Tools]
    OBVIOUS
  <2> QED
    BY <2>1
<1>4. NoHints \in SUBSET Tools
  BY DEF NoHints
<1>5. JudgementInit => TwoLists
  BY <1>1, <1>2, <1>4 DEF JudgementInit, Lists, TwoLists
<1> QED
  BY <1>3, <1>5 DEF Init, TwoLists

\* What the lemmas say of any two lists, of these.
LEMMA ListsAreJudged == ASSUME TwoLists PROVE JudgedByContent
<1>1. PICK n \in Nat, m \in Nat : former \in [1..n -> Tools] /\ latter \in [1..m -> Tools]
  BY DEF TwoLists
<1>2. ToolSetDigest(former) = ToolSetDigest(latter) => SameTools(former, latter)
  BY <1>1, OneDigestOneSet
<1>3. SameTools(former, latter) => ToolSetDigest(former) = ToolSetDigest(latter)
  BY <1>1, OneSetOneDigest
<1>4. DigestIsOfTheSet
  BY <1>2, <1>3 DEF DigestIsOfTheSet
<1>5. ChangeIsNamed
  <2> SUFFICES ASSUME DistinctNames(former), DistinctNames(latter) PROVE EveryChangeIsNamed
    BY DEF ChangeIsNamed
  <2> DEFINE diff == ToolSetDiff(former, latter)
             named == diff.added \cup diff.removed \cup diff.modified
  <2>1. ToolSetDigest(former) # ToolSetDigest(latter) => named # {}
    <3>1. SUFFICES ASSUME named = {} PROVE ToolSetDigest(former) = ToolSetDigest(latter)
      OBVIOUS
    <3>2. NothingNamed(former, latter)
      BY <3>1 DEF NothingNamed
    <3> QED
      BY <1>1, <3>2, ChangesAreNamed
  <2>2. ASSUME NEW i \in DOMAIN former, former[i].name \notin named PROVE Occurrences(latter, former[i]) # {}
    <3>1. i \in 1..n /\ DOMAIN latter = 1..m
      BY <1>1
    <3>2. IsUnnamed(former, latter, former[i])
      BY <2>2 DEF IsUnnamed
    <3>3. PICK j \in 1..m : KeyOf(latter[j]) = KeyOf(former[i])
      BY <1>1, <3>1, <3>2, UnnamedStays
    <3> QED
      BY <3>1, <3>3 DEF Occurrences, KeyOf
  <2> QED
    BY <2>1, <2>2 DEF EveryChangeIsNamed
<1> QED
  BY <1>4, <1>5 DEF JudgedByContent

\* Any two lists of one server are judged by what they hold: one digest exactly when the tools are
\* the same, however listed and however often a name is repeated, and every change of a list
\* without repeated names is summarised.
THEOREM JudgementStands == Spec => []JudgedByContent
<1>1. TwoLists /\ [Next]_vars => TwoLists'
  <2>1. [Next]_vars => UNCHANGED <<former, latter>>
    <3>1. ASSUME Record \/ Answer \/ Served \/ (\E set \in Sets : Ask(set)) PROVE UNCHANGED <<former, latter>>
      BY <3>1 DEF Record, Answer, Served, Ask, judgement
    <3> QED
      BY <3>1 DEF Next, vars, judgement
  <2> QED
    BY <2>1 DEF TwoLists
<1> QED
  BY <1>1, ListsAreLists, ListsAreJudged, PTL DEF Spec

-----------------------------------------------------------------------------
(* Declarations.                                                            *)

LEMMA WithdrawnByRead ==
    ASSUME NEW registry \in {"set", "other", "unasked"}, NEW url \in FileReads \cup {"other"},
           ApplyDeclaration(registry, url), declared' = Nothing
    PROVE  (declared = "url" => url # "error") /\ (declared = "registry" => registry = "other")
BY DEF ApplyDeclaration, Nothing

\* A set is only withdrawn by a read of the source it stands under that did not find it: not by a
\* file that could not be read, nor by a pass that did not ask the registry.
THEOREM ReadsWithdraw == Spec => WithdrawnOnlyWhenRead
<1> DEFINE A == declared' = Nothing =>
                    /\ declared = "url" => file' # "error"
                    /\ declared = "registry" => ~entry'.set
<1>1. ASSUME NEW lists \in BOOLEAN, NEW points \in BOOLEAN, NEW read \in FileReads, Sync(lists, points, read)
      PROVE  A
  <2>1. PICK registry \in {"set", "other"}, url \in FileReads \cup {"other"} :
            /\ registry = (IF lists THEN "set" ELSE "other") /\ url = (IF points THEN read ELSE "other")
            /\ ApplyDeclaration(registry, url)
    BY <1>1 DEF Sync, FileReads
  <2>2. entry'.set = lists /\ (IF points THEN NoteRead(read) ELSE file' = Nothing)
    BY <1>1 DEF Sync
  <2>3. url # "error" => file' # "error"
    BY <2>1, <2>2 DEF NoteRead, Nothing
  <2> QED
    BY <2>1, <2>2, <2>3, WithdrawnByRead
<1>2. ASSUME NEW read \in FileReads, RefreshApplies(read)
      PROVE  A
  <2>1. ApplyDeclaration("unasked", read) /\ NoteRead(read)
    BY <1>2 DEF RefreshApplies
  <2> QED
    BY <2>1, WithdrawnByRead DEF NoteRead
<1>3. ASSUME NEW read \in FileReads, CardRead(read)
      PROVE  A
  BY <1>3 DEF CardRead, Nothing
<1>4. RefreshStarts => A
  BY DEF RefreshStarts, Nothing
<1>5. Declaring => A
  BY <1>1, <1>2, <1>3, <1>4 DEF Declaring
<1>6. [Next]_vars => [A]_declarations
  BY <1>5 DEF Next, vars, Record, Answer, Served, Ask
<1> QED
  BY <1>6, PTL DEF Spec, WithdrawnOnlyWhenRead

-----------------------------------------------------------------------------
(* Cards.  A pass that counted one endpoint on the host reads cards for     *)
(* that one alone, whatever is listed by the time it applies them.          *)

Readings == {Unread} \cup Failures \cup CardsOf
Passes == [of : SUBSET Endpoints, alone : BOOLEAN, reads : [Paths -> Readings]]

CardsInv ==
    /\ cardAt \in [Paths -> Failures \cup CardsOf] /\ onHost \subseteq Endpoints
    /\ cardPass \in Passes
    /\ cardPass.alone => \A e \in cardPass.of : cardPass.of = {e}

LEMMA NoPassIsPass == NoPass \in Passes /\ NoPass.of = {} /\ ~NoPass.alone
BY DEF NoPass, Passes, Readings

LEMMA CardsInvInit == CardsInit => CardsInv
BY NoPassIsPass DEF CardsInit, CardsInv, Failures

LEMMA CardsInvNext == ASSUME CardsInv, [Carding]_cards PROVE CardsInv'
<1>1. CASE StartPass
  <2>1. PICK alone \in BOOLEAN : alone = (Cardinality(onHost) = 1)
    OBVIOUS
  <2>2. cardPass' = [NoPass EXCEPT !.of = dueCards \cap onHost, !.alone = alone] /\ UNCHANGED <<cardAt, onHost>>
    BY <1>1, <2>1 DEF StartPass
  <2>3. dueCards \cap onHost \in SUBSET Endpoints
    BY DEF CardsInv
  <2>4. cardPass' \in Passes /\ cardPass'.of = dueCards \cap onHost /\ cardPass'.alone = alone
    BY <2>2, <2>3, NoPassIsPass DEF Passes
  <2>5. ASSUME alone PROVE \A e \in dueCards \cap onHost : dueCards \cap onHost = {e}
    <3>1. IsFiniteSet(onHost)
      BY CardsAssumption, FS_Subset DEF CardsInv
    <3>2. PICK one : onHost = {one}
      BY <2>1, <2>5, <3>1, FS_Singleton
    <3> QED
      BY <3>2
  <2> QED
    BY <2>2, <2>4, <2>5 DEF CardsInv
<1>2. ASSUME NEW p \in Paths, ReadCard(p) PROVE CardsInv'
  <2>1. cardPass' = [cardPass EXCEPT !.reads[p] = cardAt[p]] /\ UNCHANGED <<cardAt, onHost>> /\ cardAt[p] \in Readings
    BY <1>2 DEF ReadCard, CardsInv, Readings
  <2>2. cardPass' \in Passes /\ cardPass'.of = cardPass.of /\ cardPass'.alone = cardPass.alone
    BY <2>1 DEF CardsInv, Passes
  <2> QED
    BY <2>1, <2>2 DEF CardsInv
<1>3. CASE ApplyCards \/ PassIsLost
  BY <1>3, NoPassIsPass DEF ApplyCards, PassIsLost, CardsInv
<1>4. ASSUME NEW e \in Endpoints, Lapses(e) \/ RegistryLists(e) PROVE CardsInv'
  BY <1>4 DEF Lapses, RegistryLists, CardsInv
<1>5. ASSUME NEW p \in Paths, NEW card \in Failures \cup CardsOf, OperatorEditsCards(p, card) PROVE CardsInv'
  BY <1>5 DEF OperatorEditsCards, CardsInv
<1>6. CASE UNCHANGED cards
  BY <1>6 DEF cards, CardsInv
<1> QED
  BY <1>1, <1>2, <1>3, <1>4, <1>5, <1>6 DEF Carding, Refreshing

\* What judge decides from the two reads, and what is declared of it.
LEMMA Verdict ==
    ASSUME NEW e \in Endpoints, NEW reads, NEW alone, Applied(e, reads, alone) # byCard[e]
    PROVE  /\ Applied(e, reads, alone) # NoSet =>
                 \E p \in {e, Host} : reads[p].tools = Applied(e, reads, alone) /\ About(e, p, reads[p], alone)
           /\ \E p \in {e, Host} : reads[p].read \notin {"error", "robots"}
<1> DEFINE ok == {p \in {e, Host} : reads[p].read = "ok"}
           full == {p \in ok : About(e, p, reads[p], alone) /\ reads[p].tools # NoSet}
           statuses == {reads[p].read : p \in {e, Host}}
           verdict == Judge(e, reads, alone)
<1>0. {NoSet, Undigestible, "gone", "undecided"} \cap Digests = {}
  BY CardsAssumption
<1>1. Applied(e, reads, alone) = CASE verdict \in Digests -> verdict
                                   [] verdict = "undecided" -> byCard[e]
                                   [] OTHER -> NoSet
  BY DEF Applied
<1>2. verdict = CASE full # {} -> IF e \in full THEN reads[e].tools ELSE reads[Host].tools
                  [] full = {} /\ ok # {} -> "gone"
                  [] ok = {} /\ (statuses = {"robots"} \/ "error" \in statuses) -> "undecided"
                  [] OTHER -> "gone"
  BY DEF Judge
<1>3. verdict # "undecided"
  BY <1>0, <1>1
<1>4. Applied(e, reads, alone) # NoSet => verdict \in Digests /\ Applied(e, reads, alone) = verdict
  BY <1>0, <1>1
<1>5. CASE full # {}
  <2>1. PICK p \in full : verdict = reads[p].tools
    BY <1>2, <1>5
  <2> QED
    BY <1>4, <2>1
<1>6. CASE full = {} /\ ok # {}
  BY <1>0, <1>2, <1>4, <1>6
<1>7. CASE full = {} /\ ok = {}
  <2>1. statuses # {"robots"} /\ "error" \notin statuses /\ verdict = "gone"
    BY <1>2, <1>3, <1>7
  <2>2. \E p \in {e, Host} : reads[p].read # "robots"
    BY <2>1
  <2>3. \A p \in {e, Host} : reads[p].read # "error"
    BY <2>1
  <2> QED
    BY <1>0, <1>4, <2>1, <2>2, <2>3
<1> QED
  BY <1>5, <1>6, <1>7

\* What a pass declares for an endpoint it read in a card about that endpoint, however the host and
\* the registry changed meanwhile; and what no card could be read about stands.
THEOREM CardsBelong == CardsSpec => CardsAreTheirs
<1> DEFINE A == \A e \in Endpoints : byCard'[e] # byCard[e] =>
          /\ byCard'[e] # NoSet => \E p \in {e, Host} :
                /\ cardPass.reads[p].tools = byCard'[e]
                /\ IF cardPass.reads[p].names = {} THEN p = e \/ cardPass.of = {e} ELSE e \in cardPass.reads[p].names
          /\ \E p \in {e, Host} : cardPass.reads[p].read \notin {"error", "robots"}
<1>1. CardsInit => CardsInv
  BY CardsInvInit
<1>2. CardsInv /\ [Carding]_cards => CardsInv'
  BY CardsInvNext
<1>3. CardsInv /\ [Carding]_cards => [A]_cards
  <2> SUFFICES ASSUME CardsInv, ApplyCards, NEW e \in Endpoints, byCard'[e] # byCard[e]
               PROVE  /\ byCard'[e] # NoSet => \E p \in {e, Host} :
                            /\ cardPass.reads[p].tools = byCard'[e]
                            /\ IF cardPass.reads[p].names = {} THEN p = e \/ cardPass.of = {e}
                                                              ELSE e \in cardPass.reads[p].names
                      /\ \E p \in {e, Host} : cardPass.reads[p].read \notin {"error", "robots"}
    BY DEF Carding, Refreshing, StartPass, ReadCard, PassIsLost, Lapses, RegistryLists, OperatorEditsCards, cards
  <2>1. e \in cardPass.of /\ byCard'[e] = Applied(e, cardPass.reads, cardPass.alone)
    BY DEF ApplyCards
  <2>2. cardPass.alone => cardPass.of = {e}
    BY <2>1 DEF CardsInv
  <2> QED
    BY <2>1, <2>2, Verdict DEF About
<1> QED
  BY <1>1, <1>2, <1>3, PTL DEF CardsSpec, CardsAreTheirs

-----------------------------------------------------------------------------
(* What a caller may ask.  What is served is what counts for the address:   *)
(* its window's limit is the ceiling, and a caller whose bucket is its own  *)
(* has every hit that is served in that bucket as well.                     *)

Keys == {asks} \X Callers
Hits == Nat \X Callers \X Tickets
Charges == [key : Keys, limit : Nat]

Shared == <<asks, <<Address>>>>

\* The callers with a bucket of their own beside the address's.
Owners == {who \in Callers : (asks = "check" /\ Len(who) = 3) \/ (asks = "scan" /\ Len(who) > 1)}

\* The hits of each bucket that count now.
Counting ==
    [k \in Keys |-> IF k \in DOMAIN hits THEN {h \in hits[k] : now - h[1] <= Window[asks]} ELSE {}]

LimitsType ==
    /\ asks \in Kinds /\ now \in Nat /\ DOMAIN request = Threads
    /\ stored \in [observed : BOOLEAN, cached : BOOLEAN]
    /\ DOMAIN hits \subseteq Keys
    /\ \A k \in DOMAIN hits : hits[k] \subseteq Hits /\ IsFiniteSet(hits[k])

\* What a caller may still have to be charged: the address last and once.
ToCharge ==
    [who \in Callers |->
        {todo \in Seq(Charges) :
            /\ Len(todo) # 0 /\ todo[Len(todo)].key = Shared /\ todo[Len(todo)].limit <= Ceiling
            /\ who = <<Address>> => todo[Len(todo)].limit <= OwnRate
            /\ \A i \in 1..Len(todo) - 1 : todo[i].key # Shared
            /\ \A i \in 1..Len(todo), w \in Owners : todo[i].key = <<asks, w>> => todo[i].limit <= OwnRate}]

\* A request under way: its hit is new to the address, and in its caller's own bucket unless that is
\* to be charged next.
Chargeable ==
    {q \in [at : {"limits"}, todo : Seq(Charges), hit : Hits] :
        /\ q.hit[1] = now /\ q.hit \notin Counting[Shared] /\ q.todo \in ToCharge[q.hit[2]]
        /\ q.hit[2] \in Owners => q.hit \in Counting[<<asks, q.hit[2]>>] \/ q.todo[1].key = <<asks, q.hit[2]>>}

RequestsStand ==
    /\ \A r \in Threads : request[r].at = "limits" => request[r] \in Chargeable
    /\ \A r, s \in Threads :
          request[r].at = "limits" /\ request[s].at = "limits" /\ request[r].hit = request[s].hit => r = s

ServedStand ==
    /\ served = Counting[Shared] /\ Cardinality(served) <= Ceiling
    /\ Cardinality({h \in served : h[2] = <<Address>>}) <= OwnRate
    /\ \A w \in Owners : /\ Cardinality(Counting[<<asks, w>>]) <= OwnRate
                         /\ {h \in served : h[2] = w} \subseteq Counting[<<asks, w>>]

LimitsInv == LimitsType /\ RequestsStand /\ ServedStand /\ (stored.cached => stored.observed)

LEMMA RatesAre ==
    ASSUME asks \in Kinds
    PROVE  Ceiling \in Nat /\ OwnRate \in Nat /\ OwnRate <= Ceiling
<1>1. Rate \in Nat /\ ScanRate \in Nat /\ Wide \in Nat \ {0}
  BY LimitsAssumption
<1>2. \A n \in Nat : n * Wide \in Nat /\ n <= n * Wide
  BY <1>1
<1> QED
  BY <1>1, <1>2 DEF Kinds, Ceiling, OwnRate

LEMMA CallersAre ==
    /\ <<Address>> \in Callers /\ <<Address>> \notin Owners /\ Shared \in Keys
    /\ \A who \in Callers : /\ Len(who) \in 1..3 /\ (Len(who) = 1 => who = <<Address>>)
                            /\ Len(who) = 2 => <<who[1], who[2]>> = who
                            /\ Len(who) = 3 =>
                                  <<who[1], who[2]>> \in Callers /\ (asks = "check" => <<who[1], who[2]>> \notin Owners)
<1>1. <<Address>> \in Callers /\ Len(<<Address>>) = 1
  BY DEF Callers
<1>2. ASSUME NEW who \in Callers
      PROVE  /\ Len(who) \in 1..3 /\ (Len(who) = 1 => who = <<Address>>)
             /\ Len(who) = 2 => <<who[1], who[2]>> = who
             /\ Len(who) = 3 => <<who[1], who[2]>> \in Callers
  <2>1. CASE who = <<Address>>
    BY <2>1
  <2>2. CASE \E h \in Hubs : who = <<Address, h>>
    <3>1. PICK h \in Hubs : who = <<Address, h>>
      BY <2>2
    <3> QED
      BY <3>1
  <2>3. CASE \E h \in Hubs, b \in Buyers : who = <<Address, h, b>>
    <3>1. PICK h \in Hubs, b \in Buyers : who = <<Address, h, b>>
      BY <2>3
    <3>2. Len(who) = 3 /\ <<who[1], who[2]>> = <<Address, h>>
      BY <3>1
    <3>3. <<Address, h>> \in Callers
      BY DEF Callers
    <3> QED
      BY <3>2, <3>3
  <2> QED
    BY <2>1, <2>2, <2>3 DEF Callers
<1>3. Len(<<Address>>) = 1 /\ \A who : Len(<<who[1], who[2]>>) = 2
  OBVIOUS
<1> QED
  BY <1>1, <1>2, <1>3 DEF Owners, Keys, Shared

\* What the sweep drops counts nowhere.
LEMMA WindowIs ==
    ASSUME LimitsType, NEW b, b.key \in Keys
    PROVE  InWindow(b) = Counting[b.key] /\ Kept \subseteq DOMAIN hits
           /\ \A k \in DOMAIN hits \ Kept : Counting[k] = {}
<1>1. Window[asks] \in Nat /\ Longest \in Nat /\ Window[asks] <= Longest
  BY LimitsAssumption DEF LimitsType, Longest, Kinds
<1>2. Kept \subseteq DOMAIN hits
  BY DEF Kept
<1>3. ASSUME NEW k \in DOMAIN hits, k \notin Kept PROVE Counting[k] = {}
  <2>1. \A h \in hits[k] : now - h[1] > Longest
    BY <1>3 DEF Kept
  <2>2. \A h \in hits[k] : h[1] \in Nat
    BY DEF LimitsType, Hits
  <2>3. k \in Keys /\ now \in Nat
    BY DEF LimitsType
  <2> QED
    BY <1>1, <2>1, <2>2, <2>3 DEF Counting
<1>4. b.key[1] = asks
  BY DEF Keys
<1> QED
  BY <1>2, <1>3, <1>4 DEF InWindow, Counting

LEMMA CountsAreFinite ==
    ASSUME LimitsType, NEW k \in Keys
    PROVE  IsFiniteSet(Counting[k]) /\ Cardinality(Counting[k]) \in Nat /\ Counting[k] \subseteq Hits
<1>1. CASE k \in DOMAIN hits
  <2>1. Counting[k] \subseteq hits[k] /\ IsFiniteSet(hits[k]) /\ hits[k] \subseteq Hits
    BY <1>1 DEF Counting, LimitsType
  <2> QED
    BY <2>1, FS_Subset, FS_CardinalityType
<1>2. CASE k \notin DOMAIN hits
  BY <1>2, FS_EmptySet, FS_CardinalityType DEF Counting
<1> QED
  BY <1>1, <1>2

\* A charge adds the hit to its bucket if there is room, and changes no other window.
LEMMA AllowIs ==
    ASSUME LimitsType, NEW b, b.key \in Keys, NEW hit \in Hits, hit[1] = now, Allow(b, hit),
           UNCHANGED <<now, asks>>
    PROVE  /\ DOMAIN hits' \subseteq Keys
           /\ \A k \in DOMAIN hits' : hits'[k] \subseteq Hits /\ IsFiniteSet(hits'[k])
           /\ \A k \in Keys : k # b.key \/ ~Room(b) => Counting'[k] = Counting[k]
           /\ Room(b) => Counting'[b.key] = Counting[b.key] \cup {hit}
<1>1. /\ DOMAIN hits' = Kept \cup {b.key}
      /\ \A k \in DOMAIN hits' : hits'[k] = IF k # b.key THEN hits[k]
                                           ELSE IF Room(b) THEN InWindow(b) \cup {hit} ELSE InWindow(b)
  BY DEF Allow
<1>2. InWindow(b) = Counting[b.key] /\ Keys' = Keys /\ Kept \subseteq DOMAIN hits /\ DOMAIN hits \subseteq Keys
  BY WindowIs DEF Keys, LimitsType
<1>3. InWindow(b) \subseteq Hits /\ IsFiniteSet(InWindow(b)) /\ IsFiniteSet(InWindow(b) \cup {hit})
  <2>1. InWindow(b) \subseteq Hits /\ IsFiniteSet(InWindow(b))
    BY <1>2, CountsAreFinite
  <2> QED
    BY <2>1, FS_AddElement
<1>4. ASSUME NEW k \in DOMAIN hits' PROVE k \in Keys /\ hits'[k] \subseteq Hits /\ IsFiniteSet(hits'[k])
  <2>1. CASE k = b.key
    BY <1>1, <1>3, <2>1
  <2>2. CASE k # b.key
    BY <1>1, <1>2, <2>2 DEF LimitsType
  <2> QED
    BY <2>1, <2>2
<1>5. Window[asks] \in Nat /\ now \in Nat /\ now - hit[1] <= Window[asks]
  BY LimitsAssumption DEF LimitsType, Kinds
<1>6. \A h \in InWindow(b) : now - h[1] <= Window[asks]
  BY <1>2 DEF Counting
<1>7. Counting'[b.key] = IF Room(b) THEN InWindow(b) \cup {hit} ELSE InWindow(b)
  BY <1>1, <1>2, <1>5, <1>6 DEF Counting
<1>8. ASSUME NEW k \in Keys, k # b.key PROVE Counting'[k] = Counting[k]
  <2>1. k \in DOMAIN hits' <=> k \in Kept
    BY <1>1, <1>8
  <2>2. CASE k \in Kept
    <3>1. hits'[k] = hits[k] /\ k \in DOMAIN hits
      BY <1>1, <1>2, <1>8, <2>2
    <3> QED
      BY <1>2, <2>1, <2>2, <3>1 DEF Counting
  <2>3. CASE k \notin Kept
    <3>1. Counting'[k] = {}
      BY <1>2, <2>1, <2>3 DEF Counting
    <3>2. Counting[k] = {}
      <4>1. CASE k \in DOMAIN hits
        BY <2>3, <4>1, WindowIs
      <4>2. CASE k \notin DOMAIN hits
        BY <4>2 DEF Counting
      <4> QED
        BY <4>1, <4>2
    <3> QED
      BY <3>1, <3>2
  <2> QED
    BY <2>2, <2>3
<1> QED
  BY <1>2, <1>4, <1>7, <1>8

\* Kinds share no bucket.
LEMMA KindStays ==
    ASSUME asks' = asks
    PROVE  /\ Keys' = Keys /\ Shared' = Shared /\ Owners' = Owners /\ Charges' = Charges
           /\ Ceiling' = Ceiling /\ OwnRate' = OwnRate /\ ToCharge' = ToCharge
<1>1. /\ Keys' = Keys /\ Shared' = Shared /\ Owners' = Owners /\ Ceiling' = Ceiling /\ OwnRate' = OwnRate
  BY DEF Keys, Shared, Owners, Ceiling, OwnRate
<1>2. Charges' = Charges
  BY <1>1 DEF Charges
<1>3. ToCharge' = ToCharge
  BY <1>1, <1>2 DEF ToCharge
<1> QED
  BY <1>1, <1>2, <1>3

\* A request under way stays one while its bucket keeps its hit and the address does not get it.
LEMMA ChargeableStays ==
    ASSUME UNCHANGED <<now, asks>>, NEW q \in Chargeable, q.hit \notin Counting'[Shared],
           \A k \in Keys : Counting[k] \subseteq Counting'[k]
    PROVE  q \in Chargeable'
<1>1. /\ q \in [at : {"limits"}, todo : Seq(Charges), hit : Hits]
      /\ q.hit[1] = now /\ q.hit \notin Counting'[Shared] /\ q.todo \in ToCharge[q.hit[2]]
      /\ q.hit[2] \in Owners => q.hit \in Counting'[<<asks, q.hit[2]>>] \/ q.todo[1].key = <<asks, q.hit[2]>>
  <2>1. \A w \in Owners : <<asks, w>> \in Keys
    BY DEF Owners, Keys
  <2> QED
    BY <2>1 DEF Chargeable
<1> QED
  BY <1>1, KindStays DEF Chargeable

\* What a caller is charged: its own bucket, if it has one, first.
LEMMA BucketsAre ==
    ASSUME asks \in Kinds, NEW who \in Callers
    PROVE  /\ Buckets(who) \in ToCharge[who] /\ Buckets(who) \in Seq(Charges)
           /\ who \in Owners => Buckets(who)[1].key = <<asks, who>>
<1>1. /\ Rate \in Nat /\ ScanRate \in Nat /\ Wide \in Nat \ {0} /\ Rate * Wide \in Nat /\ ScanRate * Wide \in Nat
      /\ Rate <= Rate * Wide /\ ScanRate <= ScanRate * Wide
  <2>1. Rate \in Nat /\ ScanRate \in Nat /\ Wide \in Nat \ {0}
    BY LimitsAssumption
  <2>2. \A n \in Nat : n * Wide \in Nat /\ n <= n * Wide
    BY <2>1
  <2> QED
    BY <2>1, <2>2
<1>2. \A name \in Callers, limit \in Nat : [key |-> <<asks, name>>, limit |-> limit] \in Charges
  BY DEF Charges, Keys
<1> DEFINE of(name, limit) == [key |-> <<asks, name>>, limit |-> limit]
<1>3. ASSUME NEW todo \in Seq(Charges), NEW n \in Nat \ {0}, Len(todo) = n,
             todo[n].key = Shared, todo[n].limit <= Ceiling, who = <<Address>> => todo[n].limit <= OwnRate,
             \A i \in 1..n - 1 : /\ todo[i].key # Shared
                                /\ \A w \in Owners : todo[i].key = <<asks, w>> => todo[i].limit <= OwnRate
      PROVE  todo \in ToCharge[who]
  <2>1. \A w \in Owners : todo[n].key # <<asks, w>>
    BY <1>3, CallersAre DEF Shared
  <2>2. ASSUME NEW i \in 1..n, NEW w \in Owners, todo[i].key = <<asks, w>> PROVE todo[i].limit <= OwnRate
    <3>1. CASE i = n
      BY <2>1, <2>2, <3>1
    <3>2. CASE i # n
      <4>1. i \in 1..n - 1
        BY <3>2
      <4> QED
        BY <1>3, <2>2, <4>1
    <3> QED
      BY <3>1, <3>2
  <2> QED
    BY <1>3, <2>2 DEF ToCharge
<1>4. \A name : Len(name) # 1 => name # <<Address>>
  OBVIOUS
\* The address alone; after a bucket that is the caller's own, or a hub's; after both.
<1>5. ASSUME NEW last \in Nat, last <= Ceiling, who = <<Address>> => last <= OwnRate,
             Buckets(who) = <<of(<<Address>>, last)>>, who \notin Owners
      PROVE  Buckets(who) \in ToCharge[who] /\ Buckets(who) \in Seq(Charges)
  <2>1. PICK todo : todo = <<of(<<Address>>, last)>>
    OBVIOUS
  <2>2. todo \in Seq(Charges) /\ Len(todo) = 1 /\ todo[1].key = Shared /\ todo[1].limit = last
    BY <1>2, <2>1, CallersAre DEF Shared
  <2>4. todo \in ToCharge[who]
    <3>1. PICK n \in Nat \ {0} : n = 1
      OBVIOUS
    <3>2. \A i \in 1..n - 1 : /\ todo[i].key # Shared
                                /\ \A w \in Owners : todo[i].key = <<asks, w>> => todo[i].limit <= OwnRate
      BY <3>1
    <3> QED
      BY <1>3, <1>5, <2>2, <3>1, <3>2
  <2> QED
    BY <1>5, <2>1, <2>2, <2>4
<1>6. ASSUME NEW name \in Callers, NEW first \in Nat, NEW last \in Nat, last <= Ceiling, who # <<Address>>,
             name # <<Address>>, name \in Owners => first <= OwnRate,
             Buckets(who) = <<of(name, first), of(<<Address>>, last)>>
      PROVE  Buckets(who) \in ToCharge[who] /\ Buckets(who) \in Seq(Charges) /\ Buckets(who)[1].key = <<asks, name>>
  <2>1. PICK todo : todo = <<of(name, first), of(<<Address>>, last)>>
    OBVIOUS
  <2>2. /\ todo \in Seq(Charges) /\ Len(todo) = 2 /\ todo[2].key = Shared /\ todo[2].limit = last
        /\ todo[1].key = <<asks, name>> /\ todo[1].limit = first
    BY <1>2, <2>1, CallersAre DEF Shared
  <2>4. todo[1].key # Shared /\ \A w \in Owners : todo[1].key = <<asks, w>> => w = name
    BY <1>6, <2>2 DEF Shared
  <2>5. todo \in ToCharge[who]
    <3>1. PICK n \in Nat \ {0} : n = 2
      OBVIOUS
    <3>2. \A i \in 1..n - 1 : i = 1
      BY <3>1
    <3>3. \A i \in 1..n - 1 : /\ todo[i].key # Shared
                                /\ \A w \in Owners : todo[i].key = <<asks, w>> => todo[i].limit <= OwnRate
      BY <1>6, <2>2, <2>4, <3>2
    <3> QED
      BY <1>3, <1>6, <2>2, <3>1, <3>3
  <2> QED
    BY <1>6, <2>1, <2>2, <2>5
<1>7. ASSUME NEW name \in Callers, NEW hub \in Callers \ Owners, NEW first \in Nat, NEW second \in Nat, NEW last \in Nat,
             last <= Ceiling, who # <<Address>>, name # <<Address>>, hub # <<Address>>, first <= OwnRate,
             Buckets(who) = <<of(name, first), of(hub, second), of(<<Address>>, last)>>
      PROVE  Buckets(who) \in ToCharge[who] /\ Buckets(who) \in Seq(Charges) /\ Buckets(who)[1].key = <<asks, name>>
  <2>1. PICK todo : todo = <<of(name, first), of(hub, second), of(<<Address>>, last)>>
    OBVIOUS
  <2>2. /\ todo \in Seq(Charges) /\ Len(todo) = 3 /\ todo[3].key = Shared /\ todo[3].limit = last
        /\ todo[1].key = <<asks, name>> /\ todo[1].limit = first /\ todo[2].key = <<asks, hub>>
    BY <1>2, <2>1, CallersAre DEF Shared
  <2>4. todo[1].key # Shared /\ todo[2].key # Shared /\ \A w \in Owners : todo[2].key # <<asks, w>>
    BY <1>7, <2>2 DEF Shared
  <2>5. todo \in ToCharge[who]
    <3>1. PICK n \in Nat \ {0} : n = 3
      OBVIOUS
    <3>2. \A i \in 1..n - 1 : i = 1 \/ i = 2
      BY <3>1
    <3>3. \A i \in 1..n - 1 : /\ todo[i].key # Shared
                                /\ \A w \in Owners : todo[i].key = <<asks, w>> => todo[i].limit <= OwnRate
      BY <1>7, <2>2, <2>4, <3>2
    <3> QED
      BY <1>3, <1>7, <2>2, <3>1, <3>3
  <2> QED
    BY <1>7, <2>1, <2>2, <2>5
<1>8. CASE asks = "report"
  <2>1. Buckets(who) = <<of(<<Address>>, 1)>> /\ Ceiling = 1 /\ OwnRate = 1 /\ who \notin Owners
    BY <1>8 DEF Buckets, Ceiling, OwnRate, Owners
  <2> QED
    BY <1>5, <2>1
<1>9. CASE asks = "scan" /\ Len(who) = 1
  <2>1. Buckets(who) = <<of(<<Address>>, ScanRate)>> /\ Ceiling = ScanRate * Wide /\ OwnRate = ScanRate /\ who \notin Owners
    BY <1>9 DEF Buckets, Ceiling, OwnRate, Owners
  <2> QED
    BY <1>1, <1>5, <2>1
<1>10. CASE asks = "scan" /\ Len(who) > 1
  <2>1. /\ Buckets(who) = <<of(who, ScanRate), of(<<Address>>, ScanRate * Wide)>>
        /\ Ceiling = ScanRate * Wide /\ OwnRate = ScanRate
    BY <1>10 DEF Buckets, Ceiling, OwnRate
  <2>2. who # <<Address>>
    BY <1>4, <1>10, CallersAre
  <2> QED
    BY <1>1, <1>6, <2>1, <2>2
<1>11. CASE asks = "check" /\ Len(who) = 1
  <2>1. Buckets(who) = <<of(<<Address>>, Rate)>> /\ Ceiling = Rate * Wide /\ OwnRate = Rate /\ who \notin Owners
    BY <1>11 DEF Buckets, Ceiling, OwnRate, Owners
  <2> QED
    BY <1>1, <1>5, <2>1
<1>12. CASE asks = "check" /\ Len(who) = 2
  <2>1. /\ Buckets(who) = <<of(who, Rate * Wide), of(<<Address>>, Rate * Wide)>>
        /\ Ceiling = Rate * Wide /\ who \notin Owners
    BY <1>12, CallersAre DEF Buckets, Ceiling, Owners
  <2>2. who # <<Address>>
    BY <1>4, <1>12
  <2> QED
    BY <1>1, <1>6, <2>1, <2>2
<1>13. CASE asks = "check" /\ Len(who) = 3
  <2>1. PICK hub \in Callers : hub = <<who[1], who[2]>> /\ hub \notin Owners /\ hub # <<Address>>
    BY <1>13, CallersAre
  <2>2. /\ Buckets(who) = <<of(who, Rate), of(hub, Rate * Wide), of(<<Address>>, Rate * Wide)>>
        /\ Ceiling = Rate * Wide /\ OwnRate = Rate
    BY <1>13, <2>1 DEF Buckets, Ceiling, OwnRate
  <2>3. who # <<Address>>
    BY <1>4, <1>13
  <2> QED
    BY <1>1, <1>7, <2>1, <2>2, <2>3
<1> QED
  <2>1. Len(who) = 1 \/ Len(who) = 2 \/ Len(who) = 3
    <3>1. PICK n : n = Len(who)
      OBVIOUS
    <3>2. n \in 1..3
      BY <3>1, CallersAre, Zenon
    <3> QED
      BY <3>1, <3>2
  <2>2. Len(who) = 1 \/ Len(who) > 1
    BY <2>1
  <2>3. asks = "report" \/ asks = "scan" \/ asks = "check"
    BY DEF Kinds
  <2>4. CASE asks = "scan"
    BY <1>9, <1>10, <2>2, <2>4
  <2>5. CASE asks = "check"
    BY <1>11, <1>12, <1>13, <2>1, <2>5
  <2> QED
    BY <1>8, <2>3, <2>4, <2>5

LEMMA LimitsInvInit == LimitsInit => LimitsInv
<1> SUFFICES ASSUME LimitsInit PROVE LimitsInv
  OBVIOUS
<1>1. \A k \in Keys : Counting[k] = {}
  BY DEF LimitsInit, Counting
<1>2. Ceiling \in Nat /\ OwnRate \in Nat
  BY RatesAre DEF LimitsInit
<1>3. IsFiniteSet({}) /\ Cardinality({}) = 0
  BY FS_EmptySet
<1>4. Shared \in Keys /\ \A w \in Owners : <<asks, w>> \in Keys
  BY CallersAre DEF Owners, Keys
<1>5. ServedStand
  <2>1. served = {} /\ {h \in served : h[2] = <<Address>>} = {} /\ \A w : {h \in served : h[2] = w} = {}
    BY DEF LimitsInit
  <2> QED
    BY <1>1, <1>2, <1>3, <1>4, <2>1 DEF ServedStand
<1>6. LimitsType
  BY DEF LimitsInit, LimitsType
<1> QED
  BY <1>5, <1>6 DEF LimitsInit, LimitsInv, RequestsStand, NoCall

\* The windows and what is served stay, and so do the requests that are charged.
LEMMA NothingIsCharged ==
    ASSUME LimitsInv, UNCHANGED <<hits, now, asks, served>>, DOMAIN request' = Threads,
           \A r \in Threads : request'[r].at = "limits" => request'[r] = request[r],
           stored' \in [observed : BOOLEAN, cached : BOOLEAN], stored'.cached => stored'.observed
    PROVE  LimitsInv'
<1>1. Counting' = Counting
  BY KindStays DEF Counting
<1>2. LimitsType'
  BY KindStays DEF LimitsInv, LimitsType
<1>3. ServedStand'
  BY <1>1, KindStays DEF LimitsInv, ServedStand
<1>4. Chargeable' = Chargeable
  BY <1>1, KindStays DEF Chargeable
<1>5. RequestsStand'
  BY <1>4 DEF LimitsInv, RequestsStand
<1> QED
  BY <1>2, <1>3, <1>5 DEF LimitsInv

LEMMA LimitsInvArrive ==
    ASSUME LimitsInv, NEW r \in Threads, NEW who \in Callers, Arrive(r, who)
    PROVE  LimitsInv'
<1>1. PICK n : n = CHOOSE m \in Free(who) : TRUE
  OBVIOUS
<1>2. PICK q : q = [at |-> "limits", todo |-> Buckets(who), hit |-> <<now, who, n>>]
  OBVIOUS
<1>3. /\ request' = [request EXCEPT ![r] = q] /\ request[r].at = "idle" /\ n \in Free(who)
      /\ UNCHANGED <<hits, now, asks, served, stored>>
  BY <1>1, <1>2 DEF Arrive
<1>4. /\ n \in Tickets /\ q.hit = <<now, who, n>>
      /\ \A k \in DOMAIN hits : q.hit \notin hits[k]
      /\ \A s \in Threads : request[s].hit # q.hit
  BY <1>2, <1>3 DEF Free
<1>5. Counting' = Counting /\ (\A k \in Keys : q.hit \notin Counting[k]) /\ Shared \in Keys
  BY <1>3, <1>4, KindStays, CallersAre DEF Counting
<1>6. asks \in Kinds /\ now \in Nat /\ q.hit \in Hits /\ q.hit[1] = now /\ q.hit[2] = who
  BY <1>3, <1>4 DEF LimitsInv, LimitsType, Hits
<1>7. q \in [at : {"limits"}, todo : Seq(Charges), hit : Hits] /\ q.todo = Buckets(who)
  BY <1>2, <1>6, BucketsAre
<1>8. q \in Chargeable
  BY <1>5, <1>6, <1>7, BucketsAre DEF Chargeable
<1>9. Chargeable' = Chargeable
  BY <1>3, <1>5, KindStays DEF Chargeable
<1>10. DOMAIN request' = Threads /\ \A s \in Threads : request'[s] = IF s = r THEN q ELSE request[s]
  BY <1>3 DEF LimitsInv, LimitsType
<1>11. RequestsStand'
  BY <1>4, <1>8, <1>9, <1>10 DEF LimitsInv, RequestsStand
<1>12. LimitsType'
  BY <1>3, <1>10, KindStays DEF LimitsInv, LimitsType
<1>13. ServedStand'
  BY <1>3, <1>5, KindStays DEF LimitsInv, ServedStand
<1> QED
  BY <1>3, <1>11, <1>12, <1>13 DEF LimitsInv

\* The buckets after the first.
LEMMA TailToCharge ==
    ASSUME NEW who \in Callers, NEW todo \in ToCharge[who], Len(todo) # 1
    PROVE  Tail(todo) \in ToCharge[who] /\ Head(todo).key # Shared
<1>1. PICK n \in Nat \ {0} : /\ Len(todo) = n /\ todo[n].key = Shared /\ todo[n].limit <= Ceiling
                             /\ (who = <<Address>> => todo[n].limit <= OwnRate)
                             /\ \A i \in 1..n - 1 : todo[i].key # Shared
                             /\ \A i \in 1..n, w \in Owners : todo[i].key = <<asks, w>> => todo[i].limit <= OwnRate
  <2>1. Len(todo) \in Nat \ {0}
    BY DEF ToCharge
  <2> QED
    BY <2>1 DEF ToCharge
<1>2. todo \in Seq(Charges)
  BY DEF ToCharge
<1>3. PICK m \in Nat \ {0} : n = m + 1
  <2>1. n - 1 \in Nat \ {0} /\ n = (n - 1) + 1
    BY <1>1
  <2> QED
    BY <2>1
<1>4. PICK rest \in Seq(Charges) : rest = Tail(todo) /\ Len(rest) = m /\ \A i \in 1..m : rest[i] = todo[i + 1]
  <2>1. /\ Tail(todo) \in Seq(Charges) /\ Len(Tail(todo)) = m
        /\ \A i \in 1..m : Tail(todo)[i] = todo[i + 1]
    BY <1>1, <1>2, <1>3
  <2> QED
    BY <2>1, Zenon
<1>5. /\ rest[m] = todo[n]
      /\ \A i \in 1..m : i + 1 \in 1..n
      /\ \A i \in 1..m - 1 : i \in 1..m /\ i + 1 \in 1..n - 1
  BY <1>1, <1>3, <1>4
<1>6. \A i \in 1..m - 1 : rest[i].key # Shared
  BY <1>1, <1>4, <1>5
<1>7. \A i \in 1..m, w \in Owners : rest[i].key = <<asks, w>> => rest[i].limit <= OwnRate
  BY <1>1, <1>4, <1>5
<1>8. Head(todo) = todo[1] /\ 1 \in 1..n - 1
  BY <1>1, <1>2, <1>3
<1>9. rest \in ToCharge[who]
  BY <1>1, <1>4, <1>5, <1>6, <1>7 DEF ToCharge
<1> QED
  BY <1>1, <1>4, <1>8, <1>9

LEMMA RoomGrows ==
    ASSUME LimitsType, NEW b \in Charges, Room(b), NEW x
    PROVE  IsFiniteSet(Counting[b.key] \cup {x}) /\ Cardinality(Counting[b.key] \cup {x}) \in Nat
           /\ Cardinality(Counting[b.key] \cup {x}) <= b.limit
<1>1. b.key \in Keys /\ b.limit \in Nat
  BY DEF Charges
<1>2. PICK S : S = Counting[b.key] /\ IsFiniteSet(S) /\ Cardinality(S) \in Nat /\ Cardinality(S) < b.limit
  BY <1>1, CountsAreFinite, WindowIs DEF Room
<1>3. /\ IsFiniteSet(S \cup {x})
      /\ Cardinality(S \cup {x}) = IF x \in S THEN Cardinality(S) ELSE Cardinality(S) + 1
  BY <1>2, FS_AddElement
<1> QED
  BY <1>1, <1>2, <1>3

\* One bucket is charged.
LEMMA LimitsInvCharge == ASSUME LimitsInv, NEW r \in Threads, Charge(r) PROVE LimitsInv'
<1>1. PICK q, b : q = request[r] /\ b = Head(q.todo)
  OBVIOUS
<1>2. PICK who, todo, hit : who = q.hit[2] /\ todo = q.todo /\ hit = q.hit
  OBVIOUS
<1>3. /\ q.at = "limits" /\ Allow(b, hit) /\ UNCHANGED <<now, asks, slot, stored>>
      /\ served' = IF Room(b) /\ Len(todo) = 1 THEN served \cup {hit} ELSE served
      /\ IF ~Room(b) \/ (Room(b) /\ Len(todo) = 1 /\ asks # "scan") THEN request' = [request EXCEPT ![r] = NoCall]
         ELSE request' = [request EXCEPT ![r].at = IF Room(b) /\ Len(todo) = 1 THEN "slot" ELSE @, ![r].todo = Tail(@),
                                         ![r].hit = IF Room(b) /\ Len(todo) = 1 THEN << >> ELSE @]
  BY <1>1, <1>2 DEF Charge, Answered
<1>4. q \in Chargeable /\ asks \in Kinds /\ LimitsType /\ DOMAIN request = Threads
  BY <1>1, <1>3 DEF LimitsInv, RequestsStand, LimitsType
<1>5. /\ q = [at |-> "limits", todo |-> todo, hit |-> hit] /\ todo \in Seq(Charges) /\ hit \in Hits /\ hit[1] = now
      /\ hit \notin Counting[Shared] /\ todo \in ToCharge[who] /\ who \in Callers
      /\ who \in Owners => hit \in Counting[<<asks, who>>] \/ todo[1].key = <<asks, who>>
  BY <1>2, <1>4 DEF Chargeable, Hits
<1>6. Len(todo) # 0 /\ b = Head(todo) /\ b = todo[1] /\ b \in Charges /\ b.key \in Keys
  <2>1. Len(todo) # 0 /\ Len(todo) \in Nat /\ b = Head(todo)
    BY <1>1, <1>2, <1>5 DEF ToCharge
  <2>2. Head(todo) = todo[1] /\ todo[1] \in Charges
    BY <1>5, <2>1
  <2> QED
    BY <2>1, <2>2 DEF Charges
<1>7. /\ DOMAIN hits' \subseteq Keys
      /\ \A k \in DOMAIN hits' : hits'[k] \subseteq Hits /\ IsFiniteSet(hits'[k])
      /\ \A k \in Keys : k # b.key \/ ~Room(b) => Counting'[k] = Counting[k]
      /\ Room(b) => Counting'[b.key] = Counting[b.key] \cup {hit}
  BY <1>3, <1>4, <1>5, <1>6, AllowIs
<1>8. PICK p : p = [at |-> "limits", todo |-> Tail(todo), hit |-> hit]
  OBVIOUS
<1>9. /\ DOMAIN request' = Threads
      /\ \A s \in Threads \ {r} : request'[s] = request[s]
      /\ Room(b) /\ Len(todo) # 1 => request'[r] = p
      /\ ~(Room(b) /\ Len(todo) # 1) => request'[r].at # "limits"
  <2>1. DOMAIN request' = Threads /\ \A s \in Threads \ {r} : request'[s] = request[s]
    BY <1>3, <1>4
  <2>2. CASE Room(b) /\ Len(todo) # 1
    <3>1. request' = [request EXCEPT ![r].at = @, ![r].todo = Tail(@), ![r].hit = @]
      BY <1>3, <2>2
    <3>2. request'[r] = [q EXCEPT !.at = @, !.todo = Tail(@), !.hit = @]
      BY <1>1, <1>4, <3>1
    <3> QED
      BY <1>5, <1>8, <2>1, <2>2, <3>2
  <2>3. CASE ~(Room(b) /\ Len(todo) # 1)
    <3>1. CASE request' = [request EXCEPT ![r] = NoCall]
      BY <1>4, <2>1, <2>3, <3>1 DEF NoCall
    <3>2. CASE request' # [request EXCEPT ![r] = NoCall]
      <4>1. request' = [request EXCEPT ![r].at = "slot", ![r].todo = Tail(@), ![r].hit = << >>]
        BY <1>3, <2>3, <3>2
      <4>2. request'[r] = [q EXCEPT !.at = "slot", !.todo = Tail(@), !.hit = << >>]
        BY <1>1, <1>4, <4>1
      <4>3. request'[r].at = "slot"
        BY <1>5, <4>2
      <4> QED
        BY <2>1, <2>3, <4>3
    <3> QED
      BY <3>1, <3>2
  <2> QED
    BY <2>2, <2>3
<1>10. \A k \in Keys : Counting[k] \subseteq Counting'[k]
  BY <1>7
<1>11. Shared \in Keys /\ (\A w \in Owners : <<asks, w>> \in Keys) /\ \A w \in Owners : <<asks, w>> # Shared
  BY CallersAre DEF Owners, Keys, Shared
<1>12. LimitsType'
  BY <1>3, <1>4, <1>7, <1>9, KindStays DEF LimitsType
<1>13. RequestsStand'
  <2>1. ASSUME NEW s \in Threads \ {r}, request[s].at = "limits" PROVE request[s] \in Chargeable'
    <3>1. PICK o : o = request[s]
      OBVIOUS
    <3>2. o \in Chargeable /\ o.hit # hit
      BY <1>1, <1>2, <1>3, <2>1, <3>1 DEF LimitsInv, RequestsStand
    <3>3. o.hit \notin Counting'[Shared]
      <4>1. o.hit \notin Counting[Shared]
        BY <3>2 DEF Chargeable
      <4> QED
        BY <1>7, <1>11, <3>2, <4>1
    <3>4. o \in Chargeable'
      BY <1>3, <1>10, <3>2, <3>3, ChargeableStays
    <3> QED
      BY <3>1, <3>4
  <2>2. ASSUME Room(b), Len(todo) # 1 PROVE p \in Chargeable'
    <3>1. Tail(todo) \in ToCharge[who] /\ b.key # Shared /\ Tail(todo) \in Seq(Charges)
      <4>1. Tail(todo) \in ToCharge[who] /\ Head(todo).key # Shared
        BY <1>5, <2>2, TailToCharge
      <4> QED
        BY <1>5, <1>6, <4>1 DEF ToCharge
    <3>2. hit \notin Counting'[Shared]
      BY <1>5, <1>7, <1>11, <3>1
    <3>3. who \in Owners => hit \in Counting'[<<asks, who>>]
      BY <1>5, <1>6, <1>7, <1>10, <1>11, <2>2
    <3>4. p \in [at : {"limits"}, todo : Seq(Charges), hit : Hits] /\ p.hit = hit /\ p.todo = Tail(todo)
      BY <1>5, <1>8, <3>1
    <3>5. /\ p \in [at : {"limits"}, todo : Seq(Charges)', hit : Hits] /\ p.hit[1] = now' /\ p.hit \notin Counting'[Shared']
          /\ p.todo \in ToCharge'[p.hit[2]]
          /\ p.hit[2] \in Owners' => p.hit \in Counting'[<<asks', p.hit[2]>>]
      BY <1>2, <1>3, <1>5, <3>1, <3>2, <3>3, <3>4, KindStays
    <3> QED
      BY <3>5 DEF Chargeable
  <2>3. ASSUME NEW s \in Threads, request'[s].at = "limits"
        PROVE  request'[s] \in Chargeable' /\ request[s].at = "limits" /\ request'[s].hit = request[s].hit
    <3>1. CASE s = r
      <4>1. Room(b) /\ Len(todo) # 1 /\ request'[s] = p
        BY <1>9, <2>3, <3>1
      <4>2. p.hit = hit /\ request[s].hit = hit /\ request[s].at = "limits"
        BY <1>1, <1>2, <1>3, <1>8, <3>1
      <4> QED
        BY <2>2, <4>1, <4>2
    <3>2. CASE s # r
      BY <1>9, <2>1, <2>3, <3>2
    <3> QED
      BY <3>1, <3>2
  <2> QED
    BY <2>3 DEF LimitsInv, RequestsStand
<1>14. ServedStand'
  <2>1. served = Counting[Shared] /\ IsFiniteSet(served) /\ Ceiling \in Nat /\ OwnRate \in Nat
    BY <1>4, <1>11, CountsAreFinite, RatesAre DEF LimitsInv, ServedStand
  <2>2. \A w \in Owners : Cardinality(Counting'[<<asks, w>>]) <= OwnRate
    <3> SUFFICES ASSUME NEW w \in Owners PROVE Cardinality(Counting'[<<asks, w>>]) <= OwnRate
      OBVIOUS
    <3>1. CASE Room(b) /\ b.key = <<asks, w>>
      <4>1. b.limit <= OwnRate
        <5>1. Len(todo) \in Nat /\ 1 \in 1..Len(todo)
          BY <1>5, <1>6
        <5> QED
          BY <1>5, <1>6, <3>1, <5>1 DEF ToCharge
      <4>2. Cardinality(Counting[b.key] \cup {hit}) \in Nat /\ Cardinality(Counting[b.key] \cup {hit}) <= b.limit
        BY <1>4, <1>6, <3>1, RoomGrows
      <4>3. b.limit \in Nat
        BY <1>6 DEF Charges
      <4> QED
        <5>1. Counting'[<<asks, w>>] = Counting[b.key] \cup {hit}
          BY <1>7, <3>1
        <5>2. PICK c \in Nat : c = Cardinality(Counting'[<<asks, w>>]) /\ c <= b.limit
          BY <4>2, <5>1
        <5> QED
          BY <2>1, <4>1, <4>3, <5>2
    <3>2. CASE ~(Room(b) /\ b.key = <<asks, w>>)
      BY <1>7, <1>11, <3>2 DEF LimitsInv, ServedStand
    <3> QED
      BY <3>1, <3>2
  <2>3. CASE Room(b) /\ Len(todo) = 1
    <3>1. b.key = Shared /\ b.limit <= Ceiling /\ (who = <<Address>> => b.limit <= OwnRate) /\ b.limit \in Nat
      BY <1>5, <1>6, <2>3 DEF ToCharge, Charges
    <3>2. served' = served \cup {hit} /\ served' = Counting'[Shared]
      BY <1>3, <1>7, <2>1, <2>3, <3>1
    <3>3. IsFiniteSet(served') /\ Cardinality(served') \in Nat /\ Cardinality(served') <= b.limit
      BY <1>4, <1>6, <2>1, <2>3, <3>1, <3>2, RoomGrows
    <3>4. Cardinality({h \in served' : h[2] = <<Address>>}) <= OwnRate
      <4>1. CASE who = <<Address>>
        <5>1. {h \in served' : h[2] = <<Address>>} \subseteq served'
          OBVIOUS
        <5>2. Cardinality({h \in served' : h[2] = <<Address>>}) <= Cardinality(served') /\ Cardinality({h \in served' : h[2] = <<Address>>}) \in Nat
          BY <3>3, <5>1, FS_Subset, FS_CardinalityType
        <5> QED
          BY <2>1, <3>1, <3>3, <4>1, <5>2
      <4>2. CASE who # <<Address>>
        <5>1. {h \in served' : h[2] = <<Address>>} = {h \in served : h[2] = <<Address>>}
          BY <1>2, <3>2, <4>2
        <5> QED
          BY <5>1 DEF LimitsInv, ServedStand
      <4> QED
        BY <4>1, <4>2
    <3>5. ASSUME NEW w \in Owners PROVE {h \in served' : h[2] = w} \subseteq Counting'[<<asks, w>>]
      <4>1. {h \in served : h[2] = w} \subseteq Counting'[<<asks, w>>]
        BY <1>10, <1>11, <3>5 DEF LimitsInv, ServedStand
      <4>2. who = w => hit \in Counting'[<<asks, w>>]
        BY <1>5, <1>6, <1>10, <1>11, <3>1, <3>5
      <4> QED
        BY <1>2, <3>2, <4>1, <4>2
    <3>6. Cardinality(served') <= Ceiling
      BY <2>1, <3>1, <3>3
    <3> QED
      BY <1>3, <2>2, <3>2, <3>4, <3>5, <3>6, KindStays DEF ServedStand
  <2>4. CASE ~(Room(b) /\ Len(todo) = 1)
    <3>1. served' = served
      BY <1>3, <2>4
    <3>2. Counting'[Shared] = Counting[Shared]
      <4>1. CASE Room(b)
        <5>1. b.key # Shared
          BY <1>1, <1>2, <1>5, <2>4, <4>1, TailToCharge
        <5> QED
          BY <1>7, <1>11, <5>1
      <4>2. CASE ~Room(b)
        BY <1>7, <1>11, <4>2
      <4> QED
        BY <4>1, <4>2
    <3>3. \A w \in Owners : {h \in served' : h[2] = w} \subseteq Counting'[<<asks, w>>]
      BY <1>10, <1>11, <3>1 DEF LimitsInv, ServedStand
    <3> QED
      BY <1>3, <2>2, <3>1, <3>2, <3>3, KindStays DEF LimitsInv, ServedStand
  <2> QED
    BY <2>3, <2>4
<1> QED
  BY <1>3, <1>12, <1>13, <1>14 DEF LimitsInv

\* The slot, what is stored, and the requests that take it.
LEMMA LimitsInvScan ==
    ASSUME LimitsInv, NEW r \in Threads, TakeScanSlot(r) \/ Scanned(r)
    PROVE  LimitsInv'
<1>1. DOMAIN request = Threads
  BY DEF LimitsInv, LimitsType
<1>2. /\ UNCHANGED <<hits, now, asks, served>> /\ DOMAIN request' = Threads
      /\ \A s \in Threads \ {r} : request'[s] = request[s]
      /\ request'[r].at # "limits"
  <2>1. CASE Answered(r) /\ UNCHANGED <<hits, now, asks, served>>
    BY <1>1, <2>1 DEF Answered, NoCall
  <2>2. CASE TakeScanSlot(r) /\ ~Answered(r)
    <3>1. request' = [request EXCEPT ![r].at = "scanning"] /\ UNCHANGED <<hits, now, asks, served>>
      BY <2>2 DEF TakeScanSlot
    <3>2. request[r].at = "slot" /\ request'[r] = [request[r] EXCEPT !.at = "scanning"]
      BY <1>1, <2>2, <3>1 DEF TakeScanSlot
    <3>3. request'[r].at # "limits"
      BY <3>2
    <3> QED
      BY <1>1, <3>1, <3>3
  <2> QED
    BY <2>1, <2>2 DEF TakeScanSlot, Scanned
<1>3. stored' \in [observed : BOOLEAN, cached : BOOLEAN] /\ (stored'.cached => stored'.observed)
  <2>1. CASE UNCHANGED stored
    BY <2>1 DEF LimitsInv, LimitsType
  <2>2. CASE Scanned(r)
    <3>1. PICK succeeds \in BOOLEAN : stored' = [stored EXCEPT !.cached = @ \/ (succeeds /\ stored.observed)]
      BY <2>2 DEF Scanned
    <3> QED
      BY <3>1 DEF LimitsInv, LimitsType
  <2> QED
    BY <2>1, <2>2 DEF TakeScanSlot
<1> QED
  BY <1>2, <1>3, NothingIsCharged

LEMMA LimitsInvCrawl == ASSUME LimitsInv, Crawled \/ NewPatterns PROVE LimitsInv'
<1>1. UNCHANGED <<hits, now, asks, request, served>> /\ DOMAIN request' = Threads
  BY DEF Crawled, NewPatterns, Scans, LimitsInv, LimitsType
<1>2. stored' \in [observed : BOOLEAN, cached : BOOLEAN] /\ (stored'.cached => stored'.observed)
  <2>1. CASE Crawled
    BY <2>1 DEF Crawled, Scans
  <2>2. CASE NewPatterns
    <3>1. stored' = [stored EXCEPT !.cached = FALSE] /\ stored \in [observed : BOOLEAN, cached : BOOLEAN]
      BY <2>2 DEF NewPatterns, Scans, LimitsInv, LimitsType
    <3> QED
      BY <3>1
  <2> QED
    BY <2>1, <2>2
<1> QED
  BY <1>1, <1>2, NothingIsCharged

\* Time passes while nothing is charged: every window has fewer hits, or the same.
LEMMA LimitsInvMinute == ASSUME LimitsInv, Minute PROVE LimitsInv'
<1>1. /\ now' = now + 1 /\ UNCHANGED <<hits, asks, request, stored>> /\ now \in Nat /\ asks \in Kinds
      /\ served' = {h \in served : now' - h[1] <= Window[asks]} /\ \A r \in Threads : request[r].at # "limits"
  BY DEF Minute, LimitsInv, LimitsType
<1>2. LimitsType
  BY DEF LimitsInv
<1>3. ASSUME NEW k \in Keys
      PROVE  Counting'[k] = {h \in Counting[k] : now' - h[1] <= Window[asks]}
  <2>1. Counting[k] \subseteq Hits /\ Window[asks] \in Nat
    BY <1>1, <1>2, CountsAreFinite, LimitsAssumption
  <2>2. CASE k \in DOMAIN hits
    <3>1. Counting[k] = {h \in hits[k] : now - h[1] <= Window[asks]}
      BY <2>2 DEF Counting
    <3>2. Counting'[k] = {h \in hits[k] : now' - h[1] <= Window[asks]}
      BY <1>1, <2>2, KindStays DEF Counting
    <3>3. \A h \in hits[k] : h[1] \in Nat
      BY <1>2, <2>2 DEF LimitsType, Hits
    <3>4. \A h \in hits[k] : now' - h[1] <= Window[asks] => now - h[1] <= Window[asks]
      BY <1>1, <2>1, <3>3
    <3> QED
      BY <3>1, <3>2, <3>4
  <2>3. CASE k \notin DOMAIN hits
    BY <1>1, <2>3, KindStays DEF Counting
  <2> QED
    BY <2>2, <2>3
<1>4. Shared \in Keys /\ \A w \in Owners : <<asks, w>> \in Keys
  BY CallersAre DEF Owners, Keys
<1>5. served' = Counting'[Shared] /\ served' \subseteq served /\ IsFiniteSet(served)
  BY <1>1, <1>2, <1>3, <1>4, CountsAreFinite DEF LimitsInv, ServedStand
<1>6. \A S, T : IsFiniteSet(T) /\ S \subseteq T =>
         Cardinality(S) <= Cardinality(T) /\ Cardinality(S) \in Nat /\ Cardinality(T) \in Nat
  BY FS_Subset, FS_CardinalityType
<1>7. Ceiling \in Nat /\ OwnRate \in Nat
  BY <1>1, RatesAre
<1>8. Cardinality(served') <= Ceiling
  BY <1>5, <1>6, <1>7 DEF LimitsInv, ServedStand
<1>9. Cardinality({h \in served' : h[2] = <<Address>>}) <= OwnRate
  <2>1. /\ {h \in served' : h[2] = <<Address>>} \subseteq {h \in served : h[2] = <<Address>>}
        /\ {h \in served : h[2] = <<Address>>} \subseteq served
    BY <1>5
  <2>2. IsFiniteSet({h \in served : h[2] = <<Address>>})
    BY <1>5, <2>1, FS_Subset
  <2> QED
    BY <1>6, <1>7, <2>1, <2>2 DEF LimitsInv, ServedStand
<1>10. ASSUME NEW w \in Owners
       PROVE  /\ Cardinality(Counting'[<<asks, w>>]) <= OwnRate
              /\ {h \in served' : h[2] = w} \subseteq Counting'[<<asks, w>>]
  <2>1. PICK k \in Keys : k = <<asks, w>>
    BY <1>4
  <2>2. Counting'[k] \subseteq Counting[k] /\ IsFiniteSet(Counting[k])
    BY <1>2, <1>3, CountsAreFinite
  <2>3. Cardinality(Counting[k]) <= OwnRate /\ {h \in served : h[2] = w} \subseteq Counting[k]
    BY <2>1 DEF LimitsInv, ServedStand
  <2>4. Cardinality(Counting'[k]) <= OwnRate
    BY <1>6, <1>7, <2>2, <2>3
  <2>5. {h \in served' : h[2] = w} \subseteq Counting'[k]
    BY <1>1, <1>3, <2>3
  <2> QED
    BY <2>1, <2>4, <2>5
<1>11. ServedStand'
  BY <1>1, <1>5, <1>8, <1>9, <1>10, KindStays DEF ServedStand
<1>12. LimitsType' /\ RequestsStand'
  BY <1>1, KindStays DEF LimitsInv, LimitsType, RequestsStand
<1> QED
  BY <1>1, <1>11, <1>12 DEF LimitsInv

LEMMA LimitsInvNext == ASSUME LimitsInv, [Limiting]_limits PROVE LimitsInv'
<1>1. CASE UNCHANGED limits
  BY <1>1, NothingIsCharged DEF limits, LimitsInv, LimitsType
<1>2. CASE Limiting
  BY <1>2, LimitsInvArrive, LimitsInvCharge, LimitsInvScan, LimitsInvCrawl, LimitsInvMinute DEF Limiting
<1> QED
  BY <1>1, <1>2

\* What is served is bounded by the windows, for any number of threads, hubs and buyers and any names
\* a caller makes up.
LEMMA LimitsHoldInside == ASSUME LimitsInv PROVE LimitsHold
<1>1. LimitsType /\ ServedStand /\ Ceiling \in Nat /\ OwnRate \in Nat /\ asks \in Kinds
  BY RatesAre DEF LimitsInv, LimitsType
<1>2. served \in SUBSET Hits /\ IsFiniteSet(served) /\ Shared \in Keys /\ \A w \in Owners : <<asks, w>> \in Keys
  BY <1>1, CallersAre, CountsAreFinite DEF ServedStand, Owners, Keys
<1>3. \A S, T : IsFiniteSet(T) /\ S \subseteq T =>
         Cardinality(S) <= Cardinality(T) /\ Cardinality(S) \in Nat /\ Cardinality(T) \in Nat
  BY FS_Subset, FS_CardinalityType
<1>4. Count(Callers) = Cardinality(served)
  <2>1. {h \in served : h[2] \in Callers} = served
    BY <1>2 DEF Hits
  <2> QED
    BY <2>1 DEF Count
<1>5. ASSUME NEW who \in Callers, ~(asks = "check" /\ Len(who) = 2) PROVE Count({who}) <= OwnRate
  <2>1. {h \in served : h[2] \in {who}} = {h \in served : h[2] = who} /\ {h \in served : h[2] = who} \subseteq served
    OBVIOUS
  <2>2. CASE who \in Owners
    <3>1. /\ {h \in served : h[2] = who} \subseteq Counting[<<asks, who>>]
          /\ Cardinality(Counting[<<asks, who>>]) <= OwnRate /\ IsFiniteSet(Counting[<<asks, who>>])
      BY <1>1, <1>2, <2>2, CountsAreFinite DEF ServedStand
    <3> QED
      BY <1>1, <1>3, <2>1, <3>1 DEF Count
  <2>3. CASE asks = "report"
    <3>1. Ceiling = OwnRate
      BY <2>3 DEF Ceiling, OwnRate
    <3> QED
      BY <1>1, <1>2, <1>3, <2>1, <3>1 DEF Count, ServedStand
  <2>4. CASE who \notin Owners /\ asks # "report"
    <3>1. PICK n : n = Len(who)
      OBVIOUS
    <3>2. n \in 1..3 /\ (n = 1 => who = <<Address>>)
      BY <3>1, CallersAre, Zenon
    <3>3. n = 1
      BY <1>1, <1>5, <2>4, <3>1, <3>2 DEF Owners, Kinds
    <3> QED
      BY <1>1, <2>1, <3>2, <3>3 DEF Count, ServedStand
  <2> QED
    BY <2>2, <2>3, <2>4
<1>6. Cardinality(InWindow([key |-> <<asks, <<Address>>>>, limit |-> 0])) = Count(Callers)
  <2>1. PICK b : b = [key |-> <<asks, <<Address>>>>, limit |-> 0]
    OBVIOUS
  <2>2. b.key = Shared
    BY <2>1 DEF Shared
  <2>3. InWindow(b) = served
    BY <1>1, <1>2, <2>2, WindowIs DEF ServedStand
  <2> QED
    BY <1>4, <2>1, <2>3
<1> QED
  BY <1>1, <1>4, <1>5, <1>6 DEF LimitsHold, LimitsInv, ServedStand

THEOREM LimitsAreKept == LimitsSpec => []LimitsHold
<1>1. LimitsInv => LimitsHold
  BY LimitsHoldInside
<1> QED
  BY <1>1, LimitsInvInit, LimitsInvNext, PTL DEF LimitsSpec

=============================================================================
