---------------------------- MODULE Observation ----------------------------
(***************************************************************************)
(* One target from reading to answer: conversations with its server        *)
(* (McpReading) one after another, the record a complete reading makes     *)
(* (store.py), and a client's /check of the tools it holds (check.py),     *)
(* which reads the record in several transactions while readings go on.    *)
(***************************************************************************)
EXTENDS McpReading, Judgement, Declarations, Robots

CONSTANTS Sets,       \* tool-set digests
          MaxLength,  \* bound: pages of the server's list
          MaxRecords  \* bound: complete readings recorded

ASSUME ObservationAssumption == None \notin Sets /\ MaxLength \in Nat /\ MaxRecords \in Nat

VARIABLES
    party,     \* "server", "publisher", "site", "file", "lists", "caller" or "host": no shared state, so a behaviour is of one
    current,   \* targets.current_toolset
    seen,      \* observations: the digests recorded for this target
    records,   \* counted for the bound
    query      \* one /check: what was sent, the row it read, what it answered

vars == <<conversation, declarations, robots, judgement, party, current, seen, records, query>>

NoQuery == [at |-> None, sent |-> None, row |-> None, answer |-> None, truths |-> {}]

Init ==
    /\ ReadingInit /\ DeclarationsInit /\ RobotsInit
    /\ party \in {"server", "publisher", "site", "file", "lists", "caller", "host"}
    /\ party # "file" => lines = << >>
    /\ party # "site" => site = "down"
    /\ IF party = "lists" THEN JudgementInit ELSE former = << >> /\ latter = << >>
    /\ current = None /\ seen = {} /\ records = 0 /\ query = NoQuery

\* What is so of a set a client holds, at this moment.
Truth(set, latest, ever) ==
    IF latest = None THEN "not-observed"
    ELSE IF set = latest THEN "same"
    ELSE IF set \in ever THEN "previously-observed" ELSE "different"

\* The crawl commits what a reading gave: a tool set, or a status alone.
Record ==
    /\ at = "done"
    /\ IF status = "ok"
       THEN \E set \in Sets :
                /\ records < MaxRecords /\ records' = records + 1
                /\ current' = set /\ seen' = seen \cup {set}
                /\ query' = IF query.at = None THEN query
                            ELSE [query EXCEPT !.truths = @ \cup {Truth(query.sent, set, seen')}]
       ELSE UNCHANGED <<current, seen, records, query>>
    /\ at' = "idle" /\ modern' = TRUE /\ retried' = FALSE /\ pages' = << >> /\ page' = 1
    /\ unanswered' = {} /\ calls' = NoCalls /\ status' = None /\ committed' = FALSE
    /\ transport' = "http" /\ length' = 1
    /\ UNCHANGED <<declarations, robots, judgement, party>>

\* Checker.check reads the target's row ...
Ask(set) ==
    /\ party = "server" /\ query.at = None
    /\ query' = [at |-> "row", sent |-> set, row |-> current, answer |-> None,
                 truths |-> {Truth(set, current, seen)}]
    /\ UNCHANGED <<conversation, declarations, robots, judgement, party, current, seen, records>>

\* Mutant: the observations are not consulted.
AnswerFromRow ==
    /\ query.at = "row"
    /\ query' = [query EXCEPT !.at = "answered",
                    !.answer = IF query.row = None THEN "not-observed"
                               ELSE IF query.sent = query.row THEN "same" ELSE "different"]
    /\ UNCHANGED <<conversation, declarations, robots, judgement, party, current, seen, records>>

\* ... and then, if the set sent is not the row's, the observations.
Answer ==
    /\ query.at = "row"
    /\ query' = [query EXCEPT !.at = "answered",
                    !.answer = IF query.row = None THEN "not-observed"
                               ELSE IF query.sent = query.row THEN "same"
                               ELSE IF query.sent \in seen THEN "previously-observed" ELSE "different"]
    /\ UNCHANGED <<conversation, declarations, robots, judgement, party, current, seen, records>>

Served ==
    /\ query.at = "answered" /\ query' = NoQuery
    /\ UNCHANGED <<conversation, declarations, robots, judgement, party, current, seen, records>>

Reading ==
    \/ \E t \in {"http", "stdio"}, n \in 1..MaxLength : StartReading(t, n)
    \/ Converse

\* A check shares no state with a conversation before it is recorded, so it may as well take its
\* steps while none is open.
Between == at = "idle"

Next ==
    \/ party = "server" /\ Reading /\ UNCHANGED <<declarations, robots, judgement, party, current, seen, records, query>>
    \/ Record
    \/ party = "publisher" /\ Declaring /\ UNCHANGED <<conversation, robots, judgement, party, current, seen, records, query>>
    \/ party = "site" /\ Policing /\ UNCHANGED <<conversation, declarations, judgement, party, current, seen, records, query>>
    \/ Between /\ (Answer \/ Served \/ \E set \in Sets : Ask(set))

\* One answer has a deadline, so a reading always goes on.
Spec == Init /\ [][Next]_vars /\ WF_vars(party = "server" /\ Reading /\ UNCHANGED <<declarations, robots, judgement, party, current, seen, records, query>>)

-----------------------------------------------------------------------------
\* A tool list is only reported whole: every page of the server's list once, in order (over HTTP;
\* over stdio a server that repeats a cursor is believed), and under the pages' own era.
OkIsWhole == (status = "ok" /\ transport = "http") => pages = [i \in 1..length |-> i]

\* A recognised modern error over stdio is never followed by initialize.
NeverDowngraded == (committed /\ transport = "stdio") => modern

\* What a reading reports is what the server published: the whole list, in the era it speaks
\* (mcpclient.py: a partial list is no list; docs: no downgrade after a modern answer).
ReadingIsHonest == OkIsWhole /\ NeverDowngraded

\* The same over HTTP: "Never initialize after one".
NeverDowngradedOverHttp == committed => modern

\* A tool that answers late costs the reading nothing: "timeouts" are counted and the list stands.
LateAnswerIsHarmless ==
    [][(at = "tools/call" /\ at' = "done") => status' = "ok"]_vars

\* Whatever the server does, a reading comes to an end: no stream, cursor or silence holds it.
ReadingEnds == (at # "idle") ~> (at = "done")

\* /check never calls a set the server's own when it is not, nor an observed set unknown.
CheckIsTrue == query.answer \in {"same", "different", "not-observed"} => query.answer \in query.truths

\* Every answer was true at some moment while the client waited.
AnswerWasTrue == query.at = "answered" => query.answer \in query.truths

=============================================================================
