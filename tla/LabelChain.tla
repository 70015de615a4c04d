----------------------------- MODULE LabelChain -----------------------------
(***************************************************************************)
(* The label chain of one target: histor/crawler.py from the observation   *)
(* of a server to the commit of its labels, as the observers of a          *)
(* deployment run it.  An observer is a lane of the service, or a CLI      *)
(* command beside it (histor reobserve).                                   *)
(*                                                                         *)
(* An observer reads the rule sets, reads the server, decides outside any  *)
(* transaction whether the list is to be scanned, and commits in one       *)
(* transaction that first reads the target's row.  On SQLite the           *)
(* transaction holds the write lock from its first statement               *)
(* (BEGIN IMMEDIATE); on Postgres it holds no lock the row's readers would *)
(* wait for, and its updates touch only the columns they name.             *)
(*                                                                         *)
(* A subject is what its digest covers: the names, and the tool-set digest *)
(* where there is one.  A pattern-scan label and its name-threat label are *)
(* always appended together and are one entry here.                        *)
(***************************************************************************)
EXTENDS Integers, Sequences, FiniteSets

CONSTANTS
    Observers,       \* who observes the target
    Lists,           \* bound: the tool lists the server may show
    Interval,        \* CONTINUITY_MIN_INTERVAL_S, in ticks
    WriteLock,       \* TRUE on SQLite, FALSE on Postgres
    MaxTime,         \* bound: ticks of the clock
    MaxRuleSets,     \* bound: WARDEN rule sets ever published
    MaxObservations, \* bound: observations committed and under way
    None

\* A tool list: the names in it, its content, and why it has no digest, if it has none.
\* MTL-NUM-001 and MTL-SUBJ-001 keep a list from being digested (subject.py:232-240).
ASSUME LabelChainAssumption ==
    /\ \A l \in Lists : DOMAIN l = {"names", "content", "refusal"}
    /\ \A l \in Lists : l.refusal \in {None, "MTL-NUM-001", "MTL-SUBJ-001"} /\ l.content # None
    /\ {Interval, MaxObservations} \subseteq Nat /\ {MaxTime, MaxRuleSets} \subseteq Nat \ {0}
    /\ WriteLock \in BOOLEAN
    /\ None \notin Observers /\ None \notin Lists /\ None \notin {"ok", "MTL-NUM-001", "MTL-SUBJ-001"}

VARIABLES
    now,         \* the clock
    rules,       \* the newest rule set WARDEN has published
    row,         \* database: the target's row
    labels,      \* database: the labels about the target, in leaf order
    changes,     \* database: its changes, in order
    shown,       \* database: its observations that served a list
    step,        \* observer -> where it is
    sets,        \* observer -> the rule sets its run has read
    item,        \* observer -> what it observed, and when
    scan,        \* observer -> what WARDEN made of it
    state,       \* observer -> the row as its transaction read it
    writer,      \* database: the transaction that holds SQLite's write lock
    overlapped   \* two observers have had an uncommitted observation at the same time

table == <<row, labels, changes, shown>>
observer == <<step, sets, item, scan, state>>
vars  == <<now, rules, table, observer, writer, overlapped>>

Subject(l) == [names |-> l.names, toolset |-> IF l.refusal = None THEN l.content ELSE None]

Subjects == {Subject(l) : l \in Lists}

\* NULL is no subject.
ASSUME NullAssumption == None \notin Subjects

Label == [kind : {"observation", "scan", "continuity", "outage"},
          subject : Subjects, verdict : {"pass", "fail", "inconclusive"},
          prior : Nat, since : Nat, at : Nat]

Row == [chain : Nat,               \* chain_label, as the label's place in labels; 0 is NULL
        linkedAt : Nat,            \* last_continuity_at
        subject : Subjects \union {None},
        since : Nat,               \* unchanged_since
        failureReported : BOOLEAN,
        status : {None, "ok", "undigestible", "failed"},
        scanSets : Nat,            \* 0 is NULL
        matches : {l.content : l \in Lists} \union {None}]  \* the tool set the match counts are of

Unseen == [chain |-> 0, linkedAt |-> 0, subject |-> None, since |-> 0, failureReported |-> FALSE,
           status |-> None, scanSets |-> 0, matches |-> None]

TypeOK ==
    /\ now \in 1..MaxTime
    /\ rules \in 1..MaxRuleSets
    /\ row \in Row
    /\ labels \in Seq(Label)
    /\ changes \in Seq([from : Subjects, to : Subjects, label : Nat])
    /\ shown \in Seq([subject : Subjects, at : Nat])
    /\ step \in [Observers -> {"idle", "started", "observed", "scanned", "reading"}]
    /\ sets \in [Observers -> 0..MaxRuleSets]
    /\ item \in [Observers -> [list : Lists \union {None}, at : 0..MaxTime]]
    /\ scan \in [Observers -> {"none", "done", "failed"}]
    /\ state \in [Observers -> Row]
    /\ writer \in Observers \union {None}
    /\ overlapped \in BOOLEAN

Nothing == [list |-> None, at |-> 0]

Init ==
    /\ now = 1 /\ rules = 1
    /\ row = Unseen /\ labels = <<>> /\ changes = <<>> /\ shown = <<>>
    /\ step = [o \in Observers |-> "idle"]
    /\ sets = [o \in Observers |-> 0]
    /\ item = [o \in Observers |-> Nothing]
    /\ scan = [o \in Observers |-> "none"]
    /\ state = [o \in Observers |-> Unseen]
    /\ writer = None /\ overlapped = FALSE

-----------------------------------------------------------------------------
(* The world: time passes, WARDEN publishes a rule set.                     *)

Tick == now < MaxTime /\ now' = now + 1 /\ UNCHANGED <<rules, table, observer, writer, overlapped>>

PublishRules ==
    /\ rules < MaxRuleSets
    /\ rules' = rules + 1
    /\ UNCHANGED <<now, table, observer, writer, overlapped>>

-----------------------------------------------------------------------------
(* An observation, up to its commit.                                        *)

\* A run begins: it reads the rule sets once.
StartRun(o) ==
    /\ step[o] = "idle"
    /\ Len(shown) + Cardinality({u \in Observers : step[u] # "idle"}) < MaxObservations
    /\ step' = [step EXCEPT ![o] = "started"]
    /\ sets' = [sets EXCEPT ![o] = rules]
    /\ UNCHANGED <<now, rules, table, item, scan, state, writer, overlapped>>

\* The server shows a list, or the observation fails (list = None).
Observe(o) ==
    /\ step[o] = "started"
    /\ \E l \in Lists \union {None} : item' = [item EXCEPT ![o] = [list |-> l, at |-> now]]
    /\ step' = [step EXCEPT ![o] = "observed"]
    /\ overlapped' = (overlapped \/ \E u \in Observers : step[u] \in {"observed", "scanned", "reading"})
    /\ UNCHANGED <<now, rules, table, sets, scan, state, writer>>

Refused(l) == l.refusal = "MTL-SUBJ-001"

\* Mutant: a list is scanned again only when it is new.
OnlyNewSubjects(l, r, s) == Subject(l).toolset # None /\ Subject(l) # r.subject

\* The list is new, or was scanned under other sets: a job for WARDEN.
NeedsScan(l, r, s) ==
    /\ ~ Refused(l) /\ Subject(l).toolset # None
    /\ Subject(l) # r.subject \/ r.scanSets # s

\* _scan decides from the row as it is now, in no transaction; WARDEN may fail on the list.
Scan(o) ==
    /\ step[o] = "observed"
    /\ IF item[o].list # None /\ NeedsScan(item[o].list, row, sets[o])
       THEN \E result \in {"done", "failed"} : scan' = [scan EXCEPT ![o] = result]
       ELSE UNCHANGED scan
    /\ step' = [step EXCEPT ![o] = "scanned"]
    /\ UNCHANGED <<now, rules, table, sets, item, state, writer, overlapped>>

-----------------------------------------------------------------------------
(* The commit.                                                              *)

Done(o) ==
    /\ step' = [step EXCEPT ![o] = "idle"]
    /\ sets' = [sets EXCEPT ![o] = 0]
    /\ item' = [item EXCEPT ![o] = Nothing]
    /\ scan' = [scan EXCEPT ![o] = "none"]
    /\ state' = [state EXCEPT ![o] = Unseen]
    /\ writer' = IF writer = o THEN None ELSE writer
    /\ UNCHANGED <<now, rules, overlapped>>

\* WARDEN failed, the commit raised, or the process was killed: rolled back, nothing is said
\* about the target.
CommitInternal(o) ==
    /\ (step[o] = "scanned" /\ scan[o] = "failed") \/ step[o] = "reading"
    /\ Done(o)
    /\ UNCHANGED table

\* The transaction begins and reads the row.
ReadRow(o) ==
    /\ step[o] = "scanned" /\ scan[o] # "failed"
    /\ writer = None
    /\ writer' = IF WriteLock THEN o ELSE None
    /\ state' = [state EXCEPT ![o] = row]
    /\ step' = [step EXCEPT ![o] = "reading"]
    /\ UNCHANGED <<now, rules, table, sets, item, scan, overlapped>>

Entry(kind, subject, verdict, prior, since, at) ==
    [kind |-> kind, subject |-> subject, verdict |-> verdict, prior |-> prior, since |-> since, at |-> at]

\* LabelIssuer.continuity over a current subject.
Verdict(current, prior) ==
    IF current.toolset = None \/ prior.toolset = None THEN "inconclusive"
    ELSE IF current = prior THEN "pass" ELSE "fail"

Or(time, other) == IF time = 0 THEN other ELSE time

Continuity(current, r, at, since) ==
    LET prior == labels[r.chain]
        verdict == Verdict(current, prior.subject)
    IN  Entry("continuity", current, verdict, r.chain, IF verdict = "pass" THEN Or(since, prior.at) ELSE 0, at)

\* LabelIssuer.observation and LabelIssuer.undigestible.
Observation(s, at) ==
    Entry("observation", s, IF s.toolset = None THEN "inconclusive" ELSE "pass", 0, 0, at)

\* LabelIssuer.pattern_scan and LabelIssuer.name_threat.
WardenLabels(s, at) == <<Entry("scan", s, "pass", 0, 0, at)>>

\* LabelIssuer.continuity with no current subject: it restates the prior one.
Outage(r, at) == Entry("outage", labels[r.chain].subject, "inconclusive", r.chain, 0, at)

\* The first failed observation since the chain last moved.
ReportsFailure(r) == r.chain # 0 /\ ~ r.failureReported

CommitFailure(o) ==
    /\ step[o] = "reading" /\ item[o].list = None
    /\ LET r == state[o] IN
        /\ labels' = IF ReportsFailure(r)
                     THEN Append(labels, Outage(r, item[o].at))
                     ELSE labels
        /\ row' = [row EXCEPT !.status = "failed",
                              !.failureReported = IF ReportsFailure(r) THEN TRUE ELSE @]
    /\ UNCHANGED <<changes, shown>>
    /\ Done(o)

RecordChange(from, to, label) == changes' = Append(changes, [from |-> from, to |-> to, label |-> label])

Serves(s, at) == shown' = Append(shown, [subject |-> s, at |-> at])

\* What an undigestible list that is not the current one leaves in the row.
BreaksChain(s, at, link) ==
    [row EXCEPT !.chain = link, !.linkedAt = at, !.subject = s, !.since = at, !.failureReported = FALSE,
                !.matches = None, !.scanSets = 0]

(***************************************************************************)
(* A list with no digest at all is still a list: it breaks the chain.  The *)
(* same list again only updates the status.                                *)
(***************************************************************************)
CommitUndigestible(o) ==
    /\ step[o] = "reading" /\ item[o].list # None /\ Refused(item[o].list)
    /\ LET r == state[o]
           s == Subject(item[o].list)
           at == item[o].at
           link == IF r.chain = 0 THEN <<>> ELSE <<Continuity(s, r, at, 0)>>
       IN
        /\ \/ /\ s # r.subject
              /\ labels' = labels \o <<Observation(s, at)>> \o link
              /\ row' = [BreaksChain(s, at, Len(labels')) EXCEPT !.status = "undigestible"]
              /\ IF r.subject # None THEN RecordChange(r.subject, s, Len(labels')) ELSE UNCHANGED changes
           \/ /\ s = r.subject
              /\ row' = [row EXCEPT !.status = "undigestible"]
              /\ UNCHANGED <<labels, changes>>
        /\ Serves(s, at)
    /\ Done(o)

ContinuityDue(r, at) == at - r.linkedAt >= Interval

\* The current descriptor had no digest and this one differs only by having one.
OnlyGainsDigest(r, s) ==
    r.subject.toolset = None /\ s.toolset # None /\ s.names = r.subject.names

\* Mutants: the chain is left where it was; a change does not restart the date.
ChainStays(r, s, at, first, link) == r.chain
DateStays(r, s, at) == IF r.since = 0 THEN at ELSE r.since

\* chain_label after a list was served: the continuity label, or the first observation.
NewChain(r, s, at, first, link) ==
    IF link # 0 THEN link ELSE IF r.chain = 0 /\ first # 0 THEN first ELSE row.chain

UnchangedSince(r, s, at) == IF s # r.subject THEN at ELSE row.since

(***************************************************************************)
(* A list with a subject.  A new one gets an observation label, and WARDEN *)
(* labels when _scan had it scanned; the chain is continued when it is new *)
(* or the interval has passed, and started by the first observation.       *)
(***************************************************************************)
CommitServed(o) ==
    /\ step[o] = "reading" /\ item[o].list # None /\ ~ Refused(item[o].list)
    /\ LET r == state[o]
           s == Subject(item[o].list)
           at == item[o].at
           new == s # r.subject
           scanned == scan[o] = "done" /\ (new \/ r.scanSets # sets[o])
           links == r.chain # 0 /\ (new \/ ContinuityDue(r, at))
           observation == IF new THEN <<Observation(s, at)>> ELSE <<>>
           warden == IF scanned THEN WardenLabels(s, at) ELSE <<>>
           link == IF links THEN <<Continuity(s, r, at, IF new THEN 0 ELSE r.since)>> ELSE <<>>
           first == IF new THEN Len(labels) + 1 ELSE 0
           last == IF links THEN Len(labels') ELSE 0
           started == r.chain = 0 /\ new
       IN
        /\ labels' = labels \o observation \o warden \o link
        /\ row' = [row EXCEPT
               !.chain = NewChain(r, s, at, first, last),
               !.linkedAt = IF links \/ started THEN at ELSE @,
               !.subject = s,
               !.since = UnchangedSince(r, s, at),
               !.failureReported = FALSE,
               !.status = "ok",
               !.scanSets = IF scanned THEN sets[o] ELSE @,
               !.matches = IF scanned THEN s.toolset ELSE @]
        /\ IF links /\ new /\ r.subject # None /\ ~ OnlyGainsDigest(r, s)
           THEN RecordChange(r.subject, s, last)
           ELSE UNCHANGED changes
        /\ Serves(s, at)
    /\ Done(o)

\* The process dies before the transaction: what it had observed is lost.
Lose(o) ==
    /\ step[o] \in {"started", "observed", "scanned"}
    /\ Done(o)
    /\ UNCHANGED table

Observing(o) == StartRun(o) \/ Observe(o) \/ Scan(o) \/ ReadRow(o) \/ Lose(o)

Committing(o) == CommitInternal(o) \/ CommitFailure(o) \/ CommitUndigestible(o) \/ CommitServed(o)

Next == Tick \/ PublishRules \/ \E o \in Observers : Observing(o) \/ Committing(o)

Spec == Init /\ [][Next]_vars
-----------------------------------------------------------------------------
(* What must hold.                                                          *)

Links == {i \in 1..Len(labels) : labels[i].kind = "continuity"}

(***************************************************************************)
(* "Continuity against the latest label in this target's chain"            *)
(* (labels.py:233): the continuity labels form one path, each the only     *)
(* successor of its prior label, and the row points at its end.            *)
(***************************************************************************)
ChainIsAPath ==
    /\ \A i, j \in Links : labels[i].prior = labels[j].prior => i = j
    /\ \A i \in Links : i = row.chain \/ \E j \in Links : labels[j].prior = i

(***************************************************************************)
(* The label the next comparison is made against is about the list the row *)
(* calls current, so a verdict compares the lists the change record names. *)
(***************************************************************************)
ChainNamesCurrentSubject ==
    IF row.chain = 0 THEN row.subject = None ELSE labels[row.chain].subject = row.subject

Moved(pair) == pair[1] # pair[2] /\ ~ (pair[1].toolset = None /\ pair[2].toolset # None /\ pair[1].names = pair[2].names)

\* Two lists recorded one after the other.
Pair(p) == <<shown[p].subject, shown[p + 1].subject>>

(***************************************************************************)
(* The changes are exactly the places where two consecutive recorded lists *)
(* differ, in order, except where a list only gained its digest            *)
(* (crawler.py:1489-1494); none is lost to an outage, a kill or another    *)
(* observer, and every continuity fail has its change.                     *)
(***************************************************************************)
EveryChangeIsRecorded ==
    /\ \E place \in [1..Len(changes) -> 1..(Len(shown) - 1)] :
        /\ \A j, k \in 1..Len(changes) : j < k => place[j] < place[k]
        /\ \A k \in 1..Len(changes) : <<changes[k].from, changes[k].to>> = Pair(place[k])
        /\ \A p \in 1..(Len(shown) - 1) : Moved(Pair(p)) <=> \E k \in 1..Len(changes) : place[k] = p
    /\ \A i \in Links : labels[i].verdict = "fail" => \E k \in 1..Len(changes) : changes[k].label = i

(***************************************************************************)
(* The label chain of a target is the history of what it served: a path,   *)
(* ending in the list the row calls current, with every change in it.      *)
(***************************************************************************)
ChainIsTheHistory == ChainIsAPath /\ ChainNamesCurrentSubject /\ EveryChangeIsRecorded

ReportsOutage == Len(labels') > Len(labels) /\ labels'[Len(labels')].kind = "outage"

\* A step that makes a served target failed says so; no other failure adds a label.
OutageStep ==
    /\ row.status = "ok" /\ row'.status = "failed" => ReportsOutage
    /\ ReportsOutage => row.status # "failed"

(***************************************************************************)
(* An outage is one inconclusive label (docs/architecture.md:145-146,      *)
(* test_crawler.py:197): the failure after a served list is reported, a    *)
(* failure after a failure never is.                                       *)
(***************************************************************************)
OutageIsReportedOnce == [][OutageStep]_vars

(***************************************************************************)
(* "No pass spans the undigestible day" (test_hostile.py:327,              *)
(* crawler.py:1387-1389): every list observed between the date an intact   *)
(* continuity label claims and its own observation is the one it is about. *)
(***************************************************************************)
PassesAreTrue ==
    \A i \in Links : labels[i].verdict = "pass" =>
        \A k \in 1..Len(shown) :
            labels[i].since < shown[k].at /\ shown[k].at < labels[i].at => shown[k].subject = labels[i].subject

\* They are while no two observers hold an observation of the target at the same time.
NoPassSpansAnotherList == ~ overlapped => PassesAreTrue

\* Since the date shown as unchangedSince, only the current list was observed (badge.py:36-41).
UnchangedSinceThen ==
    ~ overlapped => \A k \in 1..Len(shown) : row.since < shown[k].at => shown[k].subject = row.subject

(***************************************************************************)
(* A list first seen comes into the log with WARDEN's labels on it, in the *)
(* same commit: "observation + scan + name labels"                         *)
(* (docs/architecture.md:140, 143), and the match counts shown beside a    *)
(* digested list are of that list (app.py:547-564).                        *)
(***************************************************************************)
NewListIsScanned ==
    ~ overlapped =>
        /\ \A i \in 1..Len(labels) : labels[i].kind = "observation" /\ labels[i].subject.toolset # None =>
               i < Len(labels) /\ labels[i + 1].kind = "scan" /\ labels[i + 1].subject = labels[i].subject
        /\ row.subject # None /\ row.subject.toolset # None => row.matches = row.subject.toolset

(***************************************************************************)
(* What the labels, the badge and the counts claim of a list is what HISTOR*)
(* saw (badge.py:36-41, test_hostile.py:327): the time before a pass, the  *)
(* date shown, and the scan of the very list.                              *)
(***************************************************************************)
PassesSayWhatWasSeen == NoPassSpansAnotherList /\ UnchangedSinceThen /\ NewListIsScanned

\* The commit of a digested list leaves the row scanned under the run's sets.
RescanStep ==
    \A o \in Observers :
        ~ overlapped /\ step[o] = "reading" /\ shown' # shown /\ step'[o] = "idle" /\ Subject(item[o].list).toolset # None
            => row'.scanSets = sets[o]

(***************************************************************************)
(* A run leaves no digested list it recorded judged under other sets than  *)
(* its own (docs/architecture.md:151, test_crawler.py:459: "none skipped").*)
(***************************************************************************)
RescannedUnderNewSets == [][RescanStep]_vars

\* What each commit owes the reader: one label for an outage, and a scan under the run's own sets.
EachCommitReports == OutageIsReportedOnce /\ RescannedUnderNewSets
=============================================================================
