-------------------------- MODULE LabelChain_proofs --------------------------
(***************************************************************************)
(* Theorems about LabelChain, for every set of observers, every set of     *)
(* lists and every interval: the types; the chain is the history of what   *)
(* the target served; what a pass, a date and a match count say was seen.  *)
(*                                                                         *)
(* The code reads the row at the start of the transaction that writes it,  *)
(* so the argument is in two parts.  Where commits are serial -- the write *)
(* lock of SQLite, or observers that do not overlap -- what a commit read  *)
(* is the row it changes (Serialized).  Every commit that records a list   *)
(* then has one form, Records, and the rest is about that form.            *)
(*                                                                         *)
(* And about Advice, for every set of lanes, models, answers and sets, and *)
(* every daily budget.                                                     *)
(***************************************************************************)
EXTENDS LabelChain, Advice, FiniteSetTheorems, SequenceTheorems, TLAPS

-----------------------------------------------------------------------------
(* The inductive invariant.                                                 *)

Active == {"observed", "scanned", "reading"}

\* No two transactions about the target overlap.
Serial == WriteLock \/ ~ overlapped

\* Types, and what is in range of the labels and of the clock.
Bounded ==
    /\ TypeOK
    /\ row.chain <= Len(labels)
    /\ \A o \in Observers : state[o].chain <= Len(labels)
    /\ \A o \in Observers : step[o] \in Active => item[o].at \in 1..now

\* A transaction has the row to itself.
Serialized ==
    /\ WriteLock => \A o \in Observers : step[o] = "reading" => writer = o
    /\ ~ overlapped => \A o, u \in Observers : step[o] \in Active /\ step[u] \in Active => o = u
    /\ Serial => \A o \in Observers : step[o] = "reading" => state[o] = row

\* The path of continuity labels goes back from the row's label, and nothing is after that one.
PathInv ==
    /\ ChainIsAPath
    /\ ChainNamesCurrentSubject
    /\ \A i \in Links : labels[i].prior \in 1..(i - 1) /\ labels[i].prior # row.chain
    /\ row.chain = 0 => Links = {}

\* The row's list is the last one recorded.
ChangesInv ==
    /\ EveryChangeIsRecorded
    /\ row.subject = IF shown = <<>> THEN None ELSE shown[Len(shown)].subject

\* A target that is served has nothing reported of it; one that failed has, if it was ever served.
OutageInv ==
    /\ row.status = "ok" => row.chain # 0 /\ ~ row.failureReported
    /\ row.status = "failed" => row.chain = 0 \/ row.failureReported

\* What WARDEN was asked for is what the row as it stands still asks for.
ScanInv ==
    \A o \in Observers :
        /\ step[o] \in {"idle", "started", "observed"} => scan[o] = "none"
        /\ step[o] = "reading" => scan[o] # "failed"
        /\ ~ overlapped /\ step[o] \in {"scanned", "reading"} /\ item[o].list # None /\ scan[o] # "failed" =>
               (scan[o] = "done" <=> NeedsScan(item[o].list, row, sets[o]))

\* Nothing recorded is later than the clock, or than the observation under way.
InOrder ==
    /\ \A k \in 1..Len(shown) : shown[k].at <= now
    /\ \A i \in 1..Len(labels) : labels[i].at <= now
    /\ \A o \in Observers : step[o] \in Active =>
          /\ \A k \in 1..Len(shown) : shown[k].at <= item[o].at
          /\ \A i \in 1..Len(labels) : labels[i].at <= item[o].at
    /\ row.subject # None => row.since >= 1

\* What the chain, the changes and the row's status say together.
History == PathInv /\ ChangesInv /\ OutageInv

\* A digested list's first label is followed by WARDEN's.
ScanFollows ==
    \A i \in 1..Len(labels) : labels[i].kind = "observation" /\ labels[i].subject.toolset # None =>
        i < Len(labels) /\ labels[i + 1].kind = "scan" /\ labels[i + 1].subject = labels[i].subject

\* The match counts are of the row's list.
CountsAreOfTheList == row.subject # None /\ row.subject.toolset # None => row.matches = row.subject.toolset

\* Since the row's date only the row's list was observed.
DateIsTrue == \A k \in 1..Len(shown) : row.since < shown[k].at => shown[k].subject = row.subject

Said == PassesAreTrue /\ DateIsTrue /\ ScanFollows /\ CountsAreOfTheList

ChainInv ==
    /\ Bounded /\ Serialized /\ ScanInv
    /\ Serial => History
    /\ ~ overlapped => InOrder /\ Said

-----------------------------------------------------------------------------
(* The labels a commit appends.                                             *)

LEMMA EntriesAreLabels ==
    ASSUME labels \in Seq(Label), NEW s \in Subjects, NEW at \in Nat
    PROVE  /\ Observation(s, at) \in Label /\ Observation(s, at).kind = "observation"
           /\ Observation(s, at).subject = s /\ Observation(s, at).at = at
           /\ WardenLabels(s, at)[1] \in Label /\ WardenLabels(s, at)[1].kind = "scan"
           /\ WardenLabels(s, at)[1].subject = s /\ WardenLabels(s, at)[1].at = at
BY DEF Observation, WardenLabels, Entry, Label

LEMMA ContinuityIsLabel ==
    ASSUME labels \in Seq(Label), NEW s \in Subjects, NEW at \in Nat, NEW since \in Nat,
           NEW r \in Row, r.chain \in 1..Len(labels)
    PROVE  /\ Continuity(s, r, at, since) \in Label
           /\ Continuity(s, r, at, since).kind = "continuity"
           /\ Continuity(s, r, at, since).subject = s
           /\ Continuity(s, r, at, since).at = at
           /\ Continuity(s, r, at, since).prior = r.chain
           /\ Continuity(s, r, at, since).verdict = Verdict(s, labels[r.chain].subject)
           /\ Continuity(s, r, at, since).verdict = "pass" =>
                  Continuity(s, r, at, since).since = Or(since, labels[r.chain].at)
<1>1. labels[r.chain] \in Label
  OBVIOUS
<1>2. Verdict(s, labels[r.chain].subject) \in {"pass", "fail", "inconclusive"}
  BY DEF Verdict
<1>3. Or(since, labels[r.chain].at) \in Nat
  BY <1>1 DEF Or, Label
<1>4. r.chain \in Nat
  BY DEF Row
<1> QED
  BY <1>1, <1>2, <1>3, <1>4 DEF Continuity, Entry, Label

LEMMA OutageIsLabel ==
    ASSUME labels \in Seq(Label), NEW at \in Nat, NEW r \in Row, r.chain \in 1..Len(labels)
    PROVE  /\ Outage(r, at) \in Label /\ Outage(r, at).kind = "outage" /\ Outage(r, at).at = at
<1>1. labels[r.chain] \in Label
  OBVIOUS
<1> QED
  BY <1>1 DEF Outage, Entry, Label, Row

\* p is q, and what a has if it has anything.
OneMore(p, q, a) ==
    /\ p \in Seq(Label)
    /\ Len(p) = Len(q) + Len(a)
    /\ \A i \in 1..Len(q) : p[i] = q[i]
    /\ Len(a) = 1 => p[Len(q) + 1] = a[1]

LEMMA AtMostOneMore ==
    ASSUME NEW q \in Seq(Label), NEW a \in Seq(Label), Len(a) \in 0..1
    PROVE  OneMore(q \o a, q, a)
<1>1. /\ q \o a \in Seq(Label) /\ Len(q \o a) = Len(q) + Len(a)
      /\ \A i \in 1..(Len(q) + Len(a)) : (q \o a)[i] = IF i <= Len(q) THEN q[i] ELSE a[i - Len(q)]
  BY ConcatProperties
<1>2. Len(q) \in Nat
  OBVIOUS
<1> QED
  BY <1>1, <1>2 DEF OneMore

\* What a commit that records a list does to the labels: r is the row as the transaction read it.
Grows(s, at, r, new, scanned, links) ==
    /\ labels' \in Seq(Label)
    /\ Len(labels') = Len(labels) + (IF new THEN 1 ELSE 0) + (IF scanned THEN 1 ELSE 0) + (IF links THEN 1 ELSE 0)
    /\ \A i \in 1..Len(labels) : labels'[i] = labels[i]
    /\ new => labels'[Len(labels) + 1] = Observation(s, at)
    /\ scanned => labels'[Len(labels) + (IF new THEN 2 ELSE 1)] = WardenLabels(s, at)[1]
    /\ links => labels'[Len(labels')] = Continuity(s, r, at, IF new THEN 0 ELSE r.since)

New(o) == Subject(item[o].list) # state[o].subject
Scanned(o) == scan[o] = "done" /\ (New(o) \/ state[o].scanSets # sets[o])
Linked(o) == state[o].chain # 0 /\ (New(o) \/ ContinuityDue(state[o], item[o].at))

LEMMA FlagsAreBoolean == \A o \in Observers : New(o) \in BOOLEAN /\ Scanned(o) \in BOOLEAN /\ Linked(o) \in BOOLEAN
BY DEF New, Scanned, Linked

LEMMA GrowsBounds ==
    ASSUME NEW s, NEW at, NEW r, NEW new \in BOOLEAN, NEW scanned \in BOOLEAN, NEW links \in BOOLEAN,
           labels \in Seq(Label), Grows(s, at, r, new, scanned, links)
    PROVE  /\ Len(labels) \in Nat /\ Len(labels') \in Nat /\ Len(labels) <= Len(labels')
           /\ (new \/ scanned \/ links) => Len(labels) + 1 <= Len(labels')
<1>1. Len(labels) \in Nat /\ Len(labels') \in Nat
  <2>1. labels' \in Seq(Label)
    BY Zenon DEF Grows
  <2> QED
    BY <2>1, LenProperties
<1>2. Len(labels') = Len(labels) + (IF new THEN 1 ELSE 0) + (IF scanned THEN 1 ELSE 0) + (IF links THEN 1 ELSE 0)
  BY Zenon DEF Grows
<1>3. PICK m, n \in Nat : m = Len(labels) /\ n = Len(labels')
  BY <1>1
<1>4. n = m + (IF new THEN 1 ELSE 0) + (IF scanned THEN 1 ELSE 0) + (IF links THEN 1 ELSE 0)
  BY <1>2, <1>3, Zenon
<1>5. m <= n /\ ((new \/ scanned \/ links) => m + 1 <= n)
  BY <1>4
<1> QED
  BY <1>3, <1>5, Zenon

LEMMA InTransaction ==
    ASSUME Bounded, NEW o \in Observers, step[o] = "reading", item[o].list # None
    PROVE  /\ item[o].list \in Lists /\ Subject(item[o].list) \in Subjects
           /\ item[o].at \in Nat /\ item[o].at \in 1..now /\ state[o] \in Row /\ sets[o] \in Nat
           /\ state[o].chain # 0 => state[o].chain \in 1..Len(labels)
           /\ state[o].since \in Nat
<1>1. item[o] \in [list : Lists \union {None}, at : 0..MaxTime] /\ state[o] \in Row /\ sets[o] \in 0..MaxRuleSets
  BY DEF Bounded, TypeOK
<1>2. item[o].list \in Lists /\ item[o].at \in 1..now
  BY <1>1 DEF Bounded, Active
<1> QED
  BY <1>1, <1>2, LabelChainAssumption DEF Bounded, Row, Subjects

LEMMA ServedGrows ==
    ASSUME Bounded, NEW o \in Observers, CommitServed(o)
    PROVE  Grows(Subject(item[o].list), item[o].at, state[o], New(o), Scanned(o), Linked(o))
<1> DEFINE r == state[o]
           s == Subject(item[o].list)
           at == item[o].at
           a == IF New(o) THEN <<Observation(s, at)>> ELSE <<>>
           b == IF Scanned(o) THEN WardenLabels(s, at) ELSE <<>>
           c == IF Linked(o) THEN <<Continuity(s, r, at, IF New(o) THEN 0 ELSE r.since)>> ELSE <<>>
<1>1. labels' = labels \o a \o b \o c
  BY DEF CommitServed, New, Scanned, Linked
<1>2. labels \in Seq(Label)
  BY DEF Bounded, TypeOK
<1>3. s \in Subjects /\ at \in Nat /\ r \in Row /\ r.since \in Nat /\ (r.chain # 0 => r.chain \in 1..Len(labels))
  BY InTransaction DEF CommitServed
<1>4. a \in Seq(Label) /\ Len(a) = (IF New(o) THEN 1 ELSE 0) /\ (New(o) => a[1] = Observation(s, at))
  BY <1>2, <1>3, EntriesAreLabels
<1>5. b \in Seq(Label) /\ Len(b) = (IF Scanned(o) THEN 1 ELSE 0) /\ (Scanned(o) => b[1] = WardenLabels(s, at)[1])
  BY <1>2, <1>3, EntriesAreLabels DEF WardenLabels
<1>6. c \in Seq(Label) /\ Len(c) = (IF Linked(o) THEN 1 ELSE 0)
      /\ (Linked(o) => c[1] = Continuity(s, r, at, IF New(o) THEN 0 ELSE r.since))
  <2>1. CASE Linked(o)
    <3>1. r.chain \in 1..Len(labels)
      BY <1>3, <2>1 DEF Linked
    <3>2. Continuity(s, r, at, IF New(o) THEN 0 ELSE r.since) \in Label
      BY <1>2, <1>3, <3>1, ContinuityIsLabel
    <3> QED
      BY <2>1, <3>2
  <2>2. CASE ~ Linked(o)
    BY <2>2
  <2> QED
    BY <2>1, <2>2
<1> HIDE DEF a, b, c, r, s, at
<1>7. /\ labels' \in Seq(Label)
      /\ Len(labels') = Len(labels) + Len(a) + Len(b) + Len(c)
      /\ \A i \in 1..Len(labels) : labels'[i] = labels[i]
      /\ Len(a) = 1 => labels'[Len(labels) + 1] = a[1]
      /\ Len(b) = 1 => labels'[Len(labels) + Len(a) + 1] = b[1]
      /\ Len(c) = 1 => labels'[Len(labels) + Len(a) + Len(b) + 1] = c[1]
  <2>1. /\ a \in Seq(Label) /\ b \in Seq(Label) /\ c \in Seq(Label)
        /\ Len(a) \in 0..1 /\ Len(b) \in 0..1 /\ Len(c) \in 0..1 /\ Len(labels) \in Nat
    BY <1>2, <1>4, <1>5, <1>6
  <2>2. PICK x : x = labels \o a
    OBVIOUS
  <2>3. OneMore(x, labels, a)
    BY <1>2, <2>1, <2>2, AtMostOneMore, Zenon
  <2>4. PICK y : y = x \o b
    OBVIOUS
  <2>5. x \in Seq(Label) /\ Len(x) = Len(labels) + Len(a)
    BY <2>3 DEF OneMore
  <2>6. OneMore(y, x, b)
    BY <2>1, <2>4, <2>5, AtMostOneMore, Zenon
  <2>7. y \in Seq(Label) /\ Len(y) = Len(x) + Len(b)
    BY <2>6 DEF OneMore
  <2>8. PICK z : z = y \o c
    OBVIOUS
  <2>9. OneMore(z, y, c)
    BY <2>1, <2>7, <2>8, AtMostOneMore, Zenon
  <2>10. labels' = z
    BY <1>1, <2>2, <2>4, <2>8
  <2>11. Len(x) \in Nat /\ Len(y) \in Nat
    BY <2>1, <2>5, <2>7
  <2>12. \A i \in 1..Len(labels) : z[i] = labels[i]
    <3> SUFFICES ASSUME NEW i \in 1..Len(labels) PROVE z[i] = labels[i]
      OBVIOUS
    <3>1. i \in 1..Len(x) /\ i \in 1..Len(y)
      BY <2>1, <2>5, <2>7, <2>11
    <3> QED
      BY <2>3, <2>6, <2>9, <3>1 DEF OneMore
  <2>13. Len(a) = 1 => z[Len(labels) + 1] = a[1]
    <3> SUFFICES ASSUME Len(a) = 1 PROVE z[Len(labels) + 1] = a[1]
      OBVIOUS
    <3>1. Len(labels) + 1 \in 1..Len(x) /\ Len(labels) + 1 \in 1..Len(y)
      BY <2>1, <2>5, <2>7, <2>11
    <3> QED
      BY <2>3, <2>6, <2>9, <3>1 DEF OneMore
  <2>14. Len(b) = 1 => z[Len(labels) + Len(a) + 1] = b[1]
    <3> SUFFICES ASSUME Len(b) = 1 PROVE z[Len(labels) + Len(a) + 1] = b[1]
      OBVIOUS
    <3>1. Len(x) + 1 \in 1..Len(y)
      BY <2>1, <2>5, <2>7, <2>11
    <3>2. z[Len(x) + 1] = b[1]
      BY <2>6, <2>9, <3>1 DEF OneMore
    <3> QED
      BY <2>5, <3>2
  <2>15. Len(c) = 1 => z[Len(labels) + Len(a) + Len(b) + 1] = c[1]
    <3>1. Len(y) = Len(labels) + Len(a) + Len(b)
      BY <2>5, <2>7
    <3> QED
      BY <2>9, <3>1 DEF OneMore
  <2>16. z \in Seq(Label) /\ Len(z) = Len(labels) + Len(a) + Len(b) + Len(c)
    BY <2>5, <2>7, <2>9 DEF OneMore
  <2> QED
    BY <2>10, <2>12, <2>13, <2>14, <2>15, <2>16, Zenon
<1>8. Len(labels) \in Nat
  BY <1>2
<1>9. CASE New(o)
  BY <1>4, <1>5, <1>6, <1>7, <1>8, <1>9 DEF Grows, r, s, at
<1>10. CASE ~ New(o)
  <2>1. Len(a) = 0
    BY <1>4, <1>10
  <2>2. CASE Scanned(o)
    BY <1>5, <1>6, <1>7, <1>8, <1>10, <2>1, <2>2 DEF Grows, r, s, at
  <2>3. CASE ~ Scanned(o)
    BY <1>5, <1>6, <1>7, <1>8, <1>10, <2>1, <2>3 DEF Grows, r, s, at
  <2> QED
    BY <2>2, <2>3
<1> QED
  BY <1>9, <1>10

\* A list without a digest: one or two labels, or none when it is the current one.
LEMMA UndigestibleGrows ==
    ASSUME Bounded, NEW o \in Observers, CommitUndigestible(o)
    PROVE  Grows(Subject(item[o].list), item[o].at, state[o], New(o), FALSE, New(o) /\ state[o].chain # 0)
<1> DEFINE r == state[o]
           s == Subject(item[o].list)
           at == item[o].at
           c == IF r.chain = 0 THEN <<>> ELSE <<Continuity(s, r, at, 0)>>
<1>1. labels \in Seq(Label)
  BY DEF Bounded, TypeOK
<1>2. s \in Subjects /\ at \in Nat /\ r \in Row /\ (r.chain # 0 => r.chain \in 1..Len(labels))
  BY InTransaction DEF CommitUndigestible
<1>3. CASE New(o)
  <2>1. labels' = labels \o <<Observation(s, at)>> \o c
    BY <1>3 DEF CommitUndigestible, New
  <2>2. <<Observation(s, at)>> \in Seq(Label) /\ Len(<<Observation(s, at)>>) = 1
        /\ Len(<<Observation(s, at)>>) \in 0..1 /\ <<Observation(s, at)>>[1] = Observation(s, at)
    BY <1>1, <1>2, EntriesAreLabels
  <2>3. c \in Seq(Label) /\ Len(c) = (IF r.chain # 0 THEN 1 ELSE 0)
        /\ (r.chain # 0 => c[1] = Continuity(s, r, at, 0))
    <3>1. CASE r.chain # 0
      BY <1>1, <1>2, <3>1, ContinuityIsLabel
    <3>2. CASE r.chain = 0
      BY <3>2
    <3> QED
      BY <3>1, <3>2
  <2> HIDE DEF c
  <2>4. PICK x : x = labels \o <<Observation(s, at)>>
    OBVIOUS
  <2>5. OneMore(x, labels, <<Observation(s, at)>>)
    BY <1>1, <2>2, <2>4, AtMostOneMore, Zenon
  <2>6. x \in Seq(Label) /\ Len(x) = Len(labels) + 1 /\ x[Len(labels) + 1] = Observation(s, at)
        /\ \A i \in 1..Len(labels) : x[i] = labels[i]
    BY <2>2, <2>5 DEF OneMore
  <2>7. PICK z : z = x \o c
    OBVIOUS
  <2>8. Len(c) \in 0..1
    BY <2>3
  <2>9. OneMore(z, x, c)
    BY <2>3, <2>6, <2>7, <2>8, AtMostOneMore, Zenon
  <2>10. labels' = z
    BY <2>1, <2>4, <2>7
  <2>11. Len(labels) \in Nat
    BY <1>1
  <2>12. /\ z \in Seq(Label) /\ Len(z) = Len(labels) + 1 + (IF r.chain # 0 THEN 1 ELSE 0)
         /\ \A i \in 1..Len(labels) : z[i] = labels[i]
         /\ z[Len(labels) + 1] = Observation(s, at)
         /\ r.chain # 0 => z[Len(z)] = Continuity(s, r, at, 0)
    BY <2>3, <2>6, <2>9, <2>11 DEF OneMore
  <2> QED
    BY <1>3, <2>10, <2>11, <2>12 DEF Grows
<1>4. CASE ~ New(o)
  <2>1. labels' = labels /\ Len(labels) \in Nat
    BY <1>1, <1>4 DEF CommitUndigestible, New
  <2> QED
    BY <1>1, <1>4, <2>1 DEF Grows
<1> QED
  BY <1>3, <1>4

-----------------------------------------------------------------------------
(* The row a commit leaves.                                                 *)

LEMMA ServedRow ==
    ASSUME Bounded, NEW o \in Observers, CommitServed(o)
    PROVE  /\ row' \in Row /\ row'.chain <= Len(labels')
           /\ row'.subject = Subject(item[o].list) /\ row'.status = "ok" /\ row'.failureReported = FALSE
           /\ row'.chain = IF Linked(o) THEN Len(labels')
                           ELSE IF state[o].chain = 0 /\ New(o) THEN Len(labels) + 1 ELSE row.chain
           /\ row'.since = IF New(o) THEN item[o].at ELSE row.since
           /\ row'.scanSets = IF Scanned(o) THEN sets[o] ELSE row.scanSets
           /\ row'.matches = IF Scanned(o) THEN Subject(item[o].list).toolset ELSE row.matches
<1> DEFINE s == Subject(item[o].list)
           at == item[o].at
<1>1. /\ row \in Row /\ s \in Subjects /\ at \in Nat /\ sets[o] \in Nat /\ labels \in Seq(Label)
      /\ row.chain <= Len(labels) /\ Len(labels) \in Nat /\ item[o].list \in Lists
  BY InTransaction DEF CommitServed, Bounded, TypeOK
<1>2. Grows(s, at, state[o], New(o), Scanned(o), Linked(o))
  BY ServedGrows
<1>3. Len(labels') \in Nat /\ (Linked(o) => Len(labels') >= 1) /\ Len(labels) <= Len(labels')
      /\ (New(o) => Len(labels) + 1 <= Len(labels'))
  BY <1>1, <1>2, FlagsAreBoolean, GrowsBounds
<1> DEFINE links == state[o].chain # 0 /\ (s # state[o].subject \/ ContinuityDue(state[o], at))
           scanned == scan[o] = "done" /\ (s # state[o].subject \/ state[o].scanSets # sets[o])
           last == IF links THEN Len(labels') ELSE 0
           first == IF s # state[o].subject THEN Len(labels) + 1 ELSE 0
           chain == NewChain(state[o], s, at, first, last)
           linkedAt == IF links \/ (state[o].chain = 0 /\ s # state[o].subject) THEN at ELSE row.linkedAt
           since == UnchangedSince(state[o], s, at)
           scanSets == IF scanned THEN sets[o] ELSE row.scanSets
           matches == IF scanned THEN s.toolset ELSE row.matches
<1>4. row' = [row EXCEPT !.chain = chain, !.linkedAt = linkedAt, !.subject = s, !.since = since,
                         !.failureReported = FALSE, !.status = "ok", !.scanSets = scanSets, !.matches = matches]
  BY Zenon DEF CommitServed
<1>5. s.toolset \in {l.content : l \in Lists} \union {None}
  BY <1>1 DEF Subject
<1>6. links = Linked(o) /\ scanned = Scanned(o) /\ (s # state[o].subject) = New(o)
  BY DEF Linked, Scanned, New
<1>7. chain = IF Linked(o) THEN Len(labels') ELSE IF state[o].chain = 0 /\ New(o) THEN Len(labels) + 1 ELSE row.chain
  <2>1. last = (IF Linked(o) THEN Len(labels') ELSE 0) /\ first = (IF New(o) THEN Len(labels) + 1 ELSE 0)
    BY <1>6
  <2>2. chain = IF last # 0 THEN last ELSE IF state[o].chain = 0 /\ first # 0 THEN first ELSE row.chain
    BY DEF NewChain
  <2>3. (last # 0 <=> Linked(o)) /\ (first # 0 <=> New(o))
    <3> HIDE DEF last, first
    <3> QED
      BY <1>1, <1>3, <2>1, FlagsAreBoolean
  <2> HIDE DEF chain, last, first
  <2> QED
    BY <2>1, <2>2, <2>3
<1>8. since = IF New(o) THEN at ELSE row.since
  BY <1>6 DEF UnchangedSince
<1>9. scanSets = (IF Scanned(o) THEN sets[o] ELSE row.scanSets) /\ matches = (IF Scanned(o) THEN s.toolset ELSE row.matches)
  BY <1>6
<1>10. row.chain \in Nat /\ row.since \in Nat /\ row.linkedAt \in Nat /\ row.scanSets \in Nat
       /\ row.matches \in {l.content : l \in Lists} \union {None}
  BY <1>1 DEF Row
<1>11. chain \in Nat /\ linkedAt \in Nat /\ since \in Nat /\ scanSets \in Nat
       /\ matches \in {l.content : l \in Lists} \union {None} /\ chain <= Len(labels')
  BY <1>1, <1>3, <1>5, <1>7, <1>8, <1>9, <1>10
<1> HIDE DEF s, at, chain, linkedAt, since, scanSets, matches
<1>12. /\ row' \in Row /\ row'.chain = chain /\ row'.subject = s /\ row'.since = since /\ row'.failureReported = FALSE
       /\ row'.status = "ok" /\ row'.scanSets = scanSets /\ row'.matches = matches
  BY <1>1, <1>4, <1>11 DEF Row
<1> QED
  BY <1>7, <1>8, <1>9, <1>11, <1>12 DEF s, at

LEMMA UndigestibleRow ==
    ASSUME Bounded, NEW o \in Observers, CommitUndigestible(o)
    PROVE  /\ row' \in Row /\ row'.chain <= Len(labels') /\ row'.status = "undigestible"
           /\ New(o) => row'.chain = Len(labels') /\ row'.subject = Subject(item[o].list)
                          /\ row'.since = item[o].at /\ row'.failureReported = FALSE
           /\ ~ New(o) => row' = [row EXCEPT !.status = "undigestible"]
<1> DEFINE s == Subject(item[o].list)
           at == item[o].at
<1>1. /\ row \in Row /\ s \in Subjects /\ at \in Nat /\ labels \in Seq(Label)
      /\ row.chain <= Len(labels) /\ Len(labels) \in Nat
  BY InTransaction DEF CommitUndigestible, Bounded, TypeOK
<1>2. Len(labels') \in Nat /\ Len(labels) <= Len(labels')
  BY <1>1, UndigestibleGrows, FlagsAreBoolean, GrowsBounds
<1>3. CASE New(o)
  <2>1. row' = [BreaksChain(s, at, Len(labels')) EXCEPT !.status = "undigestible"]
    BY <1>3 DEF CommitUndigestible, New
  <2> HIDE DEF s, at
  <2>2. /\ row' \in Row /\ row'.chain = Len(labels') /\ row'.subject = s /\ row'.since = at
        /\ row'.failureReported = FALSE /\ row'.status = "undigestible"
    BY <1>1, <1>2, <2>1 DEF BreaksChain, Row
  <2> QED
    BY <1>2, <1>3, <2>2 DEF s, at
<1>4. CASE ~ New(o)
  <2>1. row' = [row EXCEPT !.status = "undigestible"]
    BY <1>4 DEF CommitUndigestible, New
  <2>2. row' \in Row /\ row'.chain = row.chain /\ row'.status = "undigestible"
    BY <1>1, <2>1 DEF Row
  <2> QED
    BY <1>1, <1>2, <1>4, <2>1, <2>2 DEF Row
<1> QED
  BY <1>3, <1>4

LEMMA FailureEffect ==
    ASSUME Bounded, NEW o \in Observers, CommitFailure(o)
    PROVE  /\ row' \in Row
           /\ row' = [row EXCEPT !.status = "failed",
                                 !.failureReported = IF ReportsFailure(state[o]) THEN TRUE ELSE @]
           /\ labels' \in Seq(Label) /\ Len(labels') \in Nat
           /\ ReportsFailure(state[o]) =>
                  /\ Len(labels') = Len(labels) + 1 /\ labels'[Len(labels')].kind = "outage"
                  /\ labels'[Len(labels')].at = item[o].at
           /\ ~ ReportsFailure(state[o]) => labels' = labels
           /\ \A i \in 1..Len(labels) : labels'[i] = labels[i]
           /\ UNCHANGED <<changes, shown>>
<1>1. /\ row \in Row /\ labels \in Seq(Label) /\ Len(labels) \in Nat /\ state[o] \in Row
      /\ item[o].at \in Nat /\ state[o].chain \in Nat /\ state[o].chain <= Len(labels)
  <2>1. item[o] \in [list : Lists \union {None}, at : 0..MaxTime] /\ state[o] \in Row
    BY DEF Bounded, TypeOK
  <2>2. item[o].at \in 0..MaxTime
    BY <2>1
  <2>3. item[o].at \in Nat
    BY <2>2, LabelChainAssumption
  <2>4. row \in Row /\ labels \in Seq(Label) /\ state[o].chain <= Len(labels)
    BY DEF Bounded, TypeOK
  <2> QED
    BY <2>1, <2>3, <2>4, LenProperties DEF Row
<1>2. row' = [row EXCEPT !.status = "failed",
                         !.failureReported = IF ReportsFailure(state[o]) THEN TRUE ELSE @]
  BY Zenon DEF CommitFailure
<1>3. row' \in Row
  BY <1>1, <1>2 DEF Row
<1>4. CASE ReportsFailure(state[o])
  <2>1. labels' = Append(labels, Outage(state[o], item[o].at))
    BY <1>4 DEF CommitFailure
  <2>2. state[o].chain \in 1..Len(labels)
    BY <1>1, <1>4 DEF ReportsFailure
  <2>3. /\ Outage(state[o], item[o].at) \in Label /\ Outage(state[o], item[o].at).kind = "outage"
        /\ Outage(state[o], item[o].at).at = item[o].at
    BY <1>1, <2>2, OutageIsLabel
  <2>4. PICK new : new = Outage(state[o], item[o].at)
    OBVIOUS
  <2>5. PICK l : l = Append(labels, new)
    OBVIOUS
  <2>6. /\ l \in Seq(Label) /\ Len(l) = Len(labels) + 1 /\ l[Len(labels) + 1] = new
        /\ \A i \in 1..Len(labels) : l[i] = labels[i]
    BY <1>1, <2>3, <2>4, <2>5, AppendProperties
  <2>7. labels' = l /\ new.kind = "outage" /\ new.at = item[o].at
    BY <2>1, <2>3, <2>4, <2>5
  <2> QED
    BY <1>1, <1>2, <1>3, <1>4, <2>6, <2>7 DEF CommitFailure
<1>5. CASE ~ ReportsFailure(state[o])
  BY <1>1, <1>2, <1>3, <1>5 DEF CommitFailure
<1> QED
  BY <1>4, <1>5

-----------------------------------------------------------------------------
(* Types.                                                                   *)

\* The observers' part of TypeOK.
ObserversType ==
    /\ step \in [Observers -> {"idle", "started", "observed", "scanned", "reading"}]
    /\ sets \in [Observers -> 0..MaxRuleSets]
    /\ item \in [Observers -> [list : Lists \union {None}, at : 0..MaxTime]]
    /\ scan \in [Observers -> {"none", "done", "failed"}]
    /\ state \in [Observers -> Row]
    /\ writer \in Observers \union {None}
    /\ overlapped \in BOOLEAN

LEMMA DoneIsTyped ==
    ASSUME Bounded, NEW o \in Observers, Done(o)
    PROVE  /\ ObserversType' /\ UNCHANGED <<now, rules, overlapped>>
           /\ \A u \in Observers : step'[u] \in Active => u # o /\ step[u] \in Active /\ item'[u] = item[u]
           /\ \A u \in Observers : u # o => state'[u] = state[u]
           /\ step'[o] = "idle" /\ state'[o] = Unseen /\ scan'[o] = "none"
<1>1. Unseen \in Row /\ Nothing \in [list : Lists \union {None}, at : 0..MaxTime]
  BY LabelChainAssumption DEF Unseen, Row, Nothing
<1>2. ObserversType
  BY DEF Bounded, TypeOK, ObserversType
<1> HIDE DEF Unseen, Nothing
<1>3. ObserversType'
  BY <1>1, <1>2, LabelChainAssumption DEF Done, ObserversType
<1> QED
  BY <1>2, <1>3 DEF Done, ObserversType, Active

Change == [from : Subjects, to : Subjects, label : Nat]
Shown == [subject : Subjects, at : Nat]

LEMMA BoundedByCommit ==
    ASSUME Bounded, NEW o \in Observers, Done(o), row' \in Row, labels' \in Seq(Label),
           Len(labels) <= Len(labels'), row'.chain <= Len(labels'),
           changes' \in Seq(Change), shown' \in Seq(Shown)
    PROVE  Bounded'
<1>1. /\ ObserversType' /\ UNCHANGED <<now, rules, overlapped>>
      /\ \A u \in Observers : step'[u] \in Active => u # o /\ step[u] \in Active /\ item'[u] = item[u]
      /\ \A u \in Observers : u # o => state'[u] = state[u]
      /\ state'[o] = Unseen
  BY DoneIsTyped
<1>2. TypeOK'
  BY <1>1 DEF ObserversType, Bounded, TypeOK, Change, Shown
<1>3. Len(labels) \in Nat /\ Len(labels') \in Nat
  BY LenProperties DEF Bounded, TypeOK
<1>4. \A u \in Observers : state'[u].chain <= Len(labels')
  <2> SUFFICES ASSUME NEW u \in Observers PROVE state'[u].chain <= Len(labels')
    OBVIOUS
  <2>1. CASE u = o
    BY <1>1, <1>3, <2>1 DEF Unseen
  <2>2. CASE u # o
    <3>1. state[u].chain \in Nat /\ state[u].chain <= Len(labels)
      BY DEF Bounded, TypeOK, Row
    <3>2. state'[u] = state[u]
      BY <1>1, <2>2
    <3> QED
      BY <1>3, <3>1, <3>2
  <2> QED
    BY <2>1, <2>2
<1>5. \A u \in Observers : step'[u] \in Active => item'[u].at \in 1..now'
  BY <1>1 DEF Bounded
<1> QED
  BY <1>2, <1>4, <1>5 DEF Bounded

LEMMA BoundedInit == Init => Bounded
<1> SUFFICES ASSUME Init PROVE Bounded
  OBVIOUS
<1>1. Unseen \in Row /\ Unseen.chain = 0 /\ Nothing \in [list : Lists \union {None}, at : 0..MaxTime]
  BY LabelChainAssumption DEF Unseen, Row, Nothing
<1>2. labels \in Seq(Label) /\ Len(labels) = 0 /\ changes \in Seq([from : Subjects, to : Subjects, label : Nat])
      /\ shown \in Seq([subject : Subjects, at : Nat])
  BY DEF Init
<1> HIDE DEF Unseen, Nothing
<1>3. 0 \in 0..MaxRuleSets /\ 1 \in 1..MaxTime /\ 1 \in 1..MaxRuleSets
  BY LabelChainAssumption
<1>4. TypeOK
  BY <1>1, <1>2, <1>3 DEF Init, TypeOK
<1> QED
  BY <1>1, <1>2, <1>4 DEF Init, Bounded, Active

LEMMA BoundedByOthers ==
    ASSUME Bounded, Tick \/ PublishRules \/ UNCHANGED vars \/ \E o \in Observers : Observing(o)
    PROVE  Bounded'
<1> USE LabelChainAssumption
<1>1. CASE Tick
  BY <1>1 DEF Tick, Bounded, TypeOK, table, observer
<1>2. CASE PublishRules
  BY <1>2 DEF PublishRules, Bounded, TypeOK, table, observer
<1>3. CASE UNCHANGED vars
  BY <1>3 DEF vars, Bounded, TypeOK, table, observer
<1>4. ASSUME NEW o \in Observers, StartRun(o) PROVE Bounded'
  BY <1>4 DEF StartRun, Bounded, TypeOK, table, Active
<1>5. ASSUME NEW o \in Observers, Observe(o) PROVE Bounded'
  <2>1. item' \in [Observers -> [list : Lists \union {None}, at : 0..MaxTime]]
    BY <1>5 DEF Observe, Bounded, TypeOK
  <2>2. \A u \in Observers : step'[u] \in Active => item'[u].at \in 1..now
    BY <1>5 DEF Observe, Bounded, TypeOK
  <2>3. step' \in [Observers -> {"idle", "started", "observed", "scanned", "reading"}] /\ overlapped' \in BOOLEAN
    BY <1>5 DEF Observe, Bounded, TypeOK
  <2> QED
    BY <1>5, <2>1, <2>2, <2>3 DEF Observe, Bounded, TypeOK, table
<1>6. ASSUME NEW o \in Observers, Scan(o) PROVE Bounded'
  BY <1>6 DEF Scan, Bounded, TypeOK, table, Active
<1>7. ASSUME NEW o \in Observers, ReadRow(o) PROVE Bounded'
  BY <1>7 DEF ReadRow, Bounded, TypeOK, table, Active
<1>8. ASSUME NEW o \in Observers, Lose(o) PROVE Bounded'
  <2>1. Done(o) /\ UNCHANGED table
    BY <1>8 DEF Lose
  <2>2. /\ row' \in Row /\ labels' \in Seq(Label) /\ row'.chain <= Len(labels')
        /\ changes' \in Seq(Change) /\ shown' \in Seq(Shown)
    BY <2>1 DEF table, Bounded, TypeOK, Change, Shown
  <2>3. Len(labels) <= Len(labels')
    BY <2>1, LenProperties DEF table, Bounded, TypeOK
  <2> QED
    BY <2>1, <2>2, <2>3, BoundedByCommit
<1> QED
  BY <1>1, <1>2, <1>3, <1>4, <1>5, <1>6, <1>7, <1>8 DEF Observing

LEMMA BoundedByCommits ==
    ASSUME Bounded, NEW o \in Observers, Committing(o)
    PROVE  Bounded'
<1>1. /\ row \in Row /\ labels \in Seq(Label) /\ Len(labels) \in Nat /\ row.chain \in Nat /\ row.chain <= Len(labels)
      /\ changes \in Seq(Change) /\ shown \in Seq(Shown)
  BY LenProperties DEF Bounded, TypeOK, Row, Change, Shown
<1>2. CASE CommitInternal(o)
  <2>1. Done(o) /\ UNCHANGED table
    BY <1>2 DEF CommitInternal
  <2> QED
    BY <1>1, <2>1, BoundedByCommit DEF table
<1>3. CASE CommitFailure(o)
  <2>1. Done(o) /\ row.chain = row'.chain
    BY <1>1, <1>3, FailureEffect DEF CommitFailure, Row
  <2>2. /\ row' \in Row /\ labels' \in Seq(Label) /\ Len(labels') \in Nat /\ UNCHANGED <<changes, shown>>
        /\ Len(labels') = Len(labels) + 1 \/ labels' = labels
    BY <1>3, FailureEffect
  <2>3. Len(labels) <= Len(labels') /\ row'.chain <= Len(labels')
    BY <1>1, <2>1, <2>2
  <2> QED
    BY <1>1, <2>1, <2>2, <2>3, BoundedByCommit
<1>4. ASSUME CommitUndigestible(o) \/ CommitServed(o)
      PROVE  /\ item[o].list # None /\ step[o] = "reading" /\ Done(o)
             /\ shown' = Append(shown, [subject |-> Subject(item[o].list), at |-> item[o].at])
             /\ \/ UNCHANGED changes
                \/ /\ state[o].subject # None
                   /\ \E n \in {Len(labels'), IF Linked(o) THEN Len(labels') ELSE 0} :
                         changes' = Append(changes, [from |-> state[o].subject, to |-> Subject(item[o].list), label |-> n])
  <2>1. CASE CommitUndigestible(o)
    BY <2>1 DEF CommitUndigestible, Serves, RecordChange
  <2>2. CASE CommitServed(o)
    BY <2>2 DEF CommitServed, Serves, RecordChange, Linked, New
  <2> QED
    BY <1>4, <2>1, <2>2
<1>5. ASSUME CommitUndigestible(o) \/ CommitServed(o)
      PROVE  /\ row' \in Row /\ labels' \in Seq(Label) /\ row'.chain <= Len(labels')
             /\ Len(labels) <= Len(labels') /\ Len(labels') \in Nat
  <2>1. CASE CommitUndigestible(o)
    <3>1. Grows(Subject(item[o].list), item[o].at, state[o], New(o), FALSE, New(o) /\ state[o].chain # 0)
      BY <2>1, UndigestibleGrows
    <3>2. Len(labels) <= Len(labels') /\ Len(labels') \in Nat
      <4>1. (New(o) /\ state[o].chain # 0) \in BOOLEAN
        OBVIOUS
      <4> QED
        BY <1>1, <3>1, <4>1, FlagsAreBoolean, GrowsBounds
    <3>3. labels' \in Seq(Label)
      BY <3>1, Zenon DEF Grows
    <3>4. row' \in Row /\ row'.chain <= Len(labels')
      BY <2>1, UndigestibleRow
    <3> QED
      BY <3>2, <3>3, <3>4
  <2>2. CASE CommitServed(o)
    <3>1. Grows(Subject(item[o].list), item[o].at, state[o], New(o), Scanned(o), Linked(o))
      BY <2>2, ServedGrows
    <3>2. Len(labels) <= Len(labels') /\ Len(labels') \in Nat
      BY <1>1, <3>1, FlagsAreBoolean, GrowsBounds
    <3>3. labels' \in Seq(Label)
      BY <3>1, Zenon DEF Grows
    <3>4. row' \in Row /\ row'.chain <= Len(labels')
      BY <2>2, ServedRow
    <3> QED
      BY <3>2, <3>3, <3>4
  <2> QED
    BY <1>5, <2>1, <2>2
<1>6. CASE CommitUndigestible(o) \/ CommitServed(o)
  <2>1. Subject(item[o].list) \in Subjects /\ item[o].at \in Nat /\ state[o] \in Row
    BY <1>4, <1>6, InTransaction
  <2>2. shown' \in Seq(Shown)
    <3>1. [subject |-> Subject(item[o].list), at |-> item[o].at] \in Shown
      BY <2>1 DEF Shown
    <3> QED
      BY <1>1, <1>4, <1>6, <3>1, AppendProperties
  <2>3. changes' \in Seq(Change)
    <3>1. CASE UNCHANGED changes
      BY <1>1, <3>1
    <3>2. CASE ~ UNCHANGED changes
      <4>1. PICK n \in {Len(labels'), IF Linked(o) THEN Len(labels') ELSE 0} :
               changes' = Append(changes, [from |-> state[o].subject, to |-> Subject(item[o].list), label |-> n])
        BY <1>4, <1>6, <3>2
      <4>2. n \in Nat
        BY <1>5, <1>6
      <4>3. state[o].subject \in Subjects
        BY <1>4, <1>6, <2>1, <3>2 DEF Row
      <4>4. [from |-> state[o].subject, to |-> Subject(item[o].list), label |-> n] \in Change
        BY <2>1, <4>2, <4>3 DEF Change
      <4> QED
        BY <1>1, <4>1, <4>4, AppendProperties
    <3> QED
      BY <3>1, <3>2
  <2> QED
    BY <1>4, <1>5, <1>6, <2>2, <2>3, BoundedByCommit
<1> QED
  BY <1>2, <1>3, <1>6 DEF Committing

LEMMA BoundedStep == Bounded /\ [Next]_vars => Bounded'
BY BoundedByOthers, BoundedByCommits DEF Next

\* What every step keeps the types of.
THEOREM TypeCorrect == Spec => []TypeOK
<1>1. Spec => []Bounded
  BY BoundedInit, BoundedStep, PTL DEF Spec
<1>2. Bounded => TypeOK
  BY DEF Bounded
<1> QED
  BY <1>1, <1>2, PTL

-----------------------------------------------------------------------------
(* Serial commits.                                                          *)

LEMMA SerializedInit == Init => Serialized /\ ScanInv
BY DEF Init, Serialized, ScanInv, Active

\* A transaction that ends: it had the row to itself, or left it alone.
LEMMA SerializedByEnd ==
    ASSUME Bounded, Serialized, ScanInv, NEW o \in Observers, Done(o),
           step[o] = "reading" \/ row' = row
    PROVE  Serialized' /\ ScanInv'
<1>1. /\ \A u \in Observers : step'[u] \in Active => u # o /\ step[u] \in Active /\ item'[u] = item[u]
      /\ \A u \in Observers : u # o => state'[u] = state[u]
      /\ step'[o] = "idle" /\ state'[o] = Unseen /\ scan'[o] = "none" /\ overlapped' = overlapped
  BY DoneIsTyped
<1>2. \A u \in Observers : u # o => step'[u] = step[u] /\ scan'[u] = scan[u] /\ sets'[u] = sets[u] /\ item'[u] = item[u]
  BY DEF Done, Bounded, TypeOK
<1>3. WriteLock => \A u \in Observers : step'[u] = "reading" => writer' = u
  BY <1>1, <1>2 DEF Done, Serialized
<1>4. ~ overlapped' => \A t, u \in Observers : step'[t] \in Active /\ step'[u] \in Active => t = u
  BY <1>1 DEF Serialized
<1>5. Serial' => \A u \in Observers : step'[u] = "reading" => state'[u] = row'
  <2> SUFFICES ASSUME Serial', NEW u \in Observers, step'[u] = "reading" PROVE state'[u] = row'
    OBVIOUS
  <2>1. u # o /\ step[u] = "reading" /\ state'[u] = state[u] /\ Serial
    BY <1>1, <1>2 DEF Serial
  <2>2. state[u] = row
    BY <2>1 DEF Serialized
  <2>3. step[o] # "reading"
    BY <2>1 DEF Serial, Serialized, Active
  <2> QED
    BY <2>1, <2>2, <2>3
<1>6. ScanInv'
  <2> SUFFICES ASSUME NEW u \in Observers
               PROVE  /\ step'[u] \in {"idle", "started", "observed"} => scan'[u] = "none"
                      /\ step'[u] = "reading" => scan'[u] # "failed"
                      /\ ~ overlapped' /\ step'[u] \in {"scanned", "reading"} /\ item'[u].list # None /\ scan'[u] # "failed" =>
                            (scan'[u] = "done" <=> NeedsScan(item'[u].list, row', sets'[u]))
    BY DEF ScanInv
  <2>1. CASE u = o
    BY <1>1, <2>1
  <2>2. CASE u # o
    <3>1. ~ overlapped /\ step[u] \in {"scanned", "reading"} => row' = row
      BY <2>2 DEF Serialized, Active
    <3> QED
      BY <1>1, <1>2, <2>2, <3>1 DEF ScanInv
  <2> QED
    BY <2>1, <2>2
<1> QED
  BY <1>3, <1>4, <1>5, <1>6 DEF Serialized

LEMMA SerializedStep ==
    ASSUME Bounded, Serialized, ScanInv, [Next]_vars
    PROVE  Serialized' /\ ScanInv'
<1>1. CASE Tick \/ PublishRules \/ UNCHANGED vars
  <2>1. UNCHANGED <<row, step, sets, item, scan, state, writer, overlapped>>
    BY <1>1 DEF Tick, PublishRules, vars, table, observer
  <2> QED
    BY <2>1 DEF Serialized, ScanInv, Serial, NeedsScan
<1>2. ASSUME NEW o \in Observers, StartRun(o) PROVE Serialized' /\ ScanInv'
  <2>1. /\ step[o] = "idle" /\ step'[o] = "started" /\ UNCHANGED <<row, item, scan, state, writer, overlapped>>
        /\ \A u \in Observers : u # o => step'[u] = step[u] /\ sets'[u] = sets[u]
    BY <1>2 DEF StartRun, Bounded, TypeOK, table
  <2>2. Serialized'
    BY <2>1 DEF Serialized, Serial, Active
  <2>3. ScanInv'
    BY <2>1 DEF ScanInv
  <2> QED
    BY <2>2, <2>3
<1>3. ASSUME NEW o \in Observers, Observe(o) PROVE Serialized' /\ ScanInv'
  <2>1. /\ step[o] = "started" /\ step'[o] = "observed" /\ UNCHANGED <<row, sets, scan, state, writer>>
        /\ \A u \in Observers : u # o => step'[u] = step[u] /\ item'[u] = item[u]
        /\ ~ overlapped' => ~ overlapped /\ \A u \in Observers : step[u] \notin Active
    BY <1>3 DEF Observe, Bounded, TypeOK, table, Active
  <2>2. Serialized'
    BY <2>1 DEF Serialized, Serial, Active
  <2>3. ScanInv'
    BY <2>1 DEF ScanInv
  <2> QED
    BY <2>2, <2>3
<1>4. ASSUME NEW o \in Observers, Scan(o) PROVE Serialized' /\ ScanInv'
  <2>1. /\ step[o] = "observed" /\ step'[o] = "scanned" /\ UNCHANGED <<row, sets, item, state, writer, overlapped>>
        /\ \A u \in Observers : u # o => step'[u] = step[u] /\ scan'[u] = scan[u]
    BY <1>4 DEF Scan, Bounded, TypeOK, table
  <2>2. IF item[o].list # None /\ NeedsScan(item[o].list, row, sets[o]) THEN scan'[o] \in {"done", "failed"} ELSE scan'[o] = "none"
    BY <1>4 DEF Scan, Bounded, TypeOK, ScanInv
  <2>3. Serialized'
    BY <2>1 DEF Serialized, Serial, Active
  <2>4. ScanInv'
    BY <2>1, <2>2 DEF ScanInv, NeedsScan
  <2> QED
    BY <2>3, <2>4
<1>5. ASSUME NEW o \in Observers, ReadRow(o) PROVE Serialized' /\ ScanInv'
  <2>1. /\ step[o] = "scanned" /\ step'[o] = "reading" /\ UNCHANGED <<row, sets, item, scan, overlapped>>
        /\ scan[o] # "failed" /\ writer = None /\ state'[o] = row /\ (WriteLock => writer' = o)
        /\ \A u \in Observers : u # o => step'[u] = step[u] /\ state'[u] = state[u]
    BY <1>5 DEF ReadRow, Bounded, TypeOK, table
  <2>2. WriteLock => \A u \in Observers : step[u] # "reading"
    BY <2>1, LabelChainAssumption DEF Serialized
  <2>3. Serialized'
    BY <2>1, <2>2 DEF Serialized, Serial, Active
  <2>4. ScanInv'
    BY <2>1 DEF ScanInv, NeedsScan
  <2> QED
    BY <2>3, <2>4
<1>6. ASSUME NEW o \in Observers, Lose(o) PROVE Serialized' /\ ScanInv'
  <2>1. Done(o) /\ row' = row
    BY <1>6 DEF Lose, table
  <2> QED
    BY <2>1, SerializedByEnd
<1>7. ASSUME NEW o \in Observers, Committing(o) PROVE Serialized' /\ ScanInv'
  <2>1. Done(o) /\ (step[o] = "reading" \/ row' = row)
    BY <1>7 DEF Committing, CommitInternal, CommitFailure, CommitUndigestible, CommitServed, table
  <2> QED
    BY <2>1, SerializedByEnd
<1> QED
  BY <1>1, <1>2, <1>3, <1>4, <1>5, <1>6, <1>7 DEF Next, Observing

-----------------------------------------------------------------------------
(* The one form of a commit that records the list s, observed at the time   *)
(* at, where what it read is the row.                                       *)

IsNew(s) == s # row.subject

Records(s, at, links) ==
    /\ labels' \in Seq(Label) /\ Len(labels') \in Nat /\ Len(labels) \in Nat /\ Len(labels) <= Len(labels')
    /\ \A i \in 1..Len(labels) : labels'[i] = labels[i]
    /\ \A i \in 1..Len(labels') : i > Len(labels) =>
          /\ labels'[i].at = at /\ labels'[i].kind # "outage"
          /\ labels'[i].kind = "continuity" => links /\ i = Len(labels')
    /\ links =>
          /\ row.chain # 0 /\ Len(labels) < Len(labels')
          /\ labels'[Len(labels')] = Continuity(s, row, at, IF IsNew(s) THEN 0 ELSE row.since)
    /\ IsNew(s) =>
          /\ Len(labels) < Len(labels') /\ (row.chain # 0 => links)
          /\ labels'[Len(labels) + 1] = Observation(s, at)
    /\ row'.chain = IF links THEN Len(labels') ELSE IF row.chain = 0 /\ IsNew(s) THEN Len(labels) + 1 ELSE row.chain
    /\ row'.subject = s
    /\ row'.since = IF IsNew(s) THEN at ELSE row.since
    /\ shown' = Append(shown, [subject |-> s, at |-> at])
    /\ changes' = IF links /\ Moved(<<row.subject, s>>)
                  THEN Append(changes, [from |-> row.subject, to |-> s, label |-> Len(labels')])
                  ELSE changes

\* Of the labels a commit appends, only the last may be of the chain.
LEMMA AppendedKinds ==
    ASSUME labels \in Seq(Label), NEW s \in Subjects, NEW at \in Nat, NEW r \in Row, r.chain # 0 => r.chain \in 1..Len(labels),
           NEW new \in BOOLEAN, NEW scanned \in BOOLEAN, NEW links \in BOOLEAN, links => r.chain # 0,
           Grows(s, at, r, new, scanned, links)
    PROVE  \A i \in 1..Len(labels') : i > Len(labels) =>
              /\ labels'[i].at = at /\ labels'[i].kind # "outage"
              /\ labels'[i].kind = "continuity" => links /\ i = Len(labels')
<1>1. Len(labels) \in Nat /\ Len(labels') \in Nat
  BY GrowsBounds
<1>2. PICK m, n \in Nat : m = Len(labels) /\ n = Len(labels')
  BY <1>1
<1>3. /\ n = m + (IF new THEN 1 ELSE 0) + (IF scanned THEN 1 ELSE 0) + (IF links THEN 1 ELSE 0)
      /\ new => labels'[m + 1] = Observation(s, at)
      /\ scanned => labels'[m + (IF new THEN 2 ELSE 1)] = WardenLabels(s, at)[1]
      /\ links => labels'[n] = Continuity(s, r, at, IF new THEN 0 ELSE r.since)
  BY <1>2, Zenon DEF Grows
<1>4. /\ Observation(s, at).kind = "observation" /\ Observation(s, at).at = at
      /\ WardenLabels(s, at)[1].kind = "scan" /\ WardenLabels(s, at)[1].at = at
  BY EntriesAreLabels
<1>5. links => /\ Continuity(s, r, at, IF new THEN 0 ELSE r.since).kind = "continuity"
               /\ Continuity(s, r, at, IF new THEN 0 ELSE r.since).at = at
  <2>1. (IF new THEN 0 ELSE r.since) \in Nat
    BY DEF Row
  <2> QED
    BY <2>1, ContinuityIsLabel
<1> SUFFICES ASSUME NEW i \in 1..n, i > m
             PROVE  /\ labels'[i].at = at /\ labels'[i].kind # "outage"
                    /\ labels'[i].kind = "continuity" => links /\ i = n
  BY <1>2
<1>6. CASE i = m + 1 /\ new
  BY <1>3, <1>4, <1>6
<1>7. CASE scanned /\ i = m + (IF new THEN 2 ELSE 1)
  BY <1>3, <1>4, <1>7
<1>8. CASE links /\ i = n
  BY <1>3, <1>5, <1>8
<1>9. (i = m + 1 /\ new) \/ (scanned /\ i = m + (IF new THEN 2 ELSE 1)) \/ (links /\ i = n)
  <2>1. n = m + (IF new THEN 1 ELSE 0) + (IF scanned THEN 1 ELSE 0) + (IF links THEN 1 ELSE 0)
    BY <1>3
  <2>2. CASE new
    BY <2>1, <2>2
  <2>3. CASE ~ new
    BY <2>1, <2>3
  <2> QED
    BY <2>2, <2>3
<1> QED
  BY <1>6, <1>7, <1>8, <1>9

\* The row names a list exactly when it has a chain.
LEMMA ChainHasSubject ==
    ASSUME Bounded, ChainNamesCurrentSubject
    PROVE  row.chain # 0 <=> row.subject # None
<1>1. row.chain # 0 => row.chain \in 1..Len(labels) /\ labels[row.chain] \in Label
  BY LenProperties DEF Bounded, TypeOK, Row
<1>2. \A l \in Label : l.subject \in Subjects
  BY DEF Label
<1> QED
  BY <1>1, <1>2, NullAssumption DEF ChainNamesCurrentSubject

LEMMA CommitRecords ==
    ASSUME Bounded, Serialized, Serial, ChainNamesCurrentSubject,
           NEW o \in Observers, CommitUndigestible(o) \/ CommitServed(o)
    PROVE  \E links \in BOOLEAN : Records(Subject(item[o].list), item[o].at, links)
<1> DEFINE s == Subject(item[o].list)
           at == item[o].at
<1>1. step[o] = "reading" /\ item[o].list # None /\ labels \in Seq(Label)
  BY DEF CommitUndigestible, CommitServed, Bounded, TypeOK
<1>2. state[o] = row
  BY <1>1 DEF Serialized
<1>3. /\ s \in Subjects /\ at \in Nat /\ row \in Row /\ (row.chain # 0 => row.chain \in 1..Len(labels))
  BY <1>1, <1>2, InTransaction
<1>4. row.chain # 0 <=> row.subject # None
  BY ChainHasSubject
<1>5. New(o) = IsNew(s)
  BY <1>2 DEF New, IsNew
<1>6. IsNew(s) /\ row.chain # 0 => (Moved(<<row.subject, s>>) <=> ~ OnlyGainsDigest(row, s))
  BY DEF Moved, OnlyGainsDigest, IsNew
<1>7. shown' = Append(shown, [subject |-> s, at |-> at])
  BY DEF CommitUndigestible, CommitServed, Serves
<1>8. CASE CommitServed(o)
  <2>1. Grows(s, at, row, New(o), Scanned(o), Linked(o))
    BY <1>2, <1>8, ServedGrows
  <2>2. /\ row'.subject = s
        /\ row'.chain = IF Linked(o) THEN Len(labels') ELSE IF row.chain = 0 /\ New(o) THEN Len(labels) + 1 ELSE row.chain
        /\ row'.since = IF New(o) THEN at ELSE row.since
    BY <1>2, <1>8, ServedRow
  <2>3. /\ Len(labels) \in Nat /\ Len(labels') \in Nat /\ Len(labels) <= Len(labels')
        /\ (New(o) \/ Scanned(o) \/ Linked(o)) => Len(labels) + 1 <= Len(labels')
    BY <1>1, <2>1, FlagsAreBoolean, GrowsBounds
  <2>4. Linked(o) => row.chain # 0
    BY <1>2 DEF Linked
  <2>5. \A i \in 1..Len(labels') : i > Len(labels) =>
           /\ labels'[i].at = at /\ labels'[i].kind # "outage"
           /\ labels'[i].kind = "continuity" => Linked(o) /\ i = Len(labels')
    <3> HIDE DEF s, at
    <3> QED
      BY <1>1, <1>3, <2>1, <2>4, FlagsAreBoolean, AppendedKinds
  <2>6. New(o) => (row.chain # 0 => Linked(o))
    BY <1>2 DEF Linked
  <2>7. changes' = IF Linked(o) /\ Moved(<<row.subject, s>>)
                   THEN Append(changes, [from |-> row.subject, to |-> s, label |-> Len(labels')]) ELSE changes
    <3>1. changes' = IF Linked(o) /\ New(o) /\ row.subject # None /\ ~ OnlyGainsDigest(row, s)
                     THEN Append(changes, [from |-> row.subject, to |-> s, label |-> IF Linked(o) THEN Len(labels') ELSE 0])
                     ELSE changes
      BY <1>2, <1>8 DEF CommitServed, RecordChange, Linked, New
    <3>2. Moved(<<row.subject, s>>) => IsNew(s)
      BY DEF Moved, IsNew
    <3> HIDE DEF s
    <3>3. (Linked(o) /\ New(o) /\ row.subject # None /\ ~ OnlyGainsDigest(row, s)) <=> (Linked(o) /\ Moved(<<row.subject, s>>))
      BY <1>4, <1>5, <1>6, <2>4, <3>2
    <3> QED
      BY <3>1, <3>3
  <2>8. Records(s, at, Linked(o))
    <3>1. /\ labels' \in Seq(Label) /\ \A i \in 1..Len(labels) : labels'[i] = labels[i]
          /\ New(o) => labels'[Len(labels) + 1] = Observation(s, at)
          /\ Linked(o) => labels'[Len(labels')] = Continuity(s, row, at, IF New(o) THEN 0 ELSE row.since)
      BY <2>1, Zenon DEF Grows
    <3> HIDE DEF s, at
    <3>2. (New(o) \/ Linked(o)) => Len(labels) < Len(labels')
      BY <2>3
    <3> QED
      BY <1>5, <1>7, <2>2, <2>3, <2>4, <2>5, <2>6, <2>7, <3>1, <3>2, Zenon DEF Records
  <2> QED
    BY <2>8, FlagsAreBoolean
<1>9. CASE CommitUndigestible(o)
  <2> DEFINE links == New(o) /\ row.chain # 0
  <2>1. Grows(s, at, row, New(o), FALSE, links)
    BY <1>2, <1>9, UndigestibleGrows
  <2>2. links \in BOOLEAN /\ New(o) \in BOOLEAN
    BY FlagsAreBoolean
  <2> HIDE DEF links
  <2>3. /\ Len(labels) \in Nat /\ Len(labels') \in Nat /\ Len(labels) <= Len(labels')
        /\ (New(o) \/ links) => Len(labels) + 1 <= Len(labels')
    BY <1>1, <2>1, <2>2, GrowsBounds
  <2>4. links => row.chain # 0
    BY DEF links
  <2>5. \A i \in 1..Len(labels') : i > Len(labels) =>
           /\ labels'[i].at = at /\ labels'[i].kind # "outage"
           /\ labels'[i].kind = "continuity" => links /\ i = Len(labels')
    <3> HIDE DEF s, at
    <3> QED
      BY <1>1, <1>3, <2>1, <2>2, <2>4, AppendedKinds
  <2>6. New(o) => (row.chain # 0 => links)
    BY DEF links
  <2>7. New(o) /\ ~ links => Len(labels') = Len(labels) + 1
    BY <2>1, <2>3 DEF Grows
  <2>8. /\ row'.subject = s
        /\ row'.chain = IF links THEN Len(labels') ELSE IF row.chain = 0 /\ New(o) THEN Len(labels) + 1 ELSE row.chain
        /\ row'.since = IF New(o) THEN at ELSE row.since
    <3>1. CASE New(o)
      BY <1>9, <2>6, <2>7, <3>1, UndigestibleRow
    <3>2. CASE ~ New(o)
      <4>1. row' = [row EXCEPT !.status = "undigestible"]
        BY <1>9, <3>2, UndigestibleRow
      <4>2. row'.subject = row.subject /\ row'.chain = row.chain /\ row'.since = row.since
        BY <1>3, <4>1 DEF Row
      <4>3. ~ links /\ row.subject = s
        BY <1>5, <3>2 DEF links, IsNew
      <4> QED
        BY <3>2, <4>2, <4>3
    <3> QED
      BY <3>1, <3>2
  <2>9. changes' = IF links /\ Moved(<<row.subject, s>>)
                   THEN Append(changes, [from |-> row.subject, to |-> s, label |-> Len(labels')]) ELSE changes
    <3>1. changes' = IF New(o) /\ row.subject # None
                     THEN Append(changes, [from |-> row.subject, to |-> s, label |-> Len(labels')])
                     ELSE changes
      BY <1>2, <1>9 DEF CommitUndigestible, RecordChange, New
    <3>2. s.toolset = None
      <4>1. item[o].list.refusal = "MTL-SUBJ-001"
        BY <1>9 DEF CommitUndigestible, Refused
      <4>2. item[o].list.refusal # None
        BY <4>1, LabelChainAssumption
      <4> QED
        BY <4>2 DEF Subject
    <3>3. Moved(<<row.subject, s>>) <=> IsNew(s)
      BY <3>2 DEF Moved, IsNew
    <3> HIDE DEF s
    <3> QED
      BY <1>4, <1>5, <3>1, <3>3 DEF links
  <2>10. Records(s, at, links)
    <3>1. /\ labels' \in Seq(Label) /\ \A i \in 1..Len(labels) : labels'[i] = labels[i]
          /\ New(o) => labels'[Len(labels) + 1] = Observation(s, at)
          /\ links => labels'[Len(labels')] = Continuity(s, row, at, IF New(o) THEN 0 ELSE row.since)
      BY <2>1, Zenon DEF Grows
    <3> HIDE DEF s, at
    <3>2. (New(o) \/ links) => Len(labels) < Len(labels')
      BY <2>3
    <3> QED
      BY <1>5, <1>7, <2>3, <2>4, <2>5, <2>6, <2>8, <2>9, <3>1, <3>2, Zenon DEF Records
  <2> QED
    BY <2>2, <2>10
<1> QED
  BY <1>8, <1>9

-----------------------------------------------------------------------------
(* The chain is a path, ending in the row's list.                           *)

\* The labels grow at the end, and of what they gain only the last may be of the chain.
Extends(links) ==
    /\ Len(labels) \in Nat /\ Len(labels') \in Nat /\ Len(labels) <= Len(labels')
    /\ \A i \in 1..Len(labels) : labels'[i] = labels[i]
    /\ \A i \in 1..Len(labels') : i > Len(labels) => (labels'[i].kind = "continuity" => links /\ i = Len(labels'))

LEMMA LinksGrow ==
    ASSUME NEW links \in BOOLEAN, Extends(links)
    PROVE  /\ \A i \in Links : i \in 1..Len(labels) /\ i \in Links' /\ labels'[i] = labels[i]
           /\ \A i \in Links' : i \in Links \/ (links /\ i = Len(labels'))
<1>1. PICK m, n \in Nat : m = Len(labels) /\ n = Len(labels')
  BY DEF Extends
<1>2. /\ m <= n /\ \A i \in 1..m : labels'[i] = labels[i]
      /\ \A i \in 1..n : i > m => (labels'[i].kind = "continuity" => links /\ i = n)
  BY <1>1 DEF Extends
<1>3. \A i : i \in Links <=> i \in 1..m /\ labels[i].kind = "continuity"
  BY <1>1 DEF Links
<1>4. \A i : i \in Links' <=> i \in 1..n /\ labels'[i].kind = "continuity"
  BY <1>1 DEF Links
<1>5. ASSUME NEW i \in Links PROVE i \in 1..m /\ i \in Links' /\ labels'[i] = labels[i]
  BY <1>2, <1>3, <1>4, <1>5
<1>6. ASSUME NEW i \in Links' PROVE i \in Links \/ (links /\ i = n)
  <2>1. i \in 1..n /\ labels'[i].kind = "continuity"
    BY <1>4, <1>6
  <2>2. CASE i > m
    BY <1>2, <2>1, <2>2
  <2>3. CASE ~ (i > m)
    <3>1. i \in 1..m
      BY <2>1, <2>3
    <3> QED
      BY <1>2, <1>3, <2>1, <3>1
  <2> QED
    BY <2>2, <2>3
<1> QED
  BY <1>1, <1>5, <1>6

LEMMA RecordsExtend ==
    ASSUME NEW s, NEW at, NEW links \in BOOLEAN, Records(s, at, links)
    PROVE  Extends(links)
BY Zenon DEF Records, Extends

\* The label a list's commit adds to the chain.
LEMMA RecordedLink ==
    ASSUME Bounded, NEW s \in Subjects, NEW at \in Nat, Records(s, at, TRUE)
    PROVE  /\ row.chain \in 1..Len(labels) /\ Len(labels) < Len(labels') /\ row'.chain = Len(labels')
           /\ Len(labels') \in Links'
           /\ labels'[Len(labels')].kind = "continuity"
           /\ labels'[Len(labels')].prior = row.chain /\ labels'[Len(labels')].subject = s
           /\ labels'[Len(labels')].at = at
           /\ labels'[Len(labels')].verdict = Verdict(s, labels[row.chain].subject)
           /\ labels'[Len(labels')].verdict = "pass" =>
                 labels'[Len(labels')].since = Or(IF IsNew(s) THEN 0 ELSE row.since, labels[row.chain].at)
<1>1. /\ row.chain # 0 /\ Len(labels) < Len(labels') /\ row'.chain = Len(labels')
      /\ labels'[Len(labels')] = Continuity(s, row, at, IF IsNew(s) THEN 0 ELSE row.since)
      /\ Len(labels) \in Nat /\ Len(labels') \in Nat
  BY DEF Records
<1>2. labels \in Seq(Label) /\ row \in Row /\ row.chain \in 1..Len(labels) /\ row.since \in Nat
  BY <1>1 DEF Bounded, TypeOK, Row
<1>3. (IF IsNew(s) THEN 0 ELSE row.since) \in Nat
  BY <1>2
<1>4. PICK since \in Nat : since = IF IsNew(s) THEN 0 ELSE row.since
  BY <1>3
<1>5. PICK c : c = Continuity(s, row, at, since)
  OBVIOUS
<1>6. /\ c.kind = "continuity" /\ c.subject = s /\ c.at = at /\ c.prior = row.chain
      /\ c.verdict = Verdict(s, labels[row.chain].subject)
      /\ c.verdict = "pass" => c.since = Or(since, labels[row.chain].at)
  BY <1>2, <1>5, ContinuityIsLabel
<1>7. labels'[Len(labels')] = c
  BY <1>1, <1>4, <1>5
<1>8. Len(labels') \in Links'
  <2>1. Len(labels') \in 1..Len(labels')
    BY <1>1
  <2> QED
    BY <1>6, <1>7, <2>1 DEF Links
<1> QED
  BY <1>1, <1>2, <1>4, <1>6, <1>7, <1>8

LEMMA PathKept ==
    ASSUME Bounded, PathInv, Extends(FALSE), row'.chain = row.chain, row'.subject = row.subject
    PROVE  PathInv'
<1>1. /\ \A i \in Links : i \in 1..Len(labels) /\ i \in Links' /\ labels'[i] = labels[i]
      /\ Links' = Links
  BY LinksGrow
<1>2. ChainIsAPath'
  BY <1>1 DEF PathInv, ChainIsAPath
<1>3. ChainNamesCurrentSubject'
  <2>1. row.chain # 0 => row.chain \in 1..Len(labels)
    BY DEF Bounded, TypeOK, Row, Extends
  <2>2. row.chain # 0 => labels'[row.chain] = labels[row.chain]
    BY <2>1 DEF Extends
  <2> QED
    BY <2>2 DEF PathInv, ChainNamesCurrentSubject
<1> QED
  BY <1>1, <1>2, <1>3 DEF PathInv

LEMMA PathGrows ==
    ASSUME Bounded, PathInv, NEW s \in Subjects, NEW at \in Nat, NEW links \in BOOLEAN, Records(s, at, links)
    PROVE  PathInv'
<1>1. CASE links
  <2>1. Records(s, at, TRUE)
    BY <1>1
  <2>2. PICK m, n \in Nat : m = Len(labels) /\ n = Len(labels')
    BY Zenon DEF Records
  <2>3. /\ row.chain \in 1..m /\ m < n /\ row'.chain = n /\ n \in Links'
        /\ labels'[n].prior = row.chain /\ labels'[n].subject = s
    BY <2>1, <2>2, RecordedLink
  <2>4. /\ \A i \in Links : i \in 1..m /\ i \in Links' /\ labels'[i] = labels[i]
        /\ \A i \in Links' : i \in Links \/ i = n
    BY <2>2, RecordsExtend, LinksGrow
  <2>5. ChainIsAPath'
    <3>1. ASSUME NEW i \in Links', NEW j \in Links', labels'[i].prior = labels'[j].prior PROVE i = j
      BY <2>3, <2>4, <3>1 DEF PathInv, ChainIsAPath
    <3>2. ASSUME NEW i \in Links' PROVE i = row'.chain \/ \E j \in Links' : labels'[j].prior = i
      BY <2>3, <2>4, <3>2 DEF PathInv, ChainIsAPath
    <3> QED
      BY <3>1, <3>2 DEF ChainIsAPath
  <2>6. ChainNamesCurrentSubject'
    BY <2>3 DEF Records, ChainNamesCurrentSubject
  <2>7. \A i \in Links' : labels'[i].prior \in 1..(i - 1) /\ labels'[i].prior # row'.chain
    <3> SUFFICES ASSUME NEW i \in Links' PROVE labels'[i].prior \in 1..(i - 1) /\ labels'[i].prior # n
      BY <2>3
    <3>1. CASE i = n
      BY <2>3, <3>1
    <3>2. CASE i \in Links
      <4>1. labels'[i].prior \in 1..(i - 1) /\ i \in 1..m
        BY <2>4, <3>2 DEF PathInv
      <4> QED
        BY <2>3, <4>1
    <3> QED
      BY <2>4, <3>1, <3>2
  <2>8. row'.chain # 0
    BY <2>3
  <2> QED
    BY <2>5, <2>6, <2>7, <2>8 DEF PathInv
<1>2. CASE ~ links /\ row.chain = 0
  <2>1. Links = {} /\ row.subject = None
    BY <1>2 DEF PathInv, ChainNamesCurrentSubject
  <2>2. Links' = {}
    BY <1>2, <2>1, RecordsExtend, LinksGrow
  <2>3. IsNew(s)
    BY <2>1, NullAssumption DEF IsNew
  <2>4. row'.chain = Len(labels) + 1 /\ row'.subject = s /\ labels'[Len(labels) + 1] = Observation(s, at) /\ Len(labels) \in Nat
    BY <1>2, <2>3, Zenon DEF Records
  <2>5. Observation(s, at).subject = s
    BY DEF Observation, Entry
  <2>6. row'.chain # 0 /\ labels'[row'.chain].subject = row'.subject
    BY <2>4, <2>5
  <2> QED
    BY <2>2, <2>6 DEF PathInv, ChainIsAPath, ChainNamesCurrentSubject
<1>3. CASE ~ links /\ row.chain # 0
  <2>1. ~ IsNew(s) /\ row'.chain = row.chain /\ row'.subject = s
    BY <1>3, Zenon DEF Records
  <2>2. row'.subject = row.subject
    BY <2>1 DEF IsNew
  <2>3. Extends(FALSE)
    BY <1>3, RecordsExtend
  <2> QED
    BY <2>1, <2>2, <2>3, PathKept
<1> QED
  BY <1>1, <1>2, <1>3

-----------------------------------------------------------------------------
(* Every change has its record.                                             *)

\* Where the changes are in the lists recorded.
Placed(place) ==
    /\ place \in [1..Len(changes) -> 1..(Len(shown) - 1)]
    /\ \A j, k \in 1..Len(changes) : j < k => place[j] < place[k]
    /\ \A k \in 1..Len(changes) : <<changes[k].from, changes[k].to>> = Pair(place[k])
    /\ \A p \in 1..(Len(shown) - 1) : Moved(Pair(p)) <=> \E k \in 1..Len(changes) : place[k] = p

\* Two lists one after the other, after the step.
NextPair(p) == <<shown'[p].subject, shown'[p + 1].subject>>

LEMMA ShownGrows ==
    ASSUME Bounded, NEW s \in Subjects, NEW at \in Nat, shown' = Append(shown, [subject |-> s, at |-> at])
    PROVE  /\ Len(shown) \in Nat /\ Len(shown') = Len(shown) + 1
           /\ \A k \in 1..Len(shown) : shown'[k] = shown[k]
           /\ shown'[Len(shown) + 1].subject = s /\ shown'[Len(shown) + 1].at = at
           /\ \A p \in 1..(Len(shown) - 1) : NextPair(p) = Pair(p)
           /\ Len(shown) # 0 => NextPair(Len(shown)) = <<shown[Len(shown)].subject, s>>
<1>1. PICK e : e = [subject |-> s, at |-> at]
  OBVIOUS
<1>2. e \in Shown /\ e.subject = s /\ e.at = at
  BY <1>1 DEF Shown
<1>3. shown \in Seq(Shown) /\ Len(shown) \in Nat
  BY LenProperties DEF Bounded, TypeOK, Shown
<1>4. PICK z : z = Append(shown, e)
  OBVIOUS
<1>5. Len(z) = Len(shown) + 1 /\ z[Len(shown) + 1] = e /\ \A k \in 1..Len(shown) : z[k] = shown[k]
  BY <1>2, <1>3, <1>4, AppendProperties
<1>6. shown' = z
  BY <1>1, <1>4
<1>7. PICK n \in Nat : n = Len(shown)
  BY <1>3
<1>8. \A p \in 1..(n - 1) : z[p] = shown[p] /\ z[p + 1] = shown[p + 1]
  BY <1>5, <1>7
<1>9. n # 0 => z[n] = shown[n] /\ z[n + 1] = e
  BY <1>5, <1>7
<1> QED
  BY <1>2, <1>3, <1>5, <1>6, <1>7, <1>8, <1>9 DEF Pair, NextPair

\* The lists recorded but for the last one have the places they had.
LEMMA PlaceKept ==
    ASSUME Bounded, NEW s \in Subjects, NEW at \in Nat, shown' = Append(shown, [subject |-> s, at |-> at]),
           UNCHANGED changes, NEW place, Placed(place),
           Len(shown) # 0 => ~ Moved(<<shown[Len(shown)].subject, s>>)
    PROVE  Placed(place)'
<1>1. PICK n, c \in Nat : n = Len(shown) /\ c = Len(changes)
  BY LenProperties DEF Bounded, TypeOK
<1>2. /\ Len(shown') = n + 1 /\ Len(changes') = c
      /\ \A p \in 1..(n - 1) : NextPair(p) = Pair(p)
      /\ n # 0 => NextPair(n) = <<shown[n].subject, s>>
  BY <1>1, ShownGrows
<1>3. /\ place \in [1..c -> 1..(n - 1)] /\ \A j, k \in 1..c : j < k => place[j] < place[k]
      /\ \A k \in 1..c : <<changes[k].from, changes[k].to>> = Pair(place[k])
      /\ \A p \in 1..(n - 1) : Moved(Pair(p)) <=> \E k \in 1..c : place[k] = p
  BY <1>1 DEF Placed
<1>4. place \in [1..c -> 1..n]
  BY <1>3
<1>5. \A k \in 1..c : <<changes'[k].from, changes'[k].to>> = NextPair(place[k])
  BY <1>2, <1>3
<1>6. ASSUME NEW p \in 1..n PROVE Moved(NextPair(p)) <=> \E k \in 1..c : place[k] = p
  <2>1. CASE p = n
    <3>1. n # 0 /\ NextPair(p) = <<shown[n].subject, s>>
      BY <1>2, <2>1
    <3>2. ~ Moved(NextPair(p))
      BY <1>1, <3>1, Zenon
    <3> QED
      BY <1>3, <2>1, <3>2
  <2>2. CASE p # n
    <3>1. p \in 1..(n - 1)
      BY <2>2
    <3> QED
      BY <1>2, <1>3, <3>1
  <2> QED
    BY <2>1, <2>2
<1>7. Len(changes') = c /\ Len(shown') - 1 = n
  BY <1>2
<1> QED
  BY <1>3, <1>4, <1>5, <1>6, <1>7, Zenon DEF Placed, Pair, NextPair

LEMMA ShownSubjects ==
    ASSUME Bounded
    PROVE  /\ Len(shown) \in Nat
           /\ \A k \in 1..Len(shown) : shown[k].subject \in Subjects /\ shown[k].at \in Nat
<1>1. shown \in Seq(Shown)
  BY DEF Bounded, TypeOK, Shown
<1>2. ASSUME NEW k \in 1..Len(shown) PROVE shown[k] \in Shown
  BY <1>1, ElementOfSeq
<1> QED
  BY <1>1, <1>2, LenProperties DEF Shown

\* A new change is put at the end.
LEMMA PlaceAdded ==
    ASSUME Bounded, NEW s \in Subjects, NEW at \in Nat, shown' = Append(shown, [subject |-> s, at |-> at]),
           NEW link \in Nat, Len(shown) # 0,
           changes' = Append(changes, [from |-> shown[Len(shown)].subject, to |-> s, label |-> link]),
           NEW place, Placed(place),
           Moved(<<shown[Len(shown)].subject, s>>)
    PROVE  \E next : Placed(next)'
<1>1. PICK n, c \in Nat : n = Len(shown) /\ c = Len(changes)
  BY LenProperties DEF Bounded, TypeOK
<1>2. /\ Len(shown') = n + 1
      /\ \A p \in 1..(n - 1) : NextPair(p) = Pair(p)
      /\ n # 0 /\ NextPair(n) = <<shown[n].subject, s>>
  BY <1>1, ShownGrows
<1>3. /\ place \in [1..c -> 1..(n - 1)] /\ \A j, k \in 1..c : j < k => place[j] < place[k]
      /\ \A k \in 1..c : <<changes[k].from, changes[k].to>> = Pair(place[k])
      /\ \A p \in 1..(n - 1) : Moved(Pair(p)) <=> \E k \in 1..c : place[k] = p
  BY <1>1 DEF Placed
<1>4. /\ Len(changes') = c + 1 /\ \A k \in 1..c : changes'[k] = changes[k]
      /\ changes'[c + 1].from = shown[n].subject /\ changes'[c + 1].to = s
  <2>1. PICK e : e = [from |-> shown[n].subject, to |-> s, label |-> link]
    OBVIOUS
  <2>2. e.from = shown[n].subject /\ e.to = s
    BY <2>1
  <2>3. shown[n].subject \in Subjects
    BY <1>1, <1>2, ShownSubjects
  <2>4. e \in Change
    BY <2>1, <2>3 DEF Change
  <2>5. changes \in Seq(Change)
    BY DEF Bounded, TypeOK, Change
  <2>6. PICK z : z = Append(changes, e)
    OBVIOUS
  <2>7. Len(z) = c + 1 /\ z[c + 1] = e /\ \A k \in 1..c : z[k] = changes[k]
    BY <1>1, <2>4, <2>5, <2>6, AppendProperties
  <2>8. changes' = z
    BY <1>1, <2>1, <2>6
  <2> QED
    BY <2>2, <2>7, <2>8
<1>5. PICK next : next = [k \in 1..(c + 1) |-> IF k = c + 1 THEN n ELSE place[k]]
  OBVIOUS
<1>6. /\ next \in [1..(c + 1) -> 1..n]
      /\ next[c + 1] = n /\ \A k \in 1..c : next[k] = place[k] /\ place[k] \in 1..(n - 1) /\ k # c + 1
  BY <1>2, <1>3, <1>5
<1>7. \A k \in 1..(c + 1) : k \in 1..c \/ k = c + 1
  OBVIOUS
<1>8. ASSUME NEW j \in 1..(c + 1), NEW k \in 1..(c + 1), j < k PROVE next[j] < next[k]
  <2>1. j \in 1..c
    BY <1>8
  <2>2. CASE k \in 1..c
    BY <1>3, <1>6, <1>8, <2>1, <2>2
  <2>3. CASE k = c + 1
    <3>1. next[j] \in 1..(n - 1) /\ next[k] = n
      BY <1>6, <2>1, <2>3
    <3> QED
      BY <3>1
  <2> QED
    BY <1>7, <2>2, <2>3
<1>9. ASSUME NEW k \in 1..(c + 1) PROVE <<changes'[k].from, changes'[k].to>> = NextPair(next[k])
  <2>1. CASE k \in 1..c
    BY <1>2, <1>3, <1>4, <1>6, <2>1
  <2>2. CASE k = c + 1
    BY <1>2, <1>4, <1>6, <2>2
  <2> QED
    BY <1>7, <2>1, <2>2
<1>10. ASSUME NEW p \in 1..n PROVE Moved(NextPair(p)) <=> \E k \in 1..(c + 1) : next[k] = p
  <2>1. CASE p = n
    <3>1. NextPair(p) = <<shown[n].subject, s>>
      BY <1>2, <2>1
    <3>2. Moved(NextPair(p))
      BY <1>1, <3>1, Zenon
    <3>3. c + 1 \in 1..(c + 1) /\ next[c + 1] = p
      BY <1>6, <2>1
    <3> QED
      BY <3>2, <3>3
  <2>2. CASE p # n
    <3>1. p \in 1..(n - 1)
      BY <2>2
    <3>2. Moved(NextPair(p)) <=> \E k \in 1..c : place[k] = p
      BY <1>2, <1>3, <3>1
    <3>3. (\E k \in 1..c : place[k] = p) <=> \E k \in 1..(c + 1) : next[k] = p
      <4>1. ASSUME NEW k \in 1..c, place[k] = p PROVE \E j \in 1..(c + 1) : next[j] = p
        <5>1. k \in 1..(c + 1) /\ next[k] = p
          BY <1>6, <4>1
        <5> QED
          BY <5>1
      <4>2. ASSUME NEW j \in 1..(c + 1), next[j] = p PROVE \E k \in 1..c : place[k] = p
        <5>1. j \in 1..c /\ place[j] = p
          BY <1>6, <1>7, <2>2, <4>2
        <5> QED
          BY <5>1
      <4> QED
        BY <4>1, <4>2
    <3> QED
      BY <3>2, <3>3
  <2> QED
    BY <2>1, <2>2
<1>11. Len(changes') = c + 1 /\ Len(shown') - 1 = n
  BY <1>2, <1>4
<1>12. Placed(next)'
  BY <1>6, <1>8, <1>9, <1>10, <1>11, Zenon DEF Placed, Pair, NextPair
<1> QED
  BY <1>12

LEMMA ChangesGrow ==
    ASSUME Bounded, PathInv, ChangesInv, NEW s \in Subjects, NEW at \in Nat, NEW links \in BOOLEAN, Records(s, at, links)
    PROVE  ChangesInv'
<1>1. /\ shown' = Append(shown, [subject |-> s, at |-> at]) /\ row'.subject = s
      /\ changes' = IF links /\ Moved(<<row.subject, s>>)
                    THEN Append(changes, [from |-> row.subject, to |-> s, label |-> Len(labels')]) ELSE changes
      /\ links => row.chain # 0
      /\ IsNew(s) => (row.chain # 0 => links)
      /\ Len(labels') \in Nat
  BY DEF Records
<1>2. row.chain # 0 <=> row.subject # None
  BY ChainHasSubject DEF PathInv
<1>3. /\ Len(shown) \in Nat /\ shown = <<>> <=> Len(shown) = 0
      /\ changes \in Seq(Change)
  BY EmptySeq, LenProperties DEF Bounded, TypeOK, Change
<1>4. IF Len(shown) = 0 THEN row.subject = None ELSE row.subject = shown[Len(shown)].subject
  BY <1>3 DEF ChangesInv
<1>5. Len(shown) # 0 => row.subject # None
  <2>1. Len(shown) # 0 => shown[Len(shown)].subject \in Subjects
    BY <1>3, ShownSubjects
  <2> QED
    BY <1>4, <2>1, NullAssumption
<1>6. Moved(<<row.subject, s>>) => IsNew(s)
  BY DEF Moved, IsNew
<1>7. PICK place : Placed(place)
  <2>1. EveryChangeIsRecorded
    BY DEF ChangesInv
  <2> QED
    BY <2>1 DEF EveryChangeIsRecorded, Placed
<1>8. \E next : Placed(next)'
  <2>1. CASE Len(shown) # 0 /\ Moved(<<row.subject, s>>)
    <3>1. links
      BY <1>1, <1>2, <1>5, <1>6, <2>1
    <3>2. changes' = Append(changes, [from |-> shown[Len(shown)].subject, to |-> s, label |-> Len(labels')])
      BY <1>1, <1>4, <2>1, <3>1
    <3>3. Moved(<<shown[Len(shown)].subject, s>>)
      BY <1>4, <2>1
    <3> QED
      BY <1>1, <1>7, <2>1, <3>2, <3>3, PlaceAdded
  <2>2. CASE Len(shown) # 0 /\ ~ Moved(<<row.subject, s>>)
    <3>1. changes' = changes /\ ~ Moved(<<shown[Len(shown)].subject, s>>)
      BY <1>1, <1>4, <2>2
    <3> QED
      BY <1>1, <1>7, <3>1, PlaceKept
  <2>3. CASE Len(shown) = 0
    <3>1. changes' = changes
      BY <1>1, <1>2, <1>4, <2>3
    <3> QED
      BY <1>1, <1>7, <2>3, <3>1, PlaceKept
  <2> QED
    BY <2>1, <2>2, <2>3
<1>9. Len(changes) \in Nat /\ Len(changes) <= Len(changes') /\ \A k \in 1..Len(changes) : changes'[k] = changes[k]
  <2>1. CASE changes' = changes
    BY <1>3, <2>1
  <2>2. CASE changes' # changes
    <3>1. changes' = Append(changes, [from |-> row.subject, to |-> s, label |-> Len(labels')])
      BY <1>1, <2>2
    <3>2. row.subject \in Subjects
      <4>1. row.subject # None
        BY <1>1, <1>2, <2>2
      <4> QED
        BY <4>1 DEF Bounded, TypeOK, Row
    <3>3. PICK e : e = [from |-> row.subject, to |-> s, label |-> Len(labels')]
      OBVIOUS
    <3>4. e \in Change
      BY <1>1, <3>2, <3>3 DEF Change
    <3>5. PICK z : z = Append(changes, e)
      OBVIOUS
    <3>6. Len(z) = Len(changes) + 1 /\ \A k \in 1..Len(changes) : z[k] = changes[k]
      BY <1>3, <3>4, <3>5, AppendProperties
    <3>7. changes' = z /\ Len(changes) \in Nat
      BY <1>3, <3>1, <3>3, <3>5, LenProperties
    <3> QED
      BY <3>6, <3>7
  <2> QED
    BY <2>1, <2>2
<1>10. ASSUME NEW i \in Links', labels'[i].verdict = "fail"
       PROVE  \E k \in 1..Len(changes') : changes'[k].label = i
  <2>1. CASE i \in Links
    <3>1. labels[i].verdict = "fail"
      BY <1>10, <2>1, RecordsExtend, LinksGrow
    <3>2. PICK k \in 1..Len(changes) : changes[k].label = i
      <4>1. EveryChangeIsRecorded
        BY DEF ChangesInv
      <4> QED
        BY <2>1, <3>1, <4>1 DEF EveryChangeIsRecorded
    <3>3. Len(changes') \in Nat
      BY <1>3, <1>1, <1>9, AppendProperties
    <3>4. k \in 1..Len(changes') /\ changes'[k] = changes[k]
      BY <1>9, <3>3
    <3> QED
      BY <3>2, <3>4
  <2>2. CASE ~ (i \in Links)
    <3>1. links /\ i = Len(labels')
      BY <2>2, RecordsExtend, LinksGrow
    <3>2. labels'[i].verdict = Verdict(s, labels[row.chain].subject) /\ row.chain # 0
      BY <1>1, <3>1, RecordedLink
    <3>3. Verdict(s, row.subject) = "fail"
      BY <1>10, <3>2 DEF PathInv, ChainNamesCurrentSubject
    <3>4. Moved(<<row.subject, s>>)
      BY <3>3 DEF Verdict, Moved
    <3>5. changes' = Append(changes, [from |-> row.subject, to |-> s, label |-> i])
      BY <1>1, <3>1, <3>4
    <3>6. row.subject \in Subjects
      BY <1>2, <3>2 DEF Bounded, TypeOK, Row
    <3>7. PICK e : e = [from |-> row.subject, to |-> s, label |-> i]
      OBVIOUS
    <3>8. e \in Change /\ e.label = i
      BY <1>1, <3>1, <3>6, <3>7 DEF Change
    <3>9. PICK z : z = Append(changes, e)
      OBVIOUS
    <3>10. Len(z) = Len(changes) + 1 /\ z[Len(changes) + 1] = e /\ Len(changes) \in Nat
      BY <1>3, <3>8, <3>9, AppendProperties, LenProperties
    <3>11. changes' = z
      BY <3>5, <3>7, <3>9
    <3> QED
      BY <3>8, <3>10, <3>11
  <2> QED
    BY <2>1, <2>2
<1>11. EveryChangeIsRecorded'
  BY <1>8, <1>10 DEF EveryChangeIsRecorded, Placed
<1>12. row'.subject = IF shown' = <<>> THEN None ELSE shown'[Len(shown')].subject
  <2>1. Len(shown') = Len(shown) + 1 /\ shown'[Len(shown) + 1].subject = s
    BY <1>1, ShownGrows
  <2>2. shown' # <<>>
    BY <1>3, <2>1
  <2> QED
    BY <1>1, <2>1, <2>2
<1> QED
  BY <1>11, <1>12 DEF ChangesInv

-----------------------------------------------------------------------------
(* The chain is the history.                                                *)

LEMMA HistoryInit == Init => History
<1> SUFFICES ASSUME Init PROVE History
  OBVIOUS
<1>1. /\ row.chain = 0 /\ row.subject = None /\ row.status = None
      /\ labels = <<>> /\ changes = <<>> /\ shown = <<>>
  BY DEF Init, Unseen
<1>2. Links = {}
  BY <1>1 DEF Links
<1>3. PathInv
  BY <1>1, <1>2 DEF PathInv, ChainIsAPath, ChainNamesCurrentSubject
<1>4. EveryChangeIsRecorded
  <2>1. Len(changes) = 0 /\ Len(shown) = 0 /\ 1..0 = {}
    BY <1>1
  <2>2. PICK place : place = [k \in 1..0 |-> 1]
    OBVIOUS
  <2>3. place \in [1..Len(changes) -> 1..(Len(shown) - 1)]
    BY <2>1, <2>2
  <2>4. 1..(Len(shown) - 1) = {} /\ 1..Len(changes) = {}
    BY <2>1
  <2> QED
    BY <1>2, <2>3, <2>4, Zenon DEF EveryChangeIsRecorded
<1>5. OutageInv
  <2>1. row.status # "ok" /\ (row.status = "failed" => row.chain = 0)
    BY <1>1, LabelChainAssumption
  <2> QED
    BY <2>1 DEF OutageInv
<1> QED
  BY <1>1, <1>3, <1>4, <1>5 DEF History, ChangesInv

LEMMA HistoryKept ==
    ASSUME History, UNCHANGED table
    PROVE  History'
<1>1. UNCHANGED <<row, labels, changes, shown>>
  BY DEF table
<1>2. PathInv'
  BY <1>1 DEF History, PathInv, ChainIsAPath, ChainNamesCurrentSubject, Links
<1>3. EveryChangeIsRecorded'
  <2>1. PICK place : Placed(place)
    BY DEF History, ChangesInv, EveryChangeIsRecorded, Placed
  <2>2. Placed(place)'
    BY <1>1, <2>1 DEF Placed, Pair
  <2>3. \A i \in Links' : labels'[i].verdict = "fail" => \E k \in 1..Len(changes') : changes'[k].label = i
    BY <1>1 DEF History, ChangesInv, EveryChangeIsRecorded, Links
  <2> QED
    BY <2>2, <2>3 DEF EveryChangeIsRecorded, Placed
<1>4. ChangesInv'
  BY <1>1, <1>3 DEF History, ChangesInv
<1>5. OutageInv'
  BY <1>1 DEF History, OutageInv
<1> QED
  BY <1>2, <1>4, <1>5 DEF History

LEMMA HistoryByFailure ==
    ASSUME Bounded, Serialized, Serial, History, NEW o \in Observers, CommitFailure(o)
    PROVE  History'
<1>1. /\ row' = [row EXCEPT !.status = "failed", !.failureReported = IF ReportsFailure(row) THEN TRUE ELSE @]
      /\ labels' \in Seq(Label) /\ Len(labels') \in Nat
      /\ ReportsFailure(row) => Len(labels') = Len(labels) + 1 /\ labels'[Len(labels')].kind = "outage"
      /\ ~ ReportsFailure(row) => labels' = labels
      /\ \A i \in 1..Len(labels) : labels'[i] = labels[i]
      /\ UNCHANGED <<changes, shown>>
  <2>1. state[o] = row
    BY DEF CommitFailure, Serialized
  <2> QED
    BY <2>1, FailureEffect
<1>2. row \in Row /\ Len(labels) \in Nat
  BY LenProperties DEF Bounded, TypeOK
<1>3. /\ row'.chain = row.chain /\ row'.subject = row.subject /\ row'.status = "failed"
      /\ row'.failureReported = IF ReportsFailure(row) THEN TRUE ELSE row.failureReported
  BY <1>1, <1>2 DEF Row
<1>4. Extends(FALSE)
  <2>1. PICK m, n \in Nat : m = Len(labels) /\ n = Len(labels')
    BY <1>1, <1>2
  <2>2. CASE ReportsFailure(row)
    <3>1. n = m + 1 /\ labels'[n].kind = "outage"
      BY <1>1, <2>1, <2>2
    <3>2. \A i \in 1..n : i > m => i = n
      BY <3>1
    <3> QED
      BY <1>1, <2>1, <3>1, <3>2 DEF Extends
  <2>3. CASE ~ ReportsFailure(row)
    <3>1. n = m
      BY <1>1, <2>1, <2>3
    <3> QED
      BY <1>1, <2>1, <3>1 DEF Extends
  <2> QED
    BY <2>2, <2>3
<1>5. PathInv'
  BY <1>3, <1>4, PathKept DEF History
<1>6. EveryChangeIsRecorded'
  <2>1. /\ \A i \in Links : labels'[i] = labels[i]
        /\ Links' = Links
    BY <1>4, LinksGrow
  <2>2. PICK place : Placed(place)
    BY DEF History, ChangesInv, EveryChangeIsRecorded, Placed
  <2>3. Placed(place)'
    BY <1>1, <2>2 DEF Placed, Pair
  <2>4. \A i \in Links : labels[i].verdict = "fail" => \E k \in 1..Len(changes) : changes[k].label = i
    BY DEF History, ChangesInv, EveryChangeIsRecorded
  <2>5. \A i \in Links' : labels'[i].verdict = "fail" => \E k \in 1..Len(changes') : changes'[k].label = i
    BY <1>1, <2>1, <2>4
  <2> QED
    BY <2>3, <2>5 DEF EveryChangeIsRecorded, Placed
<1>7. row'.subject = IF shown' = <<>> THEN None ELSE shown'[Len(shown')].subject
  BY <1>1, <1>3 DEF History, ChangesInv
<1>8. OutageInv'
  BY <1>3 DEF History, OutageInv, ReportsFailure
<1> QED
  BY <1>5, <1>6, <1>7, <1>8 DEF History, ChangesInv

LEMMA HistoryByList ==
    ASSUME Bounded, Serialized, Serial, History, NEW o \in Observers, CommitUndigestible(o) \/ CommitServed(o)
    PROVE  History'
<1>1. step[o] = "reading" /\ item[o].list # None
  BY DEF CommitUndigestible, CommitServed
<1>2. PICK s, at : s = Subject(item[o].list) /\ at = item[o].at
  OBVIOUS
<1>3. s \in Subjects /\ at \in Nat
  BY <1>1, <1>2, InTransaction
<1>4. PICK links \in BOOLEAN : Records(s, at, links)
  BY <1>2, CommitRecords DEF History, PathInv
<1>5. PathInv' /\ ChangesInv'
  BY <1>3, <1>4, PathGrows, ChangesGrow DEF History
<1>6. row'.subject = s
  BY <1>4 DEF Records
<1>7. row'.chain # 0
  BY <1>3, <1>5, <1>6, NullAssumption DEF PathInv, ChainNamesCurrentSubject
<1>8. row'.status = "undigestible" \/ (row'.status = "ok" /\ row'.failureReported = FALSE)
  BY ServedRow, UndigestibleRow
<1>9. OutageInv'
  BY <1>7, <1>8 DEF OutageInv
<1> QED
  BY <1>5, <1>9 DEF History

LEMMA HistoryStep ==
    ASSUME Bounded, Serialized, Serial => History, [Next]_vars
    PROVE  Serial' => History'
<1> SUFFICES ASSUME Serial' PROVE History'
  OBVIOUS
<1>1. Serial
  <2>1. overlapped => overlapped'
    BY DEF Next, vars, Observing, Committing, Tick, PublishRules, StartRun, Observe, Scan, ReadRow, Lose,
           CommitInternal, CommitFailure, CommitUndigestible, CommitServed, Done
  <2> QED
    BY <2>1 DEF Serial
<1>2. CASE UNCHANGED table
  BY <1>1, <1>2, HistoryKept
<1>3. ASSUME NEW o \in Observers, CommitFailure(o) PROVE History'
  BY <1>1, <1>3, HistoryByFailure
<1>4. ASSUME NEW o \in Observers, CommitUndigestible(o) \/ CommitServed(o) PROVE History'
  BY <1>1, <1>4, HistoryByList
<1>5. UNCHANGED table \/ \E o \in Observers : CommitFailure(o) \/ CommitUndigestible(o) \/ CommitServed(o)
  BY DEF Next, vars, Observing, Committing, Tick, PublishRules, StartRun, Observe, Scan, ReadRow, Lose, CommitInternal
<1> QED
  BY <1>2, <1>3, <1>4, <1>5


-----------------------------------------------------------------------------
(* An outage is reported once, and a list is judged under the run's sets.   *)

LEMMA OutageOnce ==
    ASSUME Bounded, Serialized, Serial, History, [Next]_vars
    PROVE  OutageStep
<1>1. CASE UNCHANGED table
  <2>1. labels' = labels /\ row' = row
    BY <1>1 DEF table
  <2>2. Len(labels) \in Nat
    BY LenProperties DEF Bounded, TypeOK
  <2> QED
    BY <2>1, <2>2 DEF OutageStep, ReportsOutage
<1>2. ASSUME NEW o \in Observers, CommitFailure(o) PROVE OutageStep
  <2>1. state[o] = row /\ row.failureReported \in BOOLEAN /\ Len(labels) \in Nat
    BY <1>2, LenProperties DEF CommitFailure, Serialized, Bounded, TypeOK, Row
  <2>2. /\ ReportsFailure(row) => Len(labels') = Len(labels) + 1 /\ labels'[Len(labels')].kind = "outage"
        /\ ~ ReportsFailure(row) => labels' = labels
    BY <1>2, <2>1, FailureEffect
  <2>3. row.status = "ok" => ReportsFailure(row)
    BY DEF History, OutageInv, ReportsFailure
  <2>4. row.status = "failed" => ~ ReportsFailure(row)
    BY DEF History, OutageInv, ReportsFailure
  <2>5. ReportsOutage <=> ReportsFailure(row)
    BY <2>1, <2>2 DEF ReportsOutage
  <2> QED
    BY <2>3, <2>4, <2>5 DEF OutageStep
<1>3. ASSUME NEW o \in Observers, CommitUndigestible(o) \/ CommitServed(o) PROVE OutageStep
  <2>1. step[o] = "reading" /\ item[o].list # None
    BY <1>3 DEF CommitUndigestible, CommitServed
  <2>2. PICK links \in BOOLEAN : Records(Subject(item[o].list), item[o].at, links)
    BY <1>3, CommitRecords DEF History, PathInv
  <2>3. PICK m, n \in Nat : m = Len(labels) /\ n = Len(labels')
    BY <2>2, Zenon DEF Records
  <2>4. \A i \in 1..n : i > m => labels'[i].kind # "outage"
    BY <2>2, <2>3, Zenon DEF Records
  <2>5. n > m => n \in 1..n
    BY <2>3
  <2>6. ~ ReportsOutage
    BY <2>3, <2>4, <2>5 DEF ReportsOutage
  <2>7. row'.status # "failed"
    BY <1>3, ServedRow, UndigestibleRow
  <2> QED
    BY <2>6, <2>7 DEF OutageStep
<1>4. UNCHANGED table \/ \E o \in Observers : CommitFailure(o) \/ CommitUndigestible(o) \/ CommitServed(o)
  BY DEF Next, vars, Observing, Committing, Tick, PublishRules, StartRun, Observe, Scan, ReadRow, Lose, CommitInternal
<1> QED
  BY <1>1, <1>2, <1>3, <1>4

LEMMA DigestIsNotRefused ==
    ASSUME NEW l, Subject(l).toolset # None
    PROVE  ~ Refused(l)
BY LabelChainAssumption DEF Subject, Refused

\* A list the commit did not have scanned is the current one, and was scanned under the run's sets.
LEMMA UnscannedIsCurrent ==
    ASSUME Bounded, Serialized, ScanInv, ~ overlapped, NEW o \in Observers, CommitServed(o),
           Subject(item[o].list).toolset # None, ~ Scanned(o)
    PROVE  Subject(item[o].list) = row.subject /\ row.scanSets = sets[o]
<1>1. step[o] = "reading" /\ item[o].list # None /\ ~ Refused(item[o].list)
  BY DEF CommitServed
<1>2. state[o] = row
  BY <1>1 DEF Serialized, Serial
<1>3. scan[o] = "done" <=> NeedsScan(item[o].list, row, sets[o])
  BY <1>1 DEF ScanInv
<1> QED
  BY <1>1, <1>2, <1>3 DEF NeedsScan, Scanned, New

LEMMA Rescans ==
    ASSUME Bounded, Serialized, ScanInv, [Next]_vars
    PROVE  RescanStep
<1> SUFFICES ASSUME NEW o \in Observers, ~ overlapped, step[o] = "reading", shown' # shown,
                    Subject(item[o].list).toolset # None
             PROVE  row'.scanSets = sets[o]
  BY DEF RescanStep
<1>1. PICK u \in Observers : CommitUndigestible(u) \/ CommitServed(u)
  BY DEF Next, vars, table, Observing, Committing, Tick, PublishRules, StartRun, Observe, Scan, ReadRow, Lose,
         CommitInternal, CommitFailure
<1>2. step[u] = "reading"
  BY <1>1 DEF CommitUndigestible, CommitServed
<1>3. u = o
  BY <1>2 DEF Serialized, Active
<1>4. CommitServed(o)
  BY <1>1, <1>3, DigestIsNotRefused DEF CommitUndigestible
<1>5. row'.scanSets = IF Scanned(o) THEN sets[o] ELSE row.scanSets
  BY <1>4, ServedRow
<1> QED
  BY <1>4, <1>5, UnscannedIsCurrent


-----------------------------------------------------------------------------
(* What is recorded is in the order of the clock, while no two observers    *)
(* overlap.                                                                 *)

LEMMA InOrderInit == Init => InOrder
<1> SUFFICES ASSUME Init PROVE InOrder
  OBVIOUS
<1>1. row.subject = None /\ Len(labels) = 0 /\ Len(shown) = 0 /\ \A o \in Observers : step[o] = "idle"
  BY DEF Init, Unseen
<1> QED
  BY <1>1 DEF InOrder, Active

\* The steps that leave the database alone, and end nothing that was not under way.
LEMMA InOrderKept ==
    ASSUME Bounded, InOrder, UNCHANGED table, now' \in Nat, now <= now',
           \A o \in Observers : step'[o] \in Active => step[o] \in Active /\ item'[o] = item[o]
    PROVE  InOrder'
<1>1. UNCHANGED <<row, labels, shown>>
  BY DEF table
<1>2. \A k \in 1..Len(shown) : shown[k].at \in Nat
  BY ShownSubjects
<1>3. \A i \in 1..Len(labels) : labels[i].at \in Nat
  <2>1. labels \in Seq(Label) /\ \A l \in Label : l.at \in Nat
    BY DEF Bounded, TypeOK, Label
  <2> QED
    BY <2>1, ElementOfSeq
<1>4. now \in Nat
  BY DEF Bounded, TypeOK
<1>5. \A k \in 1..Len(shown) : shown[k].at <= now'
  BY <1>2, <1>4 DEF InOrder
<1>6. \A i \in 1..Len(labels) : labels[i].at <= now'
  BY <1>3, <1>4 DEF InOrder
<1> QED
  BY <1>1, <1>5, <1>6 DEF InOrder

LEMMA InOrderByFailure ==
    ASSUME Bounded, Serialized, InOrder, ~ overlapped, NEW o \in Observers, CommitFailure(o)
    PROVE  InOrder'
<1>1. Done(o) /\ step[o] = "reading"
  BY DEF CommitFailure
<1>2. \A u \in Observers : step'[u] \notin Active
  BY <1>1, DoneIsTyped DEF Serialized, Active
<1>3. now' = now /\ item[o].at <= now /\ item[o].at \in Nat /\ now \in Nat
  BY <1>1 DEF Done, Bounded, TypeOK, Active
<1>4. /\ row' = [row EXCEPT !.status = "failed", !.failureReported = IF ReportsFailure(state[o]) THEN TRUE ELSE @]
      /\ shown' = shown
      /\ Len(labels') \in Nat
      /\ (Len(labels') = Len(labels) + 1 /\ labels'[Len(labels')].at = item[o].at) \/ labels' = labels
      /\ \A i \in 1..Len(labels) : labels'[i] = labels[i]
  BY FailureEffect
<1>5. row \in Row /\ Len(labels) \in Nat
  BY LenProperties DEF Bounded, TypeOK
<1>6. row'.subject = row.subject /\ row'.since = row.since
  BY <1>4, <1>5 DEF Row
<1>7. \A i \in 1..Len(labels') : labels'[i].at <= now
  <2>1. PICK m, n \in Nat : m = Len(labels) /\ n = Len(labels')
    BY <1>4, <1>5
  <2>2. \A i \in 1..m : labels'[i].at <= now
    BY <1>4, <2>1 DEF InOrder
  <2>3. CASE n = m + 1 /\ labels'[n].at = item[o].at
    <3>1. \A i \in 1..n : i \in 1..m \/ i = n
      BY <2>3
    <3> QED
      BY <1>3, <2>1, <2>2, <2>3, <3>1
  <2>4. CASE labels' = labels
    BY <2>1, <2>2, <2>4
  <2> QED
    BY <1>4, <2>1, <2>3, <2>4
<1> QED
  BY <1>2, <1>3, <1>4, <1>6, <1>7 DEF InOrder

LEMMA InOrderByList ==
    ASSUME Bounded, Serialized, InOrder, ~ overlapped, NEW o \in Observers, Done(o), step[o] = "reading",
           NEW s \in Subjects, NEW at \in 1..now, NEW links \in BOOLEAN, Records(s, at, links)
    PROVE  InOrder'
<1>1. \A u \in Observers : step'[u] \notin Active
  BY DoneIsTyped DEF Serialized, Active
<1>2. now' = now /\ now \in Nat /\ at \in Nat /\ at >= 1 /\ at <= now
  BY DEF Done, Bounded, TypeOK
<1>3. shown' = Append(shown, [subject |-> s, at |-> at])
  BY Zenon DEF Records
<1>4. \A k \in 1..Len(shown') : shown'[k].at <= now
  <2>1. /\ Len(shown) \in Nat /\ Len(shown') = Len(shown) + 1
        /\ \A k \in 1..Len(shown) : shown'[k] = shown[k]
        /\ shown'[Len(shown) + 1].at = at
    BY <1>2, <1>3, ShownGrows
  <2>2. \A k \in 1..Len(shown') : k \in 1..Len(shown) \/ k = Len(shown) + 1
    BY <2>1
  <2>3. \A k \in 1..Len(shown) : shown[k].at <= now
    BY DEF InOrder
  <2> QED
    BY <1>2, <2>1, <2>2, <2>3
<1>5. \A i \in 1..Len(labels') : labels'[i].at <= now
  <2>1. PICK m, n \in Nat : m = Len(labels) /\ n = Len(labels')
    BY Zenon DEF Records
  <2>2. /\ \A i \in 1..m : labels'[i] = labels[i]
        /\ \A i \in 1..n : i > m => labels'[i].at = at
    BY <2>1, Zenon DEF Records
  <2>3. \A i \in 1..m : labels[i].at <= now
    BY <2>1 DEF InOrder
  <2>4. \A i \in 1..n : i \in 1..m \/ i > m
    BY <2>1
  <2> QED
    BY <1>2, <2>1, <2>2, <2>3, <2>4
<1>6. row'.since >= 1
  <2>1. row'.since = IF IsNew(s) THEN at ELSE row.since
    BY Zenon DEF Records
  <2>2. ~ IsNew(s) => row.since >= 1
    BY NullAssumption DEF IsNew, InOrder
  <2> QED
    BY <1>2, <2>1, <2>2
<1> QED
  BY <1>1, <1>2, <1>4, <1>5, <1>6 DEF InOrder

LEMMA OverlapStays == [Next]_vars /\ ~ overlapped' => ~ overlapped
BY DEF Next, vars, Observing, Committing, Tick, PublishRules, StartRun, Observe, Scan, ReadRow, Lose,
       CommitInternal, CommitFailure, CommitUndigestible, CommitServed, Done

LEMMA InOrderStep ==
    ASSUME Bounded, Serialized, ~ overlapped => History /\ InOrder, [Next]_vars
    PROVE  ~ overlapped' => InOrder'
<1> SUFFICES ASSUME ~ overlapped' PROVE InOrder'
  OBVIOUS
<1>1. ~ overlapped /\ InOrder /\ Serial /\ History
  BY OverlapStays DEF Serial
<1>2. now \in Nat
  BY DEF Bounded, TypeOK
<1>3. CASE Tick \/ PublishRules \/ UNCHANGED vars
  <2>1. UNCHANGED table /\ now' \in Nat /\ now <= now' /\ step' = step /\ item' = item
    BY <1>2, <1>3 DEF Tick, PublishRules, vars, observer
  <2> QED
    BY <1>1, <2>1, InOrderKept
<1>4. ASSUME NEW o \in Observers, Observe(o) PROVE InOrder'
  <2>1. UNCHANGED <<now, table>> /\ step[o] = "started" /\ \A u \in Observers : step[u] \notin Active
    BY <1>1, <1>4 DEF Observe, Active
  <2>2. \A u \in Observers : u # o => step'[u] = step[u]
    BY <1>4 DEF Observe, Bounded, TypeOK
  <2>3. item'[o].at = now
    BY <1>4 DEF Observe, Bounded, TypeOK
  <2>4. UNCHANGED <<row, labels, shown>>
    BY <2>1 DEF table
  <2>5. \A u \in Observers : step'[u] \in Active => u = o
    BY <2>1, <2>2
  <2> QED
    BY <1>1, <2>1, <2>3, <2>4, <2>5 DEF InOrder
<1>5. ASSUME NEW o \in Observers, StartRun(o) \/ Scan(o) \/ ReadRow(o) PROVE InOrder'
  <2>1. UNCHANGED <<now, table>> /\ item' = item
    BY <1>5 DEF StartRun, Scan, ReadRow
  <2>2. \A u \in Observers : step'[u] \in Active => step[u] \in Active
    BY <1>5 DEF StartRun, Scan, ReadRow, Bounded, TypeOK, Active
  <2> QED
    BY <1>1, <1>2, <2>1, <2>2, InOrderKept
<1>6. ASSUME NEW o \in Observers, Lose(o) \/ CommitInternal(o) PROVE InOrder'
  <2>1. Done(o) /\ UNCHANGED table
    BY <1>6 DEF Lose, CommitInternal
  <2>2. now' = now /\ \A u \in Observers : step'[u] \in Active => step[u] \in Active /\ item'[u] = item[u]
    BY <2>1, DoneIsTyped
  <2> QED
    BY <1>1, <1>2, <2>1, <2>2, InOrderKept
<1>7. ASSUME NEW o \in Observers, CommitFailure(o) PROVE InOrder'
  BY <1>1, <1>7, InOrderByFailure
<1>8. ASSUME NEW o \in Observers, CommitUndigestible(o) \/ CommitServed(o) PROVE InOrder'
  <2>1. Done(o) /\ step[o] = "reading" /\ item[o].list # None
    BY <1>8 DEF CommitUndigestible, CommitServed
  <2>2. PICK s, at : s = Subject(item[o].list) /\ at = item[o].at
    OBVIOUS
  <2>3. s \in Subjects /\ at \in 1..now
    BY <2>1, <2>2, InTransaction
  <2>4. PICK links \in BOOLEAN : Records(s, at, links)
    BY <1>1, <1>8, <2>2, CommitRecords DEF History, PathInv
  <2> QED
    BY <1>1, <2>1, <2>3, <2>4, InOrderByList
<1> QED
  BY <1>3, <1>4, <1>5, <1>6, <1>7, <1>8 DEF Next, Observing, Committing

-----------------------------------------------------------------------------
(* What the passes, the date and the counts say.                            *)

LEMMA SaidIsTheProperty == PassesSayWhatWasSeen <=> (~ overlapped => Said)
BY DEF PassesSayWhatWasSeen, NoPassSpansAnotherList, UnchangedSinceThen, NewListIsScanned, Said, DateIsTrue,
       ScanFollows, CountsAreOfTheList

LEMMA SaidInit == Init => Said
<1> SUFFICES ASSUME Init PROVE Said
  OBVIOUS
<1>1. row.subject = None /\ Len(labels) = 0 /\ Len(shown) = 0
  BY DEF Init, Unseen
<1>2. Links = {}
  BY <1>1 DEF Links
<1> QED
  BY <1>1, <1>2 DEF Said, PassesAreTrue, DateIsTrue, ScanFollows, CountsAreOfTheList

LEMMA SaidAfterFailure ==
    ASSUME Bounded, Said, NEW o \in Observers, CommitFailure(o)
    PROVE  Said'
<1>1. /\ row' = [row EXCEPT !.status = "failed", !.failureReported = IF ReportsFailure(state[o]) THEN TRUE ELSE @]
      /\ shown' = shown
      /\ Len(labels') \in Nat
      /\ (Len(labels') = Len(labels) + 1 /\ labels'[Len(labels')].kind = "outage") \/ labels' = labels
      /\ \A i \in 1..Len(labels) : labels'[i] = labels[i]
  BY FailureEffect
<1>2. row \in Row /\ Len(labels) \in Nat
  BY LenProperties DEF Bounded, TypeOK
<1>3. row'.subject = row.subject /\ row'.since = row.since /\ row'.matches = row.matches
  BY <1>1, <1>2 DEF Row
<1>4. PICK m, n \in Nat : m = Len(labels) /\ n = Len(labels')
  BY <1>1, <1>2
<1>5. /\ n = m \/ (n = m + 1 /\ labels'[n].kind = "outage")
      /\ \A i \in 1..m : labels'[i] = labels[i]
  BY <1>1, <1>4
<1>6. \A i \in 1..n : i \in 1..m \/ (i = n /\ labels'[i].kind = "outage")
  BY <1>5
<1>7. Extends(FALSE)
  BY <1>4, <1>5, <1>6 DEF Extends
<1>8. /\ \A i \in Links : labels'[i] = labels[i]
      /\ Links' = Links
  BY <1>7, LinksGrow
<1>9. PassesAreTrue'
  BY <1>1, <1>8 DEF Said, PassesAreTrue
<1>10. ScanFollows'
  <2> SUFFICES ASSUME NEW i \in 1..n, labels'[i].kind = "observation", labels'[i].subject.toolset # None
               PROVE  i < n /\ labels'[i + 1].kind = "scan" /\ labels'[i + 1].subject = labels'[i].subject
    BY <1>4 DEF ScanFollows
  <2>1. i \in 1..m /\ labels'[i] = labels[i]
    BY <1>5, <1>6
  <2>2. i < m /\ labels[i + 1].kind = "scan" /\ labels[i + 1].subject = labels[i].subject
    BY <1>4, <2>1 DEF Said, ScanFollows
  <2>3. i + 1 \in 1..m /\ i < n
    BY <1>5, <2>2
  <2> QED
    BY <1>5, <2>1, <2>2, <2>3
<1>11. DateIsTrue' /\ CountsAreOfTheList'
  BY <1>1, <1>3 DEF Said, DateIsTrue, CountsAreOfTheList
<1> QED
  BY <1>9, <1>10, <1>11 DEF Said

\* A pass over a list goes back to the row's date, and since then only this list was observed.
LEMMA PassesStayTrue ==
    ASSUME Bounded, PathInv, InOrder, Said, NEW s \in Subjects, NEW at \in Nat,
           \A k \in 1..Len(shown) : shown[k].at <= at,
           \A i \in 1..Len(labels) : labels[i].at <= at,
           NEW links \in BOOLEAN, Records(s, at, links)
    PROVE  PassesAreTrue'
<1>1. /\ Len(shown) \in Nat /\ Len(shown') = Len(shown) + 1
      /\ \A k \in 1..Len(shown) : shown'[k] = shown[k]
      /\ shown'[Len(shown) + 1].at = at
  BY ShownGrows DEF Records
<1>2. /\ \A i \in Links : i \in 1..Len(labels) /\ i \in Links' /\ labels'[i] = labels[i]
      /\ \A i \in Links' : i \in Links \/ (links /\ i = Len(labels'))
  BY RecordsExtend, LinksGrow
<1>3. \A k \in 1..Len(shown') : k \in 1..Len(shown) \/ k = Len(shown) + 1
  BY <1>1
<1>4. SUFFICES ASSUME NEW i \in Links', labels'[i].verdict = "pass", NEW k \in 1..Len(shown'),
                      labels'[i].since < shown'[k].at, shown'[k].at < labels'[i].at
               PROVE  shown'[k].subject = labels'[i].subject
  BY DEF PassesAreTrue
<1>5. labels'[i].at <= at
  <2>1. CASE i \in Links
    BY <1>2, <2>1
  <2>2. CASE links /\ i = Len(labels')
    <3>1. Records(s, at, TRUE)
      BY <2>2
    <3>2. labels'[i].at = at
      BY <2>2, <3>1, RecordedLink
    <3> QED
      BY <3>2
  <2> QED
    BY <1>2, <2>1, <2>2
<1>6. labels'[i].at \in Nat
  <2>1. CASE i \in Links
    <3>1. labels[i] \in Label
      BY <1>2, <2>1, ElementOfSeq DEF Bounded, TypeOK
    <3> QED
      BY <1>2, <2>1, <3>1 DEF Label
  <2>2. CASE links /\ i = Len(labels')
    BY <2>2, RecordedLink
  <2> QED
    BY <1>2, <2>1, <2>2
<1>7. k \in 1..Len(shown) /\ shown'[k] = shown[k]
  <2>1. k # Len(shown) + 1
    BY <1>1, <1>4, <1>5, <1>6
  <2> QED
    BY <1>1, <1>3, <2>1
<1>8. CASE i \in Links
  <2>1. labels'[i] = labels[i]
    BY <1>2, <1>8
  <2> QED
    BY <1>4, <1>7, <1>8, <2>1 DEF Said, PassesAreTrue
<1>9. CASE links /\ i = Len(labels')
  <2>1. Records(s, at, TRUE)
    BY <1>9
  <2>2. /\ labels'[i].subject = s /\ labels'[i].verdict = Verdict(s, labels[row.chain].subject)
        /\ labels'[i].since = Or(IF IsNew(s) THEN 0 ELSE row.since, labels[row.chain].at)
        /\ row.chain \in 1..Len(labels)
    BY <1>4, <1>9, <2>1, RecordedLink
  <2>3. labels[row.chain].subject = row.subject
    BY <2>2 DEF PathInv, ChainNamesCurrentSubject
  <2>4. s = row.subject
    BY <1>4, <2>2, <2>3 DEF Verdict
  <2>5. row.since >= 1 /\ row.since \in Nat
    BY <2>4, NullAssumption DEF InOrder, Bounded, TypeOK, Row
  <2>6. labels'[i].since = row.since
    BY <2>2, <2>4, <2>5 DEF IsNew, Or
  <2>7. row.since < shown[k].at
    BY <1>4, <1>7, <2>6
  <2> QED
    BY <1>7, <2>2, <2>4, <2>7 DEF Said, DateIsTrue
<1> QED
  BY <1>2, <1>8, <1>9

LEMMA DateStaysTrue ==
    ASSUME Bounded, Said, NEW s \in Subjects, NEW at \in Nat,
           \A k \in 1..Len(shown) : shown[k].at <= at,
           NEW links \in BOOLEAN, Records(s, at, links)
    PROVE  DateIsTrue'
<1>1. /\ Len(shown) \in Nat /\ Len(shown') = Len(shown) + 1
      /\ \A k \in 1..Len(shown) : shown'[k] = shown[k]
      /\ shown'[Len(shown) + 1].subject = s
  BY ShownGrows DEF Records
<1>2. row'.subject = s /\ row'.since = IF IsNew(s) THEN at ELSE row.since
  BY Zenon DEF Records
<1>3. \A k \in 1..Len(shown') : k \in 1..Len(shown) \/ k = Len(shown) + 1
  BY <1>1
<1>4. SUFFICES ASSUME NEW k \in 1..Len(shown'), row'.since < shown'[k].at
               PROVE  shown'[k].subject = s
  BY <1>2 DEF DateIsTrue
<1>5. CASE k = Len(shown) + 1
  BY <1>1, <1>5
<1>6. CASE k \in 1..Len(shown)
  <2>1. shown'[k] = shown[k] /\ shown[k].at <= at /\ shown[k].at \in Nat
    BY <1>1, <1>6, ShownSubjects
  <2>2. ~ IsNew(s) /\ row'.since = row.since
    BY <1>2, <1>4, <2>1
  <2>3. shown[k].subject = row.subject
    BY <1>4, <1>6, <2>1, <2>2 DEF Said, DateIsTrue
  <2> QED
    BY <2>1, <2>2, <2>3 DEF IsNew
<1> QED
  BY <1>3, <1>5, <1>6

\* A digested list that is new has WARDEN's labels right after its own.
LEMMA ScanStillFollows ==
    ASSUME Bounded, ScanFollows, NEW s \in Subjects, NEW at \in Nat, NEW r \in Row, r.chain # 0 => r.chain \in 1..Len(labels),
           NEW new \in BOOLEAN, NEW scanned \in BOOLEAN, NEW links \in BOOLEAN, links => r.chain # 0,
           Grows(s, at, r, new, scanned, links), new /\ s.toolset # None => scanned
    PROVE  ScanFollows'
<1>1. labels \in Seq(Label) /\ Len(labels) \in Nat /\ Len(labels') \in Nat
  BY GrowsBounds DEF Bounded, TypeOK
<1>2. PICK m, n \in Nat : m = Len(labels) /\ n = Len(labels')
  BY <1>1
<1>3. /\ n = m + (IF new THEN 1 ELSE 0) + (IF scanned THEN 1 ELSE 0) + (IF links THEN 1 ELSE 0)
      /\ new => labels'[m + 1] = Observation(s, at)
      /\ scanned => labels'[m + (IF new THEN 2 ELSE 1)] = WardenLabels(s, at)[1]
      /\ links => labels'[n] = Continuity(s, r, at, IF new THEN 0 ELSE r.since)
      /\ \A i \in 1..m : labels'[i] = labels[i]
  BY <1>2, Zenon DEF Grows
<1>4. /\ Observation(s, at).subject = s
      /\ WardenLabels(s, at)[1].kind = "scan" /\ WardenLabels(s, at)[1].subject = s
  BY <1>1, EntriesAreLabels
<1>5. links => Continuity(s, r, at, IF new THEN 0 ELSE r.since).kind = "continuity"
  <2>1. (IF new THEN 0 ELSE r.since) \in Nat
    BY DEF Row
  <2> QED
    BY <1>1, <2>1, ContinuityIsLabel
<1>6. m <= n /\ (new /\ scanned => m + 2 <= n)
  <2>1. n = m + (IF new THEN 1 ELSE 0) + (IF scanned THEN 1 ELSE 0) + (IF links THEN 1 ELSE 0)
    BY <1>3
  <2> QED
    BY <2>1
<1> SUFFICES ASSUME NEW i \in 1..n, labels'[i].kind = "observation", labels'[i].subject.toolset # None
             PROVE  i < n /\ labels'[i + 1].kind = "scan" /\ labels'[i + 1].subject = labels'[i].subject
  BY <1>2 DEF ScanFollows
<1>7. CASE i \in 1..m
  <2>1. i < m /\ labels[i + 1].kind = "scan" /\ labels[i + 1].subject = labels[i].subject
    BY <1>2, <1>3, <1>7 DEF ScanFollows
  <2>2. i + 1 \in 1..m /\ i < n
    BY <1>6, <2>1
  <2> QED
    BY <1>3, <1>7, <2>1, <2>2
<1>8. CASE i = m + 1 /\ new
  <2>1. labels'[i].subject = s /\ scanned
    BY <1>3, <1>4, <1>8
  <2>2. labels'[m + 2] = WardenLabels(s, at)[1] /\ i < n /\ i + 1 = m + 2
    BY <1>3, <1>6, <1>8, <2>1
  <2> QED
    BY <1>4, <2>1, <2>2
<1>9. ~ (scanned /\ i = m + (IF new THEN 2 ELSE 1))
  BY <1>3, <1>4
<1>10. ~ (links /\ i = n)
  BY <1>3, <1>5
<1>11. i \in 1..m \/ (i = m + 1 /\ new) \/ (scanned /\ i = m + (IF new THEN 2 ELSE 1)) \/ (links /\ i = n)
  <2>1. n = m + (IF new THEN 1 ELSE 0) + (IF scanned THEN 1 ELSE 0) + (IF links THEN 1 ELSE 0)
    BY <1>3
  <2>2. CASE new
    BY <2>1, <2>2
  <2>3. CASE ~ new
    BY <2>1, <2>3
  <2> QED
    BY <2>2, <2>3
<1> QED
  BY <1>7, <1>8, <1>9, <1>10, <1>11

LEMMA SaidAfterList ==
    ASSUME Bounded, Serialized, ScanInv, History, InOrder, Said, ~ overlapped,
           NEW o \in Observers, CommitUndigestible(o) \/ CommitServed(o)
    PROVE  Said'
<1>1. step[o] = "reading" /\ item[o].list # None
  BY DEF CommitUndigestible, CommitServed
<1>2. PICK s, at : s = Subject(item[o].list) /\ at = item[o].at
  OBVIOUS
<1>3. s \in Subjects /\ at \in Nat /\ state[o] \in Row /\ (state[o].chain # 0 => state[o].chain \in 1..Len(labels))
  BY <1>1, <1>2, InTransaction
<1>4. Serial /\ PathInv
  BY DEF Serial, History
<1>5. PICK links \in BOOLEAN : Records(s, at, links)
  BY <1>2, <1>4, CommitRecords DEF PathInv
<1>6. /\ \A k \in 1..Len(shown) : shown[k].at <= at
      /\ \A i \in 1..Len(labels) : labels[i].at <= at
  BY <1>1, <1>2 DEF InOrder, Active
<1>7. PassesAreTrue' /\ DateIsTrue'
  BY <1>3, <1>4, <1>5, <1>6, PassesStayTrue, DateStaysTrue
<1>8. ScanFollows
  BY DEF Said
<1>9. CASE CommitServed(o)
  <2>1. Grows(s, at, state[o], New(o), Scanned(o), Linked(o))
    BY <1>2, <1>9, ServedGrows
  <2>2. s.toolset # None /\ ~ Scanned(o) => s = row.subject
    BY <1>2, <1>9, UnscannedIsCurrent
  <2>3. state[o] = row
    BY <1>1, <1>4 DEF Serialized
  <2>4. New(o) /\ s.toolset # None => Scanned(o)
    BY <1>2, <2>2, <2>3 DEF New
  <2>5. Linked(o) => state[o].chain # 0
    BY DEF Linked
  <2>6. ScanFollows'
    BY <1>3, <1>8, <2>1, <2>4, <2>5, FlagsAreBoolean, ScanStillFollows
  <2>7. CountsAreOfTheList'
    <3>1. row'.subject = s /\ row'.matches = IF Scanned(o) THEN s.toolset ELSE row.matches
      BY <1>2, <1>9, ServedRow
    <3> QED
      BY <1>3, <2>2, <3>1, NullAssumption DEF Said, CountsAreOfTheList
  <2> QED
    BY <1>7, <2>6, <2>7 DEF Said
<1>10. CASE CommitUndigestible(o)
  <2>1. s.toolset = None
    BY <1>2, <1>10, DigestIsNotRefused DEF CommitUndigestible
  <2>2. PICK chained \in BOOLEAN : chained = (New(o) /\ state[o].chain # 0)
    OBVIOUS
  <2>3. Grows(s, at, state[o], New(o), FALSE, chained)
    BY <1>2, <1>10, <2>2, UndigestibleGrows
  <2>4. ScanFollows'
    BY <1>3, <1>8, <2>1, <2>2, <2>3, FlagsAreBoolean, ScanStillFollows
  <2>5. row'.subject = s
    BY <1>5, Zenon DEF Records
  <2>6. CountsAreOfTheList'
    BY <2>1, <2>5 DEF CountsAreOfTheList
  <2> QED
    BY <1>7, <2>4, <2>6 DEF Said
<1> QED
  BY <1>9, <1>10

LEMMA SaidStep ==
    ASSUME Bounded, Serialized, ScanInv, ~ overlapped => History /\ InOrder /\ Said, [Next]_vars
    PROVE  ~ overlapped' => Said'
<1> SUFFICES ASSUME ~ overlapped' PROVE Said'
  OBVIOUS
<1>1. ~ overlapped /\ History /\ InOrder /\ Said
  BY OverlapStays
<1>2. CASE UNCHANGED table
  <2>1. UNCHANGED <<row, labels, shown>>
    BY <1>2 DEF table
  <2> QED
    BY <1>1, <2>1 DEF Said, PassesAreTrue, DateIsTrue, ScanFollows, CountsAreOfTheList, Links
<1>3. ASSUME NEW o \in Observers, CommitFailure(o) PROVE Said'
  BY <1>1, <1>3, SaidAfterFailure
<1>4. ASSUME NEW o \in Observers, CommitUndigestible(o) \/ CommitServed(o) PROVE Said'
  BY <1>1, <1>4, SaidAfterList
<1>5. UNCHANGED table \/ \E o \in Observers : CommitFailure(o) \/ CommitUndigestible(o) \/ CommitServed(o)
  BY DEF Next, vars, Observing, Committing, Tick, PublishRules, StartRun, Observe, Scan, ReadRow, Lose, CommitInternal
<1> QED
  BY <1>2, <1>3, <1>4, <1>5

-----------------------------------------------------------------------------
(* The theorems.                                                            *)

LEMMA ChainInvHolds == Spec => []ChainInv
<1>1. Init => ChainInv
  BY BoundedInit, SerializedInit, HistoryInit, InOrderInit, SaidInit DEF ChainInv
<1>2. ChainInv /\ [Next]_vars => ChainInv'
  <2> SUFFICES ASSUME ChainInv, [Next]_vars PROVE ChainInv'
    OBVIOUS
  <2>1. ~ overlapped => Serial
    BY DEF Serial
  <2> QED
    BY <2>1, BoundedStep, SerializedStep, HistoryStep, InOrderStep, SaidStep DEF ChainInv
<1> QED
  BY <1>1, <1>2, PTL DEF Spec

(***************************************************************************)
(* Where commits about a target are serial -- on SQLite always, on         *)
(* Postgres while no two observers hold an observation of it -- its label  *)
(* chain is the history of what it served: one path ending in the list the *)
(* row calls current, with every change in it exactly once.                *)
(***************************************************************************)
THEOREM SerialChainIsTheHistory == Spec => [](Serial => ChainIsTheHistory)
<1>1. ChainInv => (Serial => ChainIsTheHistory)
  BY DEF ChainInv, History, PathInv, ChangesInv, ChainIsTheHistory
<1> QED
  BY <1>1, ChainInvHolds, PTL

\* On SQLite the chain is always the history.
THEOREM ChainIsTheHistoryOnSQLite == ASSUME WriteLock PROVE Spec => []ChainIsTheHistory
<1>1. Serial
  BY DEF Serial
<1>2. (Serial => ChainIsTheHistory) => ChainIsTheHistory
  BY <1>1
<1> QED
  BY <1>2, SerialChainIsTheHistory, PTL

(***************************************************************************)
(* While no two observers hold an observation of the target, every list    *)
(* observed inside a pass is the list it is about, every list since the    *)
(* date shown is the row's, and a digested list has WARDEN's labels after  *)
(* its own and its own match counts.                                       *)
(***************************************************************************)
THEOREM PassesAreHonest == Spec => []PassesSayWhatWasSeen
<1>1. ChainInv => PassesSayWhatWasSeen
  BY SaidIsTheProperty DEF ChainInv
<1> QED
  BY <1>1, ChainInvHolds, PTL

(***************************************************************************)
(* No run leaves a digested list it recorded judged under other sets than  *)
(* its own, on either database, while no two observers overlap.            *)
(***************************************************************************)
THEOREM NoneSkipped == Spec => RescannedUnderNewSets
<1>1. ChainInv /\ [Next]_vars => [RescanStep]_vars
  BY Rescans DEF ChainInv
<1> QED
  BY <1>1, ChainInvHolds, PTL DEF Spec, RescannedUnderNewSets

(***************************************************************************)
(* On SQLite every commit reports what it owes: the failure after a served *)
(* list is one outage label, a failure after a failure none, and a list is *)
(* judged under the sets of the run that recorded it.                      *)
(***************************************************************************)
THEOREM CommitsReport == ASSUME WriteLock PROVE Spec => EachCommitReports
<1>1. Serial
  BY DEF Serial
<1>2. ChainInv /\ [Next]_vars => [OutageStep]_vars
  BY <1>1, OutageOnce DEF ChainInv
<1>3. Spec => OutageIsReportedOnce
  BY <1>2, ChainInvHolds, PTL DEF Spec, OutageIsReportedOnce
<1> QED
  BY <1>3, NoneSkipped, PTL DEF EachCommitReports

-----------------------------------------------------------------------------
(* The classifier.  What a pass decided of a set, a model answered of that  *)
(* very set, and so did every verdict stored and every mark taken from one; *)
(* a call that is under way has been counted, and so have those of a day    *)
(* that is over.                                                            *)

Rows == [set : Digests \cup {NoSet}, model : Models \cup {Off}, flags : Answers \cup {Off}]
Outcomes == [kind : {"skip", "reuse", "verdict"}, flags : Answers \cup {Off}]
JudgePasses == [at : {"idle", "judge", "reserve", "call", "commit"},
                found : Seq(Digests \cup {NoSet}), out : Seq(Outcomes)]

\* A model m answered it of the set, one of those given.
Backed(set, out, m, answers) ==
    out.kind # "skip" => set \in Digests /\ m \in Models /\ out.flags \in Answers /\ <<set, m, out.flags>> \in answers

PassStands(l, p, m, answers) ==
    /\ p \in JudgePasses
    /\ p.at \in {"judge", "reserve", "call"} => Len(p.found) = Len(Lane[l]) /\ Len(p.out) < Len(p.found)
    /\ p.at = "commit" => Len(p.out) = Len(p.found) /\ Len(p.found) \in 1..Len(Lane[l])
    /\ p.at \in {"reserve", "call"} => m \in Models /\ p.found[Len(p.out) + 1] \in Digests
    /\ \A i \in 1..Len(p.out) : i <= Len(p.found) => Backed(p.found[i], p.out[i], m, answers)

Calling == {l \in Lanes : pass[l].at = "call"}

AdviceType ==
    /\ marked \in [Judged -> Rows] /\ verdict \in [Digests \X Models -> Answers \cup {Off}]
    /\ DOMAIN pass = Lanes /\ model \in Models \cup {Off}
    /\ used \in 0..MaxDaily /\ day \in Nat \ {0} /\ IsFiniteSet(given)

VerdictsAreGiven ==
    \A set \in Digests, m \in Models : verdict[<<set, m>>] # Off => <<set, m, verdict[<<set, m>>]>> \in given

MarksAreVerdicts ==
    \A t \in Judged : marked[t].set # NoSet /\ marked[t].model # Off =>
        /\ verdict[<<marked[t].set, marked[t].model>>] # Off
        /\ <<marked[t].set, marked[t].model, marked[t].flags>> \in given

CallsAreCounted == Cardinality(given) + Cardinality(Calling) <= MaxDaily * (day - 1) + used

AdviceInv ==
    /\ AdviceType /\ VerdictsAreGiven /\ MarksAreVerdicts /\ CallsAreCounted
    /\ \A l \in Lanes : PassStands(l, pass[l], model, given)

LEMMA NoPassStands == ASSUME NEW l, NEW m, NEW answers PROVE PassStands(l, NoPass, m, answers) /\ NoPass.at = "idle"
BY DEF NoPass, PassStands, JudgePasses

LEMMA MoreAnswers ==
    ASSUME NEW l, NEW p, NEW m, NEW answers, NEW more, answers \subseteq more, PassStands(l, p, m, answers)
    PROVE  PassStands(l, p, m, more)
BY DEF PassStands, Backed

LEMMA DecidedStands ==
    ASSUME NEW l \in Lanes, NEW p, NEW m, NEW answers, PassStands(l, p, m, answers), p.at \in {"judge", "reserve", "call"},
           NEW out \in Outcomes, Backed(p.found[Len(p.out) + 1], out, m, answers)
    PROVE  PassStands(l, Decided(p, out), m, answers) /\ Decided(p, out).at \in {"judge", "commit"}
<1>1. PICK at \in {"judge", "reserve", "call"}, found \in Seq(Digests \cup {NoSet}), outs \in Seq(Outcomes) :
        p = [at |-> at, found |-> found, out |-> outs]
  BY DEF PassStands, JudgePasses
<1>2. PICK next \in {"judge", "commit"} : next = IF Len(outs) + 1 = Len(found) THEN "commit" ELSE "judge"
  OBVIOUS
<1>3. Decided(p, out) = [at |-> next, found |-> found, out |-> Append(outs, out)]
  <2>1. p.found = found /\ p.out = outs
    BY <1>1
  <2>2. PICK more : more = Append(outs, out)
    OBVIOUS
  <2>3. Decided(p, out) = [p EXCEPT !.out = more, !.at = next]
    BY <1>2, <2>1, <2>2 DEF Decided
  <2> QED
    BY <1>1, <2>2, <2>3
<1>4. /\ Append(outs, out) \in Seq(Outcomes) /\ Len(Append(outs, out)) = Len(outs) + 1
      /\ \A i \in 1..Len(outs) : Append(outs, out)[i] = outs[i]
      /\ Append(outs, out)[Len(outs) + 1] = out
  BY <1>1
<1>5. /\ Len(found) = Len(Lane[l]) /\ Len(outs) < Len(found) /\ Len(found) \in Nat /\ Len(outs) \in Nat
      /\ \A i \in 1..Len(outs) : i <= Len(found) => Backed(found[i], outs[i], m, answers)
  BY <1>1 DEF PassStands
<1>6. ASSUME NEW i \in 1..Len(outs) + 1, i <= Len(found)
      PROVE  Backed(found[i], Append(outs, out)[i], m, answers)
  BY <1>1, <1>4, <1>5, <1>6
<1>7. next = "commit" => Len(outs) + 1 = Len(found) /\ Len(found) \in 1..Len(Lane[l])
  BY <1>2, <1>5
<1>8. next = "judge" => Len(outs) + 1 < Len(found)
  BY <1>2, <1>5
<1>9. [at |-> next, found |-> found, out |-> Append(outs, out)] \in JudgePasses
  BY <1>1, <1>4 DEF JudgePasses
<1> QED
  BY <1>3, <1>4, <1>5, <1>6, <1>7, <1>8, <1>9 DEF PassStands

\* The next target of a pass that commits.
LEMMA CommitNextStands ==
    ASSUME NEW l \in Lanes, PassStands(l, pass[l], model, given), DOMAIN pass = Lanes, pass[l].at = "commit", CommitNext(l)
    PROVE  /\ PassStands(l, pass'[l], model, given) /\ pass'[l].at \in {"idle", "commit"}
           /\ DOMAIN pass' = Lanes /\ \A k \in Lanes \ {l} : pass'[k] = pass[k]
<1>1. PICK found \in Seq(Digests \cup {NoSet}), outs \in Seq(Outcomes) :
        pass[l] = [at |-> "commit", found |-> found, out |-> outs]
  BY DEF PassStands, JudgePasses
<1>2. /\ Len(outs) = Len(found) /\ Len(found) \in 1..Len(Lane[l])
      /\ \A i \in 1..Len(outs) : Backed(found[i], outs[i], model, given)
  BY <1>1 DEF PassStands
<1>3. DOMAIN pass' = Lanes /\ \A k \in Lanes \ {l} : pass'[k] = pass[k]
  BY DEF CommitNext
<1>4. CASE Len(found) = 1
  BY <1>1, <1>3, <1>4, NoPassStands DEF CommitNext
<1>5. CASE Len(found) # 1
  <2>1. pass'[l] = [at |-> "commit", found |-> Tail(found), out |-> Tail(outs)]
    <3>1. pass[l].found = found /\ pass[l].out = outs
      BY <1>1
    <3>2. PICK rest, others : rest = Tail(found) /\ others = Tail(outs)
      OBVIOUS
    <3>3. pass'[l] = [pass[l] EXCEPT !.found = rest, !.out = others]
      BY <1>5, <3>1, <3>2 DEF CommitNext
    <3> QED
      BY <1>1, <3>2, <3>3
  <2>2. /\ Tail(found) \in Seq(Digests \cup {NoSet}) /\ Tail(outs) \in Seq(Outcomes)
        /\ Len(Tail(found)) = Len(found) - 1 /\ Len(Tail(outs)) = Len(outs) - 1
        /\ \A i \in 1..Len(outs) - 1 : Tail(found)[i] = found[i + 1] /\ Tail(outs)[i] = outs[i + 1]
    BY <1>2
  <2>3. Len(found) - 1 \in 1..Len(Lane[l])
    BY <1>2, <1>5, AdviceAssumption
  <2>4. ASSUME NEW i \in 1..Len(outs) - 1 PROVE Backed(Tail(found)[i], Tail(outs)[i], model, given)
    <3>1. i + 1 \in 1..Len(outs)
      BY <1>2
    <3> QED
      BY <1>2, <2>2, <3>1
  <2> QED
    BY <1>2, <1>3, <2>1, <2>2, <2>3, <2>4 DEF PassStands, JudgePasses
<1> QED
  BY <1>4, <1>5

\* Passes but one are as they were.
LEMMA OnePass ==
    ASSUME AdviceInv, NEW l \in Lanes, NEW p, pass' = [pass EXCEPT ![l] = p]
    PROVE  DOMAIN pass' = Lanes /\ pass'[l] = p /\ \A k \in Lanes \ {l} : pass'[k] = pass[k]
BY DEF AdviceInv, AdviceType

LEMMA CallingIsFinite == ASSUME AdviceInv PROVE IsFiniteSet(Calling)
<1>1. IsFiniteSet(Lanes) /\ Calling \subseteq Lanes
  BY AdviceAssumption DEF Calling
<1> QED
  BY <1>1, FS_Subset

\* A lane starts or stops calling.
LEMMA CallingChanges ==
    ASSUME AdviceInv, NEW l \in Lanes, \A k \in Lanes \ {l} : pass'[k] = pass[k]
    PROVE  /\ Cardinality(Calling) \in Nat /\ Cardinality(Calling') \in Nat
           /\ pass'[l].at # "call" => Cardinality(Calling') <= Cardinality(Calling)
           /\ Cardinality(Calling') <= Cardinality(Calling) + 1
           /\ pass[l].at = "call" /\ pass'[l].at # "call" => Cardinality(Calling') = Cardinality(Calling) - 1
<1>1. IsFiniteSet(Calling) /\ Cardinality(Calling) \in Nat
  BY CallingIsFinite, FS_CardinalityType
<1>2. Calling' = IF pass'[l].at = "call" THEN Calling \cup {l} ELSE Calling \ {l}
  BY DEF Calling
<1>3. IsFiniteSet(Calling \cup {l}) /\ Cardinality(Calling \cup {l}) = (IF l \in Calling THEN Cardinality(Calling) ELSE Cardinality(Calling) + 1)
  BY <1>1, FS_AddElement
<1>4. IsFiniteSet(Calling \ {l}) /\ Cardinality(Calling \ {l}) = (IF l \in Calling THEN Cardinality(Calling) - 1 ELSE Cardinality(Calling))
  BY <1>1, FS_RemoveElement
<1>5. l \in Calling <=> pass[l].at = "call"
  BY DEF Calling
<1>6. Cardinality(Calling \ {l}) \in Nat
  BY <1>4, FS_CardinalityType
<1> QED
  BY <1>1, <1>2, <1>3, <1>4, <1>5, <1>6

\* What a step that leaves the stores and the budget alone must keep.
LEMMA PassChanges ==
    ASSUME AdviceInv, NEW l \in Lanes, DOMAIN pass' = Lanes, \A k \in Lanes \ {l} : pass'[k] = pass[k],
           PassStands(l, pass'[l], model, given), pass'[l].at # "call",
           UNCHANGED <<marked, verdict, model, used, day, given>>
    PROVE  AdviceInv'
<1>1. CallsAreCounted'
  <2>1. PICK b \in Nat : b = MaxDaily * (day - 1)
    BY AdviceAssumption DEF AdviceInv, AdviceType
  <2>2. used \in Nat /\ Cardinality(given) \in Nat
    BY FS_CardinalityType, AdviceAssumption DEF AdviceInv, AdviceType
  <2>3. Cardinality(given) + Cardinality(Calling) <= b + used
    BY <2>1 DEF AdviceInv, CallsAreCounted
  <2>4. Cardinality(given) + Cardinality(Calling') <= b + used
    BY <2>2, <2>3, CallingChanges
  <2> QED
    BY <2>1, <2>4 DEF CallsAreCounted
<1>2. \A k \in Lanes : PassStands(k, pass'[k], model, given)
  BY DEF AdviceInv
<1> QED
  BY <1>1, <1>2 DEF AdviceInv, AdviceType, VerdictsAreGiven, MarksAreVerdicts

LEMMA AdviceInvObserved ==
    ASSUME AdviceInv, NEW l \in Lanes, NEW found \in [DOMAIN Lane[l] -> Digests \cup {NoSet}], Observed(l, found)
    PROVE  AdviceInv'
<1>1. Len(Lane[l]) \in Nat \ {0} /\ DOMAIN Lane[l] = 1..Len(Lane[l])
  BY AdviceAssumption
<1>2. found \in Seq(Digests \cup {NoSet}) /\ Len(found) = Len(Lane[l])
  BY <1>1
<1> DEFINE p == [at |-> "judge", found |-> found, out |-> << >>]
<1>3. PassStands(l, p, model, given)
  BY <1>1, <1>2 DEF PassStands, JudgePasses
<1>4. DOMAIN pass' = Lanes /\ pass'[l] = p /\ \A k \in Lanes \ {l} : pass'[k] = pass[k]
  BY OnePass DEF Observed
<1> QED
  BY <1>3, <1>4, PassChanges DEF Observed

LEMMA AdviceInvLook ==
    ASSUME AdviceInv, NEW l \in Lanes, Look(l)
    PROVE  AdviceInv'
<1> DEFINE p == pass[l]
           set == p.found[Len(p.out) + 1]
           Becomes(q) == DOMAIN pass' = Lanes /\ pass'[l] = q /\ \A k \in Lanes \ {l} : pass'[k] = pass[k]
<1>1. p.at = "judge" /\ PassStands(l, p, model, given) /\ Turn(l) = Len(p.out) + 1
  BY DEF Look, Turn, AdviceInv
<1>2. set \in Digests \cup {NoSet} /\ model \in Models \cup {Off}
  BY <1>1 DEF PassStands, JudgePasses, AdviceInv, AdviceType
<1>3. UNCHANGED <<marked, verdict, model, used, day, given>>
  BY DEF Look
<1>4. ASSUME NEW out \in Outcomes, Becomes(Decided(p, out)), Backed(set, out, model, given)
      PROVE  AdviceInv'
  BY <1>1, <1>3, <1>4, DecidedStands, PassChanges
<1>5. CASE Becomes(Decided(p, Skipped))
  BY <1>4, <1>5 DEF Skipped, Outcomes, Backed
<1>6. CASE set # NoSet /\ model # Off /\ verdict[<<set, model>>] # Off
           /\ Becomes(Decided(p, [kind |-> "reuse", flags |-> verdict[<<set, model>>]]))
  <2>1. verdict[<<set, model>>] \in Answers /\ <<set, model, verdict[<<set, model>>]>> \in given
    BY <1>2, <1>6 DEF AdviceInv, AdviceType, VerdictsAreGiven
  <2> QED
    BY <1>2, <1>4, <1>6, <2>1 DEF Outcomes, Backed
<1>7. ASSUME set # NoSet, model # Off, NEW j \in SeenAt(p), Becomes(Decided(p, [kind |-> "reuse", flags |-> p.out[j].flags]))
      PROVE  AdviceInv'
  <2>1. j \in 1..Len(p.out) /\ p.out[j].kind = "verdict" /\ p.found[j] = set /\ j <= Len(p.found)
    BY <1>1, <1>7 DEF SeenAt, PassStands, JudgePasses
  <2>2. p.out[j].flags \in Answers /\ <<set, model, p.out[j].flags>> \in given
    BY <1>1, <2>1 DEF PassStands, Backed
  <2> QED
    BY <1>2, <1>4, <1>7, <2>2 DEF Outcomes, Backed
<1>8. CASE set # NoSet /\ model # Off /\ Becomes([p EXCEPT !.at = "reserve"])
  <2>1. PassStands(l, pass'[l], model, given) /\ pass'[l].at = "reserve"
    BY <1>1, <1>2, <1>8 DEF PassStands, JudgePasses
  <2> QED
    BY <1>3, <1>8, <2>1, PassChanges
<1>9. PICK q : /\ pass' = [pass EXCEPT ![l] = q]
               /\ q = IF model = Off \/ set = NoSet \/ (marked[Lane[l][Turn(l)]].set = set /\ marked[Lane[l][Turn(l)]].model = model)
                      THEN Decided(p, Skipped)
                      ELSE IF verdict[<<set, model>>] # Off
                           THEN Decided(p, [kind |-> "reuse", flags |-> verdict[<<set, model>>]])
                      ELSE IF SeenAt(p) # {}
                           THEN Decided(p, [kind |-> "reuse", flags |-> p.out[CHOOSE j \in SeenAt(p) : TRUE].flags])
                      ELSE [p EXCEPT !.at = "reserve"]
  BY <1>1 DEF Look
<1>10. Becomes(q)
  BY <1>9, OnePass
<1>11. SeenAt(p) # {} => (CHOOSE j \in SeenAt(p) : TRUE) \in SeenAt(p)
  OBVIOUS
<1> QED
  BY <1>5, <1>6, <1>7, <1>8, <1>9, <1>10, <1>11

LEMMA AdviceInvReserve ==
    ASSUME AdviceInv, NEW l \in Lanes, Reserve(l)
    PROVE  AdviceInv'
<1>1. pass[l].at = "reserve" /\ PassStands(l, pass[l], model, given) /\ UNCHANGED <<marked, verdict, model, day, given>>
  BY DEF Reserve, AdviceInv
<1>2. CASE used >= MaxDaily
  <2>1. pass' = [pass EXCEPT ![l] = Decided(pass[l], Skipped)] /\ UNCHANGED used
    BY <1>2, AdviceAssumption DEF Reserve, AdviceInv, AdviceType
  <2>2. Skipped \in Outcomes /\ Backed(pass[l].found[Len(pass[l].out) + 1], Skipped, model, given)
    BY DEF Skipped, Outcomes, Backed
  <2> QED
    BY <1>1, <2>1, <2>2, OnePass, DecidedStands, PassChanges
<1>3. CASE used < MaxDaily
  <2>1. used' = used + 1 /\ pass' = [pass EXCEPT ![l] = [pass[l] EXCEPT !.at = "call"]]
    BY <1>3 DEF Reserve, AdviceInv, AdviceType
  <2>2. DOMAIN pass' = Lanes /\ pass'[l] = [pass[l] EXCEPT !.at = "call"] /\ \A k \in Lanes \ {l} : pass'[k] = pass[k]
    BY <2>1, OnePass
  <2>3. PassStands(l, pass'[l], model, given)
    BY <1>1, <2>2 DEF PassStands, JudgePasses
  <2>4. CallsAreCounted'
    <3>1. PICK b \in Nat : b = MaxDaily * (day - 1)
      BY AdviceAssumption DEF AdviceInv, AdviceType
    <3>2. used \in Nat /\ Cardinality(given) \in Nat
      BY FS_CardinalityType, AdviceAssumption DEF AdviceInv, AdviceType
    <3>3. Cardinality(given) + Cardinality(Calling) <= b + used
      BY <3>1 DEF AdviceInv, CallsAreCounted
    <3>4. Cardinality(given) + Cardinality(Calling') <= b + used'
      BY <2>1, <2>2, <3>2, <3>3, CallingChanges
    <3> QED
      BY <1>1, <3>1, <3>4 DEF CallsAreCounted
  <2>5. used' \in 0..MaxDaily
    BY <1>3, <2>1, AdviceAssumption DEF AdviceInv, AdviceType
  <2>6. \A k \in Lanes : PassStands(k, pass'[k], model, given)
    BY <2>2, <2>3 DEF AdviceInv
  <2> QED
    BY <1>1, <2>2, <2>4, <2>5, <2>6 DEF AdviceInv, AdviceType, VerdictsAreGiven, MarksAreVerdicts
<1>4. used \in Nat
  BY AdviceAssumption DEF AdviceInv, AdviceType
<1> QED
  BY <1>2, <1>3, <1>4, AdviceAssumption

LEMMA AdviceInvCallFails ==
    ASSUME AdviceInv, NEW l \in Lanes, CallFails(l)
    PROVE  AdviceInv'
<1>1. pass[l].at = "call" /\ PassStands(l, pass[l], model, given) /\ UNCHANGED <<marked, verdict, model, used, day, given>>
      /\ pass' = [pass EXCEPT ![l] = Decided(pass[l], Skipped)]
  BY DEF CallFails, AdviceInv, AdviceType
<1>2. Skipped \in Outcomes /\ Backed(pass[l].found[Len(pass[l].out) + 1], Skipped, model, given)
  BY DEF Skipped, Outcomes, Backed
<1> QED
  BY <1>1, <1>2, OnePass, DecidedStands, PassChanges

LEMMA AdviceInvCall ==
    ASSUME AdviceInv, NEW l \in Lanes, NEW answer \in Answers, Call(l, answer)
    PROVE  AdviceInv'
<1> DEFINE p == pass[l]
           set == p.found[Len(p.out) + 1]
           out == [kind |-> "verdict", flags |-> answer]
<1>1. p.at = "call" /\ PassStands(l, p, model, given) /\ Turn(l) = Len(p.out) + 1
      /\ UNCHANGED <<marked, verdict, model, used, day>>
  BY DEF Call, Turn, AdviceInv
<1>2. given' = given \cup {<<set, model, answer>>} /\ pass' = [pass EXCEPT ![l] = Decided(p, out)]
  BY <1>1 DEF Call, AdviceInv, AdviceType
<1>3. set \in Digests /\ model \in Models
  BY <1>1 DEF PassStands
<1>4. PassStands(l, p, model, given')
  BY <1>1, <1>2, MoreAnswers
<1>5. out \in Outcomes /\ Backed(set, out, model, given')
  BY <1>2, <1>3 DEF Outcomes, Backed
<1>6. PassStands(l, pass'[l], model, given') /\ pass'[l].at # "call" /\ DOMAIN pass' = Lanes
      /\ \A k \in Lanes \ {l} : pass'[k] = pass[k]
  <2>1. p.at \in {"judge", "reserve", "call"} /\ PassStands(l, p, model, given')
    BY <1>1, <1>4
  <2>2. PassStands(l, Decided(p, out), model, given') /\ Decided(p, out).at \in {"judge", "commit"}
    BY <1>5, <2>1, DecidedStands
  <2> QED
    BY <1>2, <2>2, OnePass
<1>7. \A k \in Lanes : PassStands(k, pass'[k], model, given')
  <2>1. \A k \in Lanes \ {l} : PassStands(k, pass'[k], model, given')
    BY <1>2, <1>6, MoreAnswers DEF AdviceInv
  <2> QED
    BY <1>6, <2>1
<1>8. IsFiniteSet(given') /\ Cardinality(given') <= Cardinality(given) + 1 /\ Cardinality(given) \in Nat /\ Cardinality(given') \in Nat
  <2>1. IsFiniteSet(given)
    BY DEF AdviceInv, AdviceType
  <2>2. IsFiniteSet(given') /\ Cardinality(given') \in {Cardinality(given), Cardinality(given) + 1}
    BY <1>2, <2>1, FS_AddElement
  <2>3. Cardinality(given) \in Nat
    BY <2>1, FS_CardinalityType
  <2> QED
    BY <2>2, <2>3
<1>9. CallsAreCounted'
  <2>1. PICK b \in Nat : b = MaxDaily * (day - 1)
    BY AdviceAssumption DEF AdviceInv, AdviceType
  <2>2. used \in Nat
    BY AdviceAssumption DEF AdviceInv, AdviceType
  <2>3. Cardinality(given) + Cardinality(Calling) <= b + used
    BY <2>1 DEF AdviceInv, CallsAreCounted
  <2>4. Cardinality(given') + Cardinality(Calling') <= b + used
    BY <1>1, <1>6, <1>8, <2>2, <2>3, CallingChanges
  <2> QED
    BY <1>1, <2>1, <2>4 DEF CallsAreCounted
<1>10. VerdictsAreGiven' /\ MarksAreVerdicts'
  BY <1>1, <1>2 DEF AdviceInv, VerdictsAreGiven, MarksAreVerdicts
<1> QED
  BY <1>1, <1>6, <1>7, <1>8, <1>9, <1>10 DEF AdviceInv, AdviceType

LEMMA AdviceInvCommit ==
    ASSUME AdviceInv, NEW l \in Lanes, Commit(l)
    PROVE  AdviceInv'
<1> DEFINE p == pass[l]
           t == Lane[l][Turn(l)]
           set == Head(p.found)
           out == Head(p.out)
<1>1. p.at = "commit" /\ CommitNext(l) /\ UNCHANGED <<model, used, day, given>> /\ PassStands(l, p, model, given)
  BY DEF Commit, AdviceInv
<1>2. set \in Digests \cup {NoSet} /\ out \in Outcomes /\ Backed(set, out, model, given)
  <2>1. PICK found \in Seq(Digests \cup {NoSet}), outs \in Seq(Outcomes) : p.found = found /\ p.out = outs
    BY <1>1 DEF PassStands, JudgePasses
  <2>2. Len(outs) = Len(found) /\ Len(found) \in Nat \ {0} /\ 1 \in 1..Len(outs) /\ 1 <= Len(found)
    BY <1>1, <2>1 DEF PassStands
  <2>3. set = found[1] /\ out = outs[1] /\ found[1] \in Digests \cup {NoSet} /\ outs[1] \in Outcomes
    BY <2>1, <2>2
  <2> QED
    BY <1>1, <2>1, <2>2, <2>3 DEF PassStands
<1>3. DOMAIN pass' = Lanes /\ pass'[l].at # "call" /\ \A k \in Lanes : PassStands(k, pass'[k], model, given)
  BY <1>1, CommitNextStands DEF AdviceInv, AdviceType
<1>4. CallsAreCounted'
  <2>1. PICK b \in Nat : b = MaxDaily * (day - 1)
    BY AdviceAssumption DEF AdviceInv, AdviceType
  <2>2. used \in Nat /\ Cardinality(given) \in Nat
    BY FS_CardinalityType, AdviceAssumption DEF AdviceInv, AdviceType
  <2>3. Cardinality(given) + Cardinality(Calling) <= b + used
    BY <2>1 DEF AdviceInv, CallsAreCounted
  <2>4. \A k \in Lanes \ {l} : pass'[k] = pass[k]
    BY <1>1, CommitNextStands DEF AdviceInv, AdviceType
  <2>5. Cardinality(given) + Cardinality(Calling') <= b + used
    BY <1>3, <2>2, <2>3, <2>4, CallingChanges
  <2> QED
    BY <1>1, <2>1, <2>5 DEF CallsAreCounted
<1>5. /\ verdict' \in [Digests \X Models -> Answers \cup {Off}]
      /\ \A a \in Digests, m \in Models : verdict[<<a, m>>] # Off => verdict'[<<a, m>>] # Off
      /\ out.kind = "verdict" => verdict'[<<set, model>>] = out.flags /\ out.flags # Off
      /\ VerdictsAreGiven'
  <2>1. CASE out.kind = "verdict"
    <3>1. set \in Digests /\ model \in Models /\ out.flags \in Answers /\ <<set, model, out.flags>> \in given /\ out.flags # Off
      BY <1>2, <2>1, AdviceAssumption DEF Backed
    <3>2. verdict' = [verdict EXCEPT ![<<set, model>>] = out.flags]
      BY <2>1 DEF Commit
    <3>3. verdict \in [Digests \X Models -> Answers \cup {Off}] /\ <<set, model>> \in Digests \X Models
      BY <3>1 DEF AdviceInv, AdviceType
    <3>4. verdict' \in [Digests \X Models -> Answers \cup {Off}] /\ verdict'[<<set, model>>] = out.flags
      BY <3>1, <3>2, <3>3
    <3>5. \A a \in Digests, m \in Models : <<a, m>> # <<set, model>> => verdict'[<<a, m>>] = verdict[<<a, m>>]
      BY <3>2, <3>3
    <3>6. \A a \in Digests, m \in Models : <<a, m>> = <<set, model>> => a = set /\ m = model
      OBVIOUS
    <3> QED
      BY <1>1, <3>1, <3>4, <3>5, <3>6 DEF AdviceInv, VerdictsAreGiven
  <2>2. CASE out.kind # "verdict"
    BY <1>1, <2>2 DEF Commit, AdviceInv, AdviceType, VerdictsAreGiven
  <2> QED
    BY <2>1, <2>2
<1>6. ASSUME NEW was \in Rows, set # NoSet,
             was.set # NoSet /\ was.model # Off => verdict[<<was.set, was.model>>] # Off /\ <<was.set, was.model, was.flags>> \in given
      PROVE  /\ Marked(was, set, out) \in Rows
             /\ LET new == Marked(was, set, out)
                IN  new.set # NoSet /\ new.model # Off =>
                        verdict'[<<new.set, new.model>>] # Off /\ <<new.set, new.model, new.flags>> \in given
  <2>1. PICK kept : kept = IF was.set = set THEN was ELSE [set |-> set, model |-> Off, flags |-> Off]
    OBVIOUS
  <2>2. kept \in Rows /\ kept.set = set
    BY <1>2, <1>6, <2>1 DEF Rows
  <2>3. CASE out.kind = "verdict" \/ (out.kind = "reuse" /\ verdict[<<set, model>>] # Off)
    <3>1. set \in Digests /\ model \in Models /\ out.flags \in Answers /\ <<set, model, out.flags>> \in given
      BY <1>2, <2>3 DEF Backed
    <3>2. verdict'[<<set, model>>] # Off
      BY <1>5, <2>3, <3>1
    <3>3. Marked(was, set, out) = [kept EXCEPT !.model = model, !.flags = out.flags]
      BY <2>1, <2>3 DEF Marked
    <3>4. Marked(was, set, out) = [set |-> set, model |-> model, flags |-> out.flags]
      BY <2>2, <3>3 DEF Rows
    <3> QED
      BY <3>1, <3>2, <3>4 DEF Rows
  <2>4. CASE ~(out.kind = "verdict" \/ (out.kind = "reuse" /\ verdict[<<set, model>>] # Off))
    <3>1. Marked(was, set, out) = kept
      BY <2>1, <2>4 DEF Marked
    <3>2. kept.model # Off => kept = was /\ was.set # NoSet /\ was.set \in Digests /\ was.model \in Models
      BY <1>6, <2>1 DEF Rows
    <3> QED
      BY <1>5, <1>6, <2>2, <3>1, <3>2
  <2> QED
    BY <2>3, <2>4
<1>7. PICK new : /\ marked' = [marked EXCEPT ![t] = new]
                 /\ new = IF set = NoSet THEN [marked[t] EXCEPT !.set = NoSet] ELSE Marked(marked[t], set, out)
  BY DEF Commit
<1>8. ASSUME t \in Judged
      PROVE  new \in Rows /\ (new.set # NoSet /\ new.model # Off =>
                                verdict'[<<new.set, new.model>>] # Off /\ <<new.set, new.model, new.flags>> \in given)
  <2>1. marked[t] \in Rows
    BY <1>8 DEF AdviceInv, AdviceType
  <2>2. CASE set = NoSet
    BY <1>7, <2>1, <2>2 DEF Rows
  <2>3. CASE set # NoSet
    BY <1>6, <1>7, <1>8, <2>1, <2>3 DEF AdviceInv, MarksAreVerdicts
  <2> QED
    BY <2>2, <2>3
<1>9. marked' \in [Judged -> Rows]
  BY <1>7, <1>8 DEF AdviceInv, AdviceType
<1>10. MarksAreVerdicts'
  <2> SUFFICES ASSUME NEW u \in Judged, marked'[u].set # NoSet, marked'[u].model # Off
               PROVE  /\ verdict'[<<marked'[u].set, marked'[u].model>>] # Off
                      /\ <<marked'[u].set, marked'[u].model, marked'[u].flags>> \in given'
    BY DEF MarksAreVerdicts
  <2>1. CASE u = t
    <3>1. marked'[u] = new
      BY <1>7, <2>1 DEF AdviceInv, AdviceType
    <3> QED
      BY <1>1, <1>8, <2>1, <3>1
  <2>2. CASE u # t
    <3>1. marked'[u] = marked[u] /\ marked[u] \in Rows
      BY <1>7, <2>2 DEF AdviceInv, AdviceType
    <3>2. marked[u].set \in Digests /\ marked[u].model \in Models
      BY <3>1 DEF Rows
    <3> QED
      BY <1>1, <1>5, <3>1, <3>2 DEF AdviceInv, MarksAreVerdicts
  <2> QED
    BY <2>1, <2>2
<1> QED
  BY <1>1, <1>3, <1>4, <1>5, <1>9, <1>10 DEF AdviceInv, AdviceType

LEMMA AdviceInvCommitFails == ASSUME AdviceInv, NEW l \in Lanes, CommitFails(l) PROVE AdviceInv'
<1>1. pass[l].at = "commit" /\ CommitNext(l) /\ UNCHANGED <<marked, verdict, model, used, day, given>>
  BY DEF CommitFails
<1> QED
  BY <1>1, CommitNextStands, PassChanges DEF AdviceInv, AdviceType

LEMMA AdviceInvNewDay == ASSUME AdviceInv, NewDay PROVE AdviceInv'
<1>1. day' = day + 1 /\ used' = 0 /\ UNCHANGED <<marked, verdict, pass, model, given>>
  BY DEF NewDay
<1>2. PICK b \in Nat : b = MaxDaily * (day - 1) /\ MaxDaily * (day' - 1) = b + MaxDaily
  BY <1>1, AdviceAssumption DEF AdviceInv, AdviceType
<1>3. used \in 0..MaxDaily /\ MaxDaily \in Nat /\ 0 \in 0..MaxDaily
  BY AdviceAssumption DEF AdviceInv, AdviceType
<1>4. Cardinality(given) \in Nat /\ Cardinality(Calling) \in Nat
  BY CallingIsFinite, FS_CardinalityType DEF AdviceInv, AdviceType
<1>5. Cardinality(given) + Cardinality(Calling) <= b + MaxDaily
  BY <1>2, <1>3, <1>4 DEF AdviceInv, CallsAreCounted
<1>6. Calling' = Calling
  BY <1>1 DEF Calling
<1>7. CallsAreCounted'
  BY <1>1, <1>2, <1>3, <1>5, <1>6 DEF CallsAreCounted
<1>8. day' \in Nat \ {0}
  BY <1>1 DEF AdviceInv, AdviceType
<1> QED
  BY <1>1, <1>3, <1>7, <1>8 DEF AdviceInv, AdviceType, VerdictsAreGiven, MarksAreVerdicts

LEMMA AdviceInvRestart == ASSUME AdviceInv, NEW m \in Models \cup {Off}, RestartWith(m) PROVE AdviceInv'
<1>1. model' = m /\ pass' = [l \in Lanes |-> NoPass] /\ UNCHANGED <<marked, verdict, used, day, given>>
  BY DEF RestartWith
<1>2. \A l \in Lanes : PassStands(l, pass'[l], m, given)
  BY <1>1, NoPassStands
<1>3. Calling' = {} /\ Cardinality({}) = 0
  BY <1>1, NoPassStands, FS_EmptySet DEF Calling
<1>4. CallsAreCounted'
  <2>1. PICK b \in Nat : b = MaxDaily * (day - 1)
    BY AdviceAssumption DEF AdviceInv, AdviceType
  <2>2. used \in Nat /\ Cardinality(given) \in Nat /\ Cardinality(Calling) \in Nat
    BY CallingIsFinite, FS_CardinalityType, AdviceAssumption DEF AdviceInv, AdviceType
  <2>3. Cardinality(given) + Cardinality(Calling) <= b + used
    BY <2>1 DEF AdviceInv, CallsAreCounted
  <2> QED
    BY <1>1, <1>3, <2>1, <2>2, <2>3 DEF CallsAreCounted
<1> QED
  BY <1>1, <1>2, <1>4 DEF AdviceInv, AdviceType, VerdictsAreGiven, MarksAreVerdicts

LEMMA AdviceInvInit == AdviceInit => AdviceInv
<1> SUFFICES ASSUME AdviceInit PROVE AdviceInv
  OBVIOUS
<1>1. AdviceType
  BY AdviceAssumption, FS_EmptySet DEF AdviceInit, AdviceType, Rows
<1>2. \A l \in Lanes : PassStands(l, pass[l], model, given)
  BY NoPassStands DEF AdviceInit
<1>3. Calling = {} /\ Cardinality({}) = 0
  BY NoPassStands, FS_EmptySet DEF AdviceInit, Calling
<1>4. CallsAreCounted
  BY <1>3, AdviceAssumption DEF AdviceInit, CallsAreCounted
<1>5. VerdictsAreGiven /\ MarksAreVerdicts
  BY DEF AdviceInit, VerdictsAreGiven, MarksAreVerdicts
<1> QED
  BY <1>1, <1>2, <1>4, <1>5 DEF AdviceInv

LEMMA AdviceInvNext == ASSUME AdviceInv, [Advising]_advice PROVE AdviceInv'
<1>1. CASE UNCHANGED advice
  BY <1>1 DEF advice, AdviceInv, AdviceType, VerdictsAreGiven, MarksAreVerdicts, CallsAreCounted, Calling
<1> QED
  BY <1>1, AdviceInvObserved, AdviceInvLook, AdviceInvReserve, AdviceInvCallFails, AdviceInvCommit, AdviceInvCommitFails,
     AdviceInvCall, AdviceInvNewDay, AdviceInvRestart DEF Advising

LEMMA AdviceInvHolds == AdviceInv => AdviceHolds
<1> SUFFICES ASSUME AdviceInv PROVE AdviceHolds
  OBVIOUS
<1>1. \A set \in Digests : \A answer \in Told(set) : \E m \in Models : <<set, m, answer>> \in given
  BY DEF Told, AdviceInv, AdviceType, VerdictsAreGiven
<1>2. Cardinality(given) <= MaxDaily * day
  <2>1. PICK b \in Nat : b = MaxDaily * (day - 1) /\ MaxDaily * day = b + MaxDaily
    BY AdviceAssumption DEF AdviceInv, AdviceType
  <2>2. used \in 0..MaxDaily /\ MaxDaily \in Nat /\ Cardinality(given) \in Nat /\ Cardinality(Calling) \in Nat
    BY CallingIsFinite, FS_CardinalityType, AdviceAssumption DEF AdviceInv, AdviceType
  <2>3. Cardinality(given) + Cardinality(Calling) <= b + used
    BY <2>1 DEF AdviceInv, CallsAreCounted
  <2> QED
    BY <2>1, <2>2, <2>3
<1> QED
  BY <1>1, <1>2 DEF AdviceHolds, AdviceInv, MarksAreVerdicts

(***************************************************************************)
(* Whatever the lanes judge at the same time, whichever calls, commits and *)
(* processes fail, and whenever the operator changes the model             *)
(* (crawler._classify, _commit): a mark is of a stored verdict, what is    *)
(* shown or told of a set a model answered of that very set, and the calls *)
(* stay within the budgets of the days.                                    *)
(***************************************************************************)
THEOREM AdviceStands == AdviceSpec => []AdviceHolds
<1> QED
  BY AdviceInvInit, AdviceInvNext, AdviceInvHolds, PTL DEF AdviceSpec
=============================================================================
