------------------------------- MODULE Advice -------------------------------
(***************************************************************************)
(* The advisory classifier (crawler._classify, its part of _commit,        *)
(* classifier.py): a paid model judges a tool set once, within a daily     *)
(* budget that the remote and the package lane share with no lock between  *)
(* them; each lane commits its targets one by one after its whole pass was *)
(* judged.                                                                 *)
(***************************************************************************)
EXTENDS Integers, Sequences, FiniteSets

CONSTANTS Digests,   \* tool-set digests
          Models,    \* the operator may change the model, or switch the classifier off
          Lane,      \* lane -> the targets of one pass, in order
          Answers,   \* the findings of a model, counted: it may answer otherwise another time
          MaxDaily,  \* classifier_max_per_crawl
          MaxDays    \* bound: days

Lanes == DOMAIN Lane
Judged == UNION {{Lane[l][i] : i \in DOMAIN Lane[l]} : l \in Lanes}
Off == "off"
NoSet == "no set"

\* A lane without targets makes no pass.
ASSUME AdviceAssumption ==
    /\ MaxDaily \in Nat /\ MaxDays \in Nat /\ IsFiniteSet(Lanes)
    /\ \A l \in Lanes : Lane[l] \in Seq(Judged) /\ Lane[l] # << >>
    /\ NoSet \notin Digests /\ Off \notin Models \cup Answers

VARIABLES
    marked,    \* targets: current_toolset, classifier_model and classifier_flags
    verdict,  \* classifications: <<set, model>> -> the answer stored, Off when none is
    pass,     \* per lane: where its pass is, what it found, what it decided of each target
    model,    \* the model of this process, or Off
    used,     \* classifier_daily_budget of the day
    day,
    given     \* history: <<set, model, answer>> of every paid call

advice == <<marked, verdict, pass, model, used, day, given>>

NoPass == [at |-> "idle", found |-> << >>, out |-> << >>]

AdviceInit ==
    /\ marked = [t \in Judged |-> [set |-> NoSet, model |-> Off, flags |-> Off]]
    /\ verdict = [key \in Digests \X Models |-> Off]
    /\ pass = [l \in Lanes |-> NoPass] /\ given = {}
    /\ model \in Models /\ used = 0 /\ day = 1

-----------------------------------------------------------------------------
(* A pass: its targets are read and scanned, then judged in turn.           *)
Observed(l, found) ==
    /\ pass[l].at = "idle"
    /\ pass' = [pass EXCEPT ![l] = [at |-> "judge", found |-> found, out |-> << >>]]
    /\ UNCHANGED <<marked, verdict, model, used, day, given>>

Skipped == [kind |-> "skip", flags |-> Off]

\* The target being judged, or committed, and what its pass found of it.
Turn(l) == IF pass[l].at = "commit" THEN Len(Lane[l]) - Len(pass[l].found) + 1 ELSE Len(pass[l].out) + 1
Decided(p, out) ==
    [p EXCEPT !.out = Append(@, out), !.at = IF Len(p.out) + 1 = Len(p.found) THEN "commit" ELSE "judge"]

\* A verdict this pass has bought for the same set; its row comes with the holder's commit.
SeenAt(p) == {j \in DOMAIN p.out : p.out[j].kind = "verdict" /\ p.found[j] = p.found[Len(p.out) + 1]}

\* Off, no digest, judged before, or judged for another target: no call.
Look(l) ==
    LET p == pass[l]
        set == p.found[Turn(l)]
        target == marked[Lane[l][Turn(l)]]
        reuse(flags) == Decided(p, [kind |-> "reuse", flags |-> flags])
    IN  /\ p.at = "judge"
        /\ pass' = [pass EXCEPT ![l] =
              IF model = Off \/ set = NoSet \/ (target.set = set /\ target.model = model) THEN Decided(p, Skipped)
              ELSE IF verdict[<<set, model>>] # Off THEN reuse(verdict[<<set, model>>])
              ELSE IF SeenAt(p) # {} THEN reuse(p.out[CHOOSE j \in SeenAt(p) : TRUE].flags)
              ELSE [p EXCEPT !.at = "reserve"]]
        /\ UNCHANGED <<marked, verdict, model, used, day, given>>

\* UPDATE ... SET used=used+1 WHERE used<max: before the call, kept although the call may fail.
Reserve(l) ==
    /\ pass[l].at = "reserve"
    /\ IF used < MaxDaily THEN used' = used + 1 /\ pass' = [pass EXCEPT ![l].at = "call"]
       ELSE pass' = [pass EXCEPT ![l] = Decided(@, Skipped)] /\ UNCHANGED used
    /\ UNCHANGED <<marked, verdict, model, day, given>>

\* Refused, unreachable, too large or unreadable: no verdict rather than a wrong one.
CallFails(l) ==
    /\ pass[l].at = "call"
    /\ pass' = [pass EXCEPT ![l] = Decided(@, Skipped)]
    /\ UNCHANGED <<marked, verdict, model, used, day, given>>

Call(l, answer) ==
    /\ pass[l].at = "call"
    /\ given' = given \cup {<<pass[l].found[Turn(l)], model, answer>>}
    /\ pass' = [pass EXCEPT ![l] = Decided(@, [kind |-> "verdict", flags |-> answer])]
    /\ UNCHANGED <<marked, verdict, model, used, day>>

-----------------------------------------------------------------------------
(* Commits, one target at a time.                                           *)
CommitNext(l) ==
    LET p == pass[l]
    IN  pass' = [pass EXCEPT ![l] = IF Len(p.found) = 1 THEN NoPass
                                    ELSE [p EXCEPT !.found = Tail(p.found), !.out = Tail(p.out)]]

\* Mutant: a reuse claims its verdict whether the row is there or not.
MarkedUnread(row, set, out) ==
    LET kept == IF row.set = set THEN row ELSE [set |-> set, model |-> Off, flags |-> Off]
    IN  IF out.kind # "skip" THEN [kept EXCEPT !.model = model, !.flags = out.flags] ELSE kept

\* A new set drops the old one's verdict; a reuse needs the row of the one who was to commit it.
Marked(row, set, out) ==
    LET kept == IF row.set = set THEN row ELSE [set |-> set, model |-> Off, flags |-> Off]
    IN  IF out.kind = "verdict" \/ (out.kind = "reuse" /\ verdict[<<set, model>>] # Off)
        THEN [kept EXCEPT !.model = model, !.flags = out.flags] ELSE kept

\* A set that has no digest leaves the classifier's columns as they are.
Commit(l) ==
    LET p == pass[l]
        t == Lane[l][Turn(l)]
        set == Head(p.found)
        out == Head(p.out)
    IN  /\ p.at = "commit"
        /\ marked' = [marked EXCEPT ![t] = IF set = NoSet THEN [@ EXCEPT !.set = NoSet] ELSE Marked(@, set, out)]
        /\ verdict' = IF out.kind = "verdict" THEN [verdict EXCEPT ![<<set, model>>] = out.flags] ELSE verdict
        /\ CommitNext(l)
        /\ UNCHANGED <<model, used, day, given>>

\* The scan of its set failed, or the transaction did: the attempt is all that is recorded.
CommitFails(l) ==
    /\ pass[l].at = "commit" /\ CommitNext(l)
    /\ UNCHANGED <<marked, verdict, model, used, day, given>>

NewDay ==
    /\ day < MaxDays /\ day' = day + 1 /\ used' = 0
    /\ UNCHANGED <<marked, verdict, pass, model, given>>

RestartWith(m) ==
    /\ m # model /\ model' = m
    /\ pass' = [l \in Lanes |-> NoPass]
    /\ UNCHANGED <<marked, verdict, used, day, given>>

-----------------------------------------------------------------------------
\* What /check tells of the set a client holds: the stored verdict of the model in use or, with the
\* classifier off, of any; never a call.
Told(set) ==
    {verdict[<<set, m>>] : m \in IF model = Off THEN Models ELSE {model}} \ {Off}

Advising ==
    \/ \E l \in Lanes :
          \/ \E found \in [DOMAIN Lane[l] -> Digests \cup {NoSet}] : Observed(l, found)
          \/ Look(l) \/ Reserve(l) \/ CallFails(l) \/ Commit(l) \/ CommitFails(l)
          \/ \E answer \in Answers : Call(l, answer)
    \/ NewDay
    \/ \E m \in Models \cup {Off} : RestartWith(m)

AdviceSpec == AdviceInit /\ [][Advising]_advice

-----------------------------------------------------------------------------
\* "Rather than pointing at a row that a failed commit never wrote": the mark on a target's set is
\* of a stored verdict, what is shown or told of a set is what a model answered of that very set,
\* the calls of all lanes and restarts stay within the days' budgets.
AdviceHolds ==
    /\ \A t \in Judged : marked[t].set # NoSet /\ marked[t].model # Off =>
          /\ verdict[<<marked[t].set, marked[t].model>>] # Off
          /\ <<marked[t].set, marked[t].model, marked[t].flags>> \in given
    /\ \A set \in Digests : \A answer \in Told(set) : \E m \in Models : <<set, m, answer>> \in given
    /\ Cardinality(given) <= MaxDaily * day

\* "A verdict on yesterday's tools cannot mark a new set judged", one without a digest either.
UndigestibleIsUnjudged == \A t \in Judged : marked[t].set = NoSet => marked[t].model = Off

\* "Reused without a call": the flags shown of a set are those of the verdict stored for it.
FlagsAgree ==
    \A t \in Judged : marked[t].set # NoSet /\ marked[t].model # Off =>
        marked[t].flags = verdict[<<marked[t].set, marked[t].model>>]

=============================================================================
