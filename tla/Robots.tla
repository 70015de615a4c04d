------------------------------- MODULE Robots -------------------------------
(***************************************************************************)
(* robots.txt (histor/robots.py): what a file says to HISTOR, and for how  *)
(* long the policy goes by the file it read last.                          *)
(*                                                                         *)
(* One origin and one path.  The site is external: at any time its file    *)
(* allows the path, disallows it, is absent (4xx), or nothing answers.     *)
(***************************************************************************)
EXTENDS Integers, Sequences, SequencesExt

CONSTANTS Retry,     \* RETRY_UNREACHABLE_S, in ticks of the clock
          Fresh,     \* FRESH_S
          GiveUp,    \* GIVE_UP_UNREACHABLE_S
          MaxLines   \* bound: lines of a file

ASSUME RobotsAssumption == {Retry, Fresh, GiveUp, MaxLines} \subseteq Nat /\ Retry < Fresh /\ Fresh < GiveUp

-----------------------------------------------------------------------------
(* What a file says: rules_for, decide_path.  A line is [key, value]: the   *)
(* value of a user-agent line is an agent, that of a rule the octets of its *)
(* pattern, 0 for an empty one or one of another path.                      *)
Histor == 1
Star == 2
Agents == {Histor, Star, 3}

Lines == [key : {"user-agent"}, value : Agents] \cup [key : {"allow", "disallow"}, value : 0..2]

\* Mutant: an empty rule does not end the list of agents before it.
ReadRuleIfAny(read, line) ==
    IF read.open.agents = {} \/ line.value = 0 THEN read
    ELSE [read EXCEPT !.inRules = TRUE, !.open.rules = @ \cup {line}]

\* A rule before any user-agent line belongs to no group; an empty value is no rule, but ends the agents.
ReadRule(read, line) ==
    IF read.open.agents = {} THEN read
    ELSE [groups |-> read.groups, inRules |-> TRUE,
          open |-> [read.open EXCEPT !.rules = @ \cup (IF line.value = 0 THEN {} ELSE {line})]]

ReadAgent(read, line) ==
    IF read.inRules
    THEN [groups |-> read.groups \cup {read.open}, inRules |-> FALSE,
          open |-> [agents |-> {line.value}, rules |-> {}]]
    ELSE [read EXCEPT !.open.agents = @ \cup {line.value}]

\* What has been read of a file after each of its lines.
LinesRead(text) ==
    LET read[i \in 0..Len(text)] ==
            IF i = 0 THEN [groups |-> {}, inRules |-> FALSE, open |-> [agents |-> {}, rules |-> {}]]
            ELSE IF text[i].key = "user-agent" THEN ReadAgent(read[i - 1], text[i])
            ELSE ReadRule(read[i - 1], text[i])
    IN  read

Groups(text) == LET end == LinesRead(text)[Len(text)] IN end.groups \cup {end.open}

GroupsOf(agent, text) == {g \in Groups(text) : agent \in g.agents}

\* The groups that name HISTOR, combined; with none, those for everyone.
RulesFor(text) ==
    UNION {g.rules : g \in GroupsOf(IF GroupsOf(Histor, text) # {} THEN Histor ELSE Star, text)}

\* The longest match decides, and Allow wins a tie.
DecidePath(text) ==
    LET rules == RulesFor(text)
    IN  rules = {} \/ \E r \in rules : r.key = "allow" /\ \A s \in rules : s.value <= r.value

-----------------------------------------------------------------------------
(* The policy: Policy.decide asks the site again when what it knows is old. *)
VARIABLES
    lines,     \* a robots.txt, line by line
    site,      \* what the site answers to GET /robots.txt
    standing,  \* history: ticks since that changed
    answered,  \* history: ticks since a fetch was answered
    state,     \* Policy._states of the origin: ages of `checked_at' and `unreachable_since' in ticks
    row,       \* its row of robots_txt
    decided    \* the decision just taken

robots == <<lines, site, standing, answered, state, row, decided>>

NoFile == "no-file"
Unknown == [kind |-> "unknown", body |-> NoFile, age |-> 0, since |-> 0]

RobotsInit ==
    /\ lines \in BoundedSeq(Lines, MaxLines)
    /\ site \in {"allow", "disallow", "absent", "down"} /\ standing = 0
    /\ answered = 0 /\ state = Unknown /\ row = Unknown /\ decided = "nothing"

Stale == CASE state.kind = "unknown" -> TRUE
           [] state.kind = "unreachable" -> state.age >= Retry
           [] OTHER -> state.age >= Fresh

\* The last file read is kept while the site is unreachable; a 4xx is no file.
Fetched ==
    CASE site \in {"allow", "disallow"} -> [kind |-> "ok", body |-> site, age |-> 0, since |-> 0]
      [] site = "absent" -> [kind |-> "unavailable", body |-> NoFile, age |-> 0, since |-> 0]
      [] site = "down" -> [kind |-> "unreachable", body |-> state.body, age |-> 0,
                           since |-> IF state.kind = "unreachable" THEN state.since ELSE 0]

Allows(s) == \/ s.kind = "unavailable"
             \/ s.kind = "unreachable" /\ s.since >= GiveUp
             \/ s.body = "allow"

Decide ==
    /\ state' = IF Stale THEN Fetched ELSE state
    /\ answered' = IF Stale /\ site # "down" THEN 0 ELSE answered
    /\ decided' = IF Allows(state') THEN "allowed" ELSE "refused"
    /\ UNCHANGED <<lines, site, standing, row>>

\* take_dirty and save_robots, when a batch ends; load, when the process starts.
SaveRobots == row' = state /\ decided' = "nothing" /\ UNCHANGED <<lines, site, standing, answered, state>>
LoadRobots == state' = row /\ decided' = "nothing" /\ UNCHANGED <<lines, site, standing, answered, row>>

Older(n, cap) == IF n < cap THEN n + 1 ELSE n
OlderState(s) == [s EXCEPT !.age = Older(@, Fresh), !.since = IF s.kind = "unreachable" THEN Older(@, GiveUp) ELSE @]

Tick ==
    /\ standing' = Older(standing, Fresh) /\ answered' = Older(answered, GiveUp)
    /\ state' = OlderState(state) /\ row' = OlderState(row)
    /\ decided' = "nothing" /\ UNCHANGED <<lines, site>>

SiteChanges ==
    /\ site' \in {"allow", "disallow", "absent", "down"} \ {site}
    /\ standing' = 0 /\ decided' = "nothing" /\ UNCHANGED <<lines, answered, state, row>>

Policing == Decide \/ SaveRobots \/ LoadRobots \/ Tick \/ SiteChanges

-----------------------------------------------------------------------------
\* RFC 9309, 2.2.1 and 2.2.2: a rule is for the agents named in the run of user-agent
\* lines before it, unbroken by a rule; every group naming HISTOR counts, else those for "*"; the
\* match with the most octets decides and Allow wins a tie.
NamedFor(agent, j) ==
    \E i \in 1..j - 1 :
        /\ lines[i] = [key |-> "user-agent", value |-> agent]
        /\ \A k \in i..j - 1 : lines[k].key = "user-agent" => \A l \in i..k : lines[l].key = "user-agent"

FileMeansWhatItSays ==
    LET named == \E i \in DOMAIN lines : lines[i] = [key |-> "user-agent", value |-> Histor]
        rules == {j \in DOMAIN lines : /\ lines[j].key # "user-agent" /\ lines[j].value > 0
                                      /\ NamedFor(IF named THEN Histor ELSE Star, j)}
    IN  DecidePath(lines) <=> \A j \in rules : lines[j].key = "disallow" =>
                                \E k \in rules : lines[k].key = "allow" /\ lines[k].value >= lines[j].value

\* A site that has kept the path closed for a day is not read, whatever was saved, lost in a
\* restart or went unanswered before.
ClosedIsNotRead == (decided = "allowed" /\ site = "disallow") => standing < Fresh

\* RFC 9309: the file is understood as written, and what it closes is left alone.
RobotsAreObeyed == FileMeansWhatItSays /\ ClosedIsNotRead

\* "while its origin is unreachable ... the copy last read keeps applying"
CopyKeepsApplying == (decided = "allowed" /\ site = "down") => state.body # "disallow"

\* An unreachable site counts as one without a file only after "30 days in a row".
NeverGivesUpEarly ==
    (decided = "allowed" /\ site = "down" /\ state.body # "allow" /\ state.kind = "unreachable") => answered >= GiveUp

=============================================================================
