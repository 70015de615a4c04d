----------------------------- MODULE Judgement -----------------------------
(***************************************************************************)
(* What HISTOR makes of a tool list: the tool-set digest (subject.py), the *)
(* difference between two sets (diffing.py) and between the members the    *)
(* digest leaves out (extras.py).                                          *)
(*                                                                         *)
(* A JSON value is one of those the three read differently: true, 1 and    *)
(* 1.0 are equal to Python, distinct as text, and 1 and 1.0 are the same   *)
(* double.  Names and descriptions are numbers, in their UTF-16 order.     *)
(***************************************************************************)
EXTENDS Integers, Sequences, SequencesExt

CONSTANTS Names, Texts,  \* of tools; their descriptions
          MaxTools       \* bound: tools of a list

VARIABLES former, latter   \* two tool lists of one server

judgement == <<former, latter>>

ASSUME JudgementAssumption == Names \subseteq Nat /\ Texts \subseteq Nat /\ MaxTools \in Nat

Absent == 0
True == 1
One == 2
OneFloat == 3
Values == {Absent, True, One, OneFloat}

Tools == [name : Names, description : Texts, schema : Values, hint : Values]
Lists(tools) == BoundedSeq(tools, MaxTools)

\* json.dumps of a value is the value itself here; Python's == and the double RFC 8785 writes are not.
PythonEqual(v, w) == v = w \/ {v, w} \subseteq {True, One, OneFloat}
AsDouble(v) == IF v = OneFloat THEN One ELSE v

\* The canonical bytes of an entry; normalise_tool leaves name, description and schema.
Bytes(tool) == <<tool.description, AsDouble(tool.schema)>>

DistinctNames(list) == \A i, j \in DOMAIN list : list[i].name = list[j].name => i = j

Before(b, c) == b[1] < c[1] \/ (b[1] = c[1] /\ b[2] < c[2])

\* The sort key: the name, and where a name is repeated the canonical bytes after it.
Sorts(list, t, u) ==
    t.name < u.name \/ (t.name = u.name /\ ~DistinctNames(list) /\ Before(Bytes(t), Bytes(u)))

\* list.sort is stable: entries the key does not order stay as they came.
Precedes(list, j, i) ==
    Sorts(list, list[j], list[i]) \/ (~Sorts(list, list[i], list[j]) /\ j < i)

Place(list, i) == 1 + Cardinality({j \in DOMAIN list : Precedes(list, j, i)})

\* canonical_tool_set.
CanonicalToolSet(list) ==
    [p \in DOMAIN list |-> list[CHOOSE i \in DOMAIN list : Place(list, i) = p]]

\* tool_set_digest: SHA-256 is taken to be injective on the canonical bytes.
ToolSetDigest(list) ==
    [i \in DOMAIN list |-> <<CanonicalToolSet(list)[i].name, Bytes(CanonicalToolSet(list)[i])>>]

NamesOf(list) == {list[i].name : i \in DOMAIN list}

\* A Python dict keyed by name keeps the last.
ByName(list, name) == list[CHOOSE i \in DOMAIN list :
    list[i].name = name /\ \A j \in DOMAIN list : list[j].name = name => j <= i]

\* Mutant: members are compared as Python values.
MovedAsPython(a, b) == a.description # b.description \/ ~PythonEqual(a.schema, b.schema)

Moved(a, b) == a.description # b.description \/ a.schema # b.schema

ToolSetDiff(old, new) ==
    [added |-> NamesOf(new) \ NamesOf(old),
     removed |-> NamesOf(old) \ NamesOf(new),
     modified |-> {n \in NamesOf(old) \cap NamesOf(new) :
                      Moved(ByName(CanonicalToolSet(old), n), ByName(CanonicalToolSet(new), n))}]

\* tool_extras: the other members, by name, and a digest of their text.
Extras(list) == [n \in {m \in NamesOf(list) : ByName(list, m).hint # Absent} |-> ByName(list, n).hint]

HintOf(extras, name) == IF name \in DOMAIN extras THEN extras[name] ELSE Absent

\* extras_diff: `readOnlyHint' stands for every annotation.
Flips(old, new) == {n \in DOMAIN old \cup DOMAIN new : ~PythonEqual(HintOf(old, n), HintOf(new, n))}

Escalations(old, new) == {n \in Flips(old, new) : HintOf(old, n) = True /\ HintOf(new, n) # True}

-----------------------------------------------------------------------------
Occurrences(list, tool) ==
    {i \in DOMAIN list : list[i].name = tool.name /\ Bytes(list[i]) = Bytes(tool)}

SameTools(a, b) ==
    /\ Len(a) = Len(b)
    /\ \A i \in DOMAIN a : \E f \in [Occurrences(a, a[i]) -> Occurrences(b, a[i])] :
          \A j, k \in DOMAIN f : f[j] = f[k] => j = k

NoHints == {t \in Tools : t.hint = Absent}

\* Any two; or two of one tool, with what the digest leaves out.
JudgementInit ==
    \/ former \in Lists(NoHints) /\ latter \in Lists(NoHints)
    \/ former \in {<<t>> : t \in Tools} /\ latter \in {<<t>> : t \in Tools}

\* Two lists have one digest exactly when they hold the same tools, in whatever order, repeated
\* names included: the digest does not depend on the order the server listed them in, and binds.
DigestIsOfTheSet ==
    (\A t \in ToSet(former) \cup ToSet(latter) : t.hint = Absent)
        => ((ToolSetDigest(former) = ToolSetDigest(latter)) <=> SameTools(former, latter))

\* "This says where": whenever the digest of a list with distinct names moved, the summary of the
\* change names every tool that was added, was removed or is not what it was.
EveryChangeIsNamed ==
    LET diff == ToolSetDiff(former, latter) named == diff.added \cup diff.removed \cup diff.modified
    IN  /\ ToolSetDigest(former) # ToolSetDigest(latter) => named # {}
        /\ \A i \in DOMAIN former : Occurrences(latter, former[i]) = {} => former[i].name \in named

ChangeIsNamed == DistinctNames(former) /\ DistinctNames(latter) => EveryChangeIsNamed

\* What HISTOR says of two lists is what they are: one digest for one set, and every change named.
JudgedByContent == DigestIsOfTheSet /\ ChangeIsNamed

\* "escalations lists the tools that stopped saying they are read-only"
StopsSayingReadOnly ==
    (Len(former) = 1 /\ Len(latter) = 1 /\ NamesOf(former) = NamesOf(latter)
        /\ former[1].hint = True /\ latter[1].hint # True)
        => former[1].name \in Escalations(Extras(former), Extras(latter))

=============================================================================
