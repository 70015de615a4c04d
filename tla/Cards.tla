-------------------------------- MODULE Cards --------------------------------
(***************************************************************************)
(* MCP server cards (cards.py, Crawler.refresh_cards, Store.apply_cards):  *)
(* the tool sets that the operator of one host declares in cards, for the  *)
(* remote endpoints that are listed on it.  A pass counts the endpoints,   *)
(* then reads the cards in several threads, then applies them all; the     *)
(* host and the registry do not wait for it.                               *)
(***************************************************************************)
EXTENDS Naturals, FiniteSets

CONSTANTS Endpoints,  \* remote endpoints of the host
          Digests,    \* tool sets a card may list
          MaxChanges  \* bound: changes of the host and of the registry

NoSet == "no set"           \* no tool list, or not a full one
Undigestible == "undigestible"

ASSUME CardsAssumption ==
    /\ MaxChanges \in Nat /\ IsFiniteSet(Endpoints)
    /\ {NoSet, Undigestible, "gone", "undecided"} \cap Digests = {}

Host == "host"              \* a host-wide card; an endpoint names its own path
Paths == Endpoints \cup {Host}

\* What a path gives: nothing usable, or a card, with the endpoints it names and its tools.
Failures == [read : {"absent", "error", "robots"}, names : {{}}, tools : {NoSet}]
CardsOf == [read : {"ok"}, names : SUBSET Endpoints, tools : Digests \cup {NoSet, Undigestible}]

VARIABLES
    cardAt,     \* path -> what the host answers there now
    onHost,     \* the endpoints listed and eligible now
    byCard,     \* declared_toolsets: the active set with source 'card', or NoSet
    dueCards,   \* endpoints whose server_cards row is older than its status allows
    cardPass,   \* the pass under way: its endpoints, whether it counted one only, what it read
    cardEdits   \* counted for the bound

cards == <<cardAt, onHost, byCard, dueCards, cardPass, cardEdits>>

Unread == [read |-> "unread", names |-> {}, tools |-> NoSet]
NoPass == [of |-> {}, alone |-> FALSE, reads |-> [p \in Paths |-> Unread]]

CardsInit ==
    /\ cardAt = [p \in Paths |-> [read |-> "absent", names |-> {}, tools |-> NoSet]]
    /\ onHost \in SUBSET Endpoints
    /\ byCard = [e \in Endpoints |-> NoSet]
    /\ dueCards = Endpoints /\ cardPass = NoPass /\ cardEdits = 0

-----------------------------------------------------------------------------
\* cards_due: the rows, and every listed endpoint to tell host-wide cards apart.
StartPass ==
    /\ cardPass = NoPass /\ dueCards \cap onHost # {}
    /\ cardPass' = [NoPass EXCEPT !.of = dueCards \cap onHost, !.alone = (Cardinality(onHost) = 1)]
    /\ UNCHANGED <<cardAt, onHost, byCard, dueCards, cardEdits>>

ReadCard(p) ==
    /\ p \in cardPass.of \/ (p = Host /\ cardPass.of # {})
    /\ cardPass.reads[p] = Unread
    /\ cardPass' = [cardPass EXCEPT !.reads[p] = cardAt[p]]
    /\ UNCHANGED <<cardAt, onHost, byCard, dueCards, cardEdits>>

\* Mutant: a host-wide card that names nobody is anybody's.
AboutAnyone(e, p, card, alone) == IF card.names # {} THEN e \in card.names ELSE TRUE

\* named_endpoints, is_host_wide: whether the card at p can be about e.
About(e, p, card, alone) == IF card.names # {} THEN e \in card.names ELSE p = e \/ alone

\* judge: the first card about e with a full tool list, its own path before the host's; a card of
\* another kind says there is none; then robots, then failures, then absence.
Judge(e, reads, alone) ==
    LET ok == {p \in {e, Host} : reads[p].read = "ok"}
        full == {p \in ok : About(e, p, reads[p], alone) /\ reads[p].tools # NoSet}
        statuses == {reads[p].read : p \in {e, Host}}
    IN  CASE full # {} -> IF e \in full THEN reads[e].tools ELSE reads[Host].tools
          [] full = {} /\ ok # {} -> "gone"
          [] ok = {} /\ (statuses = {"robots"} \/ "error" \in statuses) -> "undecided"
          [] OTHER -> "gone"

\* What the endpoint declares after the verdict: only a decisive one changes it.
Applied(e, reads, alone) ==
    LET verdict == Judge(e, reads, alone)
    IN  CASE verdict \in Digests -> verdict
          [] verdict = "undecided" -> byCard[e]
          [] OTHER -> NoSet

ApplyCards ==
    /\ cardPass.of # {} /\ \A p \in cardPass.of \cup {Host} : cardPass.reads[p] # Unread
    /\ byCard' = [e \in Endpoints |->
           IF e \in cardPass.of THEN Applied(e, cardPass.reads, cardPass.alone) ELSE byCard[e]]
    /\ dueCards' = dueCards \ cardPass.of
    /\ cardPass' = NoPass
    /\ UNCHANGED <<cardAt, onHost, cardEdits>>

-----------------------------------------------------------------------------
\* A day after a card was read, a week after none was found.
Lapses(e) ==
    /\ e \notin dueCards /\ dueCards' = dueCards \cup {e}
    /\ UNCHANGED <<cardAt, onHost, byCard, cardPass, cardEdits>>

PassIsLost == cardPass # NoPass /\ cardPass' = NoPass /\ UNCHANGED <<cardAt, onHost, byCard, dueCards, cardEdits>>

Changed == cardEdits < MaxChanges /\ cardEdits' = cardEdits + 1

OperatorEditsCards(p, card) ==
    /\ Changed /\ cardAt' = [cardAt EXCEPT ![p] = card]
    /\ UNCHANGED <<onHost, byCard, dueCards, cardPass>>

RegistryLists(e) ==
    /\ Changed /\ onHost' = (onHost \ {e}) \cup ({e} \ onHost)
    /\ UNCHANGED <<cardAt, byCard, dueCards, cardPass>>

Refreshing == StartPass \/ (\E p \in Paths : ReadCard(p)) \/ ApplyCards

Carding ==
    \/ Refreshing
    \/ PassIsLost
    \/ \E e \in Endpoints : Lapses(e) \/ RegistryLists(e)
    \/ \E p \in Paths, card \in Failures \cup CardsOf : OperatorEditsCards(p, card)

CardsSpec == CardsInit /\ [][Carding]_cards

\* The hourly pass goes on, rows grow old, and the service is not restarted forever.
CardsFairness ==
    /\ WF_cards(Refreshing) /\ \A e \in Endpoints : WF_cards(Lapses(e))
    /\ <>[][~PassIsLost]_cards

-----------------------------------------------------------------------------
\* "A card that names endpoints describes those and no other": what a pass declares for an endpoint
\* it read in a card about it, one that names nobody counts for one endpoint of the host, and what
\* no card could be read about stands.
CardsAreTheirs ==
    [][\A e \in Endpoints : byCard'[e] # byCard[e] =>
          /\ byCard'[e] # NoSet => \E p \in {e, Host} :
                /\ cardPass.reads[p].tools = byCard'[e]
                /\ IF cardPass.reads[p].names = {} THEN p = e \/ cardPass.of = {e} ELSE e \in cardPass.reads[p].names
          /\ \E p \in {e, Host} : cardPass.reads[p].read \notin {"error", "robots"}]_cards

\* Once a host and its listing stay as they are, an endpoint declares what its cards say, whatever
\* passes read while they changed.
CardsAreFollowed ==
    \A e \in Endpoints :
        []<>(e \in onHost => Applied(e, cardAt, Cardinality(onHost) = 1) = byCard[e])

\* "A failed read withdraws nothing": not what the card that could not be read had declared.
FailedReadWithdrawsNothing ==
    [][\A e \in Endpoints : byCard'[e] = NoSet /\ byCard[e] # NoSet =>
          \A p \in {e, Host} : cardPass.reads[p].read # "error"]_cards

=============================================================================
