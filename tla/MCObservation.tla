--------------------------- MODULE MCObservation ----------------------------
(* An instance of Observation; of Limits, what a caller may ask of the      *)
(* server whose readings those are; and of Cards, what its host declares.   *)
(* They share no state, so a behaviour is of one of them.                   *)
EXTENDS Observation, Limits, Cards

PerTick == [check |-> 1, scan |-> 1, report |-> 1]

served_by == <<vars, limits, cards>>

Step == Next /\ UNCHANGED <<limits, cards>>
Asked == party = "caller" /\ Limiting /\ UNCHANGED <<vars, cards>>
Carded == party = "host" /\ Carding /\ UNCHANGED <<vars, limits>>

MCInit ==
    /\ Init /\ LimitsInit /\ CardsInit
    /\ party # "caller" => asks = "check"
    /\ party # "host" => onHost = {}

MCSpec ==
    /\ MCInit /\ [][Step \/ Asked \/ Carded]_served_by
    /\ WF_vars(party = "server" /\ Reading /\ UNCHANGED <<declarations, robots, judgement, party, current, seen, records, query, limits, cards>>)
    /\ WF_cards(party = "host" /\ Refreshing /\ UNCHANGED <<vars, limits>>)
    /\ \A e \in Endpoints : WF_cards(party = "host" /\ Lapses(e) /\ UNCHANGED <<vars, limits>>)
    /\ <>[][~PassIsLost]_cards

\* Of a behaviour about the host.
CardsHold == CardsAreTheirs /\ (party = "host" => CardsAreFollowed)
=============================================================================
