--------------------------- MODULE WatchPayments ---------------------------
(***************************************************************************)
(* HISTOR Watch for teams (watch_paid.py): one subscription, its checkouts *)
(* at Stripe and the period they buy.  Stripe is external: a session it    *)
(* opened may be paid or expire, a paid one may be refunded or disputed,   *)
(* and the event that says so may arrive late, twice or never.             *)
(*                                                                         *)
(* A checkout lives within one tick of the clock and the sweep looks back  *)
(* one tick (24 hours).  Delivery is WebhookDelivery's.                    *)
(***************************************************************************)
EXTENDS Integers, FiniteSets, FiniteSetsExt

CONSTANTS Payments,    \* ids of the checkouts that may be opened
          MaxClock,    \* bound on the clock
          Period,      \* what a payment buys, in ticks
          WriteLock    \* TRUE: one write transaction at a time (SQLite)

ASSUME WatchAssumption ==
    MaxClock \in Nat /\ Period \in Nat \ {0} /\ WriteLock \in BOOLEAN

None == "none"

VARIABLES
    clock,
    session,   \* at Stripe: the checkout session of each payment
    reversed,  \* at Stripe: the reversals announced, per payment
    status, createdAt, paidAt,   \* watch_payments
    sub, until,                  \* watch_subscriptions: status, active_until
    open       \* write transactions that have read and not yet committed

stripe == <<session, reversed>>
payments == <<clock, stripe, status, createdAt, paidAt, sub, until, open>>

PaymentsInit ==
    /\ clock = 0
    /\ session = [p \in Payments |-> None]
    /\ reversed = [p \in Payments |-> {}]
    /\ status = [p \in Payments |-> None]
    /\ createdAt = [p \in Payments |-> 0]
    /\ paidAt = [p \in Payments |-> 0]
    /\ sub = "pending" /\ until = 0
    /\ open = {}

(***************************************************************************)
(* Checkouts.  The row is written before Stripe is asked: a crash between  *)
(* the two leaves it 'opening', and the team without a URL to pay.  renew  *)
(* hands an open checkout back unless it is in its last ten minutes, so    *)
(* two payable sessions can exist.                                         *)
(***************************************************************************)
OpenCheckout(p) ==
    /\ status[p] = None
    /\ sub # "ended"
    /\ status' = [status EXCEPT ![p] = "opening"]
    /\ createdAt' = [createdAt EXCEPT ![p] = clock]
    /\ UNCHANGED <<clock, stripe, paidAt, sub, until, open>>

StripeOpens(p) ==
    /\ status[p] = "opening"
    /\ \/ /\ createdAt[p] = clock
          /\ session' = [session EXCEPT ![p] = "open"]
          /\ status' = [status EXCEPT ![p] = "open"]
       \/ /\ status' = [status EXCEPT ![p] = "failed"]
          /\ UNCHANGED session
    /\ UNCHANGED <<clock, reversed, createdAt, paidAt, sub, until, open>>

\* The team pays (what the row says, or other figures), or the session expires.
StripePays(p) ==
    /\ session[p] = "open"
    /\ \/ createdAt[p] = clock /\ \E s \in {"paid", "mispaid"} : session' = [session EXCEPT ![p] = s]
       \/ session' = [session EXCEPT ![p] = "expired"]
    /\ UNCHANGED <<clock, reversed, status, createdAt, paidAt, sub, until, open>>

StripeReverses(p) ==
    /\ session[p] = "paid"
    /\ \E kind \in {"refunded", "disputed"} \ reversed[p] :
          reversed' = [reversed EXCEPT ![p] = @ \cup {kind}]
    /\ UNCHANGED <<clock, session, status, createdAt, paidAt, sub, until, open>>

(***************************************************************************)
(* Settlement and reversal.  Each is one transaction: its conditional      *)
(* UPDATE of the payment row wins or gives up, then it reads the           *)
(* subscription and writes it back.  Without the write lock two of them    *)
(* may overlap, but never two of one payment: its row is locked.           *)
(***************************************************************************)
RowIsFree(p) ==
    /\ WriteLock => open = {}
    /\ \A t \in open : t.payment # p

Begin(p, kind) ==
    /\ RowIsFree(p)
    /\ open' = open \cup {[payment |-> p, kind |-> kind, before |-> status[p],
                           sub |-> sub, until |-> until, now |-> clock]}
    /\ UNCHANGED <<clock, stripe, status, createdAt, paidAt, sub, until>>

\* Mutant: a paid event settles whatever the row says by then.
SettleAgain(p) ==
    /\ session[p] = "paid"
    /\ status[p] # "opening"
    /\ Begin(p, "paid")

\* The webhook, a view and the sweep all settle; figures that differ from the row's do not.
Settle(p) ==
    /\ session[p] = "paid"
    /\ status[p] \in {"open", "expired"}
    /\ Begin(p, "paid")

\* Mutant: it asks about today's only.
SweepSettlesToday(p) ==
    /\ status[p] = "open"
    /\ clock = createdAt[p]
    /\ Settle(p)

\* The sweep asks Stripe about open payments opened in the last 24 hours.
SweepSettles(p) ==
    /\ status[p] = "open"
    /\ clock <= createdAt[p] + 1
    /\ Settle(p)

TakeBack(p) ==
    \E kind \in reversed[p] \ {status[p]} : Begin(p, kind)

Lapsed(t) == t.sub = "pending" \/ t.until <= t.now

CommitPaid(t) ==
    /\ paidAt' = [paidAt EXCEPT ![t.payment] = t.now]
    /\ sub' = "active"
    /\ until' = (IF Lapsed(t) THEN t.now ELSE t.until) + Period

\* Reversed before it was seen paid: marking it is enough.
CommitReversed(t) ==
    /\ IF t.before = "paid"
       THEN /\ until' = Max({t.until - Period, t.now})
            /\ sub' = IF t.kind = "disputed" THEN "ended" ELSE t.sub
       ELSE UNCHANGED <<until, sub>>
    /\ UNCHANGED paidAt

Commit(t) ==
    /\ open' = open \ {t}
    /\ status' = [status EXCEPT ![t.payment] = t.kind]
    /\ IF t.kind = "paid" THEN CommitPaid(t) ELSE CommitReversed(t)
    /\ UNCHANGED <<clock, stripe, createdAt>>

\* checkout.session.expired, or a refresh that reads the session as expired.
Expire(p) ==
    /\ RowIsFree(p)
    /\ session[p] = "expired" /\ status[p] = "open"
    /\ status' = [status EXCEPT ![p] = "expired"]
    /\ UNCHANGED <<clock, stripe, createdAt, paidAt, sub, until, open>>

\* A transaction lasts far less than a tick.
TimePasses ==
    /\ clock < MaxClock /\ open = {}
    /\ clock' = clock + 1
    /\ UNCHANGED <<stripe, status, createdAt, paidAt, sub, until, open>>

Payment(p) ==
    \/ OpenCheckout(p) \/ StripeOpens(p) \/ StripePays(p) \/ StripeReverses(p)
    \/ Settle(p) \/ TakeBack(p) \/ Expire(p)

Paying ==
    \/ \E p \in Payments : Payment(p)
    \/ \E t \in open : Commit(t)
    \/ TimePasses

\* The worker thread sweeps every minute, waiting for the write lock; a transaction ends.
PaymentsSpec ==
    /\ PaymentsInit /\ [][Paying]_payments
    /\ \A p \in Payments : SF_payments(SweepSettles(p))
    /\ WF_payments(\E t \in open : Commit(t))

-----------------------------------------------------------------------------
Paid == {p \in Payments : status[p] = "paid"}

\* A forged, replayed or repeated event grants nothing twice, and a reversal takes back what it
\* reverses: what is left of the subscription is never more than its standing payments bought.
NeverMoreThanPaid == until - clock <= Period * Cardinality(Paid)

\* "A refund or a dispute takes back the period it bought" and no other: a payment that
\* stands keeps the subscription alive for a full period from the day it was paid.
PaidTimeIsHonoured == \A p \in Paid : until >= paidAt[p] + Period

\* No order of events grants more than was paid for, and no reversal is lost: once its transaction
\* is over, a payment Stripe refunded or disputed is never paid again, whatever late or repeated
\* paid event arrives.
PeriodsArePaidFor ==
    [][/\ NeverMoreThanPaid'
       /\ \A p \in Payments : status[p] \in {"refunded", "disputed"} => status'[p] # "paid"]_payments

\* A tab closed and a webhook lost: a paid checkout still becomes a period within a day.
PaidIsSettled ==
    \A p \in Payments : (session[p] = "paid" /\ status[p] = "open")
        ~> (status[p] # "open" \/ clock > createdAt[p] + 1)

=============================================================================
