------------------------------ MODULE Recharge ------------------------------
(***************************************************************************)
(* One user's recharges (src/backend/recharges.py, payments.py, billing.py,*)
(* reconcile_payments.py): purchases, the calls that work on them, and the *)
(* orders, payments and disputes of the payment provider, which is         *)
(* external.  An action is one database transaction or one request to the  *)
(* provider; anything may happen between two of them.  Every transaction   *)
(* that writes a purchase holds the lock on the user's profile row.        *)
(***************************************************************************)
EXTENDS Integers

CONSTANTS Purchases, NoPurchase,
          Old,       \* a purchase that may date from before the change to orders
          Intro,     \* purchases of the first-recharge pack
          Price,     \* what each purchase costs, in units that can be refunded
          Credits,   \* what it grants
          Disputable,\* bound: the purchases whose payment may be disputed
          Calls,     \* requests and webhook deliveries the server works on
          Cron       \* a call that only the scheduled pass makes

ASSUME RechargeAssumption ==
  /\ NoPurchase \notin Purchases
  /\ Old \in Purchases \cup {NoPurchase}
  /\ Intro \subseteq Purchases
  /\ Price \in [Purchases -> Nat \ {0}] /\ Credits \in [Purchases -> Nat \ {0}]

VARIABLES row,        \* credit_purchases
          offer,      \* first_purchase_id of the wallet
          wallet,     \* the credits of a purchase's wallet entries, and the
                      \* last version one was posted for
          provider,   \* the order or link at the provider and its payment
          events,     \* notifications the provider still has to deliver
          call        \* where a call is, on which purchase, what it fetched

vars == <<row, offer, wallet, provider, events, call>>

Pending == {"creating", "uncertain", "ready"}
Closed == {"cancelled", "expired"}
Paid == {"paid", "partially_refunded", "refunded", "disputed"}
Disputes == {"none", "open", "won", "lost"}

\* What a reconciliation has fetched: the order's state, then the payment,
\* then the dispute.
Fetched == [order : {"none", "created", "authorized", "paid"} \cup Closed,
            captured : BOOLEAN, refunded : Nat, dispute : Disputes]
Nothing == [order |-> "none", captured |-> FALSE, refunded |-> 0, dispute |-> "none"]

\* `current': settlement_version and checked_at of the purchase are still what
\* the call read.
Idle == [at |-> "idle", on |-> NoPurchase, why |-> "none", got |-> Nothing, current |-> FALSE]

NewRow == [status |-> "none", order |-> TRUE, bound |-> FALSE, paid |-> FALSE, refunded |-> 0,
           dispute |-> "none", credited |-> 0, version |-> 0]

NoOrder == [order |-> "none", orders |-> 0, refunded |-> 0, dispute |-> "none"]

\* A purchase made with a payment link, of which the answer may have been lost.
Link(bound) == [NewRow EXCEPT !.status = IF bound THEN "ready" ELSE "uncertain",
                              !.order = FALSE, !.bound = bound]

Init ==
  /\ row \in {[p \in Purchases |-> IF p = Old THEN old ELSE NewRow] :
              old \in {NewRow, Link(FALSE), Link(TRUE)}}
  /\ offer = IF Old \in Intro /\ ~row[Old].order THEN Old ELSE NoPurchase
  /\ wallet = [p \in Purchases |-> [granted |-> 0, posted |-> 0]]
  /\ provider = [p \in Purchases |->
                   IF row[p].order THEN NoOrder ELSE [NoOrder EXCEPT !.order = "created", !.orders = 1]]
  /\ events = [p \in Purchases |-> {}]
  /\ call = [c \in Calls |-> Idle]
-----------------------------------------------------------------------------
Go(c, at) == call' = [call EXCEPT ![c].at = at]

Enter(c, p, at, why) ==
  /\ call[c] = Idle
  /\ call' = [call EXCEPT ![c] = [Idle EXCEPT !.at = at, !.on = p, !.why = why]]

\* reconcile_purchase's first transaction.
Reconcile(c, p, why) ==
  /\ row[p].status # "none"
  /\ call' = [call EXCEPT ![c] = [at |-> "fetching", on |-> p, why |-> why,
                                  got |-> Nothing, current |-> TRUE]]

Return(c) == call' = [call EXCEPT ![c] = Idle]

-----------------------------------------------------------------------------
(* Checkout.                                                               *)

PendingOnes == {p \in Purchases : row[p].status \in Pending}

\* intro_eligible
Eligible == offer = NoPurchase /\ \A p \in Purchases : ~row[p].paid

\* Seeded fault: neither what is pending nor the offer is looked at.
PrepareAnother(p) == row[p].status = "none"

CanPrepare(p) == /\ row[p].status = "none"
                 /\ PendingOnes = {}
                 /\ p \in Intro => Eligible

\* prepare, for a new purchase: the first transaction of checkout.
Prepare(c, p) ==
  /\ c # Cron
  /\ CanPrepare(p)
  /\ Enter(c, p, "creating", "confirm")
  /\ row' = [row EXCEPT ![p].status = "creating"]
  /\ offer' = IF p \in Intro THEN p ELSE offer
  /\ UNCHANGED <<wallet, provider, events>>

\* Seeded fault: a retry makes an order again.
ResumePosting(c, p) == Enter(c, p, "creating", "confirm")

\* What a retry does with a purchase the provider has not confirmed.
ResumeUnbound(c, p) == Enter(c, p, "finding", "confirm")

\* prepare, for the pending purchase of the same pack or key.
Resume(c, p) ==
  /\ c # Cron
  /\ call[c] = Idle
  /\ p \in PendingOnes
  /\ IF row[p].bound THEN Reconcile(c, p, "confirm") ELSE ResumeUnbound(c, p)
  /\ UNCHANGED <<row, offer, wallet, provider, events>>

\* create_order: the request may be lost, or its response.
CreateOrder(c) ==
  LET p == call[c].on IN
  /\ call[c].at = "creating"
  /\ \/ /\ provider' = [provider EXCEPT ![p].order = "created", ![p].orders = @ + 1]
        /\ Go(c, "binding") \/ Go(c, "doubting")
     \/ /\ UNCHANGED provider
        /\ Go(c, "doubting")
  /\ UNCHANGED <<row, offer, wallet, events>>

\* find_order or find_link, by our own reference.
FindOrder(c) ==
  LET p == call[c].on IN
  /\ call[c].at = "finding"
  /\ Go(c, IF provider[p].order = "none" THEN "doubting" ELSE "binding")
  /\ UNCHANGED <<row, offer, wallet, provider, events>>

\* bind, on a row.
Bound(r) == [r EXCEPT !.bound = TRUE, !.status = IF @ \in Pending THEN "ready" ELSE @]

Bind(c) ==
  LET p == call[c].on IN
  /\ call[c].at = "binding"
  /\ row' = [row EXCEPT ![p] = Bound(@)]
  /\ Return(c)
  /\ UNCHANGED <<offer, wallet, provider, events>>

\* checkout's exception handler.
Doubt(c) ==
  LET p == call[c].on IN
  /\ call[c].at = "doubting"
  /\ row' = [row EXCEPT ![p].status = IF @ = "creating" THEN "uncertain" ELSE @]
  /\ Return(c)
  /\ UNCHANGED <<offer, wallet, provider, events>>

-----------------------------------------------------------------------------
(* reconcile_purchase.                                                     *)

\* verify_payment: the browser has a signature of the provider.
Verify(c, p) ==
  /\ c # Cron
  /\ call[c] = Idle
  /\ row[p].order /\ row[p].bound
  /\ provider[p].order \in {"authorized", "paid"}
  /\ Reconcile(c, p, "confirm")
  /\ UNCHANGED <<row, offer, wallet, provider, events>>

\* /reconcile, and cancel for an order.
Refresh(c, p, why) ==
  /\ c # Cron
  /\ call[c] = Idle
  /\ why = "cancel" => p \in PendingOnes /\ row[p].order
  /\ Reconcile(c, p, why)
  /\ UNCHANGED <<row, offer, wallet, provider, events>>

\* Seeded fault: the scheduled pass looks at pending purchases only.
DuePending(p) == row[p].status \in Pending

\* Purchases of the scheduled pass, in the order of the index's checked_at.
Due(p) == row[p].status # "none"

RunCron(c, p) ==
  /\ call[c] = Idle
  /\ Due(p)
  /\ Reconcile(c, p, "confirm")
  /\ UNCHANGED <<row, offer, wallet, provider, events>>

\* process_event: a delivery finds its purchase by order, payment or receipt.
Deliver(c, p, event) ==
  /\ c # Cron
  /\ call[c] = Idle
  /\ event \in events[p]
  /\ Reconcile(c, p, event)
  /\ events' = [events EXCEPT ![p] = @ \ {event}]
  /\ UNCHANGED <<row, offer, wallet, provider>>

\* The order or link, by its identifier or by our reference.
FetchOrder(c) ==
  LET p == call[c].on IN
  /\ call[c].at = "fetching"
  /\ provider[p].order # "none"
  /\ call' = [call EXCEPT ![c] = [@ EXCEPT !.at = "paying", !.got.order = provider[p].order]]
  /\ UNCHANGED <<row, offer, wallet, provider, events>>

\* The payment: of a link only when the link listed it.
FetchPayment(c) ==
  LET p == call[c].on
      found == provider[p].order = "paid" /\ (row[p].order \/ call[c].got.order = "paid")
  IN
  /\ call[c].at = "paying"
  /\ call' = [call EXCEPT ![c] = [@ EXCEPT
       !.at = IF call[c].why = "dispute" \/ row[p].dispute # "none" THEN "disputing" ELSE "settling",
       !.got.captured = found,
       !.got.refunded = IF found THEN provider[p].refunded ELSE 0]]
  /\ UNCHANGED <<row, offer, wallet, provider, events>>

FetchDispute(c) ==
  LET p == call[c].on IN
  /\ call[c].at = "disputing"
  /\ call' = [call EXCEPT ![c] = [@ EXCEPT !.at = "settling", !.got.dispute = provider[p].dispute]]
  /\ UNCHANGED <<row, offer, wallet, provider, events>>

\* Seeded fault: part of a credit that was refunded stays.
ReversalFloor(p, refunded) == (Credits[p] * refunded) \div Price[p]

Reversal(p, refunded) == (Credits[p] * refunded + Price[p] - 1) \div Price[p]

Reversed(dispute) == dispute \in {"open", "lost"}

Entitled(p, refunded, dispute) ==
  IF Reversed(dispute) THEN 0 ELSE Credits[p] - Reversal(p, refunded)

StatusOf(p, refunded, dispute) ==
  IF Reversed(dispute) THEN "disputed"
  ELSE IF refunded = Price[p] THEN "refunded"
  ELSE IF refunded > 0 THEN "partially_refunded" ELSE "paid"

\* Seeded fault: the entry of a purchase is keyed by the purchase alone.
FirstVersion(r, desired) == 1

NextVersion(r, desired) == IF desired = r.credited THEN r.version ELSE r.version + 1

\* What settle makes of a row, given a payment.
WithPayment(p, r, got) ==
  LET refunded == IF got.refunded > r.refunded THEN got.refunded ELSE r.refunded
      dispute == IF got.dispute = "none" THEN r.dispute ELSE got.dispute
      desired == Entitled(p, refunded, dispute)
  IN  [r EXCEPT !.paid = TRUE, !.refunded = refunded, !.dispute = dispute,
                !.credited = desired, !.version = NextVersion(r, desired),
                !.status = StatusOf(p, refunded, dispute)]

SettledRow(p, r, got) ==
  IF got.captured THEN WithPayment(p, Bound(r), got)
  ELSE IF got.order \in Closed /\ ~r.paid THEN [Bound(r) EXCEPT !.status = got.order]
  ELSE Bound(r)

\* append, keyed by the purchase and its settlement_version.
Posted(w, r, new) ==
  IF new.credited = r.credited \/ new.version <= w.posted THEN w
  ELSE [granted |-> w.granted + new.credited - r.credited, posted |-> new.version]

OfferAfter(p, got) ==
  IF got.captured THEN IF offer = NoPurchase THEN p ELSE offer
  ELSE IF got.order \in Closed /\ ~row[p].paid /\ offer = p THEN NoPurchase
  ELSE offer

\* Seeded fault: the purchase is not compared with what was read.
Unchecked(c) == TRUE

Current(c) == call[c].current

\* settle refuses a payment of an order that it fetched before it was paid.
Consistent(got) == got.captured => got.order = "paid"

\* reconcile_purchase's last transaction.
Settle(c) ==
  LET p == call[c].on
      got == call[c].got
      new == SettledRow(p, row[p], got)
  IN
  /\ call[c].at = "settling"
  /\ Current(c) /\ Consistent(got)
  /\ row' = [row EXCEPT ![p] = new]
  /\ wallet' = [wallet EXCEPT ![p] = Posted(@, row[p], new)]
  /\ offer' = OfferAfter(p, got)
  /\ call' = [d \in Calls |->
                IF d = c THEN IF call[c].why = "cancel" THEN [call[c] EXCEPT !.at = "closing"]
                              ELSE IF call[c].why \in {"payment", "dispute"}
                                   THEN [call[c] EXCEPT !.at = "recording"]
                              ELSE Idle
                ELSE IF call[d].on = p THEN [call[d] EXCEPT !.current = FALSE]
                ELSE call[d]]
  /\ UNCHANGED <<provider, events>>

\* process_topup_event's last transaction: the notification was dealt with.
Record(c) ==
  /\ call[c].at = "recording"
  /\ Return(c)
  /\ UNCHANGED <<row, offer, wallet, provider, events>>

\* The provider does not answer or has no such order, the confirmation is
\* refused, or the process dies.  Of a notification that was being delivered,
\* also one that was settled but not acknowledged, the provider sends another.
Fail(c) ==
  LET p == call[c].on IN
  /\ call[c].at # "idle"
  /\ Return(c)
  /\ events' = IF call[c].why \in {"payment", "dispute"}
               THEN [events EXCEPT ![p] = @ \cup {call[c].why}] ELSE events
  /\ UNCHANGED <<row, offer, wallet, provider>>

-----------------------------------------------------------------------------
(* Cancellation.                                                           *)

\* Seeded faults: a payment that came first is not looked at; the offer of a
\* cancelled order is given back.
CloseAnyway(c) ==
  LET p == call[c].on IN
  /\ call[c].at = "closing"
  /\ row' = [row EXCEPT ![p].status = "cancelled"]
  /\ Return(c)
  /\ UNCHANGED <<offer, wallet, provider, events>>
CloseAndRelease(c) ==
  LET p == call[c].on IN
  /\ call[c].at = "closing"
  /\ row' = [row EXCEPT ![p].status = IF @ \in Pending THEN "cancelled" ELSE @]
  /\ offer' = IF offer = p THEN NoPurchase ELSE offer
  /\ Return(c)
  /\ UNCHANGED <<wallet, provider, events>>

\* cancel's last transaction, for an order.
Close(c) ==
  LET p == call[c].on IN
  /\ call[c].at = "closing"
  /\ row' = [row EXCEPT ![p].status = IF @ \in Pending THEN "cancelled" ELSE @]
  /\ Return(c)
  /\ UNCHANGED <<offer, wallet, provider, events>>

\* cancel, for a link: cancelled at the provider first.
CancelLink(c, p) ==
  /\ c # Cron
  /\ p \in PendingOnes /\ ~row[p].order
  /\ Enter(c, p, "cancelling", "link")
  /\ UNCHANGED <<row, offer, wallet, provider, events>>

CancelRemote(c) ==
  LET p == call[c].on IN
  /\ call[c].at = "cancelling"
  /\ provider' = [provider EXCEPT ![p].order = IF @ = "created" THEN "cancelled" ELSE @]
  /\ Reconcile(c, p, "link")
  /\ UNCHANGED <<row, offer, wallet, events>>

-----------------------------------------------------------------------------
(* The provider and the payer, external.                                   *)

Notify(p, event) == events' = [events EXCEPT ![p] = @ \cup {event}]

\* A browser pays; the payment of an order is first authorized.  A browser
\* learns of the order from the answer to a checkout that bound it.
Pay(p) ==
  /\ row[p].bound
  /\ \/ /\ row[p].order /\ provider[p].order = "created"
        /\ provider' = [provider EXCEPT ![p].order = "authorized"]
        /\ UNCHANGED events
     \/ /\ provider[p].order = IF row[p].order THEN "authorized" ELSE "created"
        /\ provider' = [provider EXCEPT ![p].order = "paid"]
        /\ Notify(p, "payment")
  /\ UNCHANGED <<row, offer, wallet, call>>

ExpireLink(p) ==
  /\ ~row[p].order /\ provider[p].order = "created"
  /\ provider' = [provider EXCEPT ![p].order = "expired"]
  /\ UNCHANGED <<row, offer, wallet, events, call>>

RefundPayment(p) ==
  /\ provider[p].order = "paid" /\ provider[p].refunded < Price[p]
  /\ provider' = [provider EXCEPT ![p].refunded = @ + 1]
  /\ Notify(p, "payment")
  /\ UNCHANGED <<row, offer, wallet, call>>

Dispute(p) ==
  /\ p \in Disputable
  /\ provider[p].order = "paid"
  /\ \/ /\ provider[p].dispute = "none"
        /\ provider' = [provider EXCEPT ![p].dispute = "open"]
     \/ /\ provider[p].dispute = "open"
        /\ \E end \in {"won", "lost"} : provider' = [provider EXCEPT ![p].dispute = end]
  /\ Notify(p, "dispute")
  /\ UNCHANGED <<row, offer, wallet, call>>

\* After a day of failures the provider gives a notification up.
GiveUp(p, event) ==
  /\ event \in events[p]
  /\ events' = [events EXCEPT ![p] = @ \ {event}]
  /\ UNCHANGED <<row, offer, wallet, provider, call>>

-----------------------------------------------------------------------------
User(c, p) == Prepare(c, p) \/ Resume(c, p) \/ CancelLink(c, p)
              \/ Verify(c, p) \/ \E why \in {"confirm", "cancel"} : Refresh(c, p, why)

Checkout(c) == CreateOrder(c) \/ FindOrder(c) \/ Bind(c) \/ Doubt(c)

Confirm(c) == FetchOrder(c) \/ FetchPayment(c) \/ FetchDispute(c) \/ Settle(c) \/ Record(c)

Outside(p) == Pay(p) \/ ExpireLink(p) \/ RefundPayment(p) \/ Dispute(p)

Hook(c, p) == \E event \in {"payment", "dispute"} : Deliver(c, p, event)

Lose(p) == \E event \in {"payment", "dispute"} : GiveUp(p, event)

Next == \/ \E c \in Calls, p \in Purchases : User(c, p) \/ Hook(c, p) \/ RunCron(c, p)
        \/ \E p \in Purchases : Outside(p) \/ Lose(p)
        \/ \E c \in Calls : Checkout(c) \/ Confirm(c) \/ Fail(c) \/ Close(c) \/ CancelRemote(c)

Spec == Init /\ [][Next]_vars

\* A step of call c, on p.
Step(c, p) == call[c].on = p /\ (Confirm(c) \/ Close(c))

\* Requests have timeouts and transactions end.
CallsEnd == \A c \in Calls : WF_vars(Checkout(c) \/ Confirm(c) \/ Close(c) \/ CancelRemote(c) \/ Fail(c))

\* The scheduled pass comes to every purchase again and again, because it
\* takes the one checked longest ago and puts it last even when the check
\* fails; the provider answers some of the times it is asked.
CronFairness ==
  /\ CallsEnd
  /\ \A p \in Purchases :
       /\ SF_vars(RunCron(Cron, p))
       /\ \A at \in {"fetching", "paying", "disputing", "settling"} :
            SF_vars(call[Cron].at = at /\ Step(Cron, p))

FairSpec == Spec /\ CronFairness

\* Someone cancels a purchase until it is closed, and the provider
\* answers some of the times it is asked.
CancelFairness ==
  /\ CallsEnd
  /\ \A c \in Calls \ {Cron}, p \in Purchases :
     /\ SF_vars(Refresh(c, p, "cancel"))
     /\ \A at \in {"fetching", "paying", "disputing", "settling", "closing"} :
          SF_vars(call[c].at = at /\ call[c].why = "cancel" /\ Step(c, p))

CancelSpec == Spec /\ CancelFairness
-----------------------------------------------------------------------------
(* Properties.                                                             *)

Rows == [status : {"none"} \cup Pending \cup Closed \cup Paid,
         order : BOOLEAN, bound : BOOLEAN, paid : BOOLEAN, refunded : Nat,
         dispute : Disputes, credited : Nat, version : Nat]
Orders == [order : {"none", "created", "authorized", "paid"} \cup Closed,
           orders : Nat, refunded : Nat, dispute : Disputes]
CallStates == [at : {"idle", "creating", "finding", "binding", "doubting", "fetching",
                     "paying", "disputing", "settling", "recording", "closing", "cancelling"},
               on : Purchases \cup {NoPurchase}, got : Fetched, current : BOOLEAN,
               why : {"none", "confirm", "cancel", "link", "payment", "dispute"}]

TypeOK ==
  /\ row \in [Purchases -> Rows]
  /\ \A p \in Purchases : row[p].credited <= Credits[p]
  /\ offer \in Purchases \cup {NoPurchase}
  /\ wallet \in [Purchases -> [granted : Int, posted : Nat]]
  /\ provider \in [Purchases -> Orders]
  /\ events \in [Purchases -> SUBSET {"payment", "dispute"}]
  /\ call \in [Calls -> CallStates]

\* However often a checkout is retried, in however many tabs, one purchase at
\* most waits for a payment (prepare).
OnePending == \A p, q \in PendingOnes : p = q

\* A purchase has one order at the provider at most, whatever responses were
\* lost: an uncertain order is looked for, never made again (checkout).
OneOrder == \A p \in Purchases : provider[p].orders <= 1

\* The introductory price is paid once, though orders that were cancelled here
\* can still be paid there (the reservation of the offer in prepare, settle
\* and cancel).
IntroOnce == \A p, q \in Intro : provider[p].order = "paid" /\ provider[q].order = "paid" => p = q

\* What the ledger granted for a purchase is what its row says: no settlement
\* is lost to the key of an earlier one (settle, append).
LedgerMatches == \A p \in Purchases : wallet[p].granted = row[p].credited

\* Nobody keeps a credit that was refunded, nor loses one that was not: after
\* any sequence of partial refunds what is left is the paid share, rounded down.
RefundsTakeTheirShare ==
  \A p \in Purchases :
    LET kept == Credits[p] * (Price[p] - row[p].refunded) IN
    row[p].paid /\ ~Reversed(row[p].dispute)
      => wallet[p].granted * Price[p] <= kept /\ kept < (wallet[p].granted + 1) * Price[p]

\* A purchase that was paid is never shown as pending or closed again, by
\* whichever of a cancellation and a late confirmation comes second.
PaidStays == [][\A p \in Purchases : row[p].paid => row'[p].paid /\ row'[p].status \in Paid]_vars

\* Credits follow the payment: what a purchase takes into account of its
\* payment, refunds and dispute only moves forward, and is never ahead of the
\* provider, though confirmations overlap and notifications come late, twice
\* or out of order (the version check of reconcile_purchase).
Truth == [p \in Purchases |-> [captured |-> provider[p].order = "paid",
                               refunded |-> provider[p].refunded, dispute |-> provider[p].dispute]]
Applied == [p \in Purchases |-> [captured |-> row[p].paid, refunded |-> row[p].refunded,
                                 dispute |-> row[p].dispute]]
Entitlements == INSTANCE Entitlement WITH truth <- Truth, applied <- Applied
FollowsPayment == Entitlements!Spec

\* Once a payment was captured, the credits come to what the provider knows
\* about it, with every notification of it lost: except a dispute, which is
\* only ever learnt of from a notification (the scheduled pass).
Mirrors(p) ==
  wallet[p].granted =
    Entitled(p, provider[p].refunded, IF row[p].dispute = "none" THEN "none" ELSE provider[p].dispute)
Mirrored == \A p \in Purchases : <>[](provider[p].order = "paid" => row[p].paid /\ Mirrors(p))

\* docs/RAZORPAY_CHECKOUT.md:45, "Cancelling a recharge in the wallet closes the
\* local purchase".
CancelCloses == \A p \in Purchases : [](row[p].status \in Pending => <>(row[p].status \notin Pending))
=============================================================================
