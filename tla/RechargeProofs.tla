--------------------------- MODULE RechargeProofs ---------------------------
(***************************************************************************)
(* Proofs about Recharge, for any purchases, prices, credits and calls.    *)
(*                                                                         *)
(* The invariant has a part for the calls and one for the purchases.  What *)
(* a call has fetched is never ahead of the provider, who only moves on,   *)
(* and a purchase's row is never ahead of what was fetched; so an order    *)
(* that was seen closed can no longer be paid, and the offer it held may   *)
(* be given to another.                                                    *)
(***************************************************************************)
EXTENDS Recharge, TLAPS

\* b is the same dispute as a, or an earlier state of it.
Disputed(a, b) == Entitlements!DisputeNotOlder(a, b)

\* A call that is on a purchase has fetched no more than the provider knows
\* of it, and no less than the row says if nothing was settled since.
Follows(k, rows, orders) ==
  k.at # "idle" =>
    /\ k.on \in Purchases /\ rows[k.on].status # "none"
    /\ k.at = "creating" => orders[k.on].orders = 0
    /\ k.got.order \in Closed => orders[k.on].order = k.got.order
    /\ k.got.captured => orders[k.on].order = "paid"
    /\ k.got.refunded <= orders[k.on].refunded
    /\ Disputed(orders[k.on].dispute, k.got.dispute)
    /\ k.current /\ k.got.dispute # "none" => Disputed(k.got.dispute, rows[k.on].dispute)

CallsFollow == \A c \in Calls : Follows(call[c], row, provider)

\* An order is being made by one call at most.
CreatingOnce ==
  \A c, d \in Calls :
    c # d /\ call[c].at = "creating" /\ call[d].at = "creating" => call[c].on # call[d].on

\* A row that is paid shows it, and has the credits it is entitled to.
Shown(p, r) ==
  r.paid => r.status \in Paid /\ r.credited = Entitled(p, r.refunded, r.dispute)

Ledgered(r, w) == w.granted = r.credited /\ w.posted <= r.version

\* A purchase has no order before it has begun, and one afterwards.
Ordered(p, r, o) ==
  /\ o.orders <= 1
  /\ o.order = "none" <=> o.orders = 0
  /\ r.status = "none" => o.order = "none"
  /\ o.refunded <= Price[p]

\* A row is not ahead of the provider.
Behind(r, o) ==
  /\ r.paid => o.order = "paid"
  /\ r.refunded <= o.refunded
  /\ Disputed(o.dispute, r.dispute)

\* An introductory purchase holds the offer, unless it can no longer be paid.
Offered(p, r, o, holder) ==
  p \in Intro /\ r.status # "none" => holder = p \/ o.order \in Closed

Sound(p, r, w, o, holder) ==
  Shown(p, r) /\ Ledgered(r, w) /\ Ordered(p, r, o) /\ Behind(r, o) /\ Offered(p, r, o, holder)

RowsAreSound == \A p \in Purchases : Sound(p, row[p], wallet[p], provider[p], offer)

Inv == TypeOK /\ OnePending /\ CreatingOnce /\ CallsFollow /\ RowsAreSound

-----------------------------------------------------------------------------
(* Arithmetic.                                                             *)

\* Division rounds down.
LEMMA Division ==
  ASSUME NEW m \in Nat, NEW n \in Nat \ {0}
  PROVE  m \div n \in Nat /\ (m \div n) * n <= m /\ m < (m \div n) * n + n
OBVIOUS

\* Rounding up.
LEMMA Ceiling ==
  ASSUME NEW x \in Nat, NEW n \in Nat \ {0}, NEW q, q = (x + n - 1) \div n
  PROVE  q \in Nat /\ x <= q * n /\ q * n < x + n
<1>1. x + n - 1 \in Nat
  OBVIOUS
<1>2. q \in Nat /\ q * n <= x + n - 1 /\ x + n - 1 < q * n + n
  BY <1>1, Division
<1>3. q * n \in Nat
  BY <1>2
<1>. QED BY <1>2, <1>3

\* What was refunded takes a share of the credits, rounded up.
LEMMA ReversalShare ==
  ASSUME RechargeAssumption, NEW p \in Purchases, NEW r \in 0 .. Price[p]
  PROVE  /\ Reversal(p, r) \in 0 .. Credits[p]
         /\ (Credits[p] - Reversal(p, r)) * Price[p] <= Credits[p] * (Price[p] - r)
         /\ Credits[p] * (Price[p] - r) < (Credits[p] - Reversal(p, r) + 1) * Price[p]
<1> DEFINE n == Price[p]
           k == Credits[p]
           x == k * r
           q == (x + n - 1) \div n
<1>1. n \in Nat \ {0} /\ k \in Nat \ {0} /\ r \in Nat /\ r <= n
  BY DEF RechargeAssumption
<1>2. x \in Nat /\ x <= k * n
  BY <1>1
<1>3. q \in Nat /\ x <= q * n /\ q * n < x + n
  BY <1>1, <1>2, Ceiling
<1>4. q <= k
  <2>1. SUFFICES ASSUME q >= k + 1 PROVE FALSE
    BY <1>1, <1>3
  <2>2. q * n >= (k + 1) * n
    BY <1>1, <1>3, <2>1
  <2>. QED BY <1>1, <1>2, <1>3, <2>2
<1>5. (k - q) * n = k * n - q * n /\ (k - q + 1) * n = k * n - q * n + n /\ k * (n - r) = k * n - x
  BY <1>1, <1>3
<1>. HIDE DEF q
<1>6. Reversal(p, r) = q
  BY DEF Reversal, q
<1>. QED BY <1>1, <1>2, <1>3, <1>4, <1>5, <1>6

\* What a payment entitles to is part of the purchase's credits.
LEMMA EntitledIsGranted ==
  ASSUME RechargeAssumption, NEW p \in Purchases, NEW r \in 0 .. Price[p], NEW d
  PROVE  Entitled(p, r, d) \in 0 .. Credits[p]
<1>1. Credits[p] \in Nat
  BY DEF RechargeAssumption
<1>. QED BY <1>1, ReversalShare DEF Entitled

-----------------------------------------------------------------------------
(* How the parts of the state may change.                                  *)

\* One call moves on.
LEMMA CallStep ==
  ASSUME Inv, NEW c \in Calls, NEW k \in CallStates, Follows(k, row, provider), k.at # "creating",
         call' = [call EXCEPT ![c] = k], UNCHANGED <<row, offer, wallet, provider>>,
         events' \in [Purchases -> SUBSET {"payment", "dispute"}]
  PROVE  Inv'
<1>1. TypeOK'
  BY DEF Inv, TypeOK
<1>2. CallsFollow' /\ CreatingOnce'
  BY DEF Inv, TypeOK, CallsFollow, CreatingOnce
<1>3. OnePending' /\ RowsAreSound'
  BY DEF Inv, OnePending, PendingOnes, RowsAreSound
<1>. QED BY <1>1, <1>2, <1>3 DEF Inv

\* An order moves on: o is it later than q.
Moves(o, q) ==
  /\ o.orders = q.orders /\ (o.order = "none" <=> q.order = "none")
  /\ q.order \in Closed \cup {"paid"} => o.order = q.order
  /\ o.refunded >= q.refunded
  /\ Disputed(o.dispute, q.dispute)

\* A later state of a later state of a dispute is a later state of it.
LEMMA DisputesMoveOn ==
  ASSUME NEW a, NEW b, NEW d, Disputed(a, b), Disputed(b, d)
  PROVE  Disputed(a, d)
  BY DEF Disputed, Entitlements!DisputeNotOlder

\* A call that follows the provider follows it when an order moves on.
LEMMA MovedIsFollowed ==
  ASSUME NEW k \in CallStates, NEW orders \in [Purchases -> Orders], NEW p \in Purchases, NEW o \in Orders,
         NEW rows, Moves(o, orders[p]), Follows(k, rows, orders)
  PROVE  Follows(k, rows, [orders EXCEPT ![p] = o])
<1>1. CASE k.on # p
  BY <1>1 DEF Follows
<1>2. CASE k.on = p
  <2>1. k.at # "idle" => Disputed(o.dispute, k.got.dispute)
    BY <1>2, DisputesMoveOn DEF Follows, Moves
  <2>2. k.got.refunded \in Nat /\ orders[p].refunded \in Nat /\ o.refunded \in Nat
    BY DEF CallStates, Fetched, Orders
  <2>. QED BY <1>2, <2>1, <2>2 DEF Follows, Moves, Closed
<1>. QED BY <1>1, <1>2

\* One order moves on, and one call at most, which goes on to fetch.
LEMMA ProviderStep ==
  ASSUME Inv, NEW p \in Purchases, NEW o \in Orders, Moves(o, provider[p]), o.refunded <= Price[p],
         provider' = [provider EXCEPT ![p] = o], UNCHANGED <<row, offer, wallet>>,
         events' \in [Purchases -> SUBSET {"payment", "dispute"}],
         \/ UNCHANGED call
         \/ \E c \in Calls, k \in CallStates :
              /\ call' = [call EXCEPT ![c] = k] /\ k.at # "creating" /\ Follows(k, row, provider)
  PROVE  Inv'
<1>1. TypeOK'
  BY DEF Inv, TypeOK
<1>2. CallsFollow'
  <2>1. provider \in [Purchases -> Orders] /\ \A c \in Calls : call[c] \in CallStates
    BY DEF Inv, TypeOK
  <2>2. \A k \in CallStates : Follows(k, row, provider) => Follows(k, row, provider')
    BY <2>1, MovedIsFollowed
  <2>3. \A c \in Calls : call'[c] \in CallStates /\ Follows(call'[c], row, provider)
    BY <2>1 DEF Inv, TypeOK, CallsFollow
  <2>. QED BY <2>2, <2>3 DEF CallsFollow
<1>3. CreatingOnce'
  BY DEF Inv, TypeOK, CreatingOnce
<1>4. OnePending'
  BY DEF Inv, OnePending, PendingOnes
<1>5. RowsAreSound'
  <2>. SUFFICES ASSUME NEW q \in Purchases
                PROVE  Sound(q, row[q], wallet[q], provider'[q], offer)
    BY DEF RowsAreSound
  <2>1. Sound(q, row[q], wallet[q], provider[q], offer)
    BY DEF Inv, RowsAreSound
  <2>2. CASE q # p
    BY <2>1, <2>2 DEF Inv, TypeOK
  <2>3. CASE q = p
    <3>1. provider'[p] = o
      BY DEF Inv, TypeOK
    <3>2. Disputed(o.dispute, row[p].dispute)
      BY <2>1, <2>3, DisputesMoveOn DEF Sound, Behind, Moves
    <3>3. row[p].refunded \in Nat /\ provider[p].refunded \in Nat /\ o.refunded \in Nat
      BY DEF Inv, TypeOK, Rows, Orders
    <3>. QED BY <2>1, <2>3, <3>1, <3>2, <3>3 DEF Sound, Ordered, Behind, Offered, Moves, Closed
  <2>. QED BY <2>2, <2>3
<1>. QED BY <1>1, <1>2, <1>3, <1>4, <1>5 DEF Inv

\* One purchase's row changes its state, but nothing about its payment, and
\* the call that did it returns.
LEMMA RowStep ==
  ASSUME Inv, NEW c \in Calls, NEW p \in Purchases, NEW new \in Rows,
         row[p].status # "none", new.status # "none",
         new.status \in Pending => row[p].status \in Pending,
         row[p].paid => new.status \in Paid,
         new.paid = row[p].paid, new.refunded = row[p].refunded, new.dispute = row[p].dispute,
         new.credited = row[p].credited, new.version = row[p].version,
         row' = [row EXCEPT ![p] = new], call' = [call EXCEPT ![c] = Idle],
         UNCHANGED <<offer, wallet, provider, events>>
  PROVE  Inv'
<1>. Idle \in CallStates /\ Idle.at = "idle"
  BY DEF Idle, CallStates, Fetched, Nothing, Disputes
<1>1. TypeOK'
  BY DEF Inv, TypeOK
<1>2. OnePending'
  BY DEF Inv, TypeOK, OnePending, PendingOnes
<1>3. CreatingOnce'
  BY DEF Inv, TypeOK, CreatingOnce
<1>4. CallsFollow'
  <2>. SUFFICES ASSUME NEW d \in Calls PROVE Follows(call'[d], row', provider)
    BY DEF CallsFollow
  <2>1. CASE d = c
    BY <2>1 DEF Inv, TypeOK, Follows
  <2>2. CASE d # c
    <3>1. call'[d] = call[d] /\ Follows(call[d], row, provider)
      BY <2>2 DEF Inv, TypeOK, CallsFollow
    <3>. QED BY <3>1 DEF Follows, Inv, TypeOK
  <2>. QED BY <2>1, <2>2
<1>5. RowsAreSound'
  BY DEF Inv, TypeOK, RowsAreSound, Sound, Shown, Ledgered, Ordered, Behind, Offered
<1>. QED BY <1>1, <1>2, <1>3, <1>4, <1>5 DEF Inv

\* A call begins to fetch what the provider knows of a purchase that has begun.
LEMMA Fetching ==
  ASSUME Inv, NEW p \in Purchases, row[p].status # "none",
         NEW why \in {"confirm", "cancel", "link", "payment", "dispute"},
         NEW k, k = [at |-> "fetching", on |-> p, why |-> why, got |-> Nothing, current |-> TRUE]
  PROVE  k \in CallStates /\ Follows(k, row, provider)
<1>1. provider[p].refunded \in Nat
  BY DEF Inv, TypeOK, Orders
<1>. QED BY <1>1 DEF CallStates, Fetched, Nothing, Disputes, Follows, Closed, Disputed,
                     Entitlements!DisputeNotOlder

\* A call that begins to fetch.
LEMMA Reconciling ==
  ASSUME Inv, NEW c \in Calls, NEW p \in Purchases,
         NEW why \in {"confirm", "cancel", "link", "payment", "dispute"}, Reconcile(c, p, why),
         UNCHANGED <<row, offer, wallet, provider>>,
         events' \in [Purchases -> SUBSET {"payment", "dispute"}]
  PROVE  Inv'
  BY Fetching, CallStep DEF Reconcile

\* A call that begins to look for an order, or to cancel a link.
LEMMA Entering ==
  ASSUME Inv, NEW c \in Calls, NEW p \in PendingOnes, NEW at \in {"finding", "cancelling"},
         NEW why \in {"confirm", "link"}, Enter(c, p, at, why),
         UNCHANGED <<row, offer, wallet, provider, events>>
  PROVE  Inv'
<1> DEFINE k == [Idle EXCEPT !.at = at, !.on = p, !.why = why]
<1>1. p \in Purchases /\ row[p].status # "none" /\ provider[p].refunded \in Nat
  BY DEF PendingOnes, Pending, Inv, TypeOK, Orders
<1>2. k \in CallStates /\ k.at # "creating"
  BY <1>1 DEF Idle, CallStates, Fetched, Nothing, Disputes
<1>3. Follows(k, row, provider)
  BY <1>1 DEF Idle, Nothing, Follows, Closed, Disputed, Entitlements!DisputeNotOlder
<1>4. call' = [call EXCEPT ![c] = k]
  BY DEF Enter
<1>5. events' \in [Purchases -> SUBSET {"payment", "dispute"}]
  BY DEF Inv, TypeOK
<1>. HIDE DEF k
<1>. QED BY <1>2, <1>3, <1>4, <1>5, CallStep

\* A call that returns.
LEMMA Returning ==
  ASSUME Inv, NEW c \in Calls, Return(c), UNCHANGED <<row, offer, wallet, provider>>,
         events' \in [Purchases -> SUBSET {"payment", "dispute"}]
  PROVE  Inv'
<1>1. Idle \in CallStates /\ Idle.at # "creating" /\ Follows(Idle, row, provider)
  BY DEF Idle, CallStates, Fetched, Nothing, Disputes, Follows
<1>. QED BY <1>1, CallStep DEF Return

\* What is known of a call that is under way.
LEMMA Working ==
  ASSUME Inv, NEW c \in Calls, call[c].at # "idle"
  PROVE  /\ call[c] \in CallStates /\ call[c].on \in Purchases
         /\ row[call[c].on] \in Rows /\ provider[call[c].on] \in Orders
         /\ Follows(call[c], row, provider)
         /\ Sound(call[c].on, row[call[c].on], wallet[call[c].on], provider[call[c].on], offer)
<1>1. Follows(call[c], row, provider)
  BY DEF Inv, CallsFollow
<1>2. call[c].on \in Purchases
  BY <1>1 DEF Follows
<1>. QED BY <1>1, <1>2 DEF Inv, TypeOK, RowsAreSound

-----------------------------------------------------------------------------
(* The initial states.                                                     *)

\* The row of a purchase that nothing was settled of.
LEMMA Unsettled ==
  ASSUME NEW r, r = NewRow \/ (\E b \in BOOLEAN : r = Link(b))
  PROVE  /\ r \in Rows /\ ~r.paid /\ r.refunded = 0 /\ r.dispute = "none"
         /\ r.credited = 0 /\ r.version = 0
         /\ (r.order /\ r.status = "none") \/ (~r.order /\ r.status # "none")
<1>1. NewRow \in Rows /\ NewRow.order /\ NewRow.status = "none"
  BY DEF NewRow, Rows, Disputes, Pending, Closed, Paid
<1>2. ASSUME NEW b \in BOOLEAN
      PROVE  Link(b) \in Rows /\ ~Link(b).order /\ Link(b).status # "none"
  BY DEF Link, NewRow, Rows, Disputes, Pending, Closed, Paid
<1>3. ~NewRow.paid /\ NewRow.refunded = 0 /\ NewRow.dispute = "none" /\ NewRow.credited = 0
      /\ NewRow.version = 0
  BY DEF NewRow
<1>4. ASSUME NEW b \in BOOLEAN
      PROVE  ~Link(b).paid /\ Link(b).refunded = 0 /\ Link(b).dispute = "none" /\ Link(b).credited = 0
             /\ Link(b).version = 0
  BY DEF NewRow, Link
<1>. QED BY <1>1, <1>2, <1>3, <1>4

\* The invariant holds at first, with an old link or without.
LEMMA InitInv == RechargeAssumption /\ Init => Inv
<1>. SUFFICES ASSUME RechargeAssumption, Init PROVE Inv
  OBVIOUS
<1>1. ASSUME NEW p \in Purchases
      PROVE  /\ row[p] = NewRow \/ (\E b \in BOOLEAN : row[p] = Link(b))
             /\ p # Old => row[p] = NewRow
  BY DEF Init
<1>2. ASSUME NEW p \in Purchases
      PROVE  /\ row[p] \in Rows /\ ~row[p].paid /\ row[p].refunded = 0 /\ row[p].dispute = "none"
             /\ row[p].credited = 0 /\ row[p].version = 0
             /\ (row[p].order /\ row[p].status = "none") \/ (~row[p].order /\ row[p].status # "none")
             /\ p # Old => row[p].order
  BY <1>1, Unsettled DEF NewRow
<1>3. ASSUME NEW p \in Purchases
      PROVE  /\ provider[p] \in Orders /\ provider[p].refunded = 0 /\ provider[p].dispute = "none"
             /\ row[p].order => provider[p].order = "none" /\ provider[p].orders = 0
             /\ ~row[p].order => provider[p].order = "created" /\ provider[p].orders = 1
  BY DEF Init, NoOrder, Orders, Disputes
<1>4. ASSUME NEW c \in Calls PROVE call[c] \in CallStates /\ call[c].at = "idle"
  BY DEF Init, Idle, Nothing, Disputes, CallStates, Fetched
<1>5. TypeOK
  <2>1. row \in [Purchases -> Rows] /\ provider \in [Purchases -> Orders] /\ call \in [Calls -> CallStates]
    BY <1>2, <1>3, <1>4 DEF Init
  <2>2. \A p \in Purchases : row[p].credited <= Credits[p]
    <3>. SUFFICES ASSUME NEW p \in Purchases PROVE row[p].credited <= Credits[p]
      OBVIOUS
    <3>1. Credits[p] \in Nat \ {0}
      BY DEF RechargeAssumption
    <3>. QED BY <1>2, <3>1
  <2>3. offer \in Purchases \cup {NoPurchase}
    BY DEF Init, RechargeAssumption
  <2>. QED BY <2>1, <2>2, <2>3 DEF Init, TypeOK
<1>6. OnePending
  BY <1>2 DEF OnePending, PendingOnes, Pending
<1>7. CreatingOnce /\ CallsFollow
  BY <1>4 DEF CreatingOnce, CallsFollow, Follows
<1>8. RowsAreSound
  <2>. SUFFICES ASSUME NEW p \in Purchases PROVE Sound(p, row[p], wallet[p], provider[p], offer)
    BY DEF RowsAreSound
  <2>1. wallet[p].granted = 0 /\ wallet[p].posted = 0
    BY DEF Init
  <2>2. Shown(p, row[p]) /\ Ledgered(row[p], wallet[p])
    BY <1>2, <2>1 DEF Shown, Ledgered
  <2>3. Ordered(p, row[p], provider[p])
    BY <1>2, <1>3 DEF Ordered, RechargeAssumption
  <2>4. Behind(row[p], provider[p])
    BY <1>2, <1>3 DEF Behind, Disputed, Entitlements!DisputeNotOlder
  <2>5. Offered(p, row[p], provider[p], offer)
    BY <1>2 DEF Init, Offered
  <2>. QED BY <2>2, <2>3, <2>4, <2>5 DEF Sound
<1>. QED BY <1>5, <1>6, <1>7, <1>8 DEF Inv

-----------------------------------------------------------------------------
(* The actions, in the order of Recharge.                                  *)

\* A purchase begins: no call is on it, and any other that held the offer is closed.
LEMMA PrepareInv ==
  ASSUME RechargeAssumption, Inv, NEW c \in Calls, NEW p \in Purchases, Prepare(c, p)
  PROVE  Inv'
<1> DEFINE k == [Idle EXCEPT !.at = "creating", !.on = p, !.why = "confirm"]
           new == [row[p] EXCEPT !.status = "creating"]
<1>1. /\ row[p] \in Rows /\ provider[p] \in Orders /\ row[p].status = "none"
      /\ Sound(p, row[p], wallet[p], provider[p], offer)
  BY DEF Prepare, CanPrepare, Inv, TypeOK, RowsAreSound
<1>2. provider[p].order = "none" /\ provider[p].orders = 0 /\ ~row[p].paid
  BY <1>1 DEF Sound, Ordered, Shown, Paid
<1>3. k \in CallStates /\ k.at = "creating" /\ k.on = p /\ k.got = Nothing /\ call' = [call EXCEPT ![c] = k]
  BY DEF Prepare, Enter, Idle, CallStates, Nothing, Fetched, Disputes
<1>4. new \in Rows /\ row' = [row EXCEPT ![p] = new] /\ new.status = "creating"
  BY <1>1 DEF Prepare, Rows, Pending
<1>5. offer' = (IF p \in Intro THEN p ELSE offer) /\ UNCHANGED <<wallet, provider, events>>
  BY DEF Prepare
<1>6. new.credited = row[p].credited /\ new.version = row[p].version /\ new.paid = row[p].paid
      /\ new.refunded = row[p].refunded /\ new.dispute = row[p].dispute
  BY <1>1 DEF Rows
<1>7. PendingOnes = {} /\ (p \in Intro => offer = NoPurchase)
  BY DEF Prepare, CanPrepare, Eligible
<1>. HIDE DEF k, new
<1>8. TypeOK'
  BY <1>3, <1>4, <1>5, <1>6 DEF Inv, TypeOK
<1>9. OnePending'
  BY <1>4, <1>7 DEF Inv, TypeOK, OnePending, PendingOnes
<1>10. CreatingOnce'
  <2>1. \A d \in Calls : call[d].at = "creating" => call[d].on # p
    BY <1>1 DEF Inv, CallsFollow, Follows
  <2>2. \A d \in Calls : d # c => call'[d] = call[d]
    BY <1>3 DEF Inv, TypeOK
  <2>. QED BY <1>3, <2>1, <2>2 DEF Inv, TypeOK, CreatingOnce
<1>11. CallsFollow'
  <2>. SUFFICES ASSUME NEW d \in Calls PROVE Follows(call'[d], row', provider)
    BY <1>5 DEF CallsFollow
  <2>1. CASE d = c
    <3>1. call'[d] = k /\ row'[p] = new
      BY <2>1, <1>3, <1>4 DEF Inv, TypeOK
    <3>2. provider[p].refunded \in Nat
      BY <1>1 DEF Orders
    <3>. QED BY <1>2, <1>3, <1>4, <3>1, <3>2
             DEF Follows, Nothing, Closed, Disputed, Entitlements!DisputeNotOlder
  <2>2. CASE d # c
    <3>1. call'[d] = call[d] /\ Follows(call[d], row, provider)
      BY <2>2, <1>3 DEF Inv, TypeOK, CallsFollow
    <3>2. call[d].at # "idle" => call[d].on # p /\ row'[call[d].on] = row[call[d].on]
      BY <1>1, <1>4, <3>1 DEF Follows, Inv, TypeOK
    <3>. QED BY <3>1, <3>2 DEF Follows
  <2>. QED BY <2>1, <2>2
<1>12. RowsAreSound'
  <2>. SUFFICES ASSUME NEW q \in Purchases
                PROVE  Sound(q, row'[q], wallet[q], provider[q], offer')
    BY <1>5 DEF RowsAreSound
  <2>0. Sound(q, row[q], wallet[q], provider[q], offer)
    BY DEF Inv, RowsAreSound
  <2>1. Offered(q, row'[q], provider[q], offer')
    BY <2>0, <1>4, <1>5, <1>7 DEF Sound, Offered, Inv, TypeOK, RechargeAssumption
  <2>2. CASE q # p
    BY <2>0, <2>1, <2>2, <1>4 DEF Sound, Inv, TypeOK
  <2>3. CASE q = p
    BY <2>0, <2>1, <2>3, <1>2, <1>4, <1>6
       DEF Sound, Inv, TypeOK, Shown, Ledgered, Ordered, Behind
  <2>. QED BY <2>2, <2>3
<1>. QED BY <1>8, <1>9, <1>10, <1>11, <1>12 DEF Inv

\* What a browser asks for.
LEMMA UserInv ==
  ASSUME RechargeAssumption, Inv, NEW c \in Calls, NEW p \in Purchases, User(c, p)
  PROVE  Inv'
<1>. events \in [Purchases -> SUBSET {"payment", "dispute"}]
  BY DEF Inv, TypeOK
<1>1. CASE Prepare(c, p)
  BY <1>1, PrepareInv
<1>2. CASE Resume(c, p)
  <2>1. CASE row[p].bound
    BY <1>2, <2>1, Reconciling DEF Resume
  <2>2. CASE ~row[p].bound
    BY <1>2, <2>2, Entering DEF Resume, ResumeUnbound
  <2>. QED BY <2>1, <2>2
<1>3. CASE CancelLink(c, p)
  BY <1>3, Entering DEF CancelLink
<1>4. CASE Verify(c, p)
  BY <1>4, Reconciling DEF Verify
<1>5. ASSUME NEW why \in {"confirm", "cancel"}, Refresh(c, p, why) PROVE Inv'
  BY <1>5, Reconciling DEF Refresh
<1>. QED BY <1>1, <1>2, <1>3, <1>4, <1>5 DEF User

\* The first order of a purchase.
LEMMA FirstOrder ==
  ASSUME NEW q \in Orders, NEW o, o = [q EXCEPT !.order = "created", !.orders = 1]
  PROVE  /\ o \in Orders
         /\ o.order = "created" /\ o.orders = 1 /\ o.refunded = q.refunded /\ o.dispute = q.dispute
<1>1. o \in Orders
  BY DEF Orders
<1>2. o.order = "created" /\ o.orders = 1 /\ o.refunded = q.refunded /\ o.dispute = q.dispute
  BY DEF Orders
<1>. QED BY <1>1, <1>2

\* An order is made: no other call is making one, and nothing was fetched of it.
LEMMA CreateOrderInv ==
  ASSUME RechargeAssumption, Inv, NEW c \in Calls, CreateOrder(c)
  PROVE  Inv'
<1> DEFINE p == call[c].on
           o == [provider[p] EXCEPT !.order = "created", !.orders = 1]
<1>. HIDE DEF p
<1>0. call[c].at = "creating" /\ UNCHANGED <<row, offer, wallet, events>>
      /\ events \in [Purchases -> SUBSET {"payment", "dispute"}]
  BY DEF CreateOrder, Inv, TypeOK
<1>1. /\ call[c] \in CallStates /\ p \in Purchases /\ provider[p] \in Orders /\ row[p] \in Rows
      /\ Follows(call[c], row, provider) /\ Sound(p, row[p], wallet[p], provider[p], offer)
  BY <1>0, Working DEF p
<1>2. provider[p].orders = 0 /\ provider[p].order = "none"
  BY <1>0, <1>1 DEF Follows, Sound, Ordered, p
<1>3. ASSUME NEW at \in {"binding", "doubting"}, Go(c, at)
      PROVE  /\ call' = [call EXCEPT ![c] = [call[c] EXCEPT !.at = at]]
             /\ [call[c] EXCEPT !.at = at] \in CallStates
             /\ [call[c] EXCEPT !.at = at].at # "creating"
             /\ Follows([call[c] EXCEPT !.at = at], row, provider)
  <2>1. [call[c] EXCEPT !.at = at] \in CallStates
    BY <1>1 DEF CallStates
  <2>2. Follows([call[c] EXCEPT !.at = at], row, provider)
    BY <1>0, <1>1, <1>3 DEF Follows, CallStates
  <2>. QED BY <1>1, <1>3, <2>1, <2>2 DEF Go, CallStates
<1>4. CASE UNCHANGED provider /\ Go(c, "doubting")
  BY <1>0, <1>3, <1>4, CallStep
<1>5. ASSUME NEW at \in {"binding", "doubting"}, Go(c, at), provider' = [provider EXCEPT ![p] = o]
      PROVE  Inv'
  <2> DEFINE k == [call[c] EXCEPT !.at = at]
  <2>1. k \in CallStates /\ k.at # "creating" /\ Follows(k, row, provider) /\ call' = [call EXCEPT ![c] = k]
    BY <1>3, <1>5
  <2>2. o \in Orders /\ o.order = "created" /\ o.orders = 1 /\ o.refunded = provider[p].refunded
        /\ o.dispute = provider[p].dispute
    BY <1>1, <1>2, FirstOrder
  <2>. HIDE DEF k, o
  <2>3. TypeOK'
    BY <1>0, <1>5, <2>1, <2>2 DEF Inv, TypeOK
  <2>4. OnePending'
    BY <1>0 DEF Inv, OnePending, PendingOnes
  <2>5. CreatingOnce'
    BY <2>1 DEF Inv, TypeOK, CreatingOnce
  <2>6. CallsFollow'
    <3>. SUFFICES ASSUME NEW d \in Calls PROVE Follows(call'[d], row, provider')
      BY <1>0 DEF CallsFollow
    <3>1. Follows(call'[d], row, provider) /\ (call'[d].at = "creating" => call'[d].on # p)
      BY <1>0, <2>1 DEF Inv, TypeOK, CallsFollow, CreatingOnce, p
    <3>2. CASE call'[d].on # p
      BY <3>1, <3>2, <1>5 DEF Follows
    <3>3. CASE call'[d].on = p
      BY <3>1, <3>3, <1>2, <1>5, <2>2 DEF Follows, Closed, Inv, TypeOK
    <3>. QED BY <3>2, <3>3
  <2>7. RowsAreSound'
    <3>. SUFFICES ASSUME NEW q \in Purchases
                  PROVE  Sound(q, row[q], wallet[q], provider'[q], offer)
      BY <1>0 DEF RowsAreSound
    <3>1. Sound(q, row[q], wallet[q], provider[q], offer)
      BY DEF Inv, RowsAreSound
    <3>2. row[p].status # "none"
      BY <1>0, <1>1 DEF Follows, p
    <3>. QED BY <3>1, <3>2, <1>2, <1>5, <2>2
             DEF Sound, Ordered, Behind, Offered, Closed, Inv, TypeOK
  <2>. QED BY <2>3, <2>4, <2>5, <2>6, <2>7 DEF Inv
<1>6. CASE provider' = [provider EXCEPT ![p].order = "created", ![p].orders = @ + 1]
           /\ (Go(c, "binding") \/ Go(c, "doubting"))
  <2>1. provider' = [provider EXCEPT ![p] = [provider[p] EXCEPT !.order = "created", !.orders = 1]]
    <3>1. provider[p].orders + 1 = 1
      BY <1>2
    <3>2. provider' = [provider EXCEPT ![p] = [provider[p] EXCEPT !.order = "created",
                                                                  !.orders = provider[p].orders + 1]]
      BY <1>1, <1>6 DEF Inv, TypeOK
    <3>. QED BY <3>1, <3>2
  <2>. QED BY <2>1, <1>5, <1>6 DEF o
<1>. QED BY <1>4, <1>6 DEF CreateOrder, p

\* A call that only goes on to its next step.
LEMMA Going ==
  ASSUME Inv, NEW c \in Calls, call[c].at # "idle", Go(c, "binding") \/ Go(c, "doubting"),
         UNCHANGED <<row, offer, wallet, provider, events>>
  PROVE  Inv'
<1>1. ASSUME NEW at \in {"binding", "doubting"}, Go(c, at) PROVE Inv'
  <2> DEFINE k == [call[c] EXCEPT !.at = at]
  <2>1. call[c] \in CallStates /\ Follows(call[c], row, provider)
    BY Working
  <2>2. k \in CallStates /\ k.at # "creating"
    BY <2>1 DEF CallStates
  <2>3. Follows(k, row, provider)
    BY <2>1 DEF Follows, CallStates
  <2>4. call' = [call EXCEPT ![c] = k] /\ events' \in [Purchases -> SUBSET {"payment", "dispute"}]
    BY <1>1 DEF Go, Inv, TypeOK
  <2>. HIDE DEF k
  <2>. QED BY <2>2, <2>3, <2>4, CallStep
<1>. QED BY <1>1

\* The steps of a checkout.
LEMMA CheckoutInv ==
  ASSUME RechargeAssumption, Inv, NEW c \in Calls, Checkout(c)
  PROVE  Inv'
<1> DEFINE p == call[c].on
<1>1. CASE CreateOrder(c)
  BY <1>1, CreateOrderInv
<1>2. CASE FindOrder(c)
  BY <1>2, Going DEF FindOrder
<1>3. CASE Bind(c)
  <2>1. p \in Purchases /\ row[p] \in Rows /\ row[p].status # "none"
        /\ Sound(p, row[p], wallet[p], provider[p], offer)
    BY <1>3, Working DEF Bind, Follows
  <2> DEFINE new == Bound(row[p])
  <2>2. new \in Rows /\ new.status # "none"
    BY <2>1 DEF Bound, Rows, Pending, Closed, Paid
  <2>3. new.status \in Pending => row[p].status \in Pending
    BY <2>1 DEF Bound, Rows
  <2>4. row[p].paid => new.status \in Paid
    BY <2>1 DEF Bound, Rows, Sound, Shown, Pending, Paid
  <2>5. new.paid = row[p].paid /\ new.refunded = row[p].refunded /\ new.dispute = row[p].dispute
        /\ new.credited = row[p].credited /\ new.version = row[p].version
    BY <2>1 DEF Bound, Rows
  <2>6. row' = [row EXCEPT ![p] = new] /\ call' = [call EXCEPT ![c] = Idle]
        /\ UNCHANGED <<offer, wallet, provider, events>>
    BY <1>3 DEF Bind, Return
  <2>. HIDE DEF new, p
  <2>. QED BY <2>1, <2>2, <2>3, <2>4, <2>5, <2>6, RowStep
<1>4. CASE Doubt(c)
  <2>1. p \in Purchases /\ row[p] \in Rows /\ row[p].status # "none"
        /\ Sound(p, row[p], wallet[p], provider[p], offer)
    BY <1>4, Working DEF Doubt, Follows
  <2> DEFINE new == [row[p] EXCEPT !.status = IF @ = "creating" THEN "uncertain" ELSE @]
  <2>2. new \in Rows /\ new.status # "none"
    BY <2>1 DEF Rows, Pending, Closed, Paid
  <2>3. new.status \in Pending => row[p].status \in Pending
    BY <2>1 DEF Rows, Pending
  <2>4. row[p].paid => new.status \in Paid
    BY <2>1 DEF Rows, Sound, Shown, Paid
  <2>5. new.paid = row[p].paid /\ new.refunded = row[p].refunded /\ new.dispute = row[p].dispute
        /\ new.credited = row[p].credited /\ new.version = row[p].version
    BY <2>1 DEF Rows
  <2>6. row' = [row EXCEPT ![p] = new] /\ call' = [call EXCEPT ![c] = Idle]
        /\ UNCHANGED <<offer, wallet, provider, events>>
    BY <1>4, <2>1 DEF Doubt, Return, Inv, TypeOK
  <2>. HIDE DEF new, p
  <2>. QED BY <2>1, <2>2, <2>3, <2>4, <2>5, <2>6, RowStep
<1>. QED BY <1>1, <1>2, <1>3, <1>4 DEF Checkout

\* A purchase that was paid in the meantime is not closed.
LEMMA CloseInv ==
  ASSUME RechargeAssumption, Inv, NEW c \in Calls, Close(c)
  PROVE  Inv'
<1> DEFINE p == call[c].on
           new == [row[p] EXCEPT !.status = IF @ \in Pending THEN "cancelled" ELSE @]
<1>1. p \in Purchases /\ row[p] \in Rows /\ row[p].status # "none"
      /\ Sound(p, row[p], wallet[p], provider[p], offer)
  BY Working DEF Close, Follows
<1>2. new \in Rows /\ new.status # "none"
  BY <1>1 DEF Rows, Pending, Closed, Paid
<1>3. new.status \in Pending => row[p].status \in Pending
  BY <1>1 DEF Rows, Pending
<1>4. row[p].paid => new.status \in Paid
  BY <1>1 DEF Rows, Sound, Shown, Paid, Pending
<1>5. new.paid = row[p].paid /\ new.refunded = row[p].refunded /\ new.dispute = row[p].dispute
      /\ new.credited = row[p].credited /\ new.version = row[p].version
  BY <1>1 DEF Rows
<1>6. row' = [row EXCEPT ![p] = new] /\ call' = [call EXCEPT ![c] = Idle]
      /\ UNCHANGED <<offer, wallet, provider, events>>
  BY <1>1 DEF Close, Return, Inv, TypeOK
<1>. HIDE DEF new, p
<1>. QED BY <1>1, <1>2, <1>3, <1>4, <1>5, <1>6, RowStep

\* What a call fetches is what the provider knows.
LEMMA FetchInv ==
  ASSUME RechargeAssumption, Inv, NEW c \in Calls, FetchOrder(c) \/ FetchPayment(c) \/ FetchDispute(c)
  PROVE  Inv'
<1> DEFINE p == call[c].on
<1>1. /\ call[c] \in CallStates /\ p \in Purchases /\ row[p] \in Rows /\ provider[p] \in Orders
      /\ call[c].got \in Fetched
      /\ Follows(call[c], row, provider) /\ Sound(p, row[p], wallet[p], provider[p], offer)
      /\ call[c].at # "idle" /\ events \in [Purchases -> SUBSET {"payment", "dispute"}]
  BY Working DEF FetchOrder, FetchPayment, FetchDispute, CallStates, Inv, TypeOK
<1>2. CASE FetchOrder(c)
  <2> DEFINE k == [call[c] EXCEPT !.at = "paying", !.got.order = provider[p].order]
  <2>1. k \in CallStates /\ k.at # "creating"
    BY <1>1 DEF CallStates, Fetched, Orders
  <2>2. Follows(k, row, provider)
    BY <1>1 DEF Follows, CallStates, Fetched
  <2>3. call' = [call EXCEPT ![c] = k] /\ UNCHANGED <<row, offer, wallet, provider, events>>
    BY <1>1, <1>2 DEF FetchOrder, Inv, TypeOK
  <2>. HIDE DEF k
  <2>. QED BY <1>1, <2>1, <2>2, <2>3, CallStep
<1>3. CASE FetchPayment(c)
  <2> DEFINE found == provider[p].order = "paid" /\ (row[p].order \/ call[c].got.order = "paid")
             at == IF call[c].why = "dispute" \/ row[p].dispute # "none" THEN "disputing" ELSE "settling"
             n == IF found THEN provider[p].refunded ELSE 0
             k == [call[c] EXCEPT !.at = at, !.got.captured = found, !.got.refunded = n]
  <2>1. call' = [call EXCEPT ![c] = k] /\ UNCHANGED <<row, offer, wallet, provider, events>>
    BY <1>1, <1>3 DEF FetchPayment, Inv, TypeOK
  <2>2. /\ found \in BOOLEAN /\ (found => provider[p].order = "paid")
        /\ n \in Nat /\ n <= provider[p].refunded /\ at \in {"disputing", "settling"}
    BY <1>1 DEF Orders
  <2>. HIDE DEF found, n, at
  <2>3. k \in CallStates /\ k.at # "creating"
    BY <1>1, <2>2 DEF CallStates, Fetched
  <2>4. Follows(k, row, provider)
    BY <1>1, <2>2 DEF Follows, CallStates, Fetched
  <2>. HIDE DEF k
  <2>. QED BY <1>1, <2>1, <2>3, <2>4, CallStep
<1>4. CASE FetchDispute(c)
  <2> DEFINE k == [call[c] EXCEPT !.at = "settling", !.got.dispute = provider[p].dispute]
  <2>1. k \in CallStates /\ k.at # "creating"
    BY <1>1 DEF CallStates, Fetched, Orders
  <2>2. Follows(k, row, provider)
    BY <1>1 DEF Follows, CallStates, Fetched, Sound, Behind, Disputed, Entitlements!DisputeNotOlder
  <2>3. call' = [call EXCEPT ![c] = k] /\ UNCHANGED <<row, offer, wallet, provider, events>>
    BY <1>1, <1>4 DEF FetchDispute, Inv, TypeOK
  <2>. HIDE DEF k
  <2>. QED BY <1>1, <2>1, <2>2, <2>3, CallStep
<1>. QED BY <1>2, <1>3, <1>4
\* The provider closes a link that was not paid.
LEMMA CancelRemoteInv ==
  ASSUME RechargeAssumption, Inv, NEW c \in Calls, CancelRemote(c)
  PROVE  Inv'
<1> DEFINE p == call[c].on
           o == [provider[p] EXCEPT !.order = IF @ = "created" THEN "cancelled" ELSE @]
           k == [at |-> "fetching", on |-> p, why |-> "link", got |-> Nothing, current |-> TRUE]
<1>1. p \in Purchases /\ provider[p] \in Orders /\ row[p].status # "none"
      /\ Sound(p, row[p], wallet[p], provider[p], offer)
  BY Working DEF CancelRemote, Follows
<1>2. o \in Orders /\ o.refunded = provider[p].refunded /\ o.orders = provider[p].orders
      /\ o.dispute = provider[p].dispute /\ o.order = IF provider[p].order = "created" THEN "cancelled"
                                                   ELSE provider[p].order
  BY <1>1 DEF Orders, Closed
<1>3. Moves(o, provider[p]) /\ o.refunded <= Price[p]
  BY <1>1, <1>2 DEF Moves, Closed, Disputed, Entitlements!DisputeNotOlder, Orders, Sound, Ordered
<1>4. k \in CallStates /\ Follows(k, row, provider) /\ k.at # "creating"
  BY <1>1, Fetching
<1>5. provider' = [provider EXCEPT ![p] = o] /\ UNCHANGED <<row, offer, wallet>>
      /\ call' = [call EXCEPT ![c] = k]
  BY <1>1 DEF CancelRemote, Reconcile, Inv, TypeOK
<1>6. events' \in [Purchases -> SUBSET {"payment", "dispute"}]
  BY DEF CancelRemote, Inv, TypeOK
<1>. HIDE DEF p, o, k
<1>. QED BY <1>1, <1>2, <1>3, <1>4, <1>5, <1>6, ProviderStep

\* What the payer and the provider do.
LEMMA OutsideInv ==
  ASSUME RechargeAssumption, Inv, NEW p \in Purchases, Outside(p)
  PROVE  Inv'
<1>1. provider[p] \in Orders /\ Sound(p, row[p], wallet[p], provider[p], offer) /\ Price[p] \in Nat
      /\ events \in [Purchases -> SUBSET {"payment", "dispute"}]
  BY DEF Inv, TypeOK, RowsAreSound, RechargeAssumption
<1>2. /\ UNCHANGED <<row, offer, wallet, call>>
      /\ events' \in [Purchases -> SUBSET {"payment", "dispute"}]
  BY <1>1 DEF Outside, Pay, ExpireLink, RefundPayment, Dispute, Notify
<1>3. ASSUME NEW order \in {"authorized", "paid", "expired"}, provider[p].order \in {"created", "authorized"},
             provider' = [provider EXCEPT ![p].order = order]
      PROVE  Inv'
  <2> DEFINE o == [provider[p] EXCEPT !.order = order]
  <2>1. o \in Orders /\ provider' = [provider EXCEPT ![p] = o]
    BY <1>1, <1>3 DEF Orders, Closed
  <2>2. Moves(o, provider[p]) /\ o.refunded <= Price[p]
    BY <1>1, <1>3 DEF Moves, Closed, Disputed, Entitlements!DisputeNotOlder, Orders, Sound, Ordered
  <2>. HIDE DEF o
  <2>. QED BY <1>2, <2>1, <2>2, ProviderStep
<1>4. CASE RefundPayment(p)
  <2> DEFINE n == provider[p].refunded + 1
             o == [provider[p] EXCEPT !.refunded = n]
  <2>1. n \in Nat /\ n <= Price[p] /\ n >= provider[p].refunded
    BY <1>1, <1>4 DEF RefundPayment, Orders
  <2>2. provider' = [provider EXCEPT ![p] = o]
    BY <1>4 DEF RefundPayment
  <2>. HIDE DEF n
  <2>3. o \in Orders
    BY <1>1, <2>1 DEF Orders
  <2>4. Moves(o, provider[p]) /\ o.refunded <= Price[p]
    BY <1>1, <2>1 DEF Moves, Disputed, Entitlements!DisputeNotOlder, Orders
  <2>. HIDE DEF o
  <2>. QED BY <1>2, <2>2, <2>3, <2>4, ProviderStep
<1>5. ASSUME NEW dispute \in {"open", "won", "lost"},
             provider[p].dispute = "none" \/ (provider[p].dispute = "open" /\ dispute # "open"),
             provider' = [provider EXCEPT ![p].dispute = dispute]
      PROVE  Inv'
  <2> DEFINE o == [provider[p] EXCEPT !.dispute = dispute]
  <2>1. o \in Orders /\ provider' = [provider EXCEPT ![p] = o]
    BY <1>1, <1>5 DEF Orders, Disputes
  <2>2. Moves(o, provider[p]) /\ o.refunded <= Price[p]
    BY <1>1, <1>5 DEF Moves, Disputed, Entitlements!DisputeNotOlder, Orders, Sound, Ordered
  <2>. HIDE DEF o
  <2>. QED BY <1>2, <2>1, <2>2, ProviderStep
<1>6. CASE Pay(p)
  BY <1>3, <1>6 DEF Pay
<1>7. CASE ExpireLink(p)
  BY <1>3, <1>7 DEF ExpireLink
<1>8. CASE Dispute(p)
  BY <1>5, <1>8 DEF Dispute
<1>. QED BY <1>4, <1>6, <1>7, <1>8 DEF Outside

\* A row that is bound keeps its payment.
LEMMA BoundRow ==
  ASSUME NEW p \in Purchases, NEW r \in Rows, NEW o, r.status # "none", Shown(p, r), Behind(r, o),
         NEW b, b = Bound(r)
  PROVE  /\ b \in Rows /\ b.status # "none" /\ (b.status \in Pending => r.status \in Pending)
         /\ b.paid = r.paid /\ b.refunded = r.refunded /\ b.dispute = r.dispute
         /\ b.credited = r.credited /\ b.version = r.version
         /\ Shown(p, b) /\ Behind(b, o)
<1>1. b \in Rows /\ b.status # "none" /\ (b.status \in Pending => r.status \in Pending)
  BY DEF Bound, Rows, Pending, Closed, Paid
<1>2. b.paid = r.paid /\ b.refunded = r.refunded /\ b.dispute = r.dispute
      /\ b.credited = r.credited /\ b.version = r.version
  BY DEF Bound, Rows
<1>3. r.paid => b.status \in Paid
  BY DEF Bound, Rows, Shown, Pending, Paid
<1>. QED BY <1>1, <1>2, <1>3 DEF Shown, Behind

\* The type of a settled row.
LEMMA UpdatedRow ==
  ASSUME NEW b \in Rows, NEW refunded \in Nat, NEW dispute \in Disputes, NEW credited \in Nat,
         NEW version \in Nat, NEW status \in Paid
  PROVE  [b EXCEPT !.paid = TRUE, !.refunded = refunded, !.dispute = dispute,
                   !.credited = credited, !.version = version, !.status = status] \in Rows
  BY DEF Rows

\* What a settlement makes of a row: it shows what was fetched, is not ahead
\* of the provider, and has a new version if its credits are others.
LEMMA SettledRowIsSound ==
  ASSUME RechargeAssumption, NEW p \in Purchases, NEW r \in Rows, NEW o \in Orders, NEW got \in Fetched,
         r.credited <= Credits[p], Shown(p, r), Behind(r, o), o.refunded <= Price[p], r.status # "none",
         got.captured => o.order = "paid", got.refunded <= o.refunded,
         Disputed(o.dispute, got.dispute),
         got.dispute # "none" => Disputed(got.dispute, r.dispute),
         NEW new, new = SettledRow(p, r, got)
  PROVE  /\ new \in Rows /\ new.credited <= Credits[p] /\ new.status # "none"
         /\ new.status \in Pending => r.status \in Pending
         /\ Shown(p, new) /\ Behind(new, o)
         /\ new.credited = r.credited => new.version = r.version
         /\ new.credited # r.credited => new.version = r.version + 1
         /\ r.paid => new.paid
         /\ new.refunded >= r.refunded /\ Disputed(new.dispute, r.dispute)
         /\ got.dispute # "none" => Disputed(got.dispute, new.dispute)
<1> DEFINE b == Bound(r)
           refunded == IF got.refunded > b.refunded THEN got.refunded ELSE b.refunded
           dispute == IF got.dispute = "none" THEN b.dispute ELSE got.dispute
           desired == Entitled(p, refunded, dispute)
           version == NextVersion(b, desired)
           status == StatusOf(p, refunded, dispute)
<1>1. /\ b \in Rows /\ b.status # "none" /\ (b.status \in Pending => r.status \in Pending)
      /\ b.paid = r.paid /\ b.refunded = r.refunded /\ b.dispute = r.dispute
      /\ b.credited = r.credited /\ b.version = r.version
      /\ Shown(p, b) /\ Behind(b, o)
  <2>1. b = Bound(r)
    OBVIOUS
  <2>. HIDE DEF b
  <2>. QED BY <2>1, BoundRow
<1>. HIDE DEF b
<1>2. r.refunded \in Nat /\ r.version \in Nat /\ r.credited \in Nat /\ r.dispute \in Disputes
      /\ Price[p] \in Nat \ {0} /\ Credits[p] \in Nat
      /\ o.refunded \in Nat /\ got.refunded \in Nat /\ got.dispute \in Disputes
  BY DEF Rows, Orders, Fetched, RechargeAssumption
<1>3. CASE got.captured
  <2>1. refunded \in 0 .. Price[p] /\ refunded >= r.refunded /\ refunded <= o.refunded
    BY <1>1, <1>2 DEF Behind
  <2>2. dispute \in Disputes /\ Disputed(o.dispute, dispute) /\ Disputed(dispute, r.dispute)
        /\ (got.dispute # "none" => Disputed(got.dispute, dispute))
    BY <1>1, <1>2 DEF Behind, Disputed, Entitlements!DisputeNotOlder
  <2>3. status \in Paid
    BY DEF StatusOf, Paid
  <2>. HIDE DEF refunded, dispute
  <2>4. desired \in 0 .. Credits[p]
    BY <2>1, EntitledIsGranted
  <2>5. version \in Nat /\ (desired = r.credited => version = r.version)
        /\ (desired # r.credited => version = r.version + 1)
    BY <1>1, <1>2 DEF NextVersion
  <2>6. new = [b EXCEPT !.paid = TRUE, !.refunded = refunded, !.dispute = dispute,
                        !.credited = desired, !.version = version, !.status = status]
    BY <1>3 DEF SettledRow, WithPayment, refunded, dispute, b
  <2>7. desired = Entitled(p, refunded, dispute)
    OBVIOUS
  <2>. HIDE DEF desired, version, status
  <2>8. /\ new.paid /\ new.refunded = refunded /\ new.dispute = dispute
        /\ new.credited = desired /\ new.version = version /\ new.status = status
    BY <1>1, <2>6 DEF Rows
  <2>9. new \in Rows
    <3>1. refunded \in Nat /\ desired \in Nat
      BY <1>2, <2>1, <2>4
    <3>2. [b EXCEPT !.paid = TRUE, !.refunded = refunded, !.dispute = dispute,
                    !.credited = desired, !.version = version, !.status = status] \in Rows
      BY <1>1, <2>2, <2>3, <2>5, <3>1, UpdatedRow
    <3>. QED BY <2>6, <3>2
  <2>10. Shown(p, new) /\ Behind(new, o)
    BY <1>3, <2>1, <2>2, <2>3, <2>7, <2>8 DEF Shown, Behind
  <2>11. new.status # "none" /\ new.status \notin Pending
    BY <2>3, <2>8 DEF Paid, Pending
  <2>12. new.credited <= Credits[p]
    BY <1>2, <2>4, <2>8
  <2>. QED BY <2>1, <2>2, <2>5, <2>8, <2>9, <2>10, <2>11, <2>12
<1>4. ASSUME ~got.captured
      PROVE  /\ new.paid = r.paid /\ new.refunded = r.refunded /\ new.dispute = r.dispute
             /\ new.credited = r.credited /\ new.version = r.version
             /\ new \in Rows /\ new.status # "none" /\ (new.status \in Pending => r.status \in Pending)
             /\ (r.paid => new.status \in Paid)
  <2>1. CASE got.order \in Closed /\ ~r.paid
    <3>1. new = [b EXCEPT !.status = got.order]
      BY <1>4, <2>1 DEF SettledRow, b
    <3>. QED BY <1>1, <2>1, <3>1 DEF Rows, Closed, Pending
  <2>2. CASE ~(got.order \in Closed /\ ~r.paid)
    <3>1. new = b
      BY <1>4, <2>2 DEF SettledRow, b
    <3>. QED BY <1>1, <3>1 DEF Shown
  <2>. QED BY <2>1, <2>2
<1>5. CASE ~got.captured
  BY <1>2, <1>4, <1>5 DEF Shown, Behind, Disputed, Entitlements!DisputeNotOlder
<1>. QED BY <1>3, <1>5

\* A settlement: of other calls on the purchase none is current afterwards.
LEMMA SettleInv ==
  ASSUME RechargeAssumption, Inv, NEW c \in Calls, Settle(c)
  PROVE  Inv'
<1> DEFINE p == call[c].on
           got == call[c].got
           new == SettledRow(p, row[p], got)
           w == Posted(wallet[p], row[p], new)
<1>1. /\ call[c] \in CallStates /\ p \in Purchases /\ row[p] \in Rows /\ provider[p] \in Orders
      /\ got \in Fetched /\ wallet[p] \in [granted : Int, posted : Nat]
      /\ Follows(call[c], row, provider) /\ Sound(p, row[p], wallet[p], provider[p], offer)
      /\ call[c].at = "settling" /\ call[c].current /\ row[p].status # "none"
      /\ offer \in Purchases \cup {NoPurchase} /\ row[p].credited <= Credits[p]
  BY Working DEF Settle, Current, CallStates, Inv, TypeOK, Follows
<1>2. row' = [row EXCEPT ![p] = new] /\ wallet' = [wallet EXCEPT ![p] = w]
      /\ offer' = OfferAfter(p, got) /\ UNCHANGED <<provider, events>>
  BY <1>1 DEF Settle, Inv, TypeOK
<1>3. /\ new \in Rows /\ new.credited <= Credits[p] /\ new.status # "none"
      /\ new.status \in Pending => row[p].status \in Pending
      /\ Shown(p, new) /\ Behind(new, provider[p])
      /\ new.credited = row[p].credited => new.version = row[p].version
      /\ new.credited # row[p].credited => new.version = row[p].version + 1
      /\ got.dispute # "none" => Disputed(got.dispute, new.dispute)
  BY <1>1, SettledRowIsSound DEF Follows, Sound, Ordered
<1>4. \A d \in Calls :
        /\ d # c => call'[d] = IF call[d].on = p THEN [call[d] EXCEPT !.current = FALSE] ELSE call[d]
        /\ \/ call'[c] = [call[c] EXCEPT !.at = "closing"]
           \/ call'[c] = [call[c] EXCEPT !.at = "recording"]
           \/ call'[c] = Idle
  BY DEF Settle
<1>5. DOMAIN call' = Calls /\ call' = [d \in Calls |-> call'[d]]
  BY DEF Settle
<1>6. got = call[c].got /\ p = call[c].on /\ w = Posted(wallet[p], row[p], new)
  OBVIOUS
<1>. HIDE DEF p, got, new, w
<1>7. w \in [granted : Int, posted : Nat] /\ Ledgered(new, w)
  BY <1>1, <1>3, <1>6 DEF Sound, Ledgered, Posted, Rows
<1>8. ASSUME NEW d \in Calls
      PROVE  /\ call'[d] \in CallStates
             /\ call'[d].at = "creating" => call[d].at = "creating" /\ call'[d].on = call[d].on
  <2>0. call[d] \in CallStates
    BY DEF Inv, TypeOK
  <2>1. CASE d = c
    <3>1. ASSUME NEW at \in {"closing", "recording"}
          PROVE  [call[c] EXCEPT !.at = at] \in CallStates /\ [call[c] EXCEPT !.at = at].at = at
      BY <1>1 DEF CallStates
    <3>2. Idle \in CallStates /\ Idle.at = "idle"
      BY DEF CallStates, Idle, Nothing, Fetched, Disputes
    <3>. QED BY <1>4, <2>1, <3>1, <3>2
  <2>2. CASE d # c
    <3>1. call'[d] = call[d] \/ call'[d] = [call[d] EXCEPT !.current = FALSE]
      BY <1>4, <2>2
    <3>. QED BY <2>0, <3>1 DEF CallStates
  <2>. QED BY <2>1, <2>2
<1>9. TypeOK'
  <2>1. offer' \in Purchases \cup {NoPurchase}
    BY <1>1, <1>2 DEF OfferAfter
  <2>2. \A d \in Calls : call'[d] \in CallStates
    BY <1>8
  <2>. QED BY <1>1, <1>2, <1>3, <1>5, <1>7, <2>1, <2>2 DEF Inv, TypeOK
<1>10. OnePending'
  BY <1>2, <1>3 DEF Inv, TypeOK, OnePending, PendingOnes
<1>11. CreatingOnce'
  BY <1>8 DEF Inv, CreatingOnce
<1>12. CallsFollow'
  <2>. SUFFICES ASSUME NEW d \in Calls PROVE Follows(call'[d], row', provider)
    BY <1>2 DEF CallsFollow
  <2>0. row'[p] = new /\ call[d] \in CallStates /\ Follows(call[d], row, provider)
    BY <1>1, <1>2 DEF Inv, TypeOK, CallsFollow
  <2>1. CASE d = c
    <3>1. CASE call'[c] = Idle
      BY <2>1, <3>1 DEF Follows, Idle
    <3>2. ASSUME NEW at \in {"closing", "recording"}, call'[c] = [call[c] EXCEPT !.at = at]
          PROVE  Follows(call'[c], row', provider)
      BY <1>1, <1>3, <1>6, <2>0, <3>2 DEF Follows, CallStates
    <3>. QED BY <1>4, <2>1, <3>1, <3>2
  <2>2. CASE d # c /\ call[d].on = p
    <3>1. call'[d] = [call[d] EXCEPT !.current = FALSE]
      BY <1>4, <2>2
    <3>. QED BY <1>3, <2>0, <2>2, <3>1 DEF Follows, CallStates
  <2>3. CASE d # c /\ call[d].on # p
    <3>1. call'[d] = call[d]
      BY <1>4, <2>3
    <3>. QED BY <1>2, <2>0, <2>3, <3>1 DEF Follows, Inv, TypeOK
  <2>. QED BY <2>1, <2>2, <2>3
<1>13. RowsAreSound'
  <2>. SUFFICES ASSUME NEW q \in Purchases
                PROVE  Sound(q, row'[q], wallet'[q], provider[q], offer')
    BY <1>2 DEF RowsAreSound
  <2>0. Sound(q, row[q], wallet[q], provider[q], offer)
    BY DEF Inv, RowsAreSound
  <2>1. q \in Intro /\ row[q].status # "none" => offer' = q \/ provider[q].order \in Closed
    BY <1>1, <1>2, <1>6, <2>0 DEF OfferAfter, Sound, Offered, Follows, RechargeAssumption
  <2>2. CASE q # p
    BY <1>2, <2>0, <2>1, <2>2 DEF Sound, Offered, Inv, TypeOK
  <2>3. CASE q = p
    <3>1. row'[q] = new /\ wallet'[q] = w
      BY <1>2, <2>3 DEF Inv, TypeOK
    <3>2. Offered(q, row'[q], provider[q], offer')
      BY <1>1, <2>1, <2>3 DEF Offered
    <3>3. Ordered(q, row'[q], provider[q])
      BY <1>3, <2>0, <2>3, <3>1 DEF Sound, Ordered
    <3>. QED BY <1>3, <1>7, <2>3, <3>1, <3>2, <3>3 DEF Sound
  <2>. QED BY <2>2, <2>3
<1>. QED BY <1>9, <1>10, <1>11, <1>12, <1>13 DEF Inv
\* Every step keeps the invariant.
LEMMA NextInv == RechargeAssumption /\ Inv /\ [Next]_vars => Inv'
<1>. SUFFICES ASSUME RechargeAssumption, Inv, [Next]_vars PROVE Inv'
  OBVIOUS
<1>. events \in [Purchases -> SUBSET {"payment", "dispute"}]
  BY DEF Inv, TypeOK
<1>1. ASSUME NEW c \in Calls, NEW p \in Purchases, User(c, p) PROVE Inv'
  BY <1>1, UserInv
<1>2. ASSUME NEW c \in Calls, NEW p \in Purchases, Hook(c, p) PROVE Inv'
  BY <1>2, Reconciling DEF Hook, Deliver
<1>3. ASSUME NEW c \in Calls, NEW p \in Purchases, RunCron(c, p) PROVE Inv'
  BY <1>3, Reconciling DEF RunCron
<1>4. ASSUME NEW p \in Purchases, Outside(p) PROVE Inv'
  BY <1>4, OutsideInv
<1>5. ASSUME NEW p \in Purchases, Lose(p) PROVE Inv'
  <2>1. UNCHANGED <<row, offer, wallet, provider, call>>
        /\ events' \in [Purchases -> SUBSET {"payment", "dispute"}]
    BY <1>5 DEF Lose, GiveUp
  <2>. QED BY <2>1 DEF Inv, TypeOK, OnePending, PendingOnes, CreatingOnce, CallsFollow, RowsAreSound
<1>6. ASSUME NEW c \in Calls, Checkout(c) PROVE Inv'
  BY <1>6, CheckoutInv
<1>7. ASSUME NEW c \in Calls, Confirm(c) PROVE Inv'
  <2>1. CASE Record(c)
    BY <2>1, Returning DEF Record
  <2>. QED BY <1>7, <2>1, FetchInv, SettleInv DEF Confirm
<1>8. ASSUME NEW c \in Calls, Fail(c) PROVE Inv'
  BY <1>8, Returning DEF Fail
<1>9. ASSUME NEW c \in Calls, Close(c) PROVE Inv'
  BY <1>9, CloseInv
<1>10. ASSUME NEW c \in Calls, CancelRemote(c) PROVE Inv'
  BY <1>10, CancelRemoteInv
<1>11. CASE UNCHANGED vars
  BY <1>11 DEF vars, Inv, TypeOK, OnePending, PendingOnes, CreatingOnce, CallsFollow, RowsAreSound
<1>. QED BY <1>1, <1>2, <1>3, <1>4, <1>5, <1>6, <1>7, <1>8, <1>9, <1>10, <1>11 DEF Next

\* The inductive invariant, of the purchases and of the calls that work on them.
THEOREM Invariance == ASSUME RechargeAssumption PROVE Spec => []Inv
<1>1. Init => Inv
  BY InitInv
<1>2. Inv /\ [Next]_vars => Inv'
  BY NextInv
<1>. QED BY <1>1, <1>2, PTL DEF Spec

-----------------------------------------------------------------------------
(* What the runs check of the states.                                      *)

\* Every variable stays within its type, and no purchase grants more than it
\* offered (prepare, bind, settle).
THEOREM TypeCorrect == ASSUME RechargeAssumption PROVE Spec => []TypeOK
<1>1. Inv => TypeOK
  BY DEF Inv
<1>. QED BY <1>1, Invariance, PTL

\* However many tabs check out, one purchase at most waits for a payment
\* (prepare).
THEOREM OnePendingAlways == ASSUME RechargeAssumption PROVE Spec => []OnePending
<1>1. Inv => OnePending
  BY DEF Inv
<1>. QED BY <1>1, Invariance, PTL

\* However many responses are lost, a purchase has one order at the provider
\* at most (checkout).
THEOREM OneOrderAlways == ASSUME RechargeAssumption PROVE Spec => []OneOrder
<1>1. Inv => OneOrder
  BY DEF Inv, RowsAreSound, Sound, Ordered, OneOrder
<1>. QED BY <1>1, Invariance, PTL

\* However many introductory purchases are begun and closed, one is paid at
\* most (the offer in prepare, settle and cancel).
THEOREM IntroOnceAlways == ASSUME RechargeAssumption PROVE Spec => []IntroOnce
<1>1. ASSUME Inv, NEW p \in Intro, provider[p].order = "paid" PROVE offer = p
  <2>1. p \in Purchases
    BY DEF RechargeAssumption
  <2>2. Ordered(p, row[p], provider[p]) /\ Offered(p, row[p], provider[p], offer)
    BY <1>1, <2>1 DEF Inv, RowsAreSound, Sound
  <2>. QED BY <1>1, <2>2 DEF Ordered, Offered, Closed
<1>2. Inv => IntroOnce
  BY <1>1 DEF IntroOnce
<1>. QED BY <1>2, Invariance, PTL

\* The ledger of a purchase comes to what its row says, for any order of
\* settlements (settle, append).
THEOREM LedgerMatchesAlways == ASSUME RechargeAssumption PROVE Spec => []LedgerMatches
<1>1. Inv => LedgerMatches
  BY DEF Inv, RowsAreSound, Sound, Ledgered, LedgerMatches
<1>. QED BY <1>1, Invariance, PTL

\* For any price and credits, and any sequence of partial refunds, the credits
\* left are the paid share rounded down (reversal, settle).
THEOREM RefundsTakeTheirShareAlways ==
  ASSUME RechargeAssumption PROVE Spec => []RefundsTakeTheirShare
<1>1. Inv => RefundsTakeTheirShare
  <2>. SUFFICES ASSUME Inv, NEW p \in Purchases, row[p].paid, ~Reversed(row[p].dispute)
                PROVE  LET kept == Credits[p] * (Price[p] - row[p].refunded) IN
                       /\ wallet[p].granted * Price[p] <= kept
                       /\ kept < (wallet[p].granted + 1) * Price[p]
    BY DEF RefundsTakeTheirShare
  <2>1. row[p] \in Rows /\ provider[p] \in Orders /\ Price[p] \in Nat \ {0}
        /\ Sound(p, row[p], wallet[p], provider[p], offer)
    BY DEF Inv, TypeOK, RowsAreSound, RechargeAssumption
  <2>2. row[p].refunded \in 0 .. Price[p]
    BY <2>1 DEF Rows, Orders, Sound, Behind, Ordered
  <2>3. wallet[p].granted = Credits[p] - Reversal(p, row[p].refunded)
    BY <2>1 DEF Sound, Shown, Ledgered, Entitled
  <2>. QED BY <2>2, <2>3, ReversalShare
<1>. QED BY <1>1, Invariance, PTL
-----------------------------------------------------------------------------
(* What a step may do to a purchase.                                       *)

\* r and o, a row and an order, come after q and x.
After(r, o, q, x) ==
  /\ q.paid => r.paid
  /\ r.refunded >= q.refunded
  /\ Disputed(r.dispute, q.dispute)
  /\ x.order = "paid" => o.order = "paid"
  /\ o.refunded >= x.refunded
  /\ Disputed(o.dispute, x.dispute)

\* Every purchase and order moves on, and not both in one step.
Onward == /\ \A p \in Purchases : After(row'[p], provider'[p], row[p], provider[p])
          /\ row' = row \/ provider' = provider

\* The rows are as they were, but for one that keeps its payment.
LEMMA RowKept ==
  ASSUME Inv, UNCHANGED provider,
         \/ UNCHANGED row
         \/ \E p \in Purchases :
              \E new : /\ row' = [row EXCEPT ![p] = new] /\ new.paid = row[p].paid
                      /\ new.refunded = row[p].refunded /\ new.dispute = row[p].dispute
  PROVE  Onward
<1>1. \A p \in Purchases : row[p].refunded \in Nat /\ provider[p].refunded \in Nat
  BY DEF Inv, TypeOK, Rows, Orders
<1>. QED BY <1>1 DEF Onward, After, Disputed, Entitlements!DisputeNotOlder, Inv, TypeOK

\* An order moves on, and no row.
LEMMA OrderMoved ==
  ASSUME Inv, UNCHANGED row, NEW p \in Purchases, NEW o \in Orders,
         provider' = [provider EXCEPT ![p] = o], provider[p].order = "paid" => o.order = "paid",
         o.refunded >= provider[p].refunded, Disputed(o.dispute, provider[p].dispute)
  PROVE  Onward
<1>1. \A q \in Purchases : row[q].refunded \in Nat /\ provider[q].refunded \in Nat
  BY DEF Inv, TypeOK, Rows, Orders
<1>. QED BY <1>1 DEF Onward, After, Disputed, Entitlements!DisputeNotOlder, Inv, TypeOK

\* A settlement moves a row on.
LEMMA SettleOnward ==
  ASSUME RechargeAssumption, Inv, NEW c \in Calls, Settle(c)
  PROVE  Onward
<1> DEFINE p == call[c].on
           got == call[c].got
           new == SettledRow(p, row[p], got)
<1>1. /\ call[c] \in CallStates /\ p \in Purchases /\ row[p] \in Rows /\ provider[p] \in Orders
      /\ got \in Fetched /\ row[p].credited <= Credits[p]
      /\ Follows(call[c], row, provider) /\ Sound(p, row[p], wallet[p], provider[p], offer)
      /\ call[c].at = "settling" /\ call[c].current
  BY Working DEF Settle, Current, CallStates, Inv, TypeOK
<1>2. (row[p].paid => new.paid) /\ new.refunded >= row[p].refunded /\ Disputed(new.dispute, row[p].dispute)
  BY <1>1, SettledRowIsSound DEF Follows, Sound, Ordered
<1>3. row' = [row EXCEPT ![p] = new] /\ provider' = provider
  BY DEF Settle
<1>. HIDE DEF p, got, new
<1>4. \A q \in Purchases : row[q].refunded \in Nat /\ provider[q].refunded \in Nat
  BY DEF Inv, TypeOK, Rows, Orders
<1>. QED BY <1>1, <1>2, <1>3, <1>4 DEF Onward, After, Disputed, Entitlements!DisputeNotOlder, Inv, TypeOK

\* The steps that move an order on.
LEMMA ProviderOnward ==
  ASSUME RechargeAssumption, Inv,
         \/ \E c \in Calls : CreateOrder(c) \/ CancelRemote(c)
         \/ \E p \in Purchases : Outside(p)
  PROVE  Onward
<1>1. \A p \in Purchases : provider[p] \in Orders
  BY DEF Inv, TypeOK
<1>2. ASSUME NEW c \in Calls, CreateOrder(c) PROVE Onward
  <2> DEFINE p == call[c].on
  <2>1. p \in Purchases /\ provider[p].order = "none" /\ UNCHANGED row
    BY <1>2, Working DEF CreateOrder, Follows, Sound, Ordered
  <2>2. UNCHANGED provider \/ provider' = [provider EXCEPT ![p].order = "created", ![p].orders = @ + 1]
    BY <1>2 DEF CreateOrder
  <2>. HIDE DEF p
  <2>3. ASSUME NEW q \in Purchases
        PROVE  /\ provider'[q].refunded = provider[q].refunded
               /\ provider'[q].dispute = provider[q].dispute
               /\ provider[q].order = "paid" => provider'[q].order = "paid"
    BY <1>1, <2>1, <2>2 DEF Inv, TypeOK, Orders
  <2>4. \A q \in Purchases : row[q].refunded \in Nat /\ provider[q].refunded \in Nat
    BY DEF Inv, TypeOK, Rows, Orders
  <2>5. ASSUME NEW q \in Purchases PROVE After(row'[q], provider'[q], row[q], provider[q])
    <3>1. row'[q] = row[q]
      BY <2>1
    <3>2. /\ provider'[q].refunded = provider[q].refunded /\ provider'[q].dispute = provider[q].dispute
          /\ provider[q].order = "paid" => provider'[q].order = "paid"
      BY <2>3
    <3>. QED BY <2>4, <3>1, <3>2 DEF After, Disputed, Entitlements!DisputeNotOlder
  <2>. QED BY <2>1, <2>5 DEF Onward
<1>3. ASSUME NEW c \in Calls, CancelRemote(c) PROVE Onward
  <2> DEFINE p == call[c].on
             o == [provider[p] EXCEPT !.order = IF @ = "created" THEN "cancelled" ELSE @]
  <2>1. p \in Purchases /\ UNCHANGED row
    BY <1>3, Working DEF CancelRemote, Follows
  <2>2. provider' = [provider EXCEPT ![p] = o]
    BY <1>3, <2>1 DEF CancelRemote, Inv, TypeOK
  <2>3. o \in Orders /\ (provider[p].order = "paid" => o.order = "paid")
        /\ o.refunded >= provider[p].refunded /\ Disputed(o.dispute, provider[p].dispute)
    BY <1>1, <2>1 DEF Orders, Closed, Disputed, Entitlements!DisputeNotOlder
  <2>. HIDE DEF p, o
  <2>. QED BY <2>1, <2>2, <2>3, OrderMoved
<1>4. ASSUME NEW p \in Purchases, Outside(p) PROVE Onward
  <2>1. UNCHANGED row
    BY <1>4 DEF Outside, Pay, ExpireLink, RefundPayment, Dispute
  <2>2. ASSUME NEW order \in {"authorized", "paid", "expired"}, provider[p].order \in {"created", "authorized"},
               provider' = [provider EXCEPT ![p].order = order]
        PROVE  Onward
    <3> DEFINE o == [provider[p] EXCEPT !.order = order]
    <3>1. /\ o \in Orders /\ provider' = [provider EXCEPT ![p] = o]
          /\ o.refunded >= provider[p].refunded /\ Disputed(o.dispute, provider[p].dispute)
      BY <1>1, <2>2 DEF Orders, Closed, Disputed, Entitlements!DisputeNotOlder
    <3>. HIDE DEF o
    <3>. QED BY <2>1, <2>2, <3>1, OrderMoved
  <2>3. CASE RefundPayment(p)
    <3> DEFINE n == provider[p].refunded + 1
               o == [provider[p] EXCEPT !.refunded = n]
    <3>1. n \in Nat /\ n >= provider[p].refunded
      BY <1>1 DEF Orders
    <3>2. provider' = [provider EXCEPT ![p] = o]
      BY <2>3 DEF RefundPayment
    <3>. HIDE DEF n
    <3>3. o \in Orders /\ o.order = provider[p].order /\ o.refunded = n
          /\ Disputed(o.dispute, provider[p].dispute)
      BY <1>1, <3>1 DEF Orders, Disputed, Entitlements!DisputeNotOlder
    <3>. HIDE DEF o
    <3>. QED BY <2>1, <3>1, <3>2, <3>3, OrderMoved
  <2>4. ASSUME NEW dispute \in {"open", "won", "lost"},
               provider[p].dispute = "none" \/ provider[p].dispute = "open",
               provider' = [provider EXCEPT ![p].dispute = dispute]
        PROVE  Onward
    <3> DEFINE o == [provider[p] EXCEPT !.dispute = dispute]
    <3>1. o \in Orders /\ provider' = [provider EXCEPT ![p] = o]
      BY <1>1, <2>4 DEF Orders, Disputes
    <3>2. o.order = provider[p].order /\ o.refunded >= provider[p].refunded
          /\ Disputed(o.dispute, provider[p].dispute)
      BY <1>1, <2>4 DEF Orders, Disputed, Entitlements!DisputeNotOlder
    <3>. HIDE DEF o
    <3>. QED BY <2>1, <3>1, <3>2, OrderMoved
  <2>. QED BY <1>4, <2>2, <2>3, <2>4 DEF Outside, Pay, ExpireLink, Dispute
<1>. QED BY <1>2, <1>3, <1>4

\* Every step moves purchases and orders on.
LEMMA NextOnward ==
  ASSUME RechargeAssumption, Inv, [Next]_vars
  PROVE  Onward
<1>1. ASSUME NEW c \in Calls, NEW p \in Purchases, Prepare(c, p) PROVE Onward
  <2> DEFINE new == [row[p] EXCEPT !.status = "creating"]
  <2>1. row' = [row EXCEPT ![p] = new] /\ UNCHANGED provider
    BY <1>1 DEF Prepare
  <2>2. new.paid = row[p].paid /\ new.refunded = row[p].refunded /\ new.dispute = row[p].dispute
    BY DEF Inv, TypeOK, Rows
  <2>. HIDE DEF new
  <2>. QED BY <2>1, <2>2, RowKept
<1>2. ASSUME NEW c \in Calls, Bind(c) \/ Doubt(c) \/ Close(c) PROVE Onward
  <2> DEFINE p == call[c].on
  <2>1. p \in Purchases /\ row[p] \in Rows /\ UNCHANGED provider
    BY <1>2, Working DEF Bind, Doubt, Close, Follows
  <2>2. CASE Bind(c)
    <3> DEFINE new == Bound(row[p])
    <3>1. row' = [row EXCEPT ![p] = new]
      BY <2>2 DEF Bind
    <3>2. new.paid = row[p].paid /\ new.refunded = row[p].refunded /\ new.dispute = row[p].dispute
      BY <2>1 DEF Bound, Rows
    <3>. HIDE DEF p, new
    <3>. QED BY <2>1, <3>1, <3>2, RowKept
  <2>3. ASSUME NEW status, row' = [row EXCEPT ![p].status = status] PROVE Onward
    <3> DEFINE new == [row[p] EXCEPT !.status = status]
    <3>1. row' = [row EXCEPT ![p] = new]
      BY <2>3
    <3>2. new.paid = row[p].paid /\ new.refunded = row[p].refunded /\ new.dispute = row[p].dispute
      BY <2>1 DEF Rows
    <3>. HIDE DEF p, new
    <3>. QED BY <2>1, <3>1, <3>2, RowKept
  <2>4. CASE Doubt(c)
    <3> DEFINE status == IF row[p].status = "creating" THEN "uncertain" ELSE row[p].status
    <3>1. row' = [row EXCEPT ![p].status = status]
      BY <2>1, <2>4 DEF Doubt, Inv, TypeOK
    <3>. HIDE DEF status
    <3>. QED BY <2>3, <3>1
  <2>5. CASE Close(c)
    <3> DEFINE status == IF row[p].status \in Pending THEN "cancelled" ELSE row[p].status
    <3>1. row' = [row EXCEPT ![p].status = status]
      BY <2>1, <2>5 DEF Close, Inv, TypeOK
    <3>. HIDE DEF status
    <3>. QED BY <2>3, <3>1
  <2>. QED BY <1>2, <2>2, <2>4, <2>5
<1>3. CASE (\E c \in Calls : CreateOrder(c) \/ CancelRemote(c)) \/ \E p \in Purchases : Outside(p)
  BY <1>3, ProviderOnward
<1>4. ASSUME NEW c \in Calls, Settle(c) PROVE Onward
  BY <1>4, SettleOnward
<1>5. CASE UNCHANGED <<row, provider>>
  BY <1>5, RowKept
<1>6. ASSUME NEW c \in Calls, NEW p \in Purchases, User(c, p) \/ Hook(c, p) \/ RunCron(c, p)
      PROVE  Prepare(c, p) \/ UNCHANGED <<row, provider>>
  BY <1>6 DEF User, Resume, CancelLink, Verify, Refresh, Hook, Deliver, RunCron
<1>7. ASSUME NEW p \in Purchases, Lose(p) PROVE UNCHANGED <<row, provider>>
  BY <1>7 DEF Lose, GiveUp
<1>8. ASSUME NEW c \in Calls, Checkout(c) \/ Confirm(c) \/ Fail(c)
      PROVE  CreateOrder(c) \/ Bind(c) \/ Doubt(c) \/ Settle(c) \/ UNCHANGED <<row, provider>>
  BY <1>8 DEF Checkout, FindOrder, Confirm, FetchOrder, FetchPayment, FetchDispute, Record, Fail
<1>9. CASE UNCHANGED vars
  BY <1>5, <1>9 DEF vars
<1>. QED BY <1>1, <1>2, <1>3, <1>4, <1>5, <1>6, <1>7, <1>8, <1>9 DEF Next

\* A purchase that was paid stays paid and shows it, whichever of a
\* cancellation and a late confirmation comes second (cancel, settle).
THEOREM PaidStaysAlways == ASSUME RechargeAssumption PROVE Spec => PaidStays
<1>1. ASSUME Inv, [Next]_vars, Inv'
      PROVE  \A p \in Purchases : row[p].paid => row'[p].paid /\ row'[p].status \in Paid
  BY <1>1, NextOnward DEF Onward, After, Inv, RowsAreSound, Sound, Shown
<1>2. Inv /\ Inv' /\ [Next]_vars
        => [\A p \in Purchases : row[p].paid => row'[p].paid /\ row'[p].status \in Paid]_vars
  BY <1>1
<1>. QED BY <1>2, Invariance, PTL DEF Spec, PaidStays

-----------------------------------------------------------------------------
(* The refinement.                                                         *)

\* What a purchase takes into account of its payment only moves forward and is
\* never ahead of the provider, however confirmations overlap (reconcile_purchase).
THEOREM ImplementsEntitlement == ASSUME RechargeAssumption PROVE Spec => FollowsPayment
<1>. USE DEF Entitlements!vars
<1>1. Init => Entitlements!Init
  <2>. SUFFICES ASSUME Init PROVE Entitlements!Init
    OBVIOUS
  <2>1. ASSUME NEW p \in Purchases
        PROVE  row[p].paid = FALSE /\ row[p].refunded = 0 /\ row[p].dispute = "none"
    <3>1. row[p] = NewRow \/ (\E b \in BOOLEAN : row[p] = Link(b))
      BY DEF Init
    <3>2. row[p] \in Rows /\ ~row[p].paid /\ row[p].refunded = 0 /\ row[p].dispute = "none"
      BY <3>1, Unsettled
    <3>. QED BY <3>2 DEF Rows
  <2>2. ASSUME NEW p \in Purchases
        PROVE  provider[p].order # "paid" /\ provider[p].refunded = 0 /\ provider[p].dispute = "none"
    BY DEF Init, NoOrder
  <2>3. Truth = [p \in Purchases |-> Entitlements!Unpaid]
    BY <2>2 DEF Truth, Entitlements!Unpaid
  <2>4. Applied = [p \in Purchases |-> Entitlements!Unpaid]
    BY <2>1 DEF Applied, Entitlements!Unpaid
  <2>. QED BY <2>3, <2>4 DEF Entitlements!Init
<1>2. ASSUME Inv, Inv', [Next]_vars PROVE [Entitlements!Next]_<<Truth, Applied>>
  <2>1. ASSUME NEW p \in Purchases
        PROVE  /\ Truth'[p] \in Entitlements!Payments /\ Applied'[p] \in Entitlements!Payments
    BY <1>2 DEF Truth, Applied, Inv, TypeOK, Rows, Orders, Disputes, Entitlements!Payments, Entitlements!Disputes
  <2>2. Truth' \in [Purchases -> Entitlements!Payments] /\ Applied' \in [Purchases -> Entitlements!Payments]
    BY <2>1 DEF Truth, Applied
  <2>3. ASSUME NEW p \in Purchases
        PROVE  /\ Entitlements!NotOlder(Truth'[p], Truth[p])
               /\ Entitlements!NotOlder(Applied'[p], Applied[p])
    <3>1. After(row'[p], provider'[p], row[p], provider[p])
      BY <1>2, NextOnward DEF Onward
    <3>. QED BY <3>1 DEF After, Truth, Applied, Entitlements!NotOlder, Disputed
  <2>4. ASSUME NEW p \in Purchases
        PROVE  Entitlements!NotOlder(Truth[p], Applied'[p])
    <3>1. Behind(row'[p], provider[p])
      <4>1. Behind(row[p], provider[p]) /\ Behind(row'[p], provider'[p])
        BY <1>2 DEF Inv, RowsAreSound, Sound
      <4>. QED BY <4>1, <1>2, NextOnward DEF Onward
    <3>2. row'[p].refunded \in Nat /\ provider[p].refunded \in Nat
      BY <1>2 DEF Inv, TypeOK, Rows, Orders
    <3>. QED BY <3>1, <3>2 DEF Behind, Truth, Applied, Entitlements!NotOlder, Disputed
  <2>. QED BY <2>2, <2>3, <2>4 DEF Entitlements!Next, Entitlements!Happen, Entitlements!Apply
<1>. QED BY <1>1, <1>2, Invariance, PTL DEF Spec, FollowsPayment, Entitlements!Spec
=============================================================================
