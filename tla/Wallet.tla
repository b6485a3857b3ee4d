------------------------------- MODULE Wallet -------------------------------
(***************************************************************************)
(* The credit wallet of one user (src/backend/wallet.py) and the calls its *)
(* callers make.  Every operation runs under the lock on the user's        *)
(* profile row and inside the caller's transaction, so each is one action; *)
(* an exception rolls the transaction back and is a disabled action.       *)
(*                                                                         *)
(* The wallet is a record; its ledger is the sequence of wallet_entries    *)
(* rows, an entry's position being its `sequence' column and the length of *)
(* the ledger the wallet's `revision'.  Event keys are records             *)
(* [kind, of, n] in place of strings such as 'reserve:<job>:<revision>'.   *)
(***************************************************************************)
EXTENDS Integers, SequencesExt

CONSTANTS Jobs,          \* AI jobs that reserve credits
          LegacyJobs,    \* the jobs priced before whole-workflow reservations
          Purchases,     \* recharges
          Requests,      \* Idempotency-Keys of playbooks and admin adjustments
          Allowances,    \* values monthly_free_credits may be configured to
          Amounts,       \* prices, reservations, adjustments and pack sizes
          MaxRevision,   \* bound: continuations of a job
          MaxMonth,      \* bound: months of the clock
          MaxEntries     \* bound: length of the ledger

ASSUME WalletAssumption ==
  /\ LegacyJobs \subseteq Jobs
  /\ Allowances \subseteq Nat
  /\ Amounts \subseteq Nat
  /\ MaxRevision \in Nat /\ MaxMonth \in Nat /\ MaxEntries \in Nat

VARIABLES clock,         \* the month month_key() returns, in India time
          wallet         \* the credit_wallets row with its wallet_entries

vars == <<clock, wallet>>

NoMonth == 0             \* free_month of a wallet that does not exist yet

Kinds == {"free", "expire", "reserve", "settle", "refund", "playbook",
          "purchase", "admin"}

Key(kind, of, n) == [kind |-> kind, of |-> of, n |-> n]

EntryKeys == [kind : Kinds,
              of : Jobs \cup Purchases \cup Requests \cup Nat, n : Nat]

\* `charged' and `failed' are the settlement's details and reason; they are
\* 0 and FALSE in every other entry.
Entries == [key : EntryKeys, free : Int, purchased : Int, after : Int,
            month : Nat, charged : Int, failed : BOOLEAN]
-----------------------------------------------------------------------------
(* The operations of wallet.py, as functions of the wallet.                *)

Balance(w) == w.free + w.purchased

\* Seeded fault: append does not look for the key.
NeverPosted(w, key) == FALSE

Posted(w, key) == \E i \in DOMAIN w.ledger : w.ledger[i].key = key

\* Seeded fault: the balance of an entry is the one before it.
OldBalance(w, free, purchased) == Balance(w)

NewBalance(w, free, purchased) == Balance(w) + free + purchased

\* append refuses a negative free bucket.
CanPost(w, free) == w.free + free >= 0

PostWith(w, key, free, purchased, charged, failed) ==
  IF Posted(w, key) THEN w
  ELSE [w EXCEPT !.free = @ + free,
                 !.purchased = @ + purchased,
                 !.ledger = Append(@,
                   [key |-> key, free |-> free, purchased |-> purchased,
                    after |-> NewBalance(w, free, purchased),
                    month |-> w.month, charged |-> charged, failed |-> failed])]

Post(w, key, free, purchased) == PostWith(w, key, free, purchased, 0, FALSE)

\* Seeded fault: last month's credits become bought ones.
ExpireToPurchased(w) ==
  IF w.month = NoMonth THEN w
  ELSE Post(w, Key("expire", w.month, 0), 0 - w.free, w.free)

\* get_wallet: create the wallet, or close the month that is over.
Expire(w) ==
  IF w.month = NoMonth THEN w
  ELSE Post(w, Key("expire", w.month, 0), 0 - w.free, 0)

GetWallet(w, month, allowance) ==
  IF w.month = month THEN w
  ELSE Post([Expire(w) EXCEPT !.month = month, !.allocation = allowance],
            Key("free", month, 0), allowance, 0)

\* Seeded fault: a debt does not stop a spend.
CoversAnything(w, amount) == TRUE

Covers(w, amount) == Balance(w) >= amount

\* Seeded fault: the amount is not split between the buckets.
SpendFreeOnly(w, key, amount) == Post([w EXCEPT !.spent = @ + amount], key, 0 - amount, 0)

\* spend, once the balance covers the amount: free credits go first.
Spend(w, key, amount) ==
  LET free == IF w.free < amount THEN w.free ELSE amount
  IN  Post([w EXCEPT !.spent = @ + amount], key, 0 - free, free - amount)

\* What the entries of a ledger add to each bucket, and take out of both.
Free(ledger) == [i \in DOMAIN ledger |-> ledger[i].free]
Purchased(ledger) == [i \in DOMAIN ledger |-> ledger[i].purchased]
Taken(ledger) == [i \in DOMAIN ledger |-> 0 - ledger[i].free - ledger[i].purchased]

Positions(ledger, kind) == {i \in DOMAIN ledger : ledger[i].key.kind = kind}

\* The positions of the holds that job j had taken before position i.
HoldsBefore(ledger, j, i) ==
  {h \in Positions(ledger, "reserve") : h < i /\ ledger[h].key.of = j}
Holds(ledger, j) == HoldsBefore(ledger, j, Len(ledger) + 1)

HoldTotal(w, j) == SumFunctionOnSet(Taken(w.ledger), Holds(w.ledger, j))

\* Seeded fault: the charge is not compared with the reservation.
FitsAnyway(w, j, charged) == TRUE

Fits(w, j, charged) == charged \in 0 .. HoldTotal(w, j)

\* Seeded faults: unused free credits always come back, as free or as bought.
LandsInFree(month, failed, h) == "free"
LandsSomewhere(month, failed, h) == IF h.month = month THEN "free" ELSE "purchased"

\* The bucket that the unused free credits of hold h return to.
Lands(month, failed, h) ==
  IF h.month = month THEN "free" ELSE IF failed THEN "purchased" ELSE "none"

\* One turn of the loop of settle_reservations: capture from hold h what is
\* left of the charge, free credits first, and release the rest.
Release(month, failed, r, h) ==
  LET free   == Min({r.left, 0 - h.free})
      bought == Min({r.left - free, 0 - h.purchased})
      unused == 0 - h.free - free
      to     == Lands(month, failed, h)
  IN  [left |-> r.left - free - bought,
       free |-> r.free + IF to = "free" THEN unused ELSE 0,
       purchased |-> (r.purchased - h.purchased - bought)
                       + IF to = "purchased" THEN unused ELSE 0]

\* The loop over the holds, in the order they were taken.
Released(w, j, charged, failed) ==
  LET after[i \in 0 .. Len(w.ledger)] ==
        IF i = 0 THEN [left |-> charged, free |-> 0, purchased |-> 0]
        ELSE IF i \in Holds(w.ledger, j)
             THEN Release(w.month, failed, after[i-1], w.ledger[i])
             ELSE after[i-1]
  IN  after[Len(w.ledger)]

\* Seeded fault: what was charged is taken out of the spent counter too.
SettleForgettingCharge(w, j, charged, failed) ==
  LET back == Released(w, j, charged, failed)
  IN  PostWith([w EXCEPT !.spent = @ - HoldTotal(w, j)],
               Key("settle", j, 0), back.free, back.purchased, charged, failed)

Settle(w, j, charged, failed) ==
  LET back == Released(w, j, charged, failed)
  IN  PostWith([w EXCEPT !.spent = @ - (HoldTotal(w, j) - charged)],
               Key("settle", j, 0), back.free, back.purchased, charged, failed)

\* refund_spend gives back what the first reservation of j took; free credits
\* of an earlier month come back as purchased ones.
Refund(w, j) ==
  LET orig == w.ledger[CHOOSE i \in DOMAIN w.ledger :
                          w.ledger[i].key = Key("reserve", j, 0)]
      same == orig.month = w.month
      amount == 0 - orig.free - orig.purchased
      left == w.spent - amount
  IN  Post([w EXCEPT !.spent = IF left < 0 THEN 0 ELSE left],
           Key("refund", j, 0),
           IF same THEN 0 - orig.free ELSE 0,
           IF same THEN 0 - orig.purchased ELSE amount)
-----------------------------------------------------------------------------
(* The callers.  Each starts with get_wallet, under whatever allowance the *)
(* product settings hold at that moment.                                   *)

Init == /\ clock = 1
        /\ wallet = [month |-> NoMonth, allocation |-> 0, free |-> 0,
                     purchased |-> 0, spent |-> 0, ledger |-> <<>>]

Fresh == {GetWallet(wallet, clock, n) : n \in Allowances}

Commit(w) == /\ wallet' = w
             /\ UNCHANGED clock

\* Callers act while the ledger has room; rollovers are bounded by MaxMonth.
Room == Len(wallet.ledger) < MaxEntries

\* The month ends.
Tick == /\ clock < MaxMonth
        /\ clock' \in clock + 1 .. MaxMonth
        /\ UNCHANGED wallet

\* Any page that shows the wallet: snapshot, estimate.
Visit == \E w \in Fresh : Commit(w)

Debit(key, amount) ==
  \E w \in Fresh :
    \/ /\ Posted(w, key)
       /\ Commit(w)
    \/ /\ ~Posted(w, key)
       /\ Covers(w, amount)
       /\ Commit(Spend(w, key, amount))

\* create_record for a playbook, first call and retries.
CreatePlaybook(k, price) == Debit(Key("playbook", k, 0), price)

\* enqueue: a new job reserves its maximum.
Reserve(j, maximum) ==
  /\ ~Posted(wallet, Key("reserve", j, 0))
  /\ maximum > 0
  /\ Debit(Key("reserve", j, 0), maximum)

\* continue_job: a job extends its reservation, once per revision.
Extend(j, revision, more) ==
  /\ Posted(wallet, Key("reserve", j, 0))
  /\ more > 0
  /\ Debit(Key("reserve", j, revision), more)

\* finish and cancel_settlement, first call and repeats.  A failed job is
\* settled at 0 credits.
SettleReservations(j, charged, failed) ==
  /\ Posted(wallet, Key("reserve", j, 0))
  /\ ~Posted(wallet, Key("refund", j, 0))
  /\ j \in LegacyJobs => ~failed
  /\ failed => charged = 0
  /\ \E w \in Fresh :
       \/ /\ Posted(w, Key("settle", j, 0))
          /\ Commit(w)
       \/ LET back == Released(w, j, charged, failed)
          IN  /\ ~Posted(w, Key("settle", j, 0))
              /\ Fits(w, j, charged)
              /\ CanPost(w, back.free)
              /\ Commit(Settle(w, j, charged, failed))

\* finish with an error, for a legacy job: first call and repeats.
RefundSpend(j) ==
  /\ j \in LegacyJobs
  /\ ~Posted(wallet, Key("settle", j, 0))
  /\ \E w \in Fresh :
       \/ /\ Posted(w, Key("refund", j, 0))
          /\ Commit(w)
       \/ /\ ~Posted(w, Key("refund", j, 0))
          /\ Posted(w, Key("reserve", j, 0))
          /\ Commit(Refund(w, j))

PurchaseEntries(w, p) == {i \in Positions(w.ledger, "purchase") : w.ledger[i].key.of = p}

Credited(w, p) == SumFunctionOnSet(Purchased(w.ledger), PurchaseEntries(w, p))

\* recharges.settle: bring the purchase to the credits it should stand at,
\* after a capture, a refund or a dispute.
SettlePurchase(p, desired) ==
  \E w \in Fresh :
    LET delta   == desired - Credited(w, p)
        version == Cardinality(PurchaseEntries(w, p)) + 1
    IN  /\ CanPost(w, 0)
        /\ Commit(IF delta = 0 THEN w
                  ELSE Post(w, Key("purchase", p, version), 0, delta))

\* adjust_credits, once per administrator's Idempotency-Key.
GrantCredits(k, amount) ==
  \E w \in Fresh : Commit(Post(w, Key("admin", k, 0), 0, amount))

WithdrawCredits(k, amount) ==
  \E w \in Fresh :
    LET free == IF w.free < amount THEN w.free ELSE amount
    IN  /\ Covers(w, amount)
        /\ Commit(Post(w, Key("admin", k, 0), 0 - free, free - amount))

CallerNext ==
  \/ \E k \in Requests, n \in Amounts :
       CreatePlaybook(k, n) \/ GrantCredits(k, n) \/ WithdrawCredits(k, n)
  \/ \E j \in Jobs, n \in Amounts :
       \/ Reserve(j, n)
       \/ \E r \in 1 .. MaxRevision : Extend(j, r, n)
  \/ \E j \in Jobs, n \in Amounts \cup {0}, failed \in BOOLEAN : SettleReservations(j, n, failed)
  \/ \E j \in Jobs : RefundSpend(j)
  \/ \E p \in Purchases, n \in Amounts \cup {0} : SettlePurchase(p, n)

Next ==
  \/ Tick
  \/ Visit
  \/ Room /\ CallerNext

Spec == Init /\ [][Next]_vars
-----------------------------------------------------------------------------
(* What the wallet promises.                                               *)

\* Every field has its type; the free bucket is never negative.
WalletRows == [month : Nat, allocation : Nat, free : Nat, purchased : Int,
               spent : Int, ledger : Seq(Entries)]

TypeOK == clock \in Nat /\ wallet \in WalletRows

HasDistinctKeys(ledger) ==
  \A i, k \in DOMAIN ledger : ledger[i].key = ledger[k].key => i = k

\* No operation of wallet.py posts a key twice, whatever its callers repeat:
\* a retried request debits, refunds or grants once.
KeysPostedOnce == HasDistinctKeys(wallet.ledger)

\* The balance before entry i.
Before(ledger, i) == IF i = 1 THEN 0 ELSE ledger[i-1].after

IsChained(w) ==
  /\ \A i \in DOMAIN w.ledger :
       w.ledger[i].after = Before(w.ledger, i) + w.ledger[i].free + w.ledger[i].purchased
  /\ Balance(w) = Before(w.ledger, Len(w.ledger) + 1)

\* The entries chain: each balance_after is the one before it plus the entry's
\* amount, and the last is the balance.
LedgerChains == IsChained(wallet)

\* PAY_AS_YOU_GO.md's first gate, bucket by bucket: the ledger's deltas add up
\* to the free and to the purchased balance.
ExplainsBuckets(w) ==
  /\ w.free = SumFunctionOnSet(Free(w.ledger), DOMAIN w.ledger)
  /\ w.purchased = SumFunctionOnSet(Purchased(w.ledger), DOMAIN w.ledger)

\* What each entry took out of the free bucket of a month, out of the
\* purchased bucket, and out of the purchased bucket if it took anything.
FreeTaken(ledger, month) ==
  [i \in DOMAIN ledger |-> IF ledger[i].month = month THEN 0 - ledger[i].free ELSE 0]
PurchasedTaken(ledger) == [i \in DOMAIN ledger |-> 0 - ledger[i].purchased]
Reversed(ledger) ==
  [i \in DOMAIN ledger |-> IF ledger[i].purchased < 0 THEN 0 - ledger[i].purchased ELSE 0]

\* The same of the holds that job j had taken before position i.
Held(ledger, j, i) == SumFunctionOnSet(Taken(ledger), HoldsBefore(ledger, j, i))
HeldPurchased(ledger, j, i) ==
  SumFunctionOnSet(PurchasedTaken(ledger), HoldsBefore(ledger, j, i))
HeldFree(ledger, j, i, month) ==
  SumFunctionOnSet(FreeTaken(ledger, month), HoldsBefore(ledger, j, i))

\* The holds that are still to be captured or released.
Closing(ledger, j) ==
  {i \in Positions(ledger, "settle") \cup Positions(ledger, "refund") : ledger[i].key.of = j}
OpenHolds(ledger) ==
  {h \in Positions(ledger, "reserve") : Closing(ledger, ledger[h].key.of) = {}}

MintsNothing(w) ==
  w.free + SumFunctionOnSet(FreeTaken(w.ledger, w.month), OpenHolds(w.ledger)) <= w.allocation

\* Settling never mints free credits: what is in the free bucket and what open
\* jobs may still give back to it stay within the month's allocation, however
\* many months the jobs outlive.
FreeNeverMinted == MintsNothing(wallet)

SettlesFairly(ledger, i) ==
  LET e    == ledger[i]
      held == Held(ledger, e.key.of, i)
      lost == held - e.charged - e.free - e.purchased
      mine == HeldFree(ledger, e.key.of, i, e.month)
      bought == HeldPurchased(ledger, e.key.of, i)
  IN  /\ e.charged <= held
      /\ e.free <= mine
      /\ e.failed => lost = 0 /\ e.free = mine
      /\ ~e.failed => e.purchased <= bought /\ lost \in 0 .. held - bought - mine

\* A settlement never charges more than the job's holds, returns to each
\* bucket no more than the job took from it, and loses only free credits of
\* an earlier month; a failed one loses nothing.
SettlementConserves ==
  \A i \in Positions(wallet.ledger, "settle") : SettlesFairly(wallet.ledger, i)

\* What a settlement did not charge, and what an entry gave back.
Unused(ledger) ==
  [i \in DOMAIN ledger |-> Held(ledger, ledger[i].key.of, i) - ledger[i].charged]
Given(ledger) == [i \in DOMAIN ledger |-> ledger[i].free + ledger[i].purchased]

ExplainsSpent(w) ==
  w.spent = SumFunctionOnSet(Taken(w.ledger), Positions(w.ledger, "playbook"))
            + SumFunctionOnSet(Taken(w.ledger), Positions(w.ledger, "reserve"))
            - SumFunctionOnSet(Unused(w.ledger), Positions(w.ledger, "settle"))
            - SumFunctionOnSet(Given(w.ledger), Positions(w.ledger, "refund"))

\* The counter `spent' is never negative, as the table's check constraint
\* demands, and is exactly what playbooks cost, what jobs hold and what
\* settled jobs were charged: a settlement gives back all the rest, a refund
\* the whole of the reservation.
SpentIsAuthorized == wallet.spent >= 0 /\ ExplainsSpent(wallet)

\* Neither a bucket nor the counter drifts from the ledger.
LedgerExplainsWallet == ExplainsBuckets(wallet) /\ SpentIsAuthorized

OwesReversals(w) ==
  w.purchased + SumFunctionOnSet(Reversed(w.ledger), Positions(w.ledger, "purchase")) >= 0

\* Two spends cannot overspend: the purchased bucket is in debt by no more than
\* payment reversals have taken out of it.
DebtIsReversals == OwesReversals(wallet)

\* Rollover is the free bucket's alone: whatever else the transaction that
\* notices the new month does, last month's free credits are gone and the
\* purchased bucket changes only by the caller's own entry.
RolloverSparesPurchased ==
  [][wallet'.month # wallet.month =>
       \A i \in Len(wallet.ledger) + 1 .. Len(wallet'.ledger) :
         LET e == wallet'.ledger[i]
         IN  /\ e.key.kind \in {"free", "expire"} => e.purchased = 0
             /\ e.key.kind = "free" => e.after - wallet.purchased = wallet'.allocation]_vars

\* The ledger is a record of authorizations and charges, with the settle and
\* refund entries as outcomes.

Authorized == INSTANCE Authorization WITH
  Credits <- Amounts \ {0},
  authorized <- [j \in Jobs |-> HoldTotal(wallet, j)],
  outcome <- [j \in Jobs |-> IF Closing(wallet.ledger, j) = {} THEN -1
                             ELSE wallet.ledger[Min(Closing(wallet.ledger, j))].charged]

\* Every step of the wallet authorizes, charges once within the
\* authorization, or leaves both alone.
ChargesAsAuthorized == Authorized!Spec
=============================================================================
