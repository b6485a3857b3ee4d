------------------------------ MODULE Pricing ------------------------------
(***************************************************************************)
(* What a review is charged for its tokens (src/backend/ai_pricing.py), and *)
(* how its ceiling admits calls: the ceiling the wallet affords is chosen  *)
(* when it is queued, and may be raised when it is continued.  A call is   *)
(* admitted by the allowance of the ceiling; the charge is computed from   *)
(* the totals of its receipts.                                             *)
(***************************************************************************)
EXTENDS Integers, Sequences

CONSTANTS Balances,          \* what the wallet may afford
          Inputs, Outputs    \* the tokens a call may take

VARIABLES ceiling,   \* max_credits
          used       \* the sums in usage

vars == <<ceiling, used>>

InputLimit == 100000
OutputLimit == 16000
Bucket(ins, outs, cost) == [ins |-> ins, outs |-> outs, cost |-> cost]
Buckets == <<Bucket(8000, 2000, 1), Bucket(16000, 4000, 2), Bucket(32000, 6000, 3),
             Bucket(64000, 8000, 4), Bucket(128000, 16000, 7)>>

Covers(b, i, o) == i <= Buckets[b].ins /\ o <= Buckets[b].outs
Chargeable(i, o) == i <= InputLimit /\ o <= OutputLimit

\* The first bucket that covers the tokens; none at all cost nothing.
Cheapest(i, o) == CHOOSE b \in DOMAIN Buckets :
                    Covers(b, i, o) /\ \A c \in DOMAIN Buckets : Covers(c, i, o) => b <= c
Charge(i, o) == IF i = 0 /\ o = 0 THEN 0 ELSE Buckets[Cheapest(i, o)].cost

\* The last bucket a ceiling pays for.
Largest(c) == CHOOSE b \in DOMAIN Buckets :
                Buckets[b].cost <= c /\ \A d \in DOMAIN Buckets : Buckets[d].cost <= c => d <= b

\* Seeded fault: the allowance is that of the first bucket that is not cheaper.
AllowanceRoundedUp(c) ==
  LET b == CHOOSE b \in DOMAIN Buckets :
             \/ Buckets[b].cost > c /\ \A d \in DOMAIN Buckets : Buckets[d].cost > c => b <= d
             \/ b = Len(Buckets) /\ Buckets[b].cost <= c
  IN Buckets[b]

\* allowance: its bucket, within the limits of the workflow.
Allowance(c) ==
  LET b == Buckets[Largest(c)]
  IN [b EXCEPT !.ins = IF @ > InputLimit THEN InputLimit ELSE @]

-----------------------------------------------------------------------------
Ceilings == {1, 2, 3, 4, 7}
Affordable(balance) == CHOOSE c \in Ceilings :
  c <= balance /\ \A d \in Ceilings : d <= balance => d <= c

\* enqueue: a reservation the balance cannot pay for is refused.
Init ==
  /\ \E balance \in Balances : balance >= 1 /\ ceiling = Affordable(balance)
  /\ used = [ins |-> 0, outs |-> 0]

\* continue_job reserves no less than before.
Raise(c) ==
  /\ c > ceiling
  /\ ceiling' = c
  /\ UNCHANGED used

\* Runtime.call and record: a call that fits the allowance, and whose receipt
\* is within what was estimated and allowed.
Call(i, o) ==
  /\ used.ins + i <= Allowance(ceiling).ins
  /\ used.outs + o <= Allowance(ceiling).outs
  /\ used' = [ins |-> used.ins + i, outs |-> used.outs + o]
  /\ UNCHANGED ceiling

Next == \/ \E c \in Ceilings : Raise(c)
        \/ \E i \in Inputs, o \in Outputs : Call(i, o)

Spec == Init /\ [][Next]_vars
-----------------------------------------------------------------------------
(* What holds.                                                             *)

TypeOK == ceiling \in Ceilings /\ used \in [ins : Nat, outs : Nat]

\* The two functions of the policy fit each other: a review whose calls were
\* admitted by its ceiling can be charged for, and costs no more than the
\* ceiling, so its settlement is never refused and never overdraws the
\* reservation.
PriceFits ==
  /\ Chargeable(used.ins, used.outs)
  /\ Charge(used.ins, used.outs) <= ceiling
=============================================================================
