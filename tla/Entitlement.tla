----------------------------- MODULE Entitlement -----------------------------
(***************************************************************************)
(* What recharges promise about a payment: what the wallet has been told   *)
(* of it only moves forward, and never ahead of what happened to it at the *)
(* payment provider, whatever the notifications do.                        *)
(***************************************************************************)
EXTENDS Integers

CONSTANTS Purchases

VARIABLES truth,      \* what happened to the payment of a purchase
          applied     \* what the purchase's credits take into account

vars == <<truth, applied>>

Disputes == {"none", "open", "won", "lost"}

Payments == [captured : BOOLEAN, refunded : Nat, dispute : Disputes]

Unpaid == [captured |-> FALSE, refunded |-> 0, dispute |-> "none"]

DisputeNotOlder(a, b) == a = b \/ b = "none" \/ (b = "open" /\ a # "none")

\* a is b or a later state of the same payment.
NotOlder(a, b) == /\ b.captured => a.captured
                  /\ a.refunded >= b.refunded
                  /\ DisputeNotOlder(a.dispute, b.dispute)

Init == /\ truth = [p \in Purchases |-> Unpaid]
        /\ applied = truth

\* Truth moves on; what is applied catches up with it, in one step or in many.
Happen(p) == NotOlder(truth'[p], truth[p])

Apply(p) == NotOlder(applied'[p], applied[p]) /\ NotOlder(truth[p], applied'[p])

Next == /\ truth' \in [Purchases -> Payments]
        /\ applied' \in [Purchases -> Payments]
        /\ \A p \in Purchases : Happen(p) /\ Apply(p)

Spec == Init /\ [][Next]_vars
=============================================================================
