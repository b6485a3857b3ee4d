----------------------------- MODULE MCRecharge -----------------------------
(* Small instances of Recharge for TLC.                                    *)
EXTENDS Recharge, TLC

CONSTANTS p1, p2, cron, c1, c2

OnePurchase == {p1}
TwoPurchases == {p1, p2}
None == {}
One == [p \in OnePurchase |-> 1]
OneOrTwo == [p \in TwoPurchases |-> IF p = p1 THEN 1 ELSE 2]
OneOrThree == [p \in TwoPurchases |-> IF p = p1 THEN 1 ELSE 3]
CronAndOne == {cron, c1}
TwoCalls == {c1, c2}

\* Calls that may be anything are interchangeable.
Symmetry == Permutations(TwoCalls)
=============================================================================
