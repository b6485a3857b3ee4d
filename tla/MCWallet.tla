------------------------------ MODULE MCWallet ------------------------------
(* Small instances of Wallet for TLC.                                      *)
EXTENDS Wallet

CONSTANTS j1, old, p1, k1

OldAndNew == {j1, old}
OneLegacy == {old}
OnePurchase == {p1}
OneRequest == {k1}
ChangingAllowance == {0, 2}
OneOrTwo == {1, 2}
=============================================================================
