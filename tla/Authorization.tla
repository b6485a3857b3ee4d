---------------------------- MODULE Authorization ----------------------------
(***************************************************************************)
(* What credits promise about a job, whoever touches it and however often: *)
(* it is charged at most once, and never more than had been authorized for *)
(* it by then.  The wallet's ledger and the job lifecycle both implement   *)
(* this.                                                                   *)
(***************************************************************************)
EXTENDS Integers

CONSTANTS Jobs,
          Credits        \* the amounts a reservation can grow by

VARIABLES authorized,    \* credits reserved for the job, in all
          outcome        \* what it was charged, or Open

Open == -1

Init == /\ authorized = [j \in Jobs |-> 0]
        /\ outcome = [j \in Jobs |-> Open]

\* The user's request, or an answer to the job's question, reserves n more.
Authorize(j, n) ==
  /\ authorized' = [authorized EXCEPT ![j] = @ + n]
  /\ UNCHANGED outcome

\* The job ends; c = 0 is a full refund.
Charge(j, c) ==
  /\ authorized[j] > 0
  /\ outcome[j] = Open
  /\ c \in 0 .. authorized[j]
  /\ outcome' = [outcome EXCEPT ![j] = c]
  /\ UNCHANGED authorized

Next == \E j \in Jobs : \/ \E n \in Credits : Authorize(j, n)
                        \/ \E c \in 0 .. authorized[j] : Charge(j, c)

Spec == Init /\ [][Next]_<<authorized, outcome>>
=============================================================================
