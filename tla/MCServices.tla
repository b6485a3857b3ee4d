----------------------------- MODULE MCServices -----------------------------
(* Small instances of the services, for TLC: each behaviour is one of      *)
(* theirs, and the others stay in one initial state.  Exploring them side  *)
(* by side would multiply their states, and show nothing more of them.     *)
EXTENDS Services

CONSTANTS Explored,                            \* the services of a run
          u1, u2, m1, m2,                      \* users, models
          a1, a2, r1, r2, r3,                  \* accounts, requests
          t1, t2                               \* tabs

TwoUsers == {u1, u2}
TwoModels == {m1, m2}
TwoRoles == {"owner", "admin"}
TheKeys == {"key", "secret"}
TwoAccounts == {a1, a2}
ThreeRequests == {r1, r2, r3}
TwoFiles == {<<"x", "?", "x", "y">>, <<>>}
TwoTabs == {t1, t2}
ThreeNotes == <<1, 2, 4>>

\* A review or a calculation, of all trades, of the latest two of all its
\* requests, or of the latest two of each; of records with and without notes.
SomePlans ==
  {[outcome |-> outcome, check |-> check, count |-> n[1], own |-> n[2], asked |-> 0,
    analysis |-> a[1], kinds |-> a[2], notes |-> a[3], ids |-> a[4]] :
     outcome \in {"", "win"}, check \in BOOLEAN, n \in {<<0, 0>>, <<2, 0>>, <<0, 2>>},
     a \in {<<"review", {"metrics"}, FALSE, {}>>, <<"calculation", {"metrics"}, FALSE, {}>>,
            <<"review", {"groups"}, FALSE, {}>>, <<"calculation", {"metrics", "records"}, FALSE, {}>>,
            <<"review", {}, FALSE, {}>>, <<"calculation", {"records"}, TRUE, {1, 3}>>}}

\* One initial state of those that are not explored; of two owners the second
\* may become an admin, and a tour that is skipped is as one not required.
MCInit ==
  /\ service \in Explored
  /\ Calls!Init /\ Stream!Init /\ Figures!Init
  /\ Administration!Init /\ tables.staff[u2].role = "owner"
  /\ Desk!Init /\ (service # "workspace" => ~profile /\ accounts = {})
  /\ Trading!Init /\ (service # "journal" => trades = <<>>)
  /\ Tours!Init /\ tour.status = "pending"
  /\ Replay!Init /\ (service # "practice" => candle.close = 1)
  /\ Policy!Init /\ (service # "pricing" => limit = 1)
  /\ Answering!Init
  /\ service # "evidence" => /\ journal = <<1, 1, 1>> /\ room = 20
                             /\ plan = CHOOSE p \in SomePlans : TRUE

MCSpec == MCInit /\ [][Next]_vars

\* The server and the page go on, as in Stream!FairSpec.
MCFairSpec == MCSpec /\ Stream!Fairness
=============================================================================
