------------------------------- MODULE Reports -------------------------------
(***************************************************************************)
(* The figures of the journal (src/backend/analytics.py): what a trade has *)
(* made, the statistics of a list of trades, its groups, and two of the    *)
(* checks of the coach that depend on an order.                            *)
(*                                                                         *)
(* A report is a function of the trades, and is stated as one; the state   *)
(* is the user's trades, which she adds to and revises.  A list that is    *)
(* chosen from them is the set of their places, as it keeps their order.   *)
(* Costs are per unit, so that their share of a part of a position is      *)
(* exact, and the multiplier is one.  Ratios, and rounding to six places,  *)
(* are left out.                                                           *)
(***************************************************************************)
EXTENDS Integers, FiniteSets, SequencesExt

CONSTANTS Quantity,     \* of every trade, in the lots that may be closed alone
          Sides,        \* of {1, -1}: Long, Short
          Entry,        \* every trade's entry_price
          Exits, Costs,
          Moments,      \* of exits, or of entries where there is none
          PerDay,       \* moments in a day
          Mark,         \* every trade's mark_price
          Setups,
          Enough,       \* trades in a group the coach will speak of: 3
          MaxTrades,    \* bound
          MaxRevised    \* bound: the trades of a journal that is revised

VARIABLE trades         \* as they are read

vars == trades

-----------------------------------------------------------------------------
(* A trade.                                                                *)

Shapes == [status : {"Open", "Closed", "Partial", "Canceled"}, side : Sides, exit : Exits \cup {Entry},
           closed : 0 .. Quantity, cost : Costs, ended : Moments, setup : Setups]

\* What the validation accepts.  The exit price of a position none of which
\* is closed is blank, which is written as its entry.
Accepted ==
  {t \in Shapes :
     CASE t.status = "Closed" -> t.closed = Quantity
       [] t.status = "Partial" -> t.closed \in 1 .. Quantity - 1
       [] OTHER -> t.closed = 0 /\ t.exit = Entry}

Gross(t) == (t.exit - Entry) * t.closed * t.side

\* enrich: net_pnl is realized only, on the closed part and its share of costs.
Net(t) == Gross(t) - t.cost * t.closed
Remaining(t) == IF t.status = "Canceled" THEN 0 ELSE Quantity - t.closed
Unrealized(t) == (Mark - Entry) * Remaining(t) * t.side - t.cost * Remaining(t)
IndiaDate(moment) == moment \div PerDay
PnlDate(t) == IndiaDate(t.ended)
Realized(t) == t.closed > 0 /\ t.status # "Canceled"

\* ... of each of the trades.
Nets == [i \in DOMAIN trades |-> Net(trades[i])]

-----------------------------------------------------------------------------
(* statistics                                                              *)

\* Of a selection, the realized trades, and these by exit: those of the same
\* moment as they were read.
Counted(S) == {i \in S : Realized(trades[i])}
Earlier(i, j) == \/ trades[i].ended < trades[j].ended
                 \/ trades[i].ended = trades[j].ended /\ i < j
ByExit(S) ==
  [k \in 1 .. Cardinality(Counted(S)) |->
     CHOOSE i \in Counted(S) : Cardinality({j \in Counted(S) : Earlier(j, i)}) = k - 1]

Higher(a, b) == IF a > b THEN a ELSE b
Lower(a, b) == IF a < b THEN a ELSE b

\* One realized trade more: the running equity, its peak and the deepest fall
\* from it, and the streak, positive in wins and negative in losses.
Streak(streak, p) ==
  CASE p > 0 -> Higher(streak, 0) + 1
    [] p < 0 -> Lower(streak, 0) - 1
    [] OTHER -> 0

\* Seeded fault: the peak is that of the trades, and not of the start.
AfterFromFirst(a, t) ==
  LET equity == a.equity + Net(t)
      peak == IF a.count = 0 THEN equity ELSE Higher(a.peak, equity)
      streak == Streak(a.streak, Net(t))
  IN [equity |-> equity, peak |-> peak, fall |-> Higher(a.fall, peak - equity), streak |-> streak,
      wins |-> Higher(a.wins, streak), losses |-> Higher(a.losses, -streak), count |-> a.count + 1]

After(a, t) ==
  LET equity == a.equity + Net(t)
      peak == Higher(a.peak, equity)
      streak == Streak(a.streak, Net(t))
  IN [equity |-> equity, peak |-> peak, fall |-> Higher(a.fall, peak - equity), streak |-> streak,
      wins |-> Higher(a.wins, streak), losses |-> Higher(a.losses, -streak), count |-> a.count + 1]

Start == [equity |-> 0, peak |-> 0, fall |-> 0, streak |-> 0, wins |-> 0, losses |-> 0, count |-> 0]
Statistics(S) ==
  LET order == ByExit(S)
      after[k \in 0 .. Len(order)] == IF k = 0 THEN Start ELSE After(after[k-1], trades[order[k]])
  IN after[Len(order)]

\* The daily curve: the running net of the active days, and its fall.
ActiveDays(S) == {PnlDate(trades[i]) : i \in Counted(S)}
DayNet(S, d) == SumFunctionOnSet(Nets, {i \in Counted(S) : PnlDate(trades[i]) = d})
Running(S, d) ==
  SumFunctionOnSet([e \in ActiveDays(S) |-> DayNet(S, e)], {e \in ActiveDays(S) : e <= d})
Top(S, d) == Max({0} \cup {Running(S, e) : e \in {e \in ActiveDays(S) : e <= d}})
Curve(S) ==
  [d \in ActiveDays(S) |-> [pnl |-> Running(S, d), drawdown |-> Running(S, d) - Top(S, d)]]

\* The counts and the sums of the metrics.
Metrics(S) ==
  LET closed == Counted(S)
      wins == {i \in closed : Net(trades[i]) > 0}
      losses == {i \in closed : Net(trades[i]) < 0}
  IN [positions |-> Cardinality(S), count |-> Cardinality(closed),
      open |-> Cardinality({i \in S : trades[i].status \in {"Open", "Partial"}}),
      wins |-> Cardinality(wins), losses |-> Cardinality(losses),
      even |-> Cardinality({i \in closed : Net(trades[i]) = 0}),
      profit |-> SumFunctionOnSet(Nets, wins), loss |-> -SumFunctionOnSet(Nets, losses),
      gross |-> SumFunctionOnSet([i \in S |-> Gross(trades[i])], closed),
      fees |-> SumFunctionOnSet([i \in S |-> trades[i].cost * trades[i].closed], closed),
      unrealized |-> SumFunctionOnSet([i \in S |-> Unrealized(trades[i])], S)]

-----------------------------------------------------------------------------
(* group_rows, coach_checks                                                *)

Group(S, g) == {i \in S : trades[i].setup = g}

Closed(S) == {i \in S : trades[i].closed > 0}

\* weakest('setup'): the trades of the group that has made least.
Weakest(S) ==
  LET Row(g) == Statistics(Group(Closed(S), g))
      rows == {g \in Setups : Row(g).count >= Enough}
      least == CHOOSE g \in rows : \A h \in rows : Row(g).equity <= Row(h).equity
  IN IF rows = {} THEN {} ELSE Group(Closed(S), least)

Total(S) == SumFunctionOnSet(Nets, S)
Impact(S) == Higher(0, -Total(S))

-----------------------------------------------------------------------------
(* The user.                                                               *)

Init == trades = <<>>
Record(t) == Len(trades) < MaxTrades /\ trades' = Append(trades, t)
Revise(i, t) == Len(trades) <= MaxRevised /\ trades' = [trades EXCEPT ![i] = t]
Remove1(i) == trades' = RemoveAt(trades, i)

Next == \/ \E t \in Accepted : Record(t) \/ \E i \in DOMAIN trades : Revise(i, t)
        \/ \E i \in DOMAIN trades : Remove1(i)

Spec == Init /\ [][Next]_vars
-----------------------------------------------------------------------------
(* What holds.                                                             *)

TypeOK == trades \in Seq(Accepted)

\* What a position is worth does not depend on how much of it is closed:
\* closing a part at the mark moves its worth from unrealized to realized,
\* costs with it, and neither makes nor loses any.
Worth(t) == Net(t) + Unrealized(t)
ClosingIsNeutral ==
  \A i \in DOMAIN trades :
    LET t == trades[i] IN
    Realized(t) /\ t.exit = Mark => Worth(t) = (Mark - Entry) * Quantity * t.side - t.cost * Quantity

\* The figures folded in one pass are what their names say: the largest fall
\* from any earlier equity to any later one, and the longest runs.
Equity(order, k) == SumFunctionOnSet([m \in DOMAIN order |-> Net(trades[order[m]])], 1 .. k)
Spans(first, last) == {p \in (first .. last) \X (first .. last) : p[1] <= p[2]}
LongestRun(places, last) ==
  Max({0} \cup {p[2] - p[1] + 1 : p \in {p \in Spans(1, last) : p[1] .. p[2] \subseteq places}})
FiguresAreTheirNames ==
  LET order == ByExit(DOMAIN trades)
      s == Statistics(DOMAIN trades) IN
  /\ s.fall = Max({Equity(order, p[1]) - Equity(order, p[2]) : p \in Spans(0, Len(order))})
  /\ s.wins = LongestRun({k \in DOMAIN order : Net(trades[order[k]]) > 0}, Len(order))
  /\ s.losses = LongestRun({k \in DOMAIN order : Net(trades[order[k]]) < 0}, Len(order))

\* The daily curve ends at the total, and never falls deeper than the
\* drawdown; the groups of a dimension that has one value per trade, as the
\* setup has and the tags have not, share the total out; and the coach's weakest
\* setup is charged with what its group has lost.
ReportsAgree ==
  LET all == DOMAIN trades
      s == Statistics(all)
      curve == Curve(all)
      weakest == Weakest(all) IN
  /\ ActiveDays(all) # {} => curve[Max(ActiveDays(all))].pnl = s.equity
  /\ \A d \in ActiveDays(all) : -curve[d].drawdown <= s.fall
  /\ s.equity = SumFunctionOnSet([g \in Setups |-> Statistics(Group(all, g)).equity], Setups)
  /\ s.count = SumFunctionOnSet([g \in Setups |-> Statistics(Group(all, g)).count], Setups)
  /\ \A i \in weakest :
       Impact(weakest) = Higher(0, -Statistics(Group(all, trades[i].setup)).equity)

\* What the writer of an answer is told of the metrics (src/backend/ai.py:216):
\* a partly closed position is counted among the realized and among the open,
\* and gross_profit and gross_loss are sums of net results.
MetricsAreAsTold ==
  LET m == Metrics(DOMAIN trades)
      With(s) == Cardinality({i \in DOMAIN trades : trades[i].status = s}) IN
  /\ m.count + m.open = m.positions + With("Partial") - With("Canceled")
  /\ m.wins + m.losses + m.even = m.count
  /\ Statistics(DOMAIN trades).equity = m.profit - m.loss
  /\ m.profit - m.loss = m.gross - m.fees

ReportIsRight == ClosingIsNeutral /\ FiguresAreTheirNames /\ ReportsAgree /\ MetricsAreAsTold
=============================================================================
