------------------------------ MODULE Practice ------------------------------
(***************************************************************************)
(* A practice session: candles replayed one by one, a position with a stop *)
(* and a target, and the export of its closed trades to the journal        *)
(* (src/backend/simulator.py; src/backend/journal_routes.py, from          *)
(* create_simulation to export_simulation).                                *)
(*                                                                         *)
(* Every request reads and writes the session under the user's lock, and   *)
(* is one action; what a lost response hides is that it was done.  The     *)
(* candles ahead are not known to the session, and are chosen when it      *)
(* comes to them.  Quantity and multiplier are one.                        *)
(***************************************************************************)
EXTENDS Integers, Sequences, Functions

CONSTANTS MaxPrice,     \* bound: prices are 1 .. MaxPrice
          Bars,         \* bound: the candles after the first (4 to 49,999)
          MaxTrades,    \* bound: the positions closed
          Fees          \* those a position may be opened with

VARIABLES
  bar, candle,     \* the cursor, and the candle there
  position,        \* or NoPosition
  closed,          \* data['trades']: the profit of each
  balance,         \* data['balance'] less the initial balance
  exported,        \* data['exported_count']
  imported         \* the Trade rows of the practice account

market == <<bar, candle>>
account == <<position, closed, balance>>
journal == <<exported, imported>>
vars == <<market, account, journal>>

Prices == 1 .. MaxPrice
NoLevel == 0
Levels == Prices \cup {NoLevel}
NoPosition == [side |-> 0, entry |-> NoLevel, stop |-> NoLevel, target |-> NoLevel, fees |-> 0]
Sides == {1, -1}    \* Long, Short

\* create_simulation accepts only prices that can have happened.
Candles == {c \in [open : Prices, high : Prices, low : Prices, close : Prices] :
              {c.open, c.close} \subseteq c.low .. c.high}

Init ==
  /\ bar = 0
  /\ \E p \in Prices : candle = [open |-> p, high |-> p, low |-> p, close |-> p]
  /\ position = NoPosition /\ closed = <<>> /\ balance = 0
  /\ exported = 0 /\ imported = <<>>

Held == position # NoPosition
Finished == bar = Bars

-----------------------------------------------------------------------------
\* What side's holder loses by: b is no better for it than a.
NoBetter(side, b, a) == b * side <= a * side

\* The levels a request may set lie on their sides of the current price.
MayBracket(side, stop, target) ==
  /\ stop # NoLevel => ~NoBetter(side, candle.close, stop)
  /\ target # NoLevel => ~NoBetter(side, target, candle.close)

\* close_position
Close(p, price) ==
  LET pnl == (price - p.entry) * p.side - p.fees IN
  /\ closed' = Append(closed, pnl)
  /\ balance' = balance + pnl
  /\ position' = NoPosition

Open(side, stop, target, fees) ==
  /\ ~Held /\ ~Finished /\ Len(closed) < MaxTrades
  /\ MayBracket(side, stop, target)
  /\ position' = [side |-> side, entry |-> candle.close, stop |-> stop, target |-> target, fees |-> fees]
  /\ UNCHANGED <<market, closed, balance, journal>>

ManualClose ==
  /\ Held
  /\ Close(position, candle.close)
  /\ UNCHANGED <<market, journal>>

Bracket(stop, target) ==
  /\ Held
  /\ MayBracket(position.side, stop, target)
  /\ position' = [position EXCEPT !.stop = stop, !.target = target]
  /\ UNCHANGED <<market, closed, balance, journal>>

-----------------------------------------------------------------------------
(* step: a request for several candles is as many of these.                *)

Worst(p, c) == IF p.side = 1 THEN c.low ELSE c.high
Best(p, c) == IF p.side = 1 THEN c.high ELSE c.low
Stopped(p, price) == p.stop # NoLevel /\ NoBetter(p.side, price, p.stop)
Reached(p, price) == p.target # NoLevel /\ NoBetter(p.side, p.target, price)

\* Seeded fault: a stop fills at its level, though the market opened past it.
FillAtLevel(p, c) ==
  CASE Stopped(p, Worst(p, c)) -> {p.stop}
    [] ~Stopped(p, Worst(p, c)) /\ Reached(p, Best(p, c)) -> {p.target}
    [] OTHER -> {}

\* The price the position is closed at, if it is: gaps fill at the open, and
\* within a candle the stop comes first.
Fill(p, c) ==
  IF Stopped(p, c.open) \/ Reached(p, c.open) THEN {c.open}
  ELSE IF Stopped(p, Worst(p, c)) THEN {p.stop}
  ELSE IF Reached(p, Best(p, c)) THEN {p.target}
  ELSE {}

Step(c) ==
  /\ ~Finished
  /\ bar' = bar + 1 /\ candle' = c
  /\ IF Held /\ Fill(position, c) # {}
     THEN \E price \in Fill(position, c) : Close(position, price)
     ELSE UNCHANGED account
  /\ UNCHANGED journal

-----------------------------------------------------------------------------
\* data['exported_count']
ExportedSoFar == Len(closed)

\* export_simulation: the trades since the last export.
Export ==
  /\ Len(closed) > exported
  /\ imported' = imported \o SubSeq(closed, exported + 1, Len(closed))
  /\ exported' = ExportedSoFar
  /\ UNCHANGED <<market, account>>

Next == \/ \E s \in Sides, stop, target \in Levels, f \in Fees : Open(s, stop, target, f)
        \/ ManualClose \/ Export
        \/ \E stop, target \in Levels : Bracket(stop, target)
        \/ \E c \in Candles : Step(c)

Spec == Init /\ [][Next]_vars
-----------------------------------------------------------------------------
(* What holds.                                                             *)

TypeOK ==
  /\ bar \in 0 .. Bars /\ candle \in Candles
  /\ position \in [side : Sides \cup {0}, entry : Levels, stop : Levels, target : Levels, fees : Fees \cup {0}]
  /\ closed \in Seq(Int) /\ balance \in Int
  /\ exported \in Nat /\ imported \in Seq(Int)

\* A position is closed at a price its candle has traded at, and no better
\* than its stop when the candle went through it: a replay does not flatter
\* its user.  One that stays open had neither level in its candle.
FillsAreFair ==
  [][bar' # bar /\ Held =>
       LET p == position
           through == Stopped(p, Worst(p, candle')) IN
       IF position' = NoPosition
       THEN \E price \in candle'.low .. candle'.high :
              /\ closed' = Append(closed, (price - p.entry) * p.side - p.fees)
              /\ through /\ ~Reached(p, candle'.open) => NoBetter(p.side, price, p.stop)
       ELSE ~through /\ ~Reached(p, Best(p, candle'))]_vars

\* The journal has the session's closed trades once each and in order,
\* however often and whenever they are exported, and the balance is theirs.
ExportedOnce ==
  /\ imported = SubSeq(closed, 1, Len(imported))
  /\ Len(imported) = exported
  /\ balance = SumFunctionOnSet(closed, DOMAIN closed)

PracticeIsHonest == []ExportedOnce /\ FillsAreFair
=============================================================================
