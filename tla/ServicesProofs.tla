--------------------------- MODULE ServicesProofs ---------------------------
(***************************************************************************)
(* The figures of a journal are what their names say and agree with each   *)
(* other, for any trades, prices, costs and setups; and the state of every *)
(* component is of its type.                                               *)
(*                                                                         *)
(* That trades are accepted is all their invariant says (ReportInv): the   *)
(* rest is about the functions. The order by exit is one (Sorted); an      *)
(* induction along it shows what the loop over it has come to (Tallies);   *)
(* and a day of the curve ends at one of its trades (LastOfDay).           *)
(***************************************************************************)
EXTENDS AICallsProofs, PagesProofs, JournalProofs, SequenceTheorems, TLAPS

-----------------------------------------------------------------------------
(* The figures.                                                            *)

\* The trades of a report are accepted.
ReportInv == reported \in Seq(Figures!Accepted)

\* The realized trades of a selection in the order of their exits.
Sorted(S, order) ==
  LET P == Figures!Counted(S) IN
  /\ Cardinality(P) \in Nat /\ IsFiniteSet(P)
  /\ DOMAIN order = 1 .. Cardinality(P) /\ Len(order) = Cardinality(P)
  /\ \A k \in DOMAIN order : order[k] \in P
  /\ \A i \in P : \E k \in DOMAIN order : order[k] = i
  /\ \A j, k \in DOMAIN order : j < k => Figures!Earlier(order[j], order[k])
  /\ \A j, k \in DOMAIN order : order[j] = order[k] => j = k

\* What the loop over them has come to.
Tallies == [equity : Int, peak : Int, fall : Int, streak : Int, wins : Nat, losses : Nat,
            count : Int]

\* The mth of the realized trades is the last of the day d.
LastOfDay(S, d, m) ==
  LET o == Figures!ByExit(S) IN
  /\ m \in 1 .. Len(o) /\ Figures!PnlDate(reported[o[m]]) <= d
  /\ \A k \in 1 .. Len(o) : Figures!PnlDate(reported[o[k]]) <= d => k <= m

\* The sizes and sums of the modules that Figures has instances of.
LEMMA ReportsCardinality == \A S : Figures!Cardinality(S) = Cardinality(S)
  BY DEF Figures!Cardinality, Cardinality

\* ... and the sum of a function.
LEMMA ReportsSum == \A f, S : Figures!SumFunctionOnSet(f, S) = SumFunctionOnSet(f, S)
  BY DEF Figures!SumFunctionOnSet, Figures!FoldFunctionOnSet, Figures!MapThenFoldSet,
         SumFunctionOnSet, FoldFunctionOnSet, MapThenFoldSet

\* A number of a set that is no less than the others is its largest.
LEMMA LargestIs ==
  ASSUME NEW S \in SUBSET Int, NEW m \in S, \A y \in S : m >= y
  PROVE  Figures!Max(S) = m
<1>1. Figures!Max(S) = CHOOSE x \in S : \A y \in S : x >= y
  BY DEF Figures!Max
<1>2. \A x \in S : (\A y \in S : x >= y) => x = m
  OBVIOUS
<1>. QED BY <1>1, <1>2

\* The figures of a trade are numbers, and what is closed of it is realized.
LEMMA TradeTyped ==
  ASSUME NEW t \in Figures!Accepted
  PROVE  /\ t.closed \in Nat /\ t.closed <= Quantity /\ t.cost \in Int /\ t.exit \in Int
         /\ t.side \in {1, -1} /\ t.ended \in Int /\ t.setup \in Setups
         /\ t.status \in {"Open", "Closed", "Partial", "Canceled"}
         /\ Figures!Net(t) \in Int /\ Figures!Gross(t) \in Int /\ t.cost * t.closed \in Int
         /\ Figures!Net(t) = Figures!Gross(t) - t.cost * t.closed
         /\ Figures!PnlDate(t) \in Int
         /\ Figures!Realized(t) <=> t.closed > 0
         /\ Figures!Realized(t) <=> t.status \in {"Closed", "Partial"}
<1>1. /\ t.closed \in 0 .. Quantity /\ t.cost \in Int /\ t.exit \in Int /\ t.side \in {1, -1}
      /\ t.ended \in Int /\ t.status \in {"Open", "Closed", "Partial", "Canceled"}
      /\ t.setup \in Setups /\ Quantity \in Nat \ {0} /\ Entry \in Int /\ PerDay \in Nat \ {0}
  BY ReportsAssumption DEF Figures!Accepted, Figures!Shapes
<1>2. /\ t.status = "Closed" => t.closed = Quantity
      /\ t.status = "Partial" => t.closed \in 1 .. Quantity - 1
      /\ t.status \notin {"Closed", "Partial"} => t.closed = 0
  BY <1>1 DEF Figures!Accepted
<1>3. t.closed \in Nat /\ t.closed <= Quantity
  BY <1>1
<1>4. Figures!Gross(t) \in Int /\ t.cost * t.closed \in Int
  BY <1>1, <1>3 DEF Figures!Gross
<1>5. Figures!Net(t) = Figures!Gross(t) - t.cost * t.closed /\ Figures!Net(t) \in Int
  BY <1>4 DEF Figures!Net
<1>6. Figures!PnlDate(t) \in Int
  BY <1>1 DEF Figures!PnlDate, Figures!IndiaDate
<1>7. (Figures!Realized(t) <=> t.closed > 0) /\ (Figures!Realized(t) <=> t.status \in {"Closed", "Partial"})
  BY <1>1, <1>2, <1>3 DEF Figures!Realized
<1>. QED BY <1>1, <1>3, <1>4, <1>5, <1>6, <1>7

\* So are those of each of the trades.
LEMMA TradesTyped ==
  ASSUME ReportInv
  PROVE  /\ Len(reported) \in Nat /\ DOMAIN reported = 1 .. Len(reported)
         /\ IsFiniteSet(DOMAIN reported)
         /\ \A i \in DOMAIN reported : /\ i \in Int /\ reported[i] \in Figures!Accepted
                                       /\ Figures!Nets[i] = Figures!Net(reported[i])
                                       /\ Figures!Nets[i] \in Int
                                       /\ reported[i].ended \in Int
<1>1. /\ Len(reported) \in Nat /\ DOMAIN reported = 1 .. Len(reported)
      /\ \A i \in DOMAIN reported : reported[i] \in Figures!Accepted
  BY LenProperties, ElementOfSeq DEF ReportInv
<1>2. IsFiniteSet(1 .. Len(reported))
  BY <1>1, FS_Interval
<1>3. \A i \in DOMAIN reported : Figures!Nets[i] = Figures!Net(reported[i])
  BY DEF Figures!Nets
<1>4. \A i \in DOMAIN reported : Figures!Net(reported[i]) \in Int /\ reported[i].ended \in Int
  BY <1>1, TradeTyped
<1>5. \A i \in DOMAIN reported : i \in Int
  BY <1>1
<1>. QED BY <1>1, <1>2, <1>3, <1>4, <1>5

\* The order by exit is one: a trade comes after as many as exit earlier.
LEMMA ByExitSorts ==
  ASSUME ReportInv, NEW S \in SUBSET DOMAIN reported
  PROVE  Sorted(S, Figures!ByExit(S))
<1> DEFINE P == Figures!Counted(S)
           n == Cardinality(P)
           before(i) == {j \in P : Figures!Earlier(j, i)}
           rank(i) == Cardinality(before(i))
           o == Figures!ByExit(S)
<1>1. P \in SUBSET DOMAIN reported /\ IsFiniteSet(P)
  <2>1. P \in SUBSET DOMAIN reported
    BY DEF Figures!Counted
  <2>. QED BY <2>1, TradesTyped, FS_Subset
<1>2. n \in Nat /\ \A i \in P : IsFiniteSet(before(i)) /\ rank(i) \in Nat
  <2> HIDE DEF P
  <2>1. n \in Nat
    BY <1>1, FS_CardinalityType
  <2>2. ASSUME NEW i \in P PROVE IsFiniteSet(before(i)) /\ rank(i) \in Nat
    <3>1. before(i) \in SUBSET P
      OBVIOUS
    <3> HIDE DEF before
    <3>. QED BY <1>1, <3>1, FS_Subset, FS_CardinalityType
  <2>. QED BY <2>1, <2>2
<1> HIDE DEF P
<1>3. \A i, j \in P : i # j => Figures!Earlier(i, j) \/ Figures!Earlier(j, i)
  BY <1>1, TradesTyped DEF Figures!Earlier
<1>4. \A i \in P : ~Figures!Earlier(i, i)
  BY <1>1, TradesTyped DEF Figures!Earlier
<1>5. \A i, j, k \in P : Figures!Earlier(i, j) /\ Figures!Earlier(j, k) => Figures!Earlier(i, k)
  <2>. SUFFICES ASSUME NEW i \in P, NEW j \in P, NEW k \in P,
                       Figures!Earlier(i, j), Figures!Earlier(j, k)
                PROVE  Figures!Earlier(i, k)
    OBVIOUS
  <2>1. /\ i \in Int /\ j \in Int /\ k \in Int /\ reported[i].ended \in Int
        /\ reported[j].ended \in Int /\ reported[k].ended \in Int
    BY <1>1, TradesTyped
  <2>. QED BY <2>1 DEF Figures!Earlier
<1>6. ASSUME NEW i \in P, NEW j \in P, Figures!Earlier(i, j) PROVE rank(i) < rank(j)
  <2>1. before(i) \in SUBSET before(j) /\ i \in before(j) /\ i \notin before(i)
    BY <1>4, <1>5, <1>6
  <2>2. IsFiniteSet(before(j)) /\ rank(i) \in Nat /\ rank(j) \in Nat
    BY <1>2
  <2> HIDE DEF before
  <2>3. rank(i) <= rank(j) /\ rank(i) # rank(j)
    BY <2>1, <2>2, FS_Subset
  <2>. QED BY <2>2, <2>3
<1>7. \A i \in P : rank(i) + 1 \in 1 .. n
  <2>. SUFFICES ASSUME NEW i \in P PROVE rank(i) + 1 \in 1 .. n
    OBVIOUS
  <2>1. before(i) \in SUBSET (P \ {i}) /\ IsFiniteSet(P \ {i}) /\ Cardinality(P \ {i}) = n - 1
    BY <1>1, <1>4, FS_RemoveElement
  <2> HIDE DEF before
  <2>2. rank(i) <= n - 1 /\ rank(i) \in Nat /\ n \in Nat
    BY <1>2, <2>1, FS_Subset
  <2>. QED BY <2>2
<1>8. \A i, j \in P : rank(i) = rank(j) => i = j
  <2>. SUFFICES ASSUME NEW i \in P, NEW j \in P, rank(i) = rank(j), i # j PROVE FALSE
    OBVIOUS
  <2>1. rank(i) \in Nat /\ (rank(i) < rank(j) \/ rank(j) < rank(i))
    BY <1>2, <1>3, <1>6
  <2>. QED BY <2>1
<1>9. \A k \in 1 .. n : \E i \in P : rank(i) = k - 1
  <2> DEFINE places == 1 .. n
             f == [i \in P |-> rank(i) + 1]
  <2> HIDE DEF before
  <2>1. f \in Injection(P, places)
    <3>1. f \in [P -> places]
      BY <1>7
    <3>2. \A i, j \in P : f[i] = f[j] => i = j
      <4>. SUFFICES ASSUME NEW i \in P, NEW j \in P, f[i] = f[j] PROVE i = j
        OBVIOUS
      <4>1. rank(i) \in Nat /\ rank(j) \in Nat /\ rank(i) + 1 = rank(j) + 1
        BY <1>2
      <4>. QED BY <1>8, <4>1
    <3> HIDE DEF f, places
    <3>. QED BY <3>1, <3>2 DEF Injection, IsInjective
  <2>2. IsFiniteSet(places) /\ Cardinality(places) = n
    BY <1>2, FS_Interval
  <2>3. f \in Surjection(P, places)
    <3> HIDE DEF f, places
    <3>. QED BY <2>1, <2>2, FS_Injection
  <2>. SUFFICES ASSUME NEW k \in places PROVE \E i \in P : rank(i) = k - 1
    OBVIOUS
  <2>4. PICK i \in P : f[i] = k
    <3> HIDE DEF f
    <3>. QED BY <2>3 DEF Surjection
  <2>5. rank(i) + 1 = k /\ rank(i) \in Nat
    BY <1>2, <2>4
  <2>. QED BY <2>5
<1>10. /\ DOMAIN o = 1 .. n /\ Len(o) = n
       /\ \A k \in 1 .. n : o[k] = CHOOSE i \in P : Figures!Cardinality(before(i)) = k - 1
  <2>1. o = [k \in 1 .. Figures!Cardinality(P) |->
               CHOOSE i \in P : Figures!Cardinality(before(i)) = k - 1]
    BY DEF Figures!ByExit, P
  <2>2. Figures!Cardinality(P) = n
    BY ReportsCardinality
  <2> HIDE DEF before, o
  <2>. QED BY <1>2, <2>1, <2>2
<1> HIDE DEF o, before
<1>11. \A k \in 1 .. n : o[k] \in P /\ rank(o[k]) = k - 1
  <2>. SUFFICES ASSUME NEW k \in 1 .. n PROVE o[k] \in P /\ rank(o[k]) = k - 1
    OBVIOUS
  <2>1. \E i \in P : Figures!Cardinality(before(i)) = k - 1
    BY <1>9, ReportsCardinality
  <2>2. o[k] \in P /\ Figures!Cardinality(before(o[k])) = k - 1
    BY <1>10, <2>1
  <2>. QED BY <2>2, ReportsCardinality
<1>12. \A i \in P : \E k \in 1 .. n : o[k] = i
  <2>. SUFFICES ASSUME NEW i \in P PROVE \E k \in 1 .. n : o[k] = i
    OBVIOUS
  <2> DEFINE k == rank(i) + 1
  <2>1. k \in 1 .. n /\ k - 1 = rank(i)
    BY <1>2, <1>7
  <2>2. o[k] = i
    BY <1>8, <1>11, <2>1
  <2>. QED BY <2>1, <2>2
<1>13. \A j, k \in 1 .. n : (o[j] = o[k] => j = k) /\ (j < k => Figures!Earlier(o[j], o[k]))
  <2>. SUFFICES ASSUME NEW j \in 1 .. n, NEW k \in 1 .. n
                PROVE  (o[j] = o[k] => j = k) /\ (j < k => Figures!Earlier(o[j], o[k]))
    OBVIOUS
  <2>1. o[j] \in P /\ o[k] \in P /\ rank(o[j]) = j - 1 /\ rank(o[k]) = k - 1
    BY <1>11
  <2>2. o[j] = o[k] => j = k
    BY <2>1
  <2>3. ~(j < k /\ Figures!Earlier(o[k], o[j]))
    BY <1>6, <2>1
  <2>. QED BY <1>3, <2>1, <2>2, <2>3
<1>. QED BY <1>1, <1>2, <1>10, <1>11, <1>12, <1>13 DEF Sorted, P, o

\* The longest run of a set of places, as a loop finds it.
LEMMA RunsAreLongest ==
  ASSUME NEW n \in Nat, NEW K \in SUBSET (1 .. n), NEW w, NEW b, w[0] = 0, b[0] = 0,
         \A k \in 1 .. n : w[k] = IF k \in K THEN w[k-1] + 1 ELSE 0,
         \A k \in 1 .. n : b[k] = IF b[k-1] > w[k] THEN b[k-1] ELSE w[k]
  PROVE  b[n] = Figures!LongestRun(K, n)
<1> DEFINE spans == {p \in Figures!Spans(1, n) : p[1] .. p[2] \subseteq K}
           run(k) == /\ w[k] \in 0 .. k /\ \A j \in k - w[k] + 1 .. k : j \in K
                     /\ w[k] = k \/ (k - w[k] \notin K)
           best(k) == /\ b[k] \in Nat
                      /\ b[k] = 0 \/ \E p \in spans : b[k] = p[2] - p[1] + 1
                      /\ \A p \in spans : p[2] <= k => p[2] - p[1] + 1 <= b[k]
           good == {k \in 0 .. n : run(k) /\ best(k)}
<1>1. \A p \in spans : p[1] \in 1 .. n /\ p[2] \in 1 .. n /\ p[1] <= p[2]
  BY DEF Figures!Spans
<1>2. \A i, k \in 1 .. n : i <= k /\ (\A j \in i .. k : j \in K) => <<i, k>> \in spans
  BY DEF Figures!Spans
<1>3. ASSUME NEW p \in spans, NEW j \in 1 .. n, p[1] <= j, j <= p[2] PROVE j \in K
  BY <1>1, <1>3
<1> HIDE DEF spans
<1>4. 0 \in good
  <2>1. run(0)
    OBVIOUS
  <2>2. best(0)
    BY <1>1
  <2>. QED BY <2>1, <2>2
<1>5. ASSUME NEW k \in 1 .. n, k - 1 \in good PROVE k \in good
  <2>1. run(k - 1) /\ best(k - 1) /\ k - 1 \in Nat /\ k \in Nat
    BY <1>5
  <2>2. w[k] = (IF k \in K THEN w[k-1] + 1 ELSE 0) /\ b[k] = (IF b[k-1] > w[k] THEN b[k-1] ELSE w[k])
    OBVIOUS
  <2>3. run(k)
    <3>1. CASE k \in K
      <4>1. w[k] = w[k-1] + 1 /\ k - w[k] = (k - 1) - w[k-1] /\ w[k] \in 0 .. k
        BY <2>1, <2>2, <3>1
      <4>2. ASSUME NEW j \in k - w[k] + 1 .. k PROVE j \in K
        <5>1. CASE j = k
          BY <3>1, <5>1
        <5>2. CASE j # k
          BY <2>1, <4>1, <5>2
        <5>. QED BY <5>1, <5>2
      <4>3. w[k] = k \/ k - w[k] \notin K
        BY <2>1, <4>1
      <4>. QED BY <4>1, <4>2, <4>3
    <3>2. CASE k \notin K
      BY <2>2, <3>2
    <3>. QED BY <3>1, <3>2
  <2>4. w[k] \in Nat /\ b[k-1] \in Nat /\ b[k] \in Nat /\ b[k-1] <= b[k] /\ w[k] <= b[k]
    BY <2>1, <2>2, <2>3
  <2>5. ASSUME NEW p \in spans, p[2] <= k PROVE p[2] - p[1] + 1 <= b[k]
    <3>1. p[1] \in 1 .. n /\ p[2] \in 1 .. n /\ p[1] <= p[2]
      BY <1>1
    <3>2. CASE p[2] <= k - 1
      BY <2>1, <2>4, <3>1, <3>2
    <3>3. CASE p[2] = k
      <4>1. p[1] > k - w[k]
        <5>1. SUFFICES ASSUME p[1] <= k - w[k] PROVE FALSE
          BY <2>4, <3>1
        <5>2. w[k] # k /\ k - w[k] \in 1 .. n /\ k - w[k] <= p[2]
          BY <2>3, <2>4, <3>1, <3>3, <5>1
        <5>3. k - w[k] \in K
          BY <1>3, <5>1, <5>2
        <5>. QED BY <2>3, <5>2, <5>3
      <4>. QED BY <2>4, <3>1, <3>3, <4>1
    <3>. QED BY <2>5, <3>1, <3>2, <3>3
  <2>6. b[k] = 0 \/ \E p \in spans : b[k] = p[2] - p[1] + 1
    <3>1. CASE b[k] = b[k-1]
      BY <2>1, <3>1
    <3>2. CASE b[k] = w[k] /\ w[k] # 0
      <4> DEFINE i == k - w[k] + 1
      <4>1. i \in 1 .. n /\ i <= k /\ \A j \in i .. k : j \in K
        BY <2>3, <2>4, <3>2
      <4>2. <<i, k>> \in spans
        BY <1>2, <4>1
      <4>3. b[k] = <<i, k>>[2] - <<i, k>>[1] + 1
        BY <2>4, <3>2
      <4>. QED BY <4>2, <4>3
    <3>. QED BY <2>2, <2>4, <3>1, <3>2
  <2>7. best(k)
    BY <2>4, <2>5, <2>6
  <2>. QED BY <2>3, <2>7
<1>6. n \in good
  <2> HIDE DEF good
  <2>. QED BY <1>4, <1>5, LoopInduction
<1> DEFINE lengths == {0} \cup {p[2] - p[1] + 1 : p \in spans}
<1>7. lengths \in SUBSET Int /\ b[n] \in lengths /\ \A y \in lengths : b[n] >= y
  <2>1. best(n)
    BY <1>6
  <2>2. lengths \in SUBSET Int
    BY <1>1
  <2>3. b[n] \in lengths
    BY <2>1
  <2>4. ASSUME NEW p \in spans PROVE b[n] >= p[2] - p[1] + 1
    BY <1>1, <2>1
  <2>. QED BY <2>1, <2>2, <2>3, <2>4
<1>8. Figures!LongestRun(K, n) = Figures!Max(lengths)
  BY DEF Figures!LongestRun, spans
<1> HIDE DEF lengths
<1>. QED BY <1>7, <1>8, LargestIs

\* The deepest fall, as a loop finds it from the highest so far.
LEMMA FallIsDeepest ==
  ASSUME NEW n \in Nat, NEW e, \A k \in 0 .. n : e[k] \in Int, NEW h, NEW f,
         e[0] = 0, h[0] = 0, f[0] = 0,
         \A k \in 1 .. n : h[k] = IF h[k-1] > e[k] THEN h[k-1] ELSE e[k],
         \A k \in 1 .. n : f[k] = IF f[k-1] > h[k] - e[k] THEN f[k-1] ELSE h[k] - e[k]
  PROVE  /\ f[n] = Figures!Max({e[p[1]] - e[p[2]] : p \in Figures!Spans(0, n)})
         /\ \A i, j \in 0 .. n : i <= j => e[i] - e[j] <= f[n]
<1> DEFINE top(k) == /\ \E j \in 0 .. k : h[k] = e[j]
                     /\ \A j \in 0 .. k : h[k] >= e[j]
           deep(k) == /\ \E i, j \in 0 .. k : i <= j /\ f[k] = e[i] - e[j]
                      /\ \A i, j \in 0 .. k : i <= j => f[k] >= e[i] - e[j]
           good == {k \in 0 .. n : top(k) /\ deep(k)}
<1>1. 0 \in good
  OBVIOUS
<1>2. ASSUME NEW k \in 1 .. n, k - 1 \in good PROVE k \in good
  <2>1. /\ top(k - 1) /\ deep(k - 1) /\ k - 1 \in 0 .. n /\ k \in 0 .. n
        /\ \A j \in 0 .. k : (j = k \/ j \in 0 .. k - 1) /\ e[j] \in Int
        /\ \A j \in 0 .. k - 1 : j \in 0 .. k /\ e[j] \in Int
    BY <1>2
  <2>2. /\ h[k] = (IF h[k-1] > e[k] THEN h[k-1] ELSE e[k])
        /\ f[k] = (IF f[k-1] > h[k] - e[k] THEN f[k-1] ELSE h[k] - e[k])
    OBVIOUS
  <2>3. h[k-1] \in Int /\ f[k-1] \in Int /\ e[k] \in Int /\ h[k] \in Int
    BY <2>1, <2>2
  <2>4. top(k)
    BY <2>1, <2>2, <2>3
  <2>5. ASSUME NEW i \in 0 .. k, NEW j \in 0 .. k, i <= j PROVE f[k] >= e[i] - e[j]
    <3>1. CASE j = k
      <4>1. h[k] >= e[i] /\ e[i] \in Int
        BY <2>1, <2>4
      <4>. QED BY <2>2, <2>3, <3>1, <4>1
    <3>2. CASE j # k
      <4>1. i \in 0 .. k - 1 /\ j \in 0 .. k - 1
        BY <2>1, <2>5, <3>2
      <4>2. f[k-1] >= e[i] - e[j] /\ e[i] \in Int /\ e[j] \in Int
        BY <2>1, <2>5, <4>1
      <4>. QED BY <2>2, <2>3, <4>2
    <3>. QED BY <3>1, <3>2
  <2>6. \E i, j \in 0 .. k : i <= j /\ f[k] = e[i] - e[j]
    <3>1. CASE f[k] = f[k-1]
      BY <2>1, <3>1
    <3>2. CASE f[k] = h[k] - e[k]
      <4>1. PICK i \in 0 .. k : h[k] = e[i]
        BY <2>4
      <4>2. i <= k /\ k \in 0 .. k
        OBVIOUS
      <4>. QED BY <3>2, <4>1, <4>2
    <3>. QED BY <2>2, <3>1, <3>2
  <2>. QED BY <2>1, <2>4, <2>5, <2>6
<1>3. n \in good
  <2> HIDE DEF good
  <2>. QED BY <1>1, <1>2, LoopInduction
<1> DEFINE spans == Figures!Spans(0, n)
           falls == {e[p[1]] - e[p[2]] : p \in spans}
<1>4. \A p \in spans : p[1] \in 0 .. n /\ p[2] \in 0 .. n /\ p[1] <= p[2]
  BY DEF Figures!Spans
<1>5. \A i, j \in 0 .. n : i <= j => <<i, j>> \in spans
  BY DEF Figures!Spans
<1> HIDE DEF spans
<1>6. falls \in SUBSET Int /\ f[n] \in falls /\ \A y \in falls : f[n] >= y
  <2>1. deep(n)
    BY <1>3
  <2>2. falls \in SUBSET Int
    BY <1>4
  <2>3. f[n] \in falls
    <3>1. PICK i \in 0 .. n, j \in 0 .. n : i <= j /\ f[n] = e[i] - e[j]
      BY <2>1
    <3>2. <<i, j>> \in spans /\ e[<<i, j>>[1]] - e[<<i, j>>[2]] = f[n]
      BY <1>5, <3>1
    <3>. QED BY <3>2
  <2>4. ASSUME NEW p \in spans PROVE f[n] >= e[p[1]] - e[p[2]]
    BY <1>4, <2>1
  <2>. QED BY <2>2, <2>3, <2>4
<1> HIDE DEF falls
<1>7. f[n] = Figures!Max(falls)
  BY <1>6, LargestIs
<1>8. ASSUME NEW i \in 0 .. n, NEW j \in 0 .. n, i <= j PROVE e[i] - e[j] <= f[n]
  <2>1. <<i, j>> \in spans /\ e[<<i, j>>[1]] - e[<<i, j>>[2]] = e[i] - e[j]
    BY <1>5, <1>8
  <2>2. e[i] - e[j] \in falls
    BY <2>1 DEF falls
  <2>3. f[n] >= e[i] - e[j] /\ f[n] \in Int /\ e[i] \in Int /\ e[j] \in Int
    BY <1>6, <2>2
  <2>. QED BY <2>3
<1>. QED BY <1>7, <1>8 DEF falls, spans

\* One trade more of the loop.
LEMMA AfterTrade ==
  ASSUME NEW t \in Figures!Accepted, NEW a \in Tallies
  PROVE  LET p == Figures!Net(t)
             b == Figures!After(a, t)
         IN /\ b \in Tallies /\ p \in Int
            /\ b.equity = a.equity + p /\ b.count = a.count + 1
            /\ b.peak = (IF a.peak > b.equity THEN a.peak ELSE b.equity)
            /\ b.fall = (IF a.fall > b.peak - b.equity THEN a.fall ELSE b.peak - b.equity)
            /\ b.streak = (IF p > 0 THEN (IF a.streak > 0 THEN a.streak + 1 ELSE 1)
                           ELSE IF p < 0 THEN (IF a.streak < 0 THEN a.streak - 1 ELSE -1) ELSE 0)
            /\ b.wins = (IF a.wins > b.streak THEN a.wins ELSE b.streak)
            /\ b.losses = (IF a.losses > -b.streak THEN a.losses ELSE -b.streak)
<1> DEFINE p == Figures!Net(t)
           equity == a.equity + p
           peak == IF a.peak > equity THEN a.peak ELSE equity
           fall == IF a.fall > peak - equity THEN a.fall ELSE peak - equity
           streak == IF p > 0 THEN (IF a.streak > 0 THEN a.streak + 1 ELSE 1)
                     ELSE IF p < 0 THEN (IF a.streak < 0 THEN a.streak - 1 ELSE -1) ELSE 0
           wins == IF a.wins > streak THEN a.wins ELSE streak
           losses == IF a.losses > -streak THEN a.losses ELSE -streak
<1>1. p \in Int
  BY TradeTyped
<1>2. /\ a.equity \in Int /\ a.peak \in Int /\ a.fall \in Int /\ a.streak \in Int
      /\ a.wins \in Nat /\ a.losses \in Nat /\ a.count \in Int
  BY DEF Tallies
<1>3. Figures!Streak(a.streak, p) = streak
  <2> HIDE DEF p
  <2>. QED BY <1>1, <1>2 DEF Figures!Streak, Figures!Higher, Figures!Lower
<1>4. Figures!After(a, t) =
        [equity |-> equity, peak |-> peak, fall |-> fall, streak |-> streak,
         wins |-> wins, losses |-> losses, count |-> a.count + 1]
  BY <1>3 DEF Figures!After, Figures!Higher
<1> HIDE DEF p
<1>5. /\ equity \in Int /\ streak \in Int
  BY <1>1, <1>2
<1>6. peak \in Int
  <2> HIDE DEF equity
  <2>. QED BY <1>2, <1>5
<1>7. fall \in Int
  <2> HIDE DEF equity, peak
  <2>. QED BY <1>2, <1>5, <1>6
<1>8. wins \in Nat /\ losses \in Nat /\ a.count + 1 \in Int
  <2> HIDE DEF streak
  <2>. QED BY <1>2, <1>5
<1> HIDE DEF equity, peak, fall, streak, wins, losses
<1>9. Figures!After(a, t) \in Tallies
  BY <1>4, <1>5, <1>6, <1>7, <1>8 DEF Tallies
<1>. QED BY <1>1, <1>4, <1>9 DEF p, equity, peak, fall, streak, wins, losses

\* The loop of the statistics of a selection.
LEMMA StatisticsRun ==
  ASSUME ReportInv, NEW S \in SUBSET DOMAIN reported
  PROVE  LET o == Figures!ByExit(S)
             n == Len(o)
         IN \E g \in [0 .. n -> Tallies] :
              /\ g[0] = Figures!Start /\ g[n] = Figures!Statistics(S)
              /\ \A k \in 1 .. n : g[k] = Figures!After(g[k-1], reported[o[k]])
<1> DEFINE o == Figures!ByExit(S)
           n == Len(o)
           step(k, a) == Figures!After(a, reported[o[k]])
           F == [p \in (1 .. n) \X Tallies |-> step(p[1], p[2])]
           Body(g) == [k \in 0 .. n |-> IF k = 0 THEN Figures!Start ELSE step(k, g[k-1])]
           all == CHOOSE g : g = Body(g)
<1>1. /\ n \in Nat /\ DOMAIN o = 1 .. n
      /\ \A k \in 1 .. n : o[k] \in DOMAIN reported
  <2>1. Sorted(S, o)
    BY ByExitSorts
  <2> HIDE DEF o
  <2>. QED BY <2>1 DEF Sorted, Figures!Counted
<1>2. Figures!Start \in Tallies
  BY DEF Figures!Start, Tallies
<1>3. \A k \in 1 .. n : \A a \in Tallies : step(k, a) \in Tallies
  BY <1>1, TradesTyped, AfterTrade
<1> HIDE DEF step, n, o
<1>4. F \in [(1 .. n) \X Tallies -> Tallies]
  BY <1>3
<1>5. PICK k \in [0 .. n -> Tallies] : Runs(k, n, Figures!Start, F)
  <2> HIDE DEF F
  <2>. QED BY <1>1, <1>2, <1>4, LoopExists
<1>6. k = Body(k)
  <2>1. \A i \in 1 .. n : k[i] = step(i, k[i-1])
    <3>1. \A i \in 1 .. n : i - 1 \in 0 .. n
      BY <1>1
    <3>2. \A i \in 1 .. n : <<i, k[i-1]>> \in (1 .. n) \X Tallies
      BY <3>1, <1>5
    <3>. QED BY <3>2, <1>5 DEF Runs
  <2>2. k[0] = Figures!Start
    BY <1>5 DEF Runs
  <2>3. \A i \in 0 .. n : i = 0 \/ i \in 1 .. n
    BY <1>1
  <2>. QED BY <2>1, <2>2, <2>3
<1>7. all = Body(all)
  <2>1. \E g : g = Body(g)
    BY <1>6
  <2>. HIDE DEF Body
  <2>. QED BY <2>1
<1>8. Figures!Statistics(S) = all[n]
  BY DEF Figures!Statistics, step, n, o
<1> HIDE DEF all
<1>9. /\ all[0] = Figures!Start
      /\ \A i \in 1 .. n : i \in 0 .. n /\ i - 1 \in 0 .. n /\ all[i] = step(i, all[i-1])
  <2>1. 0 \in 0 .. n /\ \A i \in 1 .. n : i \in 0 .. n /\ i # 0 /\ i - 1 \in 0 .. n
    BY <1>1
  <2>. QED BY <1>7, <2>1
<1>10. all \in [0 .. n -> Tallies]
  <2> DEFINE good == {i \in 0 .. n : all[i] \in Tallies}
  <2>1. 0 \in good
    BY <1>1, <1>2, <1>9
  <2>2. ASSUME NEW i \in 1 .. n, i - 1 \in good PROVE i \in good
    BY <1>3, <1>9, <2>2
  <2>3. \A i \in 0 .. n : i \in good
    <3> HIDE DEF good
    <3>. QED BY <1>1, <2>1, <2>2, LoopInduction
  <2>. QED BY <1>7, <2>3
<1>11. \E g \in [0 .. n -> Tallies] :
         /\ g[0] = Figures!Start /\ g[n] = Figures!Statistics(S)
         /\ \A i \in 1 .. n : g[i] = step(i, g[i-1])
  BY <1>8, <1>9, <1>10
<1>. QED BY <1>11 DEF step, n, o

\* The running equity adds up what has been passed.
LEMMA EquityAdds ==
  ASSUME ReportInv, NEW S \in SUBSET DOMAIN reported
  PROVE  LET o == Figures!ByExit(S)
             n == Len(o)
             E(k) == Figures!Equity(o, k)
         IN /\ n \in Nat /\ DOMAIN o = 1 .. n /\ E(0) = 0
            /\ \A k \in 0 .. n : /\ E(k) \in Int
                                 /\ E(k) = SumFunctionOnSet(Figures!Nets, Passed(o, k))
            /\ \A k \in 1 .. n : E(k) = E(k-1) + Figures!Net(reported[o[k]])
            /\ E(n) = SumFunctionOnSet(Figures!Nets, Figures!Counted(S))
<1> DEFINE o == Figures!ByExit(S)
           n == Len(o)
           E(k) == Figures!Equity(o, k)
           f == Figures!Nets
           g == [m \in DOMAIN o |-> Figures!Net(reported[o[m]])]
<1>1. Sorted(S, o)
  BY ByExitSorts
<1> HIDE DEF o
<1>2. /\ n \in Nat /\ DOMAIN o = 1 .. n
      /\ \A k \in 1 .. n : o[k] \in DOMAIN reported
      /\ \A j, k \in 1 .. n : o[j] = o[k] => j = k
      /\ Figures!Counted(S) = Passed(o, n)
  BY <1>1 DEF Sorted, Figures!Counted, Passed
<1>3. \A k \in 1 .. n : f[o[k]] \in Int /\ g[k] = f[o[k]] /\ g[k] = Figures!Net(reported[o[k]])
  BY <1>2, TradesTyped
<1>4. \A k : E(k) = SumFunctionOnSet(g, 1 .. k)
  BY ReportsSum DEF Figures!Equity
<1> HIDE DEF g, f, E, n
<1>5. \A k \in 0 .. n : SumFunctionOnSet(g, 1 .. k) = SumFunctionOnSet(f, Passed(o, k))
  <2>1. InOrder(n, o, f, g)
    BY <1>2, <1>3 DEF InOrder
  <2>. QED BY ONLY <2>1, SumInOrder
<1>6. ASSUME NEW k \in 0 .. n PROVE SumFunctionOnSet(g, 1 .. k) \in Int
  <2>1. IsFiniteSet(1 .. k)
    BY <1>2, FS_Interval
  <2>2. \A i \in 1 .. k : g[i] \in Int
    BY <1>2, <1>3
  <2>. QED BY <2>1, <2>2, SumType
<1>7. SumFunctionOnSet(g, 1 .. 0) = 0
  <2>1. 1 .. 0 = {}
    OBVIOUS
  <2>. QED BY <2>1, SumEmpty
<1>8. ASSUME NEW k \in 1 .. n
      PROVE  SumFunctionOnSet(g, 1 .. k) = SumFunctionOnSet(g, 1 .. k-1) + g[k]
  <2> DEFINE old == 1 .. k-1
  <2>1. /\ 1 .. k = old \cup {k} /\ k \notin old
        /\ \A i \in old \cup {k} : g[i] \in Int
    BY <1>2, <1>3
  <2>2. IsFiniteSet(old)
    BY <1>2, FS_Interval
  <2> HIDE DEF old
  <2>3. SumFunctionOnSet(g, old \cup {k}) = SumFunctionOnSet(g, old) + g[k]
    BY <2>1, <2>2, SumAdd
  <2>. QED BY <2>1, <2>3 DEF old
<1>9. /\ E(0) = 0
      /\ \A k \in 0 .. n : E(k) \in Int /\ E(k) = SumFunctionOnSet(f, Passed(o, k))
  BY <1>4, <1>5, <1>6, <1>7
<1>10. \A k \in 1 .. n : E(k) = E(k-1) + Figures!Net(reported[o[k]])
  BY <1>3, <1>4, <1>8
<1>11. E(n) = SumFunctionOnSet(f, Figures!Counted(S))
  BY <1>2, <1>9
<1>. QED BY <1>2, <1>9, <1>10, <1>11 DEF n, E, f, o

\* What the statistics of a selection come to.
LEMMA StatisticsAre ==
  ASSUME ReportInv, NEW S \in SUBSET DOMAIN reported
  PROVE  LET o == Figures!ByExit(S)
             n == Len(o)
             s == Figures!Statistics(S)
             E(k) == Figures!Equity(o, k)
         IN /\ s \in Tallies
            /\ s.equity = SumFunctionOnSet(Figures!Nets, Figures!Counted(S))
            /\ s.count = Cardinality(Figures!Counted(S))
            /\ s.fall = Figures!Max({E(p[1]) - E(p[2]) : p \in Figures!Spans(0, n)})
            /\ \A i, j \in 0 .. n : i <= j => E(i) - E(j) <= s.fall
            /\ s.wins = Figures!LongestRun({k \in 1 .. n : Figures!Net(reported[o[k]]) > 0}, n)
            /\ s.losses = Figures!LongestRun({k \in 1 .. n : Figures!Net(reported[o[k]]) < 0}, n)
<1> DEFINE o == Figures!ByExit(S)
           n == Len(o)
           s == Figures!Statistics(S)
           E(k) == Figures!Equity(o, k)
           v(k) == Figures!Net(reported[o[k]])
<1>1. PICK g \in [0 .. n -> Tallies] :
        /\ g[0] = Figures!Start /\ g[n] = s
        /\ \A k \in 1 .. n : g[k] = Figures!After(g[k-1], reported[o[k]])
  BY StatisticsRun
<1>2. /\ n \in Nat /\ E(0) = 0 /\ \A k \in 0 .. n : E(k) \in Int
      /\ \A k \in 1 .. n : E(k) = E(k-1) + v(k)
      /\ E(n) = SumFunctionOnSet(Figures!Nets, Figures!Counted(S))
  BY EquityAdds
<1>3. /\ n = Cardinality(Figures!Counted(S))
      /\ \A k \in 1 .. n : reported[o[k]] \in Figures!Accepted
  <2>1. Sorted(S, o)
    BY ByExitSorts
  <2> HIDE DEF o
  <2>. QED BY <2>1, TradesTyped DEF Sorted, Figures!Counted
<1>4. ASSUME NEW k \in 1 .. n
      PROVE  LET a == g[k-1]
                 b == g[k]
             IN /\ b \in Tallies /\ a \in Tallies /\ v(k) \in Int
                /\ b.equity = a.equity + v(k) /\ b.count = a.count + 1
                /\ b.peak = (IF a.peak > b.equity THEN a.peak ELSE b.equity)
                /\ b.fall = (IF a.fall > b.peak - b.equity THEN a.fall ELSE b.peak - b.equity)
                /\ b.streak = (IF v(k) > 0 THEN (IF a.streak > 0 THEN a.streak + 1 ELSE 1)
                               ELSE IF v(k) < 0 THEN (IF a.streak < 0 THEN a.streak - 1 ELSE -1)
                               ELSE 0)
                /\ b.wins = (IF a.wins > b.streak THEN a.wins ELSE b.streak)
                /\ b.losses = (IF a.losses > -b.streak THEN a.losses ELSE -b.streak)
  <2>1. k - 1 \in 0 .. n /\ k \in 0 .. n
    BY <1>2
  <2>2. g[k-1] \in Tallies /\ g[k] = Figures!After(g[k-1], reported[o[k]])
    BY <1>1, <2>1
  <2>. QED BY <1>3, <2>2, AfterTrade
<1>5. /\ g[0].equity = 0 /\ g[0].peak = 0 /\ g[0].fall = 0 /\ g[0].streak = 0
      /\ g[0].wins = 0 /\ g[0].losses = 0 /\ g[0].count = 0
  BY <1>1 DEF Figures!Start
<1>6. \A k \in 0 .. n : g[k] \in Tallies
  BY <1>1
<1> HIDE DEF v, E, o, n, s
<1>7. \A k \in 0 .. n : g[k].equity = E(k) /\ g[k].count = k
  <2> DEFINE good == {k \in 0 .. n : g[k].equity = E(k) /\ g[k].count = k}
  <2>1. 0 \in good
    BY <1>2, <1>5
  <2>2. ASSUME NEW k \in 1 .. n, k - 1 \in good PROVE k \in good
    BY <1>2, <1>4, <2>2
  <2> HIDE DEF good
  <2>3. \A k \in 0 .. n : k \in good
    BY <1>2, <2>1, <2>2, LoopInduction
  <2>. QED BY <2>3 DEF good
<1> DEFINE e == [k \in 0 .. n |-> E(k)]
           h == [k \in 0 .. n |-> g[k].peak]
           f == [k \in 0 .. n |-> g[k].fall]
<1>8. /\ f[n] = Figures!Max({e[p[1]] - e[p[2]] : p \in Figures!Spans(0, n)})
      /\ \A i, j \in 0 .. n : i <= j => e[i] - e[j] <= f[n]
  <2>1. (\A k \in 0 .. n : e[k] \in Int) /\ e[0] = 0 /\ h[0] = 0 /\ f[0] = 0
    BY <1>2, <1>5
  <2>2. ASSUME NEW k \in 1 .. n
        PROVE  /\ h[k] = IF h[k-1] > e[k] THEN h[k-1] ELSE e[k]
               /\ f[k] = IF f[k-1] > h[k] - e[k] THEN f[k-1] ELSE h[k] - e[k]
    <3>1. k \in 0 .. n /\ k - 1 \in 0 .. n
      BY <1>2
    <3>2. g[k].equity = E(k)
      BY <1>7, <3>1
    <3>. QED BY <1>4, <3>1, <3>2
  <2> HIDE DEF e, h, f
  <2>. QED BY <1>2, <2>1, <2>2, FallIsDeepest
<1>9. /\ s.fall = Figures!Max({E(p[1]) - E(p[2]) : p \in Figures!Spans(0, n)})
      /\ \A i, j \in 0 .. n : i <= j => E(i) - E(j) <= s.fall
  <2>1. f[n] = s.fall /\ \A k \in 0 .. n : e[k] = E(k)
    BY <1>1, <1>2
  <2>2. \A p \in Figures!Spans(0, n) : e[p[1]] = E(p[1]) /\ e[p[2]] = E(p[2])
    BY <2>1 DEF Figures!Spans
  <2> HIDE DEF e, f
  <2>3. {e[p[1]] - e[p[2]] : p \in Figures!Spans(0, n)} = {E(p[1]) - E(p[2]) : p \in Figures!Spans(0, n)}
    BY <2>2
  <2>. QED BY <1>8, <2>1, <2>3
<1> DEFINE W == {k \in 1 .. n : v(k) > 0}
           L == {k \in 1 .. n : v(k) < 0}
<1>10. s.wins = Figures!LongestRun(W, n)
  <2> DEFINE w == [k \in 0 .. n |-> IF g[k].streak > 0 THEN g[k].streak ELSE 0]
             b == [k \in 0 .. n |-> g[k].wins]
  <2>1. w[0] = 0 /\ b[0] = 0 /\ b[n] = s.wins
    BY <1>1, <1>2, <1>5
  <2>2. ASSUME NEW k \in 1 .. n
        PROVE  /\ w[k] = IF k \in W THEN w[k-1] + 1 ELSE 0
               /\ b[k] = IF b[k-1] > w[k] THEN b[k-1] ELSE w[k]
    <3>1. k \in 0 .. n /\ k - 1 \in 0 .. n
      BY <1>2
    <3>2. /\ g[k-1].streak \in Int /\ g[k-1].wins \in Nat /\ v(k) \in Int /\ g[k].streak \in Int
      BY <1>4 DEF Tallies
    <3>. QED BY <1>4, <3>1, <3>2
  <2> HIDE DEF w, b, W
  <2>3. W \in SUBSET (1 .. n)
    BY DEF W
  <2>. QED BY <1>2, <2>1, <2>2, <2>3, RunsAreLongest
<1>11. s.losses = Figures!LongestRun(L, n)
  <2> DEFINE w == [k \in 0 .. n |-> IF g[k].streak < 0 THEN -g[k].streak ELSE 0]
             b == [k \in 0 .. n |-> g[k].losses]
  <2>1. w[0] = 0 /\ b[0] = 0 /\ b[n] = s.losses
    BY <1>1, <1>2, <1>5
  <2>2. ASSUME NEW k \in 1 .. n
        PROVE  /\ w[k] = IF k \in L THEN w[k-1] + 1 ELSE 0
               /\ b[k] = IF b[k-1] > w[k] THEN b[k-1] ELSE w[k]
    <3>1. k \in 0 .. n /\ k - 1 \in 0 .. n
      BY <1>2
    <3>2. /\ g[k-1].streak \in Int /\ g[k-1].losses \in Nat /\ v(k) \in Int /\ g[k].streak \in Int
      BY <1>4 DEF Tallies
    <3>. QED BY <1>4, <3>1, <3>2
  <2> HIDE DEF w, b, L
  <2>3. L \in SUBSET (1 .. n)
    BY DEF L
  <2>. QED BY <1>2, <2>1, <2>2, <2>3, RunsAreLongest
<1>12. s \in Tallies /\ s.equity = E(n) /\ s.count = n
  <2>1. n \in 0 .. n
    BY <1>2
  <2>. QED BY <1>1, <1>6, <1>7, <2>1
<1> HIDE DEF W, L
<1>13. /\ s.equity = SumFunctionOnSet(Figures!Nets, Figures!Counted(S))
       /\ s.count = Cardinality(Figures!Counted(S))
  BY <1>2, <1>3, <1>12
<1>. QED BY <1>9, <1>10, <1>11, <1>12, <1>13 DEF v, E, o, n, s, W, L

\* The day of a moment is no later than that of a later one.
LEMMA DaysAreInOrder ==
  ASSUME NEW a \in Int, NEW b \in Int, a <= b
  PROVE  Figures!IndiaDate(a) <= Figures!IndiaDate(b)
<1> DEFINE x == a \div PerDay
           y == b \div PerDay
<1>1. PerDay \in Nat /\ PerDay > 0
  BY ReportsAssumption
<1>2. /\ x \in Int /\ y \in Int /\ PerDay * x <= a /\ b < PerDay * (y + 1)
  BY <1>1
<1>3. PerDay * x < PerDay * (y + 1)
  <2>1. PerDay * x \in Int /\ PerDay * (y + 1) \in Int
    BY <1>1, <1>2
  <2> HIDE DEF x, y
  <2>. QED BY <1>2, <2>1
<1> HIDE DEF x, y
<1>4. x < y + 1
  BY <1>1, <1>2, <1>3
<1>5. x <= y
  BY <1>2, <1>4
<1>. QED BY <1>5 DEF x, y, Figures!IndiaDate

\* The days of a selection, and its realized trades, are finite in number.
LEMMA DaysTyped ==
  ASSUME ReportInv, NEW S \in SUBSET DOMAIN reported
  PROVE  /\ Figures!Counted(S) \in SUBSET DOMAIN reported
         /\ IsFiniteSet(Figures!Counted(S))
         /\ Figures!ActiveDays(S) \in SUBSET Int
         /\ IsFiniteSet(Figures!ActiveDays(S))
<1> DEFINE P == Figures!Counted(S)
           key == [i \in P |-> Figures!PnlDate(reported[i])]
<1>1. P \in SUBSET DOMAIN reported
  BY DEF Figures!Counted
<1>2. IsFiniteSet(P)
  BY <1>1, TradesTyped, FS_Subset
<1>3. \A i \in P : Figures!PnlDate(reported[i]) \in Int
  BY <1>1, TradesTyped, TradeTyped
<1>4. Figures!ActiveDays(S) = {key[i] : i \in P}
  BY DEF Figures!ActiveDays
<1> HIDE DEF P
<1>5. {key[i] : i \in P} \in SUBSET Int
  BY <1>3
<1> HIDE DEF key
<1>. QED BY <1>1, <1>2, <1>4, <1>5, FiniteImage DEF P

\* The running net of a day is that of the trades up to its end.
LEMMA RunningIsSoFar ==
  ASSUME ReportInv, NEW S \in SUBSET DOMAIN reported, NEW d \in Figures!ActiveDays(S)
  PROVE  Figures!Running(S, d)
           = SumFunctionOnSet(Figures!Nets,
                              {i \in Figures!Counted(S) : Figures!PnlDate(reported[i]) <= d})
<1> DEFINE P == Figures!Counted(S)
           days == Figures!ActiveDays(S)
           f == Figures!Nets
           key == [i \in P |-> Figures!PnlDate(reported[i])]
           C == {e \in days : e <= d}
           g == [e \in days |-> Figures!DayNet(S, e)]
           sofar == {i \in P : Figures!PnlDate(reported[i]) <= d}
<1>1. P \in SUBSET DOMAIN reported /\ IsFiniteSet(P) /\ IsFiniteSet(C)
  <2>1. C \in SUBSET days
    OBVIOUS
  <2> HIDE DEF C
  <2>. QED BY <2>1, DaysTyped, FS_Subset
<1>2. \A i \in P : f[i] \in Int
  BY <1>1, TradesTyped
<1>3. \A c \in C : g[c] = SumFunctionOnSet(f, {i \in P : key[i] = c})
  <2>. SUFFICES ASSUME NEW c \in C PROVE g[c] = SumFunctionOnSet(f, {i \in P : key[i] = c})
    OBVIOUS
  <2>1. {i \in P : key[i] = c} = {i \in P : Figures!PnlDate(reported[i]) = c}
    OBVIOUS
  <2>2. g[c] = SumFunctionOnSet(f, {i \in P : Figures!PnlDate(reported[i]) = c})
    BY ReportsSum DEF Figures!DayNet
  <2>. QED BY <2>1, <2>2
<1>4. {i \in P : key[i] \in C} = sofar
  BY DEF Figures!ActiveDays
<1>5. Figures!Running(S, d) = SumFunctionOnSet(g, C)
  BY ReportsSum DEF Figures!Running
<1> HIDE DEF P, f, key, C, g, sofar
<1>6. SumFunctionOnSet(g, C) = SumFunctionOnSet(f, Keyed(P, key, C))
  <2>1. Shared(P, f, key, C, g)
    BY <1>1, <1>2, <1>3 DEF Shared
  <2>. QED BY ONLY <2>1, SumPartition
<1>. QED BY <1>4, <1>5, <1>6 DEF P, f, sofar, Keyed

\* A day has a last trade, at which the equity is the running net of the day.
LEMMA DayEnds ==
  ASSUME ReportInv, NEW S \in SUBSET DOMAIN reported, NEW d \in Figures!ActiveDays(S)
  PROVE  \E m : /\ LastOfDay(S, d, m)
                /\ Figures!Running(S, d) = Figures!Equity(Figures!ByExit(S), m)
<1> DEFINE P == Figures!Counted(S)
           o == Figures!ByExit(S)
           n == Len(o)
           day(i) == Figures!PnlDate(reported[i])
           K == {k \in 1 .. n : day(o[k]) <= d}
<1>1. Sorted(S, o)
  BY ByExitSorts
<1>2. /\ n \in Nat /\ DOMAIN o = 1 .. n /\ d \in Int /\ P \in SUBSET DOMAIN reported
      /\ \A i \in P : day(i) \in Int /\ reported[i].ended \in Int
  <2>1. n \in Nat /\ DOMAIN o = 1 .. n
    BY EquityAdds
  <2> HIDE DEF o
  <2>2. d \in Int /\ P \in SUBSET DOMAIN reported
    BY DaysTyped
  <2>3. \A i \in P : day(i) \in Int /\ reported[i].ended \in Int
    BY <2>2, TradesTyped, TradeTyped
  <2>. QED BY <2>1, <2>2, <2>3
<1> HIDE DEF o
<1>3. /\ \A k \in 1 .. n : o[k] \in P
      /\ \A i \in P : \E k \in 1 .. n : o[k] = i
      /\ \A j, k \in 1 .. n : j < k => Figures!Earlier(o[j], o[k])
  BY <1>1, <1>2 DEF Sorted
<1>4. ASSUME NEW j \in 1 .. n, NEW k \in 1 .. n, j <= k PROVE day(o[j]) <= day(o[k])
  <2>1. CASE j = k
    BY <1>2, <1>3, <2>1
  <2>2. CASE j < k
    <3>1. Figures!Earlier(o[j], o[k]) /\ o[j] \in P /\ o[k] \in P
      BY <1>3, <2>2
    <3>2. /\ reported[o[j]].ended \in Int /\ reported[o[k]].ended \in Int
          /\ reported[o[j]].ended <= reported[o[k]].ended
      BY <1>2, <3>1 DEF Figures!Earlier
    <3>. QED BY <3>2, DaysAreInOrder DEF Figures!PnlDate
  <2>. QED BY <1>2, <1>4, <2>1, <2>2
<1>5. PICK i \in P : day(i) = d
  BY DEF Figures!ActiveDays
<1>6. PICK m \in K : \A k \in K : m >= k
  <2>1. K # {}
    BY <1>2, <1>3, <1>5
  <2>2. K \in SUBSET (1 .. n) /\ K \in SUBSET Int
    BY <1>2
  <2>3. IsFiniteSet(1 .. n)
    BY <1>2, FS_Interval
  <2> HIDE DEF K
  <2>4. IsFiniteSet(K)
    BY <2>2, <2>3, FS_Subset
  <2>. QED BY <2>1, <2>2, <2>4, LargestNumber
<1>7. LastOfDay(S, d, m)
  BY <1>2, <1>6 DEF LastOfDay, o
<1>8. {x \in P : day(x) <= d} = Passed(o, m)
  <2>1. ASSUME NEW x \in P, day(x) <= d PROVE x \in Passed(o, m)
    <3>1. PICK k \in 1 .. n : o[k] = x
      BY <1>3
    <3>2. k \in 1 .. m
      BY <1>2, <1>6, <2>1, <3>1
    <3>. QED BY <3>1, <3>2 DEF Passed
  <2>2. ASSUME NEW k \in 1 .. m PROVE o[k] \in P /\ day(o[k]) <= d
    <3>1. k \in 1 .. n /\ m \in 1 .. n /\ k <= m /\ day(o[m]) <= d
      BY <1>2, <1>6
    <3>2. day(o[k]) <= day(o[m]) /\ o[k] \in P /\ o[m] \in P
      BY <1>3, <1>4, <3>1
    <3>. QED BY <1>2, <3>1, <3>2
  <2>. QED BY <2>1, <2>2 DEF Passed
<1>9. Figures!Running(S, d) = SumFunctionOnSet(Figures!Nets, {x \in P : day(x) <= d})
  BY RunningIsSoFar
<1>10. Figures!Equity(o, m) = SumFunctionOnSet(Figures!Nets, Passed(o, m))
  <2>1. m \in 0 .. n
    BY <1>2, <1>6
  <2>. QED BY <2>1, EquityAdds DEF o
<1>. QED BY <1>7, <1>8, <1>9, <1>10 DEF o

\* The curve never falls deeper than the drawdown, and ends at the total.
LEMMA CurveAgrees ==
  ASSUME ReportInv, NEW S \in SUBSET DOMAIN reported
  PROVE  LET s == Figures!Statistics(S)
             days == Figures!ActiveDays(S)
             curve == Figures!Curve(S)
         IN /\ days # {} => curve[Figures!Max(days)].pnl = s.equity
            /\ \A d \in days : -curve[d].drawdown <= s.fall
<1> DEFINE s == Figures!Statistics(S)
           days == Figures!ActiveDays(S)
           o == Figures!ByExit(S)
           n == Len(o)
           E(k) == Figures!Equity(o, k)
           run(d) == Figures!Running(S, d)
<1>1. \A d \in days : \E m : LastOfDay(S, d, m) /\ run(d) = E(m)
  BY DayEnds
<1>2. /\ n \in Nat /\ E(0) = 0 /\ \A k \in 0 .. n : E(k) \in Int
      /\ E(n) = SumFunctionOnSet(Figures!Nets, Figures!Counted(S))
  BY EquityAdds
<1>3. /\ s.equity = E(n) /\ s.fall \in Int
      /\ \A i, j \in 0 .. n : i <= j => E(i) - E(j) <= s.fall
  BY StatisticsAre, EquityAdds DEF Tallies
<1>4. days \in SUBSET Int /\ IsFiniteSet(days)
  BY DaysTyped
<1>5. \A d \in days : run(d) \in Int
  BY <1>1, <1>2 DEF LastOfDay
<1>6. \A d \in days : Figures!Curve(S)[d].pnl = run(d)
                      /\ Figures!Curve(S)[d].drawdown = run(d) - Figures!Top(S, d)
  BY DEF Figures!Curve
<1>7. \A d, e \in days : \A k, m : e <= d /\ LastOfDay(S, e, k) /\ LastOfDay(S, d, m)
                                   => k \in 0 .. n /\ m \in 0 .. n /\ k <= m
  <2>. SUFFICES ASSUME NEW d \in days, NEW e \in days, NEW k, NEW m, e <= d,
                       LastOfDay(S, e, k), LastOfDay(S, d, m)
                PROVE  k \in 0 .. n /\ m \in 0 .. n /\ k <= m
    OBVIOUS
  <2>1. k \in 1 .. n /\ m \in 1 .. n /\ Figures!PnlDate(reported[o[k]]) <= e
    BY DEF LastOfDay
  <2>2. Figures!PnlDate(reported[o[k]]) \in Int
    <3>1. o[k] \in Figures!Counted(S)
      BY <1>2, <2>1, ByExitSorts DEF Sorted
    <3> HIDE DEF o
    <3>2. o[k] \in DOMAIN reported
      BY <3>1, DaysTyped
    <3>. QED BY <3>2, TradesTyped, TradeTyped
  <2>3. Figures!PnlDate(reported[o[k]]) <= d
    BY <1>4, <2>1, <2>2
  <2>4. k <= m
    BY <2>1, <2>3 DEF LastOfDay
  <2>. QED BY <1>2, <2>1, <2>4
<1> HIDE DEF s, days, o, n, E, run
<1>8. ASSUME NEW d \in days PROVE -Figures!Curve(S)[d].drawdown <= s.fall
  <2> DEFINE R == {e \in days : e <= d}
             f == [e \in days |-> run(e)]
             T == {0} \cup {f[e] : e \in R}
  <2>1. Figures!Top(S, d) = Figures!Max(T)
    <3>1. {f[e] : e \in R} = {run(e) : e \in R}
      OBVIOUS
    <3>. QED BY <3>1 DEF Figures!Top, days, run
  <2>2. T \in SUBSET Int /\ T # {}
    BY <1>5
  <2>3. IsFiniteSet(T)
    <3>1. R \in SUBSET days
      OBVIOUS
    <3> HIDE DEF R
    <3>2. IsFiniteSet(R)
      BY <1>4, <3>1, FS_Subset
    <3> HIDE DEF f
    <3>3. IsFiniteSet({f[e] : e \in R})
      BY <3>2, FiniteImage
    <3>4. IsFiniteSet({0})
      BY FS_Singleton
    <3>. QED BY <3>3, <3>4, FS_Union
  <2>4. PICK x \in T : \A y \in T : x >= y
    <3> HIDE DEF T
    <3>. QED BY <2>2, <2>3, LargestNumber
  <2>5. Figures!Top(S, d) = x
    <3> HIDE DEF T
    <3>. QED BY <2>1, <2>2, <2>4, LargestIs
  <2>6. PICK m : LastOfDay(S, d, m) /\ run(d) = E(m)
    BY <1>1
  <2>7. m \in 0 .. n
    BY <1>4, <1>7, <2>6
  <2>8. \E k \in 0 .. n : k <= m /\ x = E(k)
    <3>1. CASE x = 0
      BY <1>2, <2>7, <3>1
    <3>2. CASE x # 0
      <4>1. PICK e \in R : x = run(e)
        BY <2>4, <3>2
      <4>2. PICK k : LastOfDay(S, e, k) /\ run(e) = E(k)
        BY <1>1, <4>1
      <4>. QED BY <1>7, <2>6, <4>1, <4>2
    <3>. QED BY <3>1, <3>2
  <2>9. x - E(m) <= s.fall
    BY <1>3, <2>7, <2>8
  <2>10. x \in Int /\ E(m) \in Int
    BY <1>2, <2>2, <2>4, <2>7
  <2>. QED BY <1>3, <1>6, <2>5, <2>6, <2>9, <2>10
<1>9. ASSUME days # {} PROVE Figures!Curve(S)[Figures!Max(days)].pnl = s.equity
  <2>1. PICK x \in days : \A y \in days : x >= y
    BY <1>4, <1>9, LargestNumber
  <2>2. Figures!Max(days) = x
    BY <1>4, <2>1, LargestIs
  <2>3. run(x) = SumFunctionOnSet(Figures!Nets,
                   {i \in Figures!Counted(S) : Figures!PnlDate(reported[i]) <= x})
    BY <2>1, RunningIsSoFar DEF run, days
  <2>4. {i \in Figures!Counted(S) : Figures!PnlDate(reported[i]) <= x} = Figures!Counted(S)
    <3>1. \A i \in Figures!Counted(S) : Figures!PnlDate(reported[i]) \in days
      BY DEF Figures!ActiveDays, days
    <3>. QED BY <1>4, <2>1, <3>1
  <2>. QED BY <1>2, <1>3, <1>6, <2>1, <2>2, <2>3, <2>4
<1>. QED BY <1>8, <1>9 DEF s, days

\* The trades of a setup that are realized, and what their statistics say.
LEMMA GroupOf ==
  ASSUME ReportInv, NEW x
  PROVE  LET G == {i \in Figures!Counted(DOMAIN reported) : reported[i].setup = x}
             s == Figures!Statistics(Figures!Group(DOMAIN reported, x))
         IN /\ Figures!Group(Figures!Closed(DOMAIN reported), x) = G
            /\ s.equity = SumFunctionOnSet(Figures!Nets, G)
            /\ s.count = Cardinality(G)
<1> DEFINE S == Figures!Group(DOMAIN reported, x)
           G == {i \in Figures!Counted(DOMAIN reported) : reported[i].setup = x}
<1>1. S \in SUBSET DOMAIN reported
  BY DEF Figures!Group
<1>2. Figures!Counted(S) = G
  BY DEF Figures!Group, Figures!Counted
<1>3. \A i \in DOMAIN reported : Figures!Realized(reported[i]) <=> reported[i].closed > 0
  BY TradesTyped, TradeTyped
<1>4. Figures!Group(Figures!Closed(DOMAIN reported), x) = G
  BY <1>3 DEF Figures!Group, Figures!Closed, Figures!Counted
<1>5. /\ Figures!Statistics(S).equity = SumFunctionOnSet(Figures!Nets, Figures!Counted(S))
      /\ Figures!Statistics(S).count = Cardinality(Figures!Counted(S))
  BY <1>1, StatisticsAre
<1>. QED BY <1>2, <1>4, <1>5

\* The groups share out the total and the trades.
LEMMA GroupsAgree ==
  ASSUME ReportInv
  PROVE  LET all == DOMAIN reported
             s == Figures!Statistics(all)
             row(x) == Figures!Statistics(Figures!Group(all, x))
         IN /\ s.equity = SumFunctionOnSet([x \in Setups |-> row(x).equity], Setups)
            /\ s.count = SumFunctionOnSet([x \in Setups |-> row(x).count], Setups)
<1> DEFINE all == DOMAIN reported
           s == Figures!Statistics(all)
           P == Figures!Counted(all)
           row(x) == Figures!Statistics(Figures!Group(all, x))
           f == Figures!Nets
           ones == [i \in P |-> 1]
           key == [i \in P |-> reported[i].setup]
           equities == [x \in Setups |-> row(x).equity]
           counts == [x \in Setups |-> row(x).count]
<1>1. P \in SUBSET all /\ IsFiniteSet(P) /\ IsFiniteSet(Setups)
  BY DaysTyped, ReportsAssumption
<1>2. \A i \in P : f[i] \in Int /\ reported[i].setup \in Setups
  BY <1>1, TradesTyped, TradeTyped
<1>3. ASSUME NEW x \in Setups
      PROVE  /\ equities[x] = SumFunctionOnSet(f, {i \in P : key[i] = x})
             /\ counts[x] = SumFunctionOnSet(ones, {i \in P : key[i] = x})
  <2> DEFINE G == {i \in P : reported[i].setup = x}
  <2>1. {i \in P : key[i] = x} = G
    OBVIOUS
  <2>2. row(x).equity = SumFunctionOnSet(f, G) /\ row(x).count = Cardinality(G)
    BY GroupOf
  <2>3. Cardinality(G) = SumFunctionOnSet(ones, G)
    <3>1. G \in SUBSET P /\ \A i \in G : ones[i] = 1
      OBVIOUS
    <3> HIDE DEF G, ones
    <3>2. IsFiniteSet(G)
      BY <1>1, <3>1, FS_Subset
    <3>. QED BY <3>1, <3>2, SumCount
  <2>. QED BY <2>1, <2>2, <2>3
<1>4. Keyed(P, key, Setups) = P
  BY <1>2 DEF Keyed
<1>5. \A i \in P : ones[i] = 1
  OBVIOUS
<1>6. s.equity = SumFunctionOnSet(f, P) /\ s.count = Cardinality(P)
  BY StatisticsAre
<1> HIDE DEF P, f, ones, key, equities, counts, s
<1>7. Shared(P, f, key, Setups, equities) /\ Shared(P, ones, key, Setups, counts)
  BY <1>1, <1>2, <1>3, <1>5 DEF Shared
<1>8. /\ SumFunctionOnSet(equities, Setups) = SumFunctionOnSet(f, P)
      /\ SumFunctionOnSet(counts, Setups) = SumFunctionOnSet(ones, P)
  BY ONLY <1>4, <1>7, SumPartition
<1>9. SumFunctionOnSet(ones, P) = Cardinality(P)
  BY <1>1, <1>5, SumCount
<1>. QED BY <1>6, <1>8, <1>9 DEF equities, counts, s

\* The coach's weakest setup is charged with what its group has lost.
LEMMA WeakestAgrees ==
  ASSUME ReportInv, NEW i \in Figures!Weakest(DOMAIN reported)
  PROVE  Figures!Impact(Figures!Weakest(DOMAIN reported))
           = Figures!Higher(0, -Figures!Statistics(
                                  Figures!Group(DOMAIN reported, reported[i].setup)).equity)
<1> DEFINE all == DOMAIN reported
           W == Figures!Weakest(all)
           x == reported[i].setup
<1>1. \E y : W = Figures!Group(Figures!Closed(all), y)
  BY DEF Figures!Weakest
<1>2. W = Figures!Group(Figures!Closed(all), x)
  BY <1>1 DEF Figures!Group
<1>3. Figures!Statistics(Figures!Group(all, x)).equity = SumFunctionOnSet(Figures!Nets, W)
  BY <1>2, GroupOf
<1>4. Figures!Total(W) = SumFunctionOnSet(Figures!Nets, W)
  BY ReportsSum DEF Figures!Total
<1>. QED BY <1>3, <1>4 DEF Figures!Impact

\* Two parts that share nothing hold as many as the whole.
LEMMA Halves ==
  ASSUME NEW S, IsFiniteSet(S), NEW A, NEW B, A \cup B = S, A \cap B = {}
  PROVE  /\ Cardinality(S) = Cardinality(A) + Cardinality(B)
         /\ Cardinality(A) \in Nat /\ Cardinality(B) \in Nat
<1>1. IsFiniteSet(A) /\ IsFiniteSet(B)
  BY FS_Subset
<1>2. Cardinality(S) = Cardinality(A) + Cardinality(B) - Cardinality({})
  BY <1>1, FS_Union
<1>3. Cardinality({}) = 0
  BY FS_EmptySet
<1>. QED BY <1>1, <1>2, <1>3, FS_CardinalityType

\* The counts of the metrics.
LEMMA CountsAreAsTold ==
  ASSUME ReportInv
  PROVE  LET m == Figures!Metrics(DOMAIN reported)
             With(s) == Cardinality({i \in DOMAIN reported : reported[i].status = s})
         IN /\ m.count + m.open = m.positions + With("Partial") - With("Canceled")
            /\ m.wins + m.losses + m.even = m.count
<1> DEFINE all == DOMAIN reported
           m == Figures!Metrics(all)
           P == Figures!Counted(all)
           O == {i \in all : reported[i].status \in {"Open", "Partial"}}
           Of(s) == {i \in all : reported[i].status = s}
           wins == {i \in P : Figures!Net(reported[i]) > 0}
           losses == {i \in P : Figures!Net(reported[i]) < 0}
           even == {i \in P : Figures!Net(reported[i]) = 0}
<1>1. /\ m.positions = Cardinality(all) /\ m.count = Cardinality(P) /\ m.open = Cardinality(O)
      /\ m.wins = Cardinality(wins) /\ m.losses = Cardinality(losses) /\ m.even = Cardinality(even)
  BY ReportsCardinality DEF Figures!Metrics
<1>2. /\ IsFiniteSet(all) /\ IsFiniteSet(P) /\ P \in SUBSET all
      /\ \A i \in all : /\ reported[i].status \in {"Open", "Closed", "Partial", "Canceled"}
                        /\ i \in P <=> reported[i].status \in {"Closed", "Partial"}
                        /\ Figures!Net(reported[i]) \in Int
  <2>1. IsFiniteSet(all) /\ IsFiniteSet(P) /\ P \in SUBSET all
    BY TradesTyped, DaysTyped
  <2>2. ASSUME NEW i \in all
        PROVE  /\ reported[i].status \in {"Open", "Closed", "Partial", "Canceled"}
               /\ i \in P <=> reported[i].status \in {"Closed", "Partial"}
               /\ Figures!Net(reported[i]) \in Int
    BY TradesTyped, TradeTyped DEF Figures!Counted
  <2>. QED BY <2>1, <2>2
<1>3. /\ Of("Closed") \cup Of("Partial") = P /\ Of("Closed") \cap Of("Partial") = {}
      /\ Of("Open") \cup Of("Partial") = O /\ Of("Open") \cap Of("Partial") = {}
      /\ P \cup (Of("Open") \cup Of("Canceled")) = all
      /\ P \cap (Of("Open") \cup Of("Canceled")) = {}
      /\ Of("Open") \cap Of("Canceled") = {}
  BY <1>2
<1>4. /\ wins \cup (losses \cup even) = P /\ wins \cap (losses \cup even) = {}
      /\ losses \cap even = {}
  BY <1>2
<1>5. O \in SUBSET all /\ Of("Open") \cup Of("Canceled") \in SUBSET all
      /\ losses \cup even \in SUBSET P
  OBVIOUS
<1> HIDE DEF all, m, P, O, Of, wins, losses, even
<1>6. /\ IsFiniteSet(O) /\ IsFiniteSet(Of("Open") \cup Of("Canceled"))
      /\ IsFiniteSet(losses \cup even)
  BY <1>2, <1>5, FS_Subset
<1>7. /\ Cardinality(P) = Cardinality(Of("Closed")) + Cardinality(Of("Partial"))
      /\ Cardinality(Of("Closed")) \in Nat /\ Cardinality(Of("Partial")) \in Nat
  BY <1>2, <1>3, Halves
<1>8. /\ Cardinality(O) = Cardinality(Of("Open")) + Cardinality(Of("Partial"))
      /\ Cardinality(Of("Open")) \in Nat
  BY <1>3, <1>6, Halves
<1>9. /\ Cardinality(all) = Cardinality(P) + Cardinality(Of("Open") \cup Of("Canceled"))
      /\ Cardinality(Of("Open") \cup Of("Canceled"))
           = Cardinality(Of("Open")) + Cardinality(Of("Canceled"))
      /\ Cardinality(Of("Canceled")) \in Nat
  <2> DEFINE rest == Of("Open") \cup Of("Canceled")
  <2>1. /\ Cardinality(rest) = Cardinality(Of("Open")) + Cardinality(Of("Canceled"))
        /\ Cardinality(Of("Canceled")) \in Nat
    BY <1>3, <1>6, Halves
  <2>2. P \cup rest = all /\ P \cap rest = {}
    BY <1>3
  <2> HIDE DEF rest
  <2>3. Cardinality(all) = Cardinality(P) + Cardinality(rest)
    BY <1>2, <2>2, Halves
  <2>. QED BY <2>1, <2>3 DEF rest
<1>10. /\ Cardinality(P) = Cardinality(wins) + Cardinality(losses \cup even)
       /\ Cardinality(losses \cup even) = Cardinality(losses) + Cardinality(even)
       /\ Cardinality(wins) \in Nat /\ Cardinality(losses) \in Nat /\ Cardinality(even) \in Nat
  BY <1>2, <1>4, <1>6, Halves
<1>11. m.count + m.open = m.positions + Cardinality(Of("Partial")) - Cardinality(Of("Canceled"))
  BY <1>1, <1>7, <1>8, <1>9
<1>12. m.wins + m.losses + m.even = m.count
  BY <1>1, <1>10
<1>. QED BY <1>11, <1>12 DEF all, m, Of

\* The sums of the metrics.
LEMMA SumsAreAsTold ==
  ASSUME ReportInv
  PROVE  LET m == Figures!Metrics(DOMAIN reported) IN
         /\ Figures!Statistics(DOMAIN reported).equity = m.profit - m.loss
         /\ m.profit - m.loss = m.gross - m.fees
<1> DEFINE all == DOMAIN reported
           m == Figures!Metrics(all)
           P == Figures!Counted(all)
           f == Figures!Nets
           g == [i \in all |-> Figures!Gross(reported[i])]
           h == [i \in all |-> reported[i].cost * reported[i].closed]
           wins == {i \in P : Figures!Net(reported[i]) > 0}
           losses == {i \in P : Figures!Net(reported[i]) < 0}
           even == {i \in P : Figures!Net(reported[i]) = 0}
<1>1. /\ m.profit = SumFunctionOnSet(f, wins) /\ m.loss = -SumFunctionOnSet(f, losses)
      /\ m.gross = SumFunctionOnSet(g, P) /\ m.fees = SumFunctionOnSet(h, P)
  BY ReportsSum DEF Figures!Metrics
<1>2. P \in SUBSET all /\ IsFiniteSet(P)
  BY DaysTyped
<1>3. \A i \in P : /\ f[i] = Figures!Net(reported[i]) /\ f[i] \in Int
                   /\ g[i] \in Int /\ h[i] \in Int /\ f[i] = g[i] - h[i]
  BY <1>2, TradesTyped, TradeTyped
<1>4. /\ wins \cup (losses \cup even) = P /\ wins \cap (losses \cup even) = {}
      /\ losses \cap even = {} /\ \A i \in even : f[i] = 0
  <2>1. \A i \in P : Figures!Net(reported[i]) = f[i] /\ f[i] \in Int
    BY <1>3
  <2> HIDE DEF f, P
  <2>2. /\ wins = {i \in P : f[i] > 0} /\ losses = {i \in P : f[i] < 0}
        /\ even = {i \in P : f[i] = 0}
    BY <2>1
  <2> HIDE DEF wins, losses, even
  <2>. QED BY <2>1, <2>2
<1>5. Figures!Statistics(all).equity = SumFunctionOnSet(f, P)
  BY StatisticsAre
<1> HIDE DEF all, m, P, f, g, h, wins, losses, even
<1>6. IsFiniteSet(wins) /\ IsFiniteSet(losses \cup even) /\ IsFiniteSet(losses) /\ IsFiniteSet(even)
  BY <1>2, <1>4, FS_Subset
<1>7. SumFunctionOnSet(f, P) = SumFunctionOnSet(f, wins) + SumFunctionOnSet(f, losses \cup even)
  <2>1. \A i \in wins \cup (losses \cup even) : f[i] \in Int
    BY <1>3, <1>4
  <2>. QED BY <1>4, <1>6, <2>1, SumUnion
<1>8. SumFunctionOnSet(f, losses \cup even) = SumFunctionOnSet(f, losses) + SumFunctionOnSet(f, even)
  <2>1. \A i \in losses \cup even : f[i] \in Int
    BY <1>3, <1>4
  <2>. QED BY <1>4, <1>6, <2>1, SumUnion
<1>9. SumFunctionOnSet(f, even) = 0
  BY <1>4, <1>6, SumZero
<1>10. SumFunctionOnSet(f, losses) \in Int /\ SumFunctionOnSet(f, wins) \in Int
  <2>1. (\A i \in losses : f[i] \in Int) /\ \A i \in wins : f[i] \in Int
    BY <1>3, <1>4
  <2>. QED BY <1>6, <2>1, SumType
<1>11. SumFunctionOnSet(f, P) = SumFunctionOnSet(g, P) - SumFunctionOnSet(h, P)
  BY <1>2, <1>3, SumMinus
<1>12. Figures!Statistics(all).equity = m.profit - m.loss
  BY <1>1, <1>5, <1>7, <1>8, <1>9, <1>10
<1>13. m.profit - m.loss = m.gross - m.fees
  BY <1>1, <1>5, <1>11, <1>12
<1>. QED BY <1>12, <1>13 DEF all, m

\* Closing a part at the mark makes and loses nothing.
LEMMA ClosingMakesNothing ==
  ASSUME NEW t \in Figures!Accepted, Figures!Realized(t), t.exit = Mark
  PROVE  Figures!Worth(t) = (Mark - Entry) * Quantity * t.side - t.cost * Quantity
<1> DEFINE c == t.closed
           r == Quantity - t.closed
           gain == Mark - Entry
<1>1. /\ c \in Int /\ t.cost \in Int /\ t.side \in {1, -1} /\ t.status # "Canceled"
      /\ Quantity \in Int /\ Entry \in Int /\ Mark \in Int
  BY TradeTyped, ReportsAssumption DEF Figures!Realized
<1>2. /\ Figures!Net(t) = gain * c * t.side - t.cost * c
      /\ Figures!Unrealized(t) = gain * r * t.side - t.cost * r
  BY <1>1 DEF Figures!Net, Figures!Gross, Figures!Unrealized, Figures!Remaining
<1>3. /\ r \in Int /\ gain \in Int /\ Quantity = c + r
  BY <1>1
<1> HIDE DEF c, r, gain
<1>4. /\ gain * Quantity = gain * c + gain * r
      /\ t.cost * Quantity = t.cost * c + t.cost * r
  BY <1>1, <1>3
<1>5. gain * c \in Int /\ gain * r \in Int /\ t.cost * c \in Int /\ t.cost * r \in Int
  BY <1>1, <1>3
<1>6. gain * Quantity * t.side = gain * c * t.side + gain * r * t.side
  <2>1. CASE t.side = 1
    BY <1>4, <1>5, <2>1
  <2>2. CASE t.side = -1
    BY <1>4, <1>5, <2>2
  <2>. QED BY <1>1, <2>1, <2>2
<1>7. gain * c * t.side \in Int /\ gain * r * t.side \in Int
  BY <1>1, <1>5
<1>. QED BY <1>2, <1>4, <1>5, <1>6, <1>7 DEF Figures!Worth, gain

\* The figures of accepted trades are right.
LEMMA AcceptedIsRight ==
  ASSUME ReportInv
  PROVE  Figures!ReportIsRight
<1>1. Figures!ClosingIsNeutral
  <2>1. \A i \in DOMAIN reported : reported[i] \in Figures!Accepted
    BY TradesTyped
  <2>. QED BY <2>1, ClosingMakesNothing DEF Figures!ClosingIsNeutral
<1>2. Figures!FiguresAreTheirNames
  <2> DEFINE o == Figures!ByExit(DOMAIN reported)
             s == Figures!Statistics(DOMAIN reported)
             n == Len(o)
  <2>1. DOMAIN o = 1 .. n
    BY EquityAdds
  <2>2. /\ s.fall = Figures!Max({Figures!Equity(o, p[1]) - Figures!Equity(o, p[2]) :
                                   p \in Figures!Spans(0, n)})
        /\ s.wins = Figures!LongestRun({k \in 1 .. n : Figures!Net(reported[o[k]]) > 0}, n)
        /\ s.losses = Figures!LongestRun({k \in 1 .. n : Figures!Net(reported[o[k]]) < 0}, n)
    BY StatisticsAre
  <2>. QED BY <2>1, <2>2 DEF Figures!FiguresAreTheirNames
<1>3. Figures!ReportsAgree
  <2>1. /\ Figures!ActiveDays(DOMAIN reported) # {} =>
             Figures!Curve(DOMAIN reported)[Figures!Max(Figures!ActiveDays(DOMAIN reported))].pnl
               = Figures!Statistics(DOMAIN reported).equity
        /\ \A d \in Figures!ActiveDays(DOMAIN reported) :
             -Figures!Curve(DOMAIN reported)[d].drawdown
               <= Figures!Statistics(DOMAIN reported).fall
    BY CurveAgrees
  <2>2. /\ Figures!Statistics(DOMAIN reported).equity
             = Figures!SumFunctionOnSet(
                 [g \in Setups |-> Figures!Statistics(Figures!Group(DOMAIN reported, g)).equity],
                 Setups)
        /\ Figures!Statistics(DOMAIN reported).count
             = Figures!SumFunctionOnSet(
                 [g \in Setups |-> Figures!Statistics(Figures!Group(DOMAIN reported, g)).count],
                 Setups)
    BY GroupsAgree, ReportsSum
  <2>3. \A i \in Figures!Weakest(DOMAIN reported) :
          Figures!Impact(Figures!Weakest(DOMAIN reported))
            = Figures!Higher(0, -Figures!Statistics(
                                   Figures!Group(DOMAIN reported, reported[i].setup)).equity)
    BY WeakestAgrees
  <2>. QED BY ONLY <2>1, <2>2, <2>3 DEF Figures!ReportsAgree
<1>4. Figures!MetricsAreAsTold
  BY CountsAreAsTold, SumsAreAsTold, ReportsCardinality DEF Figures!MetricsAreAsTold
<1>. QED BY <1>1, <1>2, <1>3, <1>4 DEF Figures!ReportIsRight

\* The trades of a report remain accepted.
LEMMA ReportKeeps ==
  ASSUME ReportInv, [Next]_vars
  PROVE  ReportInv'
<1>1. CASE Only("reports") /\ Figures!Next
  <2>1. ASSUME NEW t \in Figures!Accepted, Figures!Record(t) PROVE ReportInv'
    BY <2>1, AppendProperties DEF ReportInv, Figures!Record
  <2>2. ASSUME NEW t \in Figures!Accepted, NEW i \in DOMAIN reported, Figures!Revise(i, t)
        PROVE  ReportInv'
    <3>1. reported' = [reported EXCEPT ![i] = t] /\ i \in 1 .. Len(reported)
      BY <2>2, TradesTyped DEF Figures!Revise
    <3>. QED BY <3>1, ExceptSeq DEF ReportInv
  <2>3. ASSUME NEW i \in DOMAIN reported, Figures!Remove1(i) PROVE ReportInv'
    <3> DEFINE A == Figures!Accepted
    <3>1. /\ reported \in Seq(A) /\ Len(reported) \in Nat /\ i \in 1 .. Len(reported)
          /\ reported' = SubSeq(reported, 1, i-1) \o SubSeq(reported, i+1, Len(reported))
      BY <2>3, TradesTyped DEF Figures!Remove1, Figures!RemoveAt, ReportInv
    <3> HIDE DEF A
    <3>2. SubSeq(reported, 1, i-1) \in Seq(A) /\ SubSeq(reported, i+1, Len(reported)) \in Seq(A)
      <4>1. /\ \A k \in 1 .. i-1 : reported[k] \in A
            /\ \A k \in i+1 .. Len(reported) : reported[k] \in A
        BY <3>1, ElementOfSeq
      <4>. QED BY <3>1, <4>1, SubSeqProperties
    <3>3. reported' \in Seq(A)
      BY <3>1, <3>2, ConcatProperties
    <3>. QED BY <3>3 DEF ReportInv, A, Figures!Accepted, Figures!Shapes
  <2>. QED BY <1>1, <2>1, <2>2, <2>3 DEF Figures!Next
<1>2. ASSUME UNCHANGED reported PROVE ReportInv'
  BY <1>2 DEF ReportInv
<1>. QED BY <1>1, <1>2 DEF Next, Only, vars

\* All of it holds always.
LEMMA ReportInvariance == Spec => []ReportInv
<1>1. Init => ReportInv
  BY EmptySeq DEF Init, Figures!Init, ReportInv
<1>2. ReportInv /\ [Next]_vars => ReportInv'
  BY ReportKeeps
<1>. QED BY <1>1, <1>2, PTL DEF Spec

\* ReportIsRight, of every list of accepted trades, as it is added to and
\* revised: the fall and the runs that one pass finds are the deepest and the
\* longest, the daily curve, the groups and the coach agree with the
\* statistics, and the metrics are what the writer is told (analytics.py).
THEOREM ReportAlwaysRight == Spec => []ReportIsRight
<1>1. ReportInv => ReportIsRight
  BY AcceptedIsRight DEF ReportIsRight
<1>. QED BY <1>1, ReportInvariance, PTL

-----------------------------------------------------------------------------
(* The services.                                                           *)

\* The state of every component is of its type: whatever its actors do, no
\* counter leaves its bounds, and no request, page, row or answer is of
\* another shape than the code's.
THEOREM AlwaysTyped == Spec => []TypeOK
<1>1. Inv => Calls!TypeOK
  BY DEF Inv
<1>2. Within => Policy!TypeOK
  BY DEF Within
<1>3. ReportInv => Figures!TypeOK
  BY DEF ReportInv, Figures!TypeOK
<1>4. Calls!TypeOK /\ Stream!TypeOK /\ Administration!TypeOK /\ Desk!TypeOK /\ Trading!TypeOK
        /\ Tours!TypeOK /\ Replay!TypeOK /\ Figures!TypeOK /\ Answering!TypeOK /\ Policy!TypeOK
      => TypeOK
  BY DEF TypeOK
<1>. QED BY <1>1, <1>2, <1>3, <1>4, CallsInvariance, StreamTypes, AdminTyped, DeskTyped,
         JournalTyped, TourTyped, PracticeTyped, ReportInvariance, EvidenceTyped,
         PricingInvariance, PTL
=============================================================================
