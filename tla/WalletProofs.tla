---------------------------- MODULE WalletProofs ----------------------------
(***************************************************************************)
(* The ledger of module Wallet, for any jobs, purchases, requests, amounts *)
(* and allowances.                                                         *)
(*                                                                         *)
(* The invariant is Inv: the buckets and the ledger (Sound), the month     *)
(* (Monthly) and the counter `spent' (Spending).  The proof goes along the *)
(* code: what append does to each of the three when it posts an entry that *)
(* is Lawful; get_wallet, whose entries are not; the loop that releases a  *)
(* settled job's holds, by induction over the holds; then every operation  *)
(* Answers with the wallet it read or with one lawful entry more.          *)
(***************************************************************************)
EXTENDS Wallet, SumTheorems, TLAPS

\* What an entry is, by its kind: a hold takes credits for a job, and a job is
\* settled or refunded under one key.
HasShape(e) ==
  /\ e.key.kind = "reserve" =>
       e.key.of \in Jobs /\ e.free <= 0 /\ e.purchased <= 0 /\ e.free + e.purchased < 0
  /\ e.key.kind \in {"settle", "refund"} => e.key.of \in Jobs /\ e.key.n = 0

\* The buckets and the ledger, whatever the month.
Sound(w) ==
  /\ w \in WalletRows /\ HasDistinctKeys(w.ledger) /\ IsChained(w)
  /\ ExplainsBuckets(w) /\ OwesReversals(w)
  /\ \A i \in DOMAIN w.ledger : HasShape(w.ledger[i])
  /\ \A i \in Positions(w.ledger, "settle") : SettlesFairly(w.ledger, i)

\* The month: its allocation and the months of the entries.
Dated(w) ==
  \A i \in DOMAIN w.ledger :
    /\ w.ledger[i].month <= w.month
    /\ w.ledger[i].key.kind = "free" => w.ledger[i].key.of \in 0 .. w.month
    /\ w.ledger[i].key.kind = "expire" => w.ledger[i].key.of \in 0 .. w.month - 1

Monthly(w) ==
  /\ Dated(w)
  /\ w.month = NoMonth => w.ledger = <<>>
  /\ MintsNothing(w)

\* The counter, with what open jobs may still give back to it.
Spending(w) ==
  /\ ExplainsSpent(w)
  /\ w.spent >= SumFunctionOnSet(Taken(w.ledger), OpenHolds(w.ledger))

Good(w) == Sound(w) /\ Monthly(w) /\ Spending(w)

Inv == clock \in Nat /\ clock >= 1 /\ wallet.month <= clock /\ Good(wallet)
-----------------------------------------------------------------------------
(* A ledger and the same ledger with an entry more.                        *)

Longer(m, l, e) ==
  /\ l \in Seq(Entries) /\ m \in Seq(Entries) /\ e \in Entries
  /\ Len(l) \in Nat /\ Len(m) = Len(l) + 1
  /\ DOMAIN l = 1 .. Len(l) /\ DOMAIN m = 1 .. Len(l) + 1
  /\ m[Len(l) + 1] = e /\ \A i \in DOMAIN l : m[i] = l[i]

\* Appending makes it longer.
LEMMA AppendLonger ==
  ASSUME NEW l \in Seq(Entries), NEW e \in Entries
  PROVE  Longer(Append(l, e), l, e)
  BY DEF Longer

\* Every set of positions is finite.
LEMMA PositionsFinite ==
  ASSUME NEW l \in Seq(Entries), NEW S \in SUBSET DOMAIN l
  PROVE  IsFiniteSet(S)
<1>1. IsFiniteSet(DOMAIN l)
  <2>1. DOMAIN l = 1 .. Len(l) /\ Len(l) \in Nat
    OBVIOUS
  <2>. QED BY <2>1, FS_Interval
<1>. QED BY <1>1, FS_Subset

\* The columns of an entry.
LEMMA EntryTypes ==
  ASSUME NEW e \in Entries
  PROVE  /\ e.free \in Int /\ e.purchased \in Int /\ e.after \in Int /\ e.month \in Nat
         /\ e.charged \in Int /\ e.failed \in BOOLEAN /\ e.key \in EntryKeys
         /\ e.key.kind \in Kinds /\ e.key.n \in Nat
  BY DEF Entries, EntryKeys

\* What is added up over a ledger, at a position.
LEMMA Values ==
  ASSUME NEW l \in Seq(Entries), NEW i \in DOMAIN l
  PROVE  /\ Free(l)[i] = l[i].free /\ Free(l)[i] \in Int
         /\ Purchased(l)[i] = l[i].purchased /\ Purchased(l)[i] \in Int
         /\ Taken(l)[i] = 0 - l[i].free - l[i].purchased /\ Taken(l)[i] \in Int
         /\ PurchasedTaken(l)[i] = 0 - l[i].purchased /\ PurchasedTaken(l)[i] \in Int
         /\ Reversed(l)[i] = (IF l[i].purchased < 0 THEN 0 - l[i].purchased ELSE 0)
         /\ Reversed(l)[i] \in Int /\ Reversed(l)[i] >= 0
         /\ Given(l)[i] = l[i].free + l[i].purchased /\ Given(l)[i] \in Int
<1>1. l[i] \in Entries
  OBVIOUS
<1>2. l[i].free \in Int /\ l[i].purchased \in Int
  BY <1>1, EntryTypes
<1>. QED BY <1>2 DEF Free, Purchased, Taken, PurchasedTaken, Reversed, Given

\* The same for the free credits of a month.
LEMMA FreeTakenValue ==
  ASSUME NEW l \in Seq(Entries), NEW i \in DOMAIN l, NEW month
  PROVE  /\ FreeTaken(l, month)[i] = (IF l[i].month = month THEN 0 - l[i].free ELSE 0)
         /\ FreeTaken(l, month)[i] \in Int
<1>1. l[i] \in Entries
  OBVIOUS
<1>2. l[i].free \in Int
  BY <1>1, EntryTypes
<1>. QED BY <1>2 DEF FreeTaken

\* An old position keeps its values.
LEMMA ValuesKept ==
  ASSUME NEW l, NEW m, NEW e, Longer(m, l, e), NEW i \in DOMAIN l
  PROVE  /\ Free(m)[i] = Free(l)[i] /\ Free(l)[i] \in Int
         /\ Purchased(m)[i] = Purchased(l)[i] /\ Purchased(l)[i] \in Int
         /\ Taken(m)[i] = Taken(l)[i] /\ Taken(l)[i] \in Int
         /\ PurchasedTaken(m)[i] = PurchasedTaken(l)[i] /\ PurchasedTaken(l)[i] \in Int
         /\ Reversed(m)[i] = Reversed(l)[i] /\ Reversed(l)[i] \in Int
         /\ Given(m)[i] = Given(l)[i] /\ Given(l)[i] \in Int
<1>1. l \in Seq(Entries) /\ m \in Seq(Entries) /\ i \in DOMAIN m /\ m[i] = l[i]
  BY DEF Longer
<1>2. /\ Free(l)[i] \in Int /\ Purchased(l)[i] \in Int /\ Taken(l)[i] \in Int
      /\ PurchasedTaken(l)[i] \in Int /\ Reversed(l)[i] \in Int /\ Given(l)[i] \in Int
  BY <1>1, Values
<1>3. i \in DOMAIN l
  OBVIOUS
<1>. QED BY <1>1, <1>2, <1>3 DEF Free, Purchased, Taken, PurchasedTaken, Reversed, Given

\* The same for the free credits of a month.
LEMMA FreeTakenKept ==
  ASSUME NEW l, NEW m, NEW e, Longer(m, l, e), NEW i \in DOMAIN l, NEW month
  PROVE  FreeTaken(m, month)[i] = FreeTaken(l, month)[i] /\ FreeTaken(l, month)[i] \in Int
<1>1. l \in Seq(Entries) /\ m \in Seq(Entries) /\ i \in DOMAIN m /\ m[i] = l[i]
  BY DEF Longer
<1>2. FreeTaken(l, month)[i] \in Int
  BY <1>1, FreeTakenValue
<1>3. i \in DOMAIN l
  OBVIOUS
<1>. QED BY <1>1, <1>2, <1>3 DEF FreeTaken

\* g is f on S, where f is integer.
Keeps(g, f, S) == \A i \in S : g[i] = f[i] /\ f[i] \in Int

\* What is added up over the ledger stays at the old positions.
LEMMA LedgerKeeps ==
  ASSUME NEW l, NEW m, NEW e, Longer(m, l, e), NEW S \in SUBSET DOMAIN l
  PROVE  /\ Keeps(Free(m), Free(l), S) /\ Keeps(Purchased(m), Purchased(l), S)
         /\ Keeps(Taken(m), Taken(l), S) /\ Keeps(PurchasedTaken(m), PurchasedTaken(l), S)
         /\ Keeps(Reversed(m), Reversed(l), S) /\ Keeps(Given(m), Given(l), S)
<1>1. ASSUME NEW h \in S
      PROVE  /\ Free(m)[h] = Free(l)[h] /\ Free(l)[h] \in Int
             /\ Purchased(m)[h] = Purchased(l)[h] /\ Purchased(l)[h] \in Int
             /\ Taken(m)[h] = Taken(l)[h] /\ Taken(l)[h] \in Int
             /\ PurchasedTaken(m)[h] = PurchasedTaken(l)[h] /\ PurchasedTaken(l)[h] \in Int
             /\ Reversed(m)[h] = Reversed(l)[h] /\ Reversed(l)[h] \in Int
             /\ Given(m)[h] = Given(l)[h] /\ Given(l)[h] \in Int
  <2>1. h \in DOMAIN l
    OBVIOUS
  <2>. QED BY <2>1, ValuesKept
<1>. QED BY <1>1 DEF Keeps

\* The same for the free credits of a month.
LEMMA LedgerKeepsFree ==
  ASSUME NEW l, NEW m, NEW e, Longer(m, l, e), NEW S \in SUBSET DOMAIN l, NEW month
  PROVE  Keeps(FreeTaken(m, month), FreeTaken(l, month), S)
<1>1. ASSUME NEW h \in S
      PROVE  FreeTaken(m, month)[h] = FreeTaken(l, month)[h] /\ FreeTaken(l, month)[h] \in Int
  <2>1. h \in DOMAIN l
    OBVIOUS
  <2>. QED BY <2>1, FreeTakenKept
<1>. QED BY <1>1 DEF Keeps

\* A sum over old positions stays, and a new position adds its value.
LEMMA SumLonger ==
  ASSUME NEW l, NEW m, NEW e, Longer(m, l, e), NEW S \in SUBSET DOMAIN l, NEW f, NEW g,
         Keeps(g, f, S), NEW n, n = Len(l) + 1
  PROVE  /\ SumFunctionOnSet(g, S) = SumFunctionOnSet(f, S)
         /\ SumFunctionOnSet(f, S) \in Int
         /\ g[n] \in Int => SumFunctionOnSet(g, S \cup {n}) = SumFunctionOnSet(f, S) + g[n]
<1>1. IsFiniteSet(S) /\ n \notin S
  BY PositionsFinite DEF Longer
<1>2. SumFunctionOnSet(g, S) = SumFunctionOnSet(f, S) /\ SumFunctionOnSet(f, S) \in Int
  BY <1>1, SumSame, SumType DEF Keeps
<1>3. ASSUME g[n] \in Int
      PROVE  SumFunctionOnSet(g, S \cup {n}) = SumFunctionOnSet(g, S) + g[n]
  <2>1. \A y \in S \cup {n} : g[y] \in Int
    BY <1>3 DEF Keeps
  <2>. QED BY <1>1, <2>1, SumAdd
<1>. QED BY <1>2, <1>3

\* The positions of a kind.
LEMMA PositionsLonger ==
  ASSUME NEW l, NEW m, NEW e, Longer(m, l, e), NEW kind
  PROVE  /\ Positions(l, kind) \in SUBSET DOMAIN l
         /\ e.key.kind = kind => Positions(m, kind) = Positions(l, kind) \cup {Len(l) + 1}
         /\ e.key.kind # kind => Positions(m, kind) = Positions(l, kind)
<1>1. DOMAIN m = DOMAIN l \cup {Len(l) + 1}
  BY DEF Longer
<1>2. m[Len(l) + 1] = e /\ \A i \in DOMAIN l : m[i] = l[i]
  BY DEF Longer
<1>. QED BY <1>1, <1>2 DEF Positions

\* The holds before an old position, or before the new one.
LEMMA HoldsLonger ==
  ASSUME NEW l, NEW m, NEW e, Longer(m, l, e), NEW j, NEW i \in 1 .. Len(l) + 1
  PROVE  /\ HoldsBefore(m, j, i) = HoldsBefore(l, j, i)
         /\ HoldsBefore(l, j, i) \in SUBSET DOMAIN l
         /\ Holds(l, j) = HoldsBefore(l, j, Len(l) + 1)
<1>1. \A h \in DOMAIN m : h < i => h \in DOMAIN l
  BY DEF Longer
<1>2. \A h \in DOMAIN l : m[h] = l[h] /\ h \in DOMAIN m
  BY DEF Longer
<1>. QED BY <1>1, <1>2 DEF HoldsBefore, Positions, Holds

\* What they took.
LEMMA HeldLonger ==
  ASSUME NEW l, NEW m, NEW e, Longer(m, l, e), NEW j, NEW i \in 1 .. Len(l) + 1, NEW month
  PROVE  /\ Held(m, j, i) = Held(l, j, i) /\ Held(l, j, i) \in Int
         /\ HeldPurchased(m, j, i) = HeldPurchased(l, j, i) /\ HeldPurchased(l, j, i) \in Int
         /\ HeldFree(m, j, i, month) = HeldFree(l, j, i, month)
         /\ HeldFree(l, j, i, month) \in Int
<1> DEFINE S == HoldsBefore(l, j, i)
<1>1. HoldsBefore(m, j, i) = S /\ S \in SUBSET DOMAIN l
  BY HoldsLonger
<1> HIDE DEF S
<1>4. /\ Keeps(Taken(m), Taken(l), S) /\ Keeps(PurchasedTaken(m), PurchasedTaken(l), S)
      /\ Keeps(FreeTaken(m, month), FreeTaken(l, month), S)
  BY <1>1, LedgerKeeps, LedgerKeepsFree
<1>5. /\ SumFunctionOnSet(Taken(m), S) = SumFunctionOnSet(Taken(l), S)
      /\ SumFunctionOnSet(Taken(l), S) \in Int
  BY <1>1, <1>4, SumLonger
<1>6. /\ SumFunctionOnSet(PurchasedTaken(m), S) = SumFunctionOnSet(PurchasedTaken(l), S)
      /\ SumFunctionOnSet(PurchasedTaken(l), S) \in Int
  BY <1>1, <1>4, SumLonger
<1>7. /\ SumFunctionOnSet(FreeTaken(m, month), S) = SumFunctionOnSet(FreeTaken(l, month), S)
      /\ SumFunctionOnSet(FreeTaken(l, month), S) \in Int
  BY <1>1, <1>4, SumLonger
<1>. QED BY <1>1, <1>5, <1>6, <1>7 DEF Held, HeldPurchased, HeldFree, S

\* The same, at the new position.
LEMMA HeldAtNew ==
  ASSUME NEW l, NEW m, NEW e, Longer(m, l, e), NEW j, NEW month, NEW n, n = Len(l) + 1
  PROVE  /\ Held(m, j, n) = Held(l, j, n) /\ Held(l, j, n) \in Int
         /\ HeldPurchased(m, j, n) = HeldPurchased(l, j, n) /\ HeldPurchased(l, j, n) \in Int
         /\ HeldFree(m, j, n, month) = HeldFree(l, j, n, month) /\ HeldFree(l, j, n, month) \in Int
<1> DEFINE Same(i) ==
      /\ Held(m, j, i) = Held(l, j, i) /\ Held(l, j, i) \in Int
      /\ HeldPurchased(m, j, i) = HeldPurchased(l, j, i) /\ HeldPurchased(l, j, i) \in Int
      /\ HeldFree(m, j, i, month) = HeldFree(l, j, i, month) /\ HeldFree(l, j, i, month) \in Int
<1>1. \A i \in 1 .. Len(l) + 1 : Same(i)
  BY HeldLonger
<1>2. n \in 1 .. Len(l) + 1
  BY DEF Longer
<1>3. Same(n)
  <2> HIDE DEF Same
  <2>. QED BY <1>1, <1>2
<1>. QED BY <1>3

\* A settlement stays fair.
LEMMA FairLonger ==
  ASSUME NEW l, NEW m, NEW e, Longer(m, l, e), NEW i \in DOMAIN l
  PROVE  SettlesFairly(m, i) = SettlesFairly(l, i)
<1>1. m[i] = l[i] /\ i \in 1 .. Len(l) + 1
  BY DEF Longer
<1>2. /\ Held(m, l[i].key.of, i) = Held(l, l[i].key.of, i)
      /\ HeldPurchased(m, l[i].key.of, i) = HeldPurchased(l, l[i].key.of, i)
      /\ HeldFree(m, l[i].key.of, i, l[i].month) = HeldFree(l, l[i].key.of, i, l[i].month)
  BY <1>1, HeldLonger
<1>. QED BY <1>1, <1>2 DEF SettlesFairly
-----------------------------------------------------------------------------
(* append.                                                                 *)

NewEntry(w, key, free, purchased, charged, failed) ==
  [key |-> key, free |-> free, purchased |-> purchased,
   after |-> NewBalance(w, free, purchased),
   month |-> w.month, charged |-> charged, failed |-> failed]

\* The keys the code makes are keys of the ledger.
LEMMA KeyType ==
  ASSUME NEW kind \in Kinds, NEW of \in Jobs \cup Purchases \cup Requests \cup Nat, NEW n \in Nat
  PROVE  /\ Key(kind, of, n) \in EntryKeys
         /\ Key(kind, of, n).kind = kind /\ Key(kind, of, n).of = of /\ Key(kind, of, n).n = n
  BY DEF Key, EntryKeys

\* The types of a wallet's row.
LEMMA RowTypes ==
  ASSUME NEW w \in WalletRows
  PROVE  /\ w.month \in Nat /\ w.allocation \in Nat /\ w.free \in Nat
         /\ w.purchased \in Int /\ w.spent \in Int /\ w.ledger \in Seq(Entries)
         /\ Len(w.ledger) \in Nat /\ DOMAIN w.ledger = 1 .. Len(w.ledger)
         /\ Len(w.ledger) + 1 \in 1 .. Len(w.ledger) + 1
<1>1. w.ledger \in Seq(Entries)
  BY DEF WalletRows
<1>2. Len(w.ledger) \in Nat /\ DOMAIN w.ledger = 1 .. Len(w.ledger)
  BY <1>1
<1>3. Len(w.ledger) + 1 \in 1 .. Len(w.ledger) + 1
  BY <1>2
<1>. QED BY <1>1, <1>2, <1>3 DEF WalletRows

\* A new key makes an entry; the columns that are not balances stay.
LEMMA PostFields ==
  ASSUME NEW w \in WalletRows, NEW key \in EntryKeys, NEW free \in Int, NEW purchased \in Int,
         NEW charged \in Int, NEW failed \in BOOLEAN, w.free + free >= 0, ~Posted(w, key),
         NEW v, v = PostWith(w, key, free, purchased, charged, failed),
         NEW e, e = NewEntry(w, key, free, purchased, charged, failed)
  PROVE  /\ v \in WalletRows /\ Longer(v.ledger, w.ledger, e)
         /\ v.free = w.free + free /\ v.purchased = w.purchased + purchased
         /\ v.month = w.month /\ v.allocation = w.allocation /\ v.spent = w.spent
         /\ e.key = key /\ e.free = free /\ e.purchased = purchased
         /\ e.after = Balance(w) + free + purchased
         /\ e.month = w.month /\ e.charged = charged /\ e.failed = failed
<1> DEFINE l == Append(w.ledger, e)
<1>1. e \in Entries
  <2>1. NewBalance(w, free, purchased) \in Int /\ w.month \in Nat
    BY RowTypes DEF NewBalance, Balance
  <2>. QED BY <2>1 DEF Entries, NewEntry
<1>2. v = [w EXCEPT !.free = w.free + free, !.purchased = w.purchased + purchased, !.ledger = l]
  BY DEF PostWith, NewEntry
<1>3. Longer(l, w.ledger, e) /\ l \in Seq(Entries)
  BY <1>1, RowTypes, AppendLonger
<1> HIDE DEF l
<1>4. w.free + free \in Nat /\ w.purchased + purchased \in Int
  BY RowTypes
<1>5. v \in WalletRows
  BY <1>2, <1>3, <1>4 DEF WalletRows
<1>6. /\ v.ledger = l /\ v.free = w.free + free /\ v.purchased = w.purchased + purchased
      /\ v.month = w.month /\ v.allocation = w.allocation /\ v.spent = w.spent
  BY <1>2 DEF WalletRows
<1>7. /\ e.key = key /\ e.free = free /\ e.purchased = purchased
      /\ e.after = Balance(w) + free + purchased
      /\ e.month = w.month /\ e.charged = charged /\ e.failed = failed
  BY DEF NewEntry, NewBalance
<1>. QED BY <1>3, <1>5, <1>6, <1>7

\* A new key keeps the keys distinct.
LEMMA PostDistinct ==
  ASSUME NEW w, NEW m, NEW e, Longer(m, w.ledger, e), HasDistinctKeys(w.ledger), ~Posted(w, e.key)
  PROVE  HasDistinctKeys(m)
<1>1. \A i \in DOMAIN w.ledger : m[i] = w.ledger[i] /\ m[i].key # e.key
  BY DEF Posted, Longer
<1>2. DOMAIN m = DOMAIN w.ledger \cup {Len(w.ledger) + 1} /\ m[Len(w.ledger) + 1] = e
  BY DEF Longer
<1>. QED BY <1>1, <1>2 DEF HasDistinctKeys

\* The entry continues the chain.
LEMMA PostChained ==
  ASSUME NEW w \in WalletRows, NEW v \in WalletRows, NEW e, Longer(v.ledger, w.ledger, e),
         IsChained(w), e.after = Balance(w) + e.free + e.purchased,
         v.free = w.free + e.free, v.purchased = w.purchased + e.purchased
  PROVE  IsChained(v)
<1> DEFINE n == Len(w.ledger) + 1
           l == v.ledger
<1>1. /\ DOMAIN l = DOMAIN w.ledger \cup {n} /\ l[n] = e
      /\ \A i \in DOMAIN w.ledger : l[i] = w.ledger[i] /\ i \in Nat /\ i < n
      /\ \A i \in DOMAIN l : i # 1 => i - 1 \in DOMAIN w.ledger
      /\ Len(l) = n /\ n \in Nat /\ n + 1 # 1 /\ (n + 1) - 1 = n
  BY DEF Longer
<1> HIDE DEF n, l
<1>2. \A i \in DOMAIN l : Before(l, i) = Before(w.ledger, i)
  BY <1>1 DEF Before
<1>3. ASSUME NEW i \in DOMAIN l
      PROVE  l[i].after = Before(l, i) + l[i].free + l[i].purchased
  <2>1. CASE i \in DOMAIN w.ledger
    BY <1>1, <1>2, <2>1 DEF IsChained
  <2>2. CASE i = n
    <3>1. Before(l, n) = Balance(w)
      BY <1>1, <1>2 DEF IsChained, n
    <3>. QED BY <1>1, <2>2, <3>1
  <2>. QED BY <1>1, <2>1, <2>2
<1>4. Balance(v) = e.after
  <2>1. w.free \in Int /\ w.purchased \in Int /\ e.free \in Int /\ e.purchased \in Int
    BY RowTypes, EntryTypes DEF Longer
  <2>. QED BY <2>1 DEF Balance
<1>5. Before(l, n + 1) = e.after
  BY <1>1 DEF Before
<1>. QED BY <1>1, <1>3, <1>4, <1>5 DEF IsChained, l

\* The buckets stay explained.
LEMMA PostExplained ==
  ASSUME NEW w \in WalletRows, NEW v \in WalletRows, NEW e, Longer(v.ledger, w.ledger, e),
         ExplainsBuckets(w), v.free = w.free + e.free, v.purchased = w.purchased + e.purchased
  PROVE  ExplainsBuckets(v)
<1> DEFINE l == w.ledger
           m == v.ledger
           n == Len(l) + 1
<1>0. Longer(m, l, e)
  OBVIOUS
<1>10. n = Len(l) + 1 /\ DOMAIN m = DOMAIN l \cup {n} /\ n \in DOMAIN m /\ m[n] = e
  BY <1>0 DEF Longer
<1> HIDE DEF l, m, n
<1>1. /\ l \in Seq(Entries) /\ m \in Seq(Entries) /\ DOMAIN l \in SUBSET DOMAIN l
      /\ DOMAIN m = DOMAIN l \cup {n} /\ n \in DOMAIN m /\ m[n] = e
  BY <1>0, <1>10 DEF Longer
<1>3. Keeps(Free(m), Free(l), DOMAIN l) /\ Keeps(Purchased(m), Purchased(l), DOMAIN l)
  BY <1>0, <1>1, LedgerKeeps
<1>4. /\ Free(m)[n] = e.free /\ Free(m)[n] \in Int
      /\ Purchased(m)[n] = e.purchased /\ Purchased(m)[n] \in Int
  BY <1>1, Values
<1>5. SumFunctionOnSet(Free(m), DOMAIN l \cup {n})
        = SumFunctionOnSet(Free(l), DOMAIN l) + Free(m)[n]
  BY <1>0, <1>1, <1>3, <1>4, <1>10, SumLonger
<1>6. SumFunctionOnSet(Purchased(m), DOMAIN l \cup {n})
        = SumFunctionOnSet(Purchased(l), DOMAIN l) + Purchased(m)[n]
  BY <1>0, <1>1, <1>3, <1>4, <1>10, SumLonger
<1>. QED BY <1>1, <1>4, <1>5, <1>6 DEF ExplainsBuckets, l, m

\* Only a reversal may leave the purchased bucket in debt, by what it takes.
LEMMA PostOwes ==
  ASSUME NEW w \in WalletRows, NEW v \in WalletRows, NEW e, Longer(v.ledger, w.ledger, e),
         OwesReversals(w), v.purchased = w.purchased + e.purchased,
         \/ e.key.kind = "purchase" \/ e.purchased >= 0 \/ v.purchased >= 0
  PROVE  OwesReversals(v)
<1> DEFINE l == w.ledger
           m == v.ledger
           n == Len(l) + 1
           S == Positions(l, "purchase")
           old == SumFunctionOnSet(Reversed(l), S)
           new == SumFunctionOnSet(Reversed(m), Positions(m, "purchase"))
<1>0. Longer(m, l, e)
  OBVIOUS
<1>11. n = Len(l) + 1
  OBVIOUS
<1> HIDE DEF l, m, n
<1>1. l \in Seq(Entries) /\ m \in Seq(Entries) /\ n \in DOMAIN m /\ m[n] = e
  BY <1>0, <1>11 DEF Longer
<1>3. /\ S \in SUBSET DOMAIN l
      /\ Positions(m, "purchase") = IF e.key.kind = "purchase" THEN S \cup {n} ELSE S
  BY <1>0, <1>11, PositionsLonger
<1> HIDE DEF S
<1> HIDE DEF old, new
<1>4. Keeps(Reversed(m), Reversed(l), S)
  BY <1>0, <1>3, LedgerKeeps
<1>5. /\ Reversed(m)[n] = (IF e.purchased < 0 THEN 0 - e.purchased ELSE 0)
      /\ Reversed(m)[n] \in Int /\ Reversed(m)[n] >= 0
  BY <1>1, Values
<1>12. /\ SumFunctionOnSet(Reversed(m), S) = SumFunctionOnSet(Reversed(l), S)
       /\ SumFunctionOnSet(Reversed(l), S) \in Int
       /\ SumFunctionOnSet(Reversed(m), S \cup {n})
            = SumFunctionOnSet(Reversed(l), S) + Reversed(m)[n]
  BY ONLY <1>0, <1>3, <1>4, <1>5, <1>11, SumLonger
<1>6. /\ SumFunctionOnSet(Reversed(m), S) = old /\ old \in Int
      /\ SumFunctionOnSet(Reversed(m), S \cup {n}) = old + Reversed(m)[n]
  BY <1>12 DEF old
<1>7. /\ e.key.kind = "purchase" => new = old + Reversed(m)[n]
      /\ e.key.kind # "purchase" => new = old
  BY <1>3, <1>6 DEF new
<1>8. new \in Int /\ new >= 0
  <2>1. \A i \in Positions(m, "purchase") : Reversed(m)[i] \in Nat
    <3>1. \A i \in DOMAIN m : Reversed(m)[i] \in Int /\ Reversed(m)[i] >= 0
      BY <1>1, Values
    <3>. QED BY <3>1 DEF Positions, new
  <2>2. IsFiniteSet(Positions(m, "purchase"))
    BY <1>1, PositionsFinite DEF Positions
  <2>3. new \in Nat
    BY <2>1, <2>2, SumNatural DEF new
  <2>. QED BY <2>3
<1>9. w.purchased \in Int /\ e.purchased \in Int /\ w.purchased + old >= 0
  BY <1>0, RowTypes, EntryTypes DEF OwesReversals, Longer, l, S, old
<1>10. v.purchased + new >= 0
  BY <1>5, <1>6, <1>7, <1>8, <1>9
<1>. QED BY <1>10 DEF OwesReversals, new, m

\* What a settlement must be, of the wallet before it.
FairlySettled(w, j, free, purchased, charged, failed) ==
  LET n == Len(w.ledger) + 1
      held == Held(w.ledger, j, n)
      lost == held - charged - free - purchased
      mine == HeldFree(w.ledger, j, n, w.month)
      bought == HeldPurchased(w.ledger, j, n)
  IN  /\ charged <= held
      /\ free <= mine
      /\ failed => lost = 0 /\ free = mine
      /\ ~failed => purchased <= bought /\ lost \in 0 .. held - bought - mine

\* Whatever append is called for, the ledger and the buckets stay sound.
LEMMA PostSound ==
  ASSUME NEW w, Sound(w), NEW key \in EntryKeys, NEW free \in Int, NEW purchased \in Int,
         NEW charged \in Int, NEW failed \in BOOLEAN, w.free + free >= 0,
         key.kind = "reserve" =>
           key.of \in Jobs /\ free <= 0 /\ purchased <= 0 /\ free + purchased < 0,
         key.kind \in {"settle", "refund"} => key.of \in Jobs /\ key.n = 0,
         key.kind = "settle" => FairlySettled(w, key.of, free, purchased, charged, failed),
         \/ key.kind = "purchase" \/ purchased >= 0 \/ w.purchased + purchased >= 0
  PROVE  Sound(PostWith(w, key, free, purchased, charged, failed))
<1> DEFINE v == PostWith(w, key, free, purchased, charged, failed)
           e == NewEntry(w, key, free, purchased, charged, failed)
           n == Len(w.ledger) + 1
<1>1. CASE Posted(w, key)
  BY <1>1 DEF PostWith
<1>2. CASE ~Posted(w, key)
  <2>1. w \in WalletRows
    BY DEF Sound
  <2>2. /\ v \in WalletRows /\ Longer(v.ledger, w.ledger, e)
        /\ v.free = w.free + free /\ v.purchased = w.purchased + purchased
        /\ e.key = key /\ e.free = free /\ e.purchased = purchased
        /\ e.after = Balance(w) + free + purchased
        /\ e.month = w.month /\ e.charged = charged /\ e.failed = failed
    BY <1>2, <2>1, PostFields
  <2> HIDE DEF v, e
  <2>3. HasDistinctKeys(v.ledger)
    BY <1>2, <2>2, PostDistinct DEF Sound
  <2>4. IsChained(v)
    BY <2>1, <2>2, PostChained DEF Sound
  <2>5. ExplainsBuckets(v)
    BY <2>1, <2>2, PostExplained DEF Sound
  <2>6. OwesReversals(v)
    BY <2>1, <2>2, PostOwes DEF Sound
  <2>7. DOMAIN v.ledger = DOMAIN w.ledger \cup {n} /\ v.ledger[n] = e
    BY <2>2 DEF Longer
  <2>8. \A i \in DOMAIN w.ledger : v.ledger[i] = w.ledger[i]
    BY <2>2 DEF Longer
  <2>9. \A i \in DOMAIN v.ledger : HasShape(v.ledger[i])
    <3>1. HasShape(e)
      BY <2>2 DEF HasShape
    <3>. QED BY <2>7, <2>8, <3>1 DEF Sound
  <2>10. ASSUME NEW i \in Positions(v.ledger, "settle") PROVE SettlesFairly(v.ledger, i)
    <3>1. CASE i \in DOMAIN w.ledger
      <4>1. i \in Positions(w.ledger, "settle")
        BY <2>8, <3>1 DEF Positions
      <4>. QED BY <2>2, <3>1, <4>1, FairLonger DEF Sound
    <3>2. CASE i = n
      <4>1. e.key.kind = "settle"
        BY <2>7, <3>2 DEF Positions
      <4>3. /\ Held(v.ledger, key.of, n) = Held(w.ledger, key.of, n)
            /\ HeldPurchased(v.ledger, key.of, n) = HeldPurchased(w.ledger, key.of, n)
            /\ HeldFree(v.ledger, key.of, n, w.month) = HeldFree(w.ledger, key.of, n, w.month)
        <5>1. n = Len(w.ledger) + 1 /\ Longer(v.ledger, w.ledger, e)
          BY <2>2
        <5> HIDE DEF n
        <5>. QED BY ONLY <5>1, HeldAtNew
      <4>4. FairlySettled(w, key.of, free, purchased, charged, failed)
        BY <2>2, <4>1
      <4>. QED BY <2>2, <2>7, <3>2, <4>3, <4>4 DEF SettlesFairly, FairlySettled
    <3>. QED BY <2>7, <3>1, <3>2 DEF Positions
  <2>. QED BY <2>2, <2>3, <2>4, <2>5, <2>6, <2>9, <2>10 DEF Sound, v
<1>. QED BY <1>1, <1>2
-----------------------------------------------------------------------------
(* Open and closed jobs.                                                   *)

Closings == {"settle", "refund"}

\* An entry closes a job when it settles or refunds it.
LEMMA ClosingLonger ==
  ASSUME NEW l, NEW m, NEW e, Longer(m, l, e), NEW j, NEW n, n = Len(l) + 1
  PROVE  /\ Closing(l, j) \in SUBSET DOMAIN l
         /\ Closing(m, j) = IF e.key.kind \in Closings /\ e.key.of = j
                            THEN Closing(l, j) \cup {n} ELSE Closing(l, j)
<1>1. /\ DOMAIN m = DOMAIN l \cup {n} /\ m[n] = e
      /\ \A i \in DOMAIN l : m[i] = l[i]
  BY DEF Longer
<1>. QED BY <1>1 DEF Closing, Positions, Closings

\* The open holds change by a hold, or by a job that is closed.
LEMMA OpenLonger ==
  ASSUME NEW l, NEW m, NEW e, Longer(m, l, e), NEW n, n = Len(l) + 1
  PROVE  /\ OpenHolds(l) \in SUBSET DOMAIN l
         /\ e.key.kind \notin Closings \cup {"reserve"} => OpenHolds(m) = OpenHolds(l)
         /\ e.key.kind = "reserve" =>
              OpenHolds(m) \in {OpenHolds(l), OpenHolds(l) \cup {n}}
         /\ e.key.kind \in Closings =>
              OpenHolds(m) = OpenHolds(l) \ Holds(l, e.key.of)
<1>1. /\ DOMAIN m = DOMAIN l \cup {n} /\ m[n] = e /\ n \notin DOMAIN l
      /\ \A i \in DOMAIN l : m[i] = l[i] /\ i < n
  BY DEF Longer
<1>2. OpenHolds(l) \in SUBSET DOMAIN l
  BY DEF OpenHolds, Positions
<1>3. ASSUME e.key.kind \notin Closings
      PROVE  \A j : Closing(m, j) = Closing(l, j)
  BY <1>3, ClosingLonger
<1>4. ASSUME e.key.kind \notin Closings \cup {"reserve"}
      PROVE  OpenHolds(m) = OpenHolds(l)
  BY <1>1, <1>3, <1>4 DEF OpenHolds, Positions
<1>5. ASSUME e.key.kind = "reserve"
      PROVE  OpenHolds(m) \in {OpenHolds(l), OpenHolds(l) \cup {n}}
  <2>1. \A j : Closing(m, j) = Closing(l, j)
    BY <1>3, <1>5 DEF Closings
  <2>2. OpenHolds(m) \subseteq OpenHolds(l) \cup {n}
    BY <1>1, <2>1 DEF OpenHolds, Positions
  <2>3. OpenHolds(l) \subseteq OpenHolds(m)
    BY <1>1, <2>1 DEF OpenHolds, Positions
  <2>. QED BY <2>2, <2>3
<1>6. ASSUME e.key.kind \in Closings
      PROVE  OpenHolds(m) = OpenHolds(l) \ Holds(l, e.key.of)
  <2>1. \A h : h \in Holds(l, e.key.of) <=>
                 h \in DOMAIN l /\ l[h].key.kind = "reserve" /\ l[h].key.of = e.key.of
    BY <1>1 DEF Holds, HoldsBefore, Positions
  <2>2. /\ \A j : j # e.key.of => Closing(m, j) = Closing(l, j)
        /\ Closing(m, e.key.of) # {}
    <3>1. \A j : Closing(m, j) = IF e.key.kind \in Closings /\ e.key.of = j
                                 THEN Closing(l, j) \cup {n} ELSE Closing(l, j)
      BY ClosingLonger
    <3>. QED BY <1>6, <3>1
  <2>3. \A h : h \in OpenHolds(m) <=>
                 h \in DOMAIN m /\ m[h].key.kind = "reserve" /\ Closing(m, m[h].key.of) = {}
    BY DEF OpenHolds, Positions
  <2>4. \A h : h \in OpenHolds(l) <=>
                 h \in DOMAIN l /\ l[h].key.kind = "reserve" /\ Closing(l, l[h].key.of) = {}
    BY DEF OpenHolds, Positions
  <2>5. n \notin OpenHolds(m)
    BY <1>1, <1>6, <2>3 DEF Closings
  <2>6. \A h \in DOMAIN l : h \in OpenHolds(m) <=> h \in OpenHolds(l) \ Holds(l, e.key.of)
    <3> SUFFICES ASSUME NEW h \in DOMAIN l
                 PROVE  h \in OpenHolds(m) <=> h \in OpenHolds(l) \ Holds(l, e.key.of)
      OBVIOUS
    <3>1. m[h] = l[h] /\ h \in DOMAIN m
      BY <1>1
    <3>2. CASE l[h].key.of = e.key.of
      BY <2>1, <2>2, <2>3, <2>4, <3>1, <3>2
    <3>3. CASE l[h].key.of # e.key.of
      BY <2>1, <2>2, <2>3, <2>4, <3>1, <3>3
    <3>. QED BY <3>2, <3>3
  <2>. QED BY <1>1, <1>2, <2>3, <2>5, <2>6
<1>. QED BY <1>2, <1>4, <1>5, <1>6

\* A job that was neither settled nor refunded has its holds open.
LEMMA HoldsOpen ==
  ASSUME NEW l, NEW j, Closing(l, j) = {}
  PROVE  Holds(l, j) \in SUBSET OpenHolds(l)
  BY DEF Holds, HoldsBefore, OpenHolds, Positions

\* A job is closed under one key.
LEMMA NotClosed ==
  ASSUME NEW w, \A i \in DOMAIN w.ledger : HasShape(w.ledger[i]) /\ w.ledger[i].key \in EntryKeys,
         NEW j, ~Posted(w, Key("settle", j, 0)), ~Posted(w, Key("refund", j, 0))
  PROVE  Closing(w.ledger, j) = {}
<1>1. ASSUME NEW i \in DOMAIN w.ledger, w.ledger[i].key.kind \in {"settle", "refund"},
             w.ledger[i].key.of = j
      PROVE  FALSE
  <2>1. w.ledger[i].key.n = 0 /\ w.ledger[i].key \in EntryKeys
    BY <1>1 DEF HasShape
  <2>2. w.ledger[i].key = Key(w.ledger[i].key.kind, j, 0)
    BY <1>1, <2>1 DEF Key, EntryKeys
  <2>. QED BY <1>1, <2>2 DEF Posted
<1>. QED BY <1>1 DEF Closing, Positions

\* What holds take, of a month or in all, is not negative.
LEMMA HoldsTake ==
  ASSUME NEW l \in Seq(Entries), \A i \in DOMAIN l : HasShape(l[i]),
         NEW h \in Positions(l, "reserve"), NEW month
  PROVE  /\ h \in DOMAIN l /\ Taken(l)[h] \in Nat /\ Taken(l)[h] > 0
         /\ PurchasedTaken(l)[h] \in Nat
         /\ FreeTaken(l, month)[h] \in Nat
         /\ Taken(l)[h] - PurchasedTaken(l)[h] - FreeTaken(l, month)[h] >= 0
<1>1. h \in DOMAIN l /\ l[h] \in Entries /\ l[h].key.kind = "reserve" /\ HasShape(l[h])
  BY DEF Positions
<1>2. l[h].free \in Int /\ l[h].purchased \in Int
  BY <1>1, EntryTypes
<1>3. l[h].free <= 0 /\ l[h].purchased <= 0 /\ l[h].free + l[h].purchased < 0
  BY <1>1 DEF HasShape
<1>4. /\ Taken(l)[h] = 0 - l[h].free - l[h].purchased
      /\ PurchasedTaken(l)[h] = 0 - l[h].purchased
  BY <1>1, Values
<1>5. FreeTaken(l, month)[h] = IF l[h].month = month THEN 0 - l[h].free ELSE 0
  BY <1>1, FreeTakenValue
<1>6. FreeTaken(l, month)[h] \in {0, 0 - l[h].free}
  BY <1>5
<1> DEFINE a == l[h].free
           b == l[h].purchased
<1>7. a \in Int /\ b \in Int /\ a <= 0 /\ b <= 0 /\ a + b < 0
  BY <1>2, <1>3
<1>8. Taken(l)[h] = 0 - a - b /\ PurchasedTaken(l)[h] = 0 - b /\ FreeTaken(l, month)[h] \in {0, 0 - a}
  BY <1>4, <1>6
<1> HIDE DEF a, b
<1>. QED BY <1>1, <1>7, <1>8
-----------------------------------------------------------------------------
(* The counter.                                                            *)

\* A sum over the entries of a kind grows by the new entry's part, if it is
\* of the kind.
LEMMA SumOfKind ==
  ASSUME NEW l, NEW m, NEW e, Longer(m, l, e), NEW kind, NEW f, NEW g, NEW n, n = Len(l) + 1,
         Keeps(g, f, Positions(l, kind)), g[n] \in Int
  PROVE  /\ SumFunctionOnSet(g, Positions(m, kind))
              = SumFunctionOnSet(f, Positions(l, kind)) + IF e.key.kind = kind THEN g[n] ELSE 0
         /\ SumFunctionOnSet(f, Positions(l, kind)) \in Int
<1> DEFINE S == Positions(l, kind)
           T == Positions(m, kind)
<1>1. /\ S \in SUBSET DOMAIN l
      /\ e.key.kind = kind => T = S \cup {n}
      /\ e.key.kind # kind => T = S
  BY PositionsLonger
<1>2. Keeps(g, f, S)
  OBVIOUS
<1> HIDE DEF S, T
<1>3. /\ SumFunctionOnSet(g, S) = SumFunctionOnSet(f, S)
      /\ SumFunctionOnSet(f, S) \in Int
      /\ SumFunctionOnSet(g, S \cup {n}) = SumFunctionOnSet(f, S) + g[n]
  BY <1>1, <1>2, SumLonger
<1>4. CASE e.key.kind = kind
  BY <1>1, <1>3, <1>4 DEF S, T
<1>5. CASE e.key.kind # kind
  BY <1>1, <1>3, <1>5 DEF S, T
<1>. QED BY <1>4, <1>5

\* What a settlement left unused stays.
LEMMA UnusedKeeps ==
  ASSUME NEW l, NEW m, NEW e, Longer(m, l, e), NEW S \in SUBSET DOMAIN l
  PROVE  Keeps(Unused(m), Unused(l), S)
<1> SUFFICES ASSUME NEW i \in S
             PROVE  Unused(m)[i] = Unused(l)[i] /\ Unused(l)[i] \in Int
  BY DEF Keeps
<1>1. /\ i \in DOMAIN l /\ i \in DOMAIN m /\ i \in 1 .. Len(l) + 1
      /\ m[i] = l[i] /\ l[i] \in Entries
  BY DEF Longer
<1>2. /\ Held(m, l[i].key.of, i) = Held(l, l[i].key.of, i) /\ Held(l, l[i].key.of, i) \in Int
  BY <1>1, HeldLonger
<1>3. l[i].charged \in Int
  BY <1>1, EntryTypes
<1>. QED BY <1>1, <1>2, <1>3 DEF Unused

SpentOf(l) ==
  SumFunctionOnSet(Taken(l), Positions(l, "playbook"))
  + SumFunctionOnSet(Taken(l), Positions(l, "reserve"))
  - SumFunctionOnSet(Unused(l), Positions(l, "settle"))
  - SumFunctionOnSet(Given(l), Positions(l, "refund"))

\* What entry e adds to the counter after ledger l.
Spends(l, e) ==
  IF e.key.kind \in {"playbook", "reserve", "refund"} THEN 0 - e.free - e.purchased
  ELSE IF e.key.kind = "settle" THEN e.charged - Held(l, e.key.of, Len(l) + 1)
  ELSE 0

\* What the counter should be follows the entries.
LEMMA SpentLonger ==
  ASSUME NEW l, NEW m, NEW e, Longer(m, l, e)
  PROVE  SpentOf(m) = SpentOf(l) + Spends(l, e) /\ SpentOf(l) \in Int
<1> DEFINE n == Len(l) + 1
           t == 0 - e.free - e.purchased
           u == Held(l, e.key.of, n) - e.charged
           p == SumFunctionOnSet(Taken(l), Positions(l, "playbook"))
           r == SumFunctionOnSet(Taken(l), Positions(l, "reserve"))
           s == SumFunctionOnSet(Unused(l), Positions(l, "settle"))
           b == SumFunctionOnSet(Given(l), Positions(l, "refund"))
           Is(kind) == e.key.kind = kind
<1>0. n = Len(l) + 1
  OBVIOUS
<1>1. n \in DOMAIN m /\ m[n] = e /\ m \in Seq(Entries) /\ e \in Entries
  BY DEF Longer
<1> HIDE DEF n
<1>2. Taken(m)[n] = t /\ Given(m)[n] = e.free + e.purchased /\ t \in Int
  BY <1>1, EntryTypes, Values
<1>3. /\ Held(m, e.key.of, n) = Held(l, e.key.of, n) /\ Held(l, e.key.of, n) \in Int
  BY <1>0, HeldAtNew
<1>4. Unused(m)[n] = u /\ u \in Int /\ e.charged \in Int
  BY <1>1, <1>3, EntryTypes DEF Unused
<1>5. \A kind : Positions(l, kind) \in SUBSET DOMAIN l
  BY DEF Positions
<1>6. \A kind : /\ Keeps(Taken(m), Taken(l), Positions(l, kind))
                /\ Keeps(Given(m), Given(l), Positions(l, kind))
                /\ Keeps(Unused(m), Unused(l), Positions(l, kind))
  BY <1>5, LedgerKeeps, UnusedKeeps
<1>7. e.free \in Int /\ e.purchased \in Int
  BY <1>1, EntryTypes
<1> HIDE DEF t, u
<1>8. \A kind : /\ SumFunctionOnSet(Taken(m), Positions(m, kind))
                     = SumFunctionOnSet(Taken(l), Positions(l, kind)) + IF Is(kind) THEN t ELSE 0
                /\ SumFunctionOnSet(Taken(l), Positions(l, kind)) \in Int
  <2> TAKE kind
  <2>1. Taken(m)[n] \in Int
    BY <1>2
  <2>. QED BY <1>0, <1>2, <1>6, <2>1, SumOfKind
<1>9. /\ SumFunctionOnSet(Unused(m), Positions(m, "settle"))
           = s + IF Is("settle") THEN u ELSE 0
      /\ s \in Int
  BY <1>0, <1>4, <1>6, SumOfKind
<1>10. /\ SumFunctionOnSet(Given(m), Positions(m, "refund"))
           = b + IF Is("refund") THEN e.free + e.purchased ELSE 0
       /\ b \in Int
  BY <1>0, <1>2, <1>6, <1>7, SumOfKind
<1>11. p \in Int /\ r \in Int
  BY <1>8
<1>12. SpentOf(l) = p + r - s - b
  BY DEF SpentOf
<1>13. SpentOf(m) = (p + IF Is("playbook") THEN t ELSE 0) + (r + IF Is("reserve") THEN t ELSE 0)
                    - (s + IF Is("settle") THEN u ELSE 0)
                    - (b + IF Is("refund") THEN e.free + e.purchased ELSE 0)
  BY <1>8, <1>9, <1>10 DEF SpentOf
<1> HIDE DEF p, r, s, b
<1>14. Spends(l, e) = IF Is("playbook") \/ Is("reserve") THEN t
                      ELSE IF Is("refund") THEN 0 - (e.free + e.purchased)
                      ELSE IF Is("settle") THEN 0 - u ELSE 0
  BY <1>0, <1>3, <1>4, <1>7 DEF Spends, t, u
<1>15. CASE Is("playbook")
  BY <1>2, <1>9, <1>10, <1>11, <1>12, <1>13, <1>14, <1>15
<1>16. CASE Is("reserve")
  BY <1>2, <1>9, <1>10, <1>11, <1>12, <1>13, <1>14, <1>16
<1>17. CASE Is("settle")
  BY <1>4, <1>9, <1>10, <1>11, <1>12, <1>13, <1>14, <1>17
<1>18. CASE Is("refund")
  BY <1>7, <1>9, <1>10, <1>11, <1>12, <1>13, <1>14, <1>18
<1>19. CASE ~Is("playbook") /\ ~Is("reserve") /\ ~Is("settle") /\ ~Is("refund")
  BY <1>9, <1>10, <1>11, <1>12, <1>13, <1>14, <1>19
<1>. QED
  BY <1>15, <1>16, <1>17, <1>18, <1>19
-----------------------------------------------------------------------------
(* What an entry does to the month and to the counter.                     *)

\* A part of what was kept was kept.
LEMMA KeepsPart ==
  ASSUME NEW f, NEW g, NEW S, Keeps(g, f, S), NEW R \in SUBSET S
  PROVE  Keeps(g, f, R)
  BY DEF Keeps

\* What is added up over the open holds grows by a hold at most, and loses
\* the holds of a job that is closed.
LEMMA OpenSumLonger ==
  ASSUME NEW l, NEW m, NEW e, Longer(m, l, e), NEW n, n = Len(l) + 1,
         NEW f, NEW g, Keeps(g, f, DOMAIN l), g[n] \in Int, e.key.kind = "reserve" => g[n] >= 0
  PROVE  /\ SumFunctionOnSet(f, OpenHolds(l)) \in Int
         /\ e.key.kind \notin Closings \cup {"reserve"} =>
              SumFunctionOnSet(g, OpenHolds(m)) = SumFunctionOnSet(f, OpenHolds(l))
         /\ e.key.kind = "reserve" =>
              /\ SumFunctionOnSet(g, OpenHolds(m)) \in Int
              /\ SumFunctionOnSet(g, OpenHolds(m)) <= SumFunctionOnSet(f, OpenHolds(l)) + g[n]
         /\ e.key.kind \in Closings /\ Closing(l, e.key.of) = {} =>
              SumFunctionOnSet(g, OpenHolds(m))
                = SumFunctionOnSet(f, OpenHolds(l)) - SumFunctionOnSet(f, Holds(l, e.key.of))
<1> DEFINE O == OpenHolds(l)
           P == OpenHolds(m)
           H == Holds(l, e.key.of)
<1>1. /\ O \in SUBSET DOMAIN l
      /\ e.key.kind \notin Closings \cup {"reserve"} => P = O
      /\ e.key.kind = "reserve" => P \in {O, O \cup {n}}
      /\ e.key.kind \in Closings => P = O \ H
  BY OpenLonger
<1>2. Closing(l, e.key.of) = {} => H \in SUBSET O
  BY HoldsOpen
<1> HIDE DEF O, P, H
<1>3. Keeps(g, f, O)
  BY <1>1, KeepsPart
<1>4. /\ SumFunctionOnSet(g, O) = SumFunctionOnSet(f, O)
      /\ SumFunctionOnSet(f, O) \in Int
      /\ SumFunctionOnSet(g, O \cup {n}) = SumFunctionOnSet(f, O) + g[n]
  BY <1>1, <1>3, SumLonger
<1>5. ASSUME H \in SUBSET O
      PROVE  SumFunctionOnSet(g, O \ H) = SumFunctionOnSet(f, O) - SumFunctionOnSet(f, H)
  <2>1. IsFiniteSet(O) /\ IsFiniteSet(O \ H) /\ O \ H \in SUBSET O
    <3>1. l \in Seq(Entries)
      BY DEF Longer
    <3>2. IsFiniteSet(O)
      BY <1>1, <3>1, PositionsFinite
    <3>. QED BY <3>2, FS_Subset
  <2>2. (\A x \in O : f[x] \in Int) /\ (\A x \in O \ H : g[x] = f[x])
    BY <1>3 DEF Keeps
  <2>3. SumFunctionOnSet(f, O \ H) = SumFunctionOnSet(f, O) - SumFunctionOnSet(f, H)
    BY <1>5, <2>1, <2>2, SumWithout
  <2>4. SumFunctionOnSet(g, O \ H) = SumFunctionOnSet(f, O \ H)
    BY <2>1, <2>2, SumSame
  <2>. QED BY <2>3, <2>4
<1>6. CASE e.key.kind = "reserve"
  <2>1. P = O \/ P = O \cup {n}
    BY <1>1, <1>6
  <2>2. SumFunctionOnSet(g, P) \in {SumFunctionOnSet(f, O), SumFunctionOnSet(f, O) + g[n]}
    BY <1>4, <2>1
  <2>3. g[n] >= 0
    BY <1>6
  <2> DEFINE new == SumFunctionOnSet(g, P)
             old == SumFunctionOnSet(f, O)
  <2> HIDE DEF new, old
  <2>4. new \in {old, old + g[n]} /\ old \in Int
    BY <1>4, <2>2 DEF new, old
  <2>5. new \in Int /\ new <= old + g[n]
    BY <2>3, <2>4
  <2>. QED BY <1>4, <1>6, <2>5 DEF Closings, O, P, new, old
<1>7. CASE e.key.kind \in Closings
  BY <1>1, <1>2, <1>4, <1>5, <1>7 DEF Closings, O, P, H
<1>8. CASE e.key.kind \notin Closings \cup {"reserve"}
  BY <1>1, <1>4, <1>8 DEF Closings, O, P
<1>. QED BY <1>6, <1>7, <1>8

\* What a caller may append: debits take, a settlement or a refund gives back
\* to a job that was not closed at most what it had taken.
Lawful(w, e) ==
  /\ e \in Entries /\ e.month = w.month /\ w.free + e.free >= 0
  /\ e.key.kind \notin {"free", "expire"}
  /\ HasShape(e)
  /\ e.key.kind = "playbook" => e.free + e.purchased <= 0
  /\ e.key.kind = "reserve" => 0 - e.free - e.purchased \in Amounts
  /\ e.key.kind \in Closings =>
       /\ Closing(w.ledger, e.key.of) = {}
       /\ Holds(w.ledger, e.key.of) # {}
       /\ e.free <= HeldFree(w.ledger, e.key.of, Len(w.ledger) + 1, w.month)
  /\ e.key.kind \notin Closings => e.free <= 0
  /\ e.key.kind = "settle" =>
       /\ FairlySettled(w, e.key.of, e.free, e.purchased, e.charged, e.failed)
       /\ e.charged >= 0
  /\ e.key.kind = "refund" =>
       /\ e.free + e.purchased <= Held(w.ledger, e.key.of, Len(w.ledger) + 1)
       /\ e.charged = 0
  /\ e.key.kind = "purchase" \/ e.purchased >= 0 \/ w.purchased + e.purchased >= 0

\* The months of the entries.
LEMMA PostDated ==
  ASSUME NEW w, Dated(w), NEW v, v.month = w.month, NEW e, Longer(v.ledger, w.ledger, e),
         e.month = w.month, w.month \in Nat, e.key.kind \notin {"free", "expire"}
  PROVE  Dated(v)
<1>1. \A i \in DOMAIN v.ledger : \/ i \in DOMAIN w.ledger /\ v.ledger[i] = w.ledger[i]
                                \/ v.ledger[i] = e
  BY DEF Longer
<1>. QED BY <1>1 DEF Dated

\* Free credits of the month are not minted.
LEMMA PostMints ==
  ASSUME NEW w \in WalletRows, NEW v, v.month = w.month, v.allocation = w.allocation,
         NEW e, Longer(v.ledger, w.ledger, e), v.free = w.free + e.free, Lawful(w, e),
         MintsNothing(w)
  PROVE  MintsNothing(v)
<1> DEFINE l == w.ledger
           m == v.ledger
           n == Len(l) + 1
           f == FreeTaken(l, w.month)
           g == FreeTaken(m, w.month)
           old == SumFunctionOnSet(f, OpenHolds(l))
           new == SumFunctionOnSet(g, OpenHolds(m))
           held == SumFunctionOnSet(f, Holds(l, e.key.of))
<1>0. Longer(m, l, e) /\ n = Len(l) + 1
  OBVIOUS
<1>1. /\ e.free \in Int /\ w.free \in Int /\ w.allocation \in Int
      /\ n \in DOMAIN m /\ m[n] = e /\ e.month = w.month
      /\ l \in Seq(Entries) /\ m \in Seq(Entries)
  BY RowTypes, EntryTypes DEF Lawful, Longer
<1>2. e.key.kind \in Closings => Closing(l, e.key.of) = {} /\ e.free <= held
  <2>1. Holds(l, e.key.of) = HoldsBefore(l, e.key.of, n)
    BY DEF Holds
  <2>. QED BY <2>1 DEF Lawful, HeldFree
<1>3. /\ e.key.kind \notin Closings => e.free <= 0
      /\ e.key.kind = "reserve" => 0 - e.free >= 0
  BY <1>1 DEF Lawful, HasShape
<1>10. w.free + old <= w.allocation
  BY DEF MintsNothing
<1> HIDE DEF l, m, n
<1>4. Keeps(g, f, DOMAIN l)
  BY <1>0, LedgerKeepsFree
<1>5. g[n] = 0 - e.free /\ g[n] \in Int
  BY <1>1, FreeTakenValue
<1>11. e.key.kind = "reserve" => g[n] >= 0
  BY <1>3, <1>5
<1> HIDE DEF f, g
<1>6. /\ old \in Int
      /\ e.key.kind \notin Closings \cup {"reserve"} => new = old
      /\ e.key.kind = "reserve" => new \in Int /\ new <= old + g[n]
      /\ e.key.kind \in Closings /\ Closing(l, e.key.of) = {} => new = old - held
  BY ONLY <1>0, <1>4, <1>5, <1>11, OpenSumLonger
<1>7. held \in Int
  <2>1. Holds(l, e.key.of) \in SUBSET DOMAIN l
    BY DEF Holds, HoldsBefore, Positions
  <2>2. \A h \in Holds(l, e.key.of) : f[h] \in Int
    BY <1>4, <2>1 DEF Keeps
  <2>3. IsFiniteSet(Holds(l, e.key.of))
    BY <1>1, <2>1, PositionsFinite
  <2>. QED BY <2>2, <2>3, SumType
<1> HIDE DEF old, new, held
<1>12. e.free + new <= old
  <2>1. CASE e.key.kind = "reserve"
    BY <1>1, <1>5, <1>6, <2>1
  <2>2. CASE e.key.kind \in Closings
    BY <1>1, <1>2, <1>6, <1>7, <2>2
  <2>3. CASE e.key.kind \notin Closings \cup {"reserve"}
    BY <1>1, <1>3, <1>6, <2>3
  <2>. QED BY <2>1, <2>2, <2>3
<1>13. new \in Int
  BY <1>2, <1>6, <1>7
<1>14. w.free + e.free + new <= w.allocation
  BY <1>1, <1>6, <1>10, <1>12, <1>13
<1>. QED BY <1>14 DEF MintsNothing, new, g, m

\* The counter keeps covering what open jobs hold.
LEMMA PostSpends ==
  ASSUME NEW w \in WalletRows, Spending(w), NEW v, NEW e, Longer(v.ledger, w.ledger, e),
         Lawful(w, e), v.spent = w.spent + Spends(w.ledger, e)
  PROVE  Spending(v)
<1> DEFINE l == w.ledger
           m == v.ledger
           n == Len(l) + 1
           f == Taken(l)
           g == Taken(m)
           old == SumFunctionOnSet(f, OpenHolds(l))
           new == SumFunctionOnSet(g, OpenHolds(m))
           held == SumFunctionOnSet(f, Holds(l, e.key.of))
           more == Spends(l, e)
<1>0. Longer(m, l, e) /\ n = Len(l) + 1
  OBVIOUS
<1>1. /\ e.free \in Int /\ e.purchased \in Int /\ e.charged \in Int /\ w.spent \in Int
      /\ n \in DOMAIN m /\ m[n] = e
      /\ l \in Seq(Entries) /\ m \in Seq(Entries)
  BY RowTypes, EntryTypes DEF Longer
<1>2. SpentOf(m) = SpentOf(l) + more /\ SpentOf(l) \in Int
  BY SpentLonger
<1>3. w.spent = SpentOf(l) /\ w.spent >= old /\ v.spent = w.spent + more
  BY DEF Spending, ExplainsSpent, SpentOf
<1>4. ExplainsSpent(v)
  BY <1>2, <1>3 DEF ExplainsSpent, SpentOf
<1>5. Held(l, e.key.of, n) = held
  BY DEF Held, Holds
<1>6. /\ e.key.kind \in {"playbook", "reserve", "refund"} => more = 0 - e.free - e.purchased
      /\ e.key.kind = "settle" => more = e.charged - held
      /\ e.key.kind \notin Closings \cup {"playbook", "reserve"} => more = 0
  BY <1>5 DEF Spends, Closings
<1>7. /\ e.key.kind \in Closings => Closing(l, e.key.of) = {}
      /\ e.key.kind = "reserve" => e.free + e.purchased < 0
      /\ e.key.kind = "playbook" => e.free + e.purchased <= 0
      /\ e.key.kind = "settle" => e.charged >= 0
      /\ e.key.kind = "refund" => e.free + e.purchased <= held
  BY <1>5 DEF Lawful, HasShape
<1> HIDE DEF l, m, n, more
<1>8. Keeps(g, f, DOMAIN l)
  <2>1. DOMAIN l \in SUBSET DOMAIN l
    OBVIOUS
  <2>. QED BY <1>0, <2>1, LedgerKeeps
<1>9. g[n] = 0 - e.free - e.purchased /\ g[n] \in Int
  BY <1>1, Values
<1>10. e.key.kind = "reserve" => g[n] >= 0
  BY <1>1, <1>7, <1>9
<1> HIDE DEF f, g
<1>11. /\ old \in Int
       /\ e.key.kind \notin Closings \cup {"reserve"} => new = old
       /\ e.key.kind = "reserve" => new \in Int /\ new <= old + g[n]
       /\ e.key.kind \in Closings /\ Closing(l, e.key.of) = {} => new = old - held
  BY ONLY <1>0, <1>8, <1>9, <1>10, OpenSumLonger
<1>12. held \in Int
  <2>1. Holds(l, e.key.of) \in SUBSET DOMAIN l
    BY DEF Holds, HoldsBefore, Positions
  <2>2. \A h \in Holds(l, e.key.of) : f[h] \in Int
    BY <1>8, <2>1 DEF Keeps
  <2>3. IsFiniteSet(Holds(l, e.key.of))
    BY <1>1, <2>1, PositionsFinite
  <2>. QED BY <2>2, <2>3, SumType
<1> HIDE DEF old, new, held
<1>13. w.spent + more >= new
  <2>1. CASE e.key.kind = "reserve"
    BY <1>1, <1>3, <1>6, <1>9, <1>11, <2>1
  <2>2. CASE e.key.kind = "playbook"
    BY <1>1, <1>3, <1>6, <1>7, <1>11, <2>2 DEF Closings
  <2>3. CASE e.key.kind = "settle"
    BY <1>1, <1>3, <1>6, <1>7, <1>11, <1>12, <2>3 DEF Closings
  <2>4. CASE e.key.kind = "refund"
    BY <1>1, <1>3, <1>6, <1>7, <1>11, <1>12, <2>4 DEF Closings
  <2>5. CASE e.key.kind \notin Closings \cup {"playbook", "reserve"}
    BY <1>1, <1>3, <1>6, <1>11, <2>5
  <2>. QED BY <2>1, <2>2, <2>3, <2>4, <2>5 DEF Closings
<1>. QED BY <1>3, <1>4, <1>13 DEF Spending, new, g, m

\* The ledger and the buckets know nothing of the other columns.
LEMMA SoundColumns ==
  ASSUME NEW w, Sound(w), NEW v \in WalletRows, v.ledger = w.ledger, v.free = w.free,
         v.purchased = w.purchased
  PROVE  Sound(v)
  BY DEF Sound, IsChained, ExplainsBuckets, OwesReversals, Balance

\* The counter moves on its own.
LEMMA SpentColumn ==
  ASSUME NEW w \in WalletRows, NEW spent \in Int, NEW u, u = [w EXCEPT !.spent = spent]
  PROVE  /\ u \in WalletRows /\ u.ledger = w.ledger /\ u.free = w.free
         /\ u.purchased = w.purchased /\ u.month = w.month /\ u.allocation = w.allocation
         /\ u.spent = spent
  BY DEF WalletRows

\* A lawful entry, with what it adds to the counter, leaves a good wallet.
LEMMA PostGood ==
  ASSUME NEW w, Good(w), w.month # NoMonth, NEW key \in EntryKeys, ~Posted(w, key),
         NEW free \in Int, NEW purchased \in Int, NEW charged \in Int, NEW failed \in BOOLEAN,
         NEW e, e = NewEntry(w, key, free, purchased, charged, failed), Lawful(w, e),
         NEW spent \in Int, spent = w.spent + Spends(w.ledger, e)
  PROVE  /\ Good(PostWith([w EXCEPT !.spent = spent], key, free, purchased, charged, failed))
         /\ Longer(PostWith([w EXCEPT !.spent = spent], key, free, purchased, charged, failed).ledger,
                   w.ledger, e)
<1> DEFINE u == [w EXCEPT !.spent = spent]
           v == PostWith(u, key, free, purchased, charged, failed)
<1>1. w \in WalletRows
  BY DEF Good, Sound
<1>2. /\ u \in WalletRows /\ u.ledger = w.ledger /\ u.free = w.free
      /\ u.purchased = w.purchased /\ u.month = w.month /\ u.allocation = w.allocation
      /\ u.spent = spent
  BY <1>1, SpentColumn
<1> HIDE DEF u
<1>3. /\ e = NewEntry(u, key, free, purchased, charged, failed) /\ ~Posted(u, key)
      /\ e.key = key /\ e.free = free /\ e.purchased = purchased /\ e.charged = charged
      /\ e.failed = failed /\ e.month = w.month
  BY <1>2 DEF NewEntry, NewBalance, Balance, Posted
<1>4. u.free + free >= 0
  BY <1>2, <1>3 DEF Lawful
<1>5. /\ v \in WalletRows /\ Longer(v.ledger, u.ledger, e)
      /\ v.free = u.free + free /\ v.purchased = u.purchased + purchased
      /\ v.month = u.month /\ v.allocation = u.allocation /\ v.spent = u.spent
  BY <1>2, <1>3, <1>4, PostFields
<1>6. Sound(v)
  <2>1. Sound(u)
    BY <1>2, SoundColumns DEF Good
  <2>2. /\ key.kind = "reserve" =>
             key.of \in Jobs /\ free <= 0 /\ purchased <= 0 /\ free + purchased < 0
        /\ key.kind \in {"settle", "refund"} => key.of \in Jobs /\ key.n = 0
        /\ key.kind = "settle" => FairlySettled(w, key.of, free, purchased, charged, failed)
        /\ key.kind = "purchase" \/ purchased >= 0 \/ u.purchased + purchased >= 0
    BY <1>2, <1>3 DEF Lawful, HasShape
  <2>3. key.kind = "settle" => FairlySettled(u, key.of, free, purchased, charged, failed)
    BY <1>2, <2>2 DEF FairlySettled
  <2>. QED BY <1>4, <2>1, <2>2, <2>3, PostSound
<1>7. Longer(v.ledger, w.ledger, e) /\ v.free = w.free + e.free /\ v.month = w.month
      /\ v.allocation = w.allocation /\ v.spent = w.spent + Spends(w.ledger, e)
  BY <1>2, <1>3, <1>5
<1> HIDE DEF v
<1>8. Monthly(v)
  <2>1. Dated(v)
    BY <1>1, <1>3, <1>7, RowTypes, PostDated DEF Good, Monthly, Lawful
  <2>2. MintsNothing(v)
    BY <1>1, <1>7, PostMints DEF Good, Monthly
  <2>. QED BY <1>7, <2>1, <2>2 DEF Monthly
<1>9. Spending(v)
  BY <1>1, <1>7, PostSpends DEF Good
<1>. QED BY <1>6, <1>7, <1>8, <1>9 DEF Good, v, u
-----------------------------------------------------------------------------
(* get_wallet.                                                             *)

\* An entry that neither spends nor closes leaves the counter right.
LEMMA NeutralSpends ==
  ASSUME NEW w \in WalletRows, Spending(w), NEW v, NEW e, Longer(v.ledger, w.ledger, e),
         e.key.kind \in {"free", "expire"}, v.spent = w.spent
  PROVE  Spending(v)
<1> DEFINE l == w.ledger
           m == v.ledger
           n == Len(l) + 1
           f == Taken(l)
           g == Taken(m)
<1>0. Longer(m, l, e) /\ n = Len(l) + 1
  OBVIOUS
<1>1. n \in DOMAIN m /\ m[n] = e /\ m \in Seq(Entries)
  BY DEF Longer
<1>2. SpentOf(m) = SpentOf(l) + Spends(l, e) /\ SpentOf(l) \in Int
  BY SpentLonger
<1>3. Spends(l, e) = 0
  BY DEF Spends
<1>4. ExplainsSpent(v)
  BY <1>2, <1>3 DEF Spending, ExplainsSpent, SpentOf
<1>5. w.spent >= SumFunctionOnSet(f, OpenHolds(l))
  BY DEF Spending
<1>11. e.key.kind = "reserve" => g[n] >= 0
  OBVIOUS
<1>12. e.key.kind \notin Closings \cup {"reserve"}
  BY DEF Closings
<1> HIDE DEF l, m, n
<1>8. Keeps(g, f, DOMAIN l)
  <2>1. DOMAIN l \in SUBSET DOMAIN l
    OBVIOUS
  <2>. QED BY <1>0, <2>1, LedgerKeeps
<1>9. g[n] \in Int
  BY <1>1, Values
<1> HIDE DEF f, g
<1>10. SumFunctionOnSet(g, OpenHolds(m)) = SumFunctionOnSet(f, OpenHolds(l))
  BY ONLY <1>0, <1>8, <1>9, <1>11, <1>12, OpenSumLonger
<1>. QED BY <1>4, <1>5, <1>10 DEF Spending, f, g, l, m

\* A wallet rolls over: the purchased bucket stays, and what is appended is the
\* rollover's own.
Rollover(w, v) ==
  /\ Len(w.ledger) <= Len(v.ledger) /\ v.purchased = w.purchased /\ v.spent = w.spent
  /\ \A i \in DOMAIN w.ledger : i \in DOMAIN v.ledger /\ v.ledger[i] = w.ledger[i]
  /\ \A i \in DOMAIN v.ledger : i \notin DOMAIN w.ledger =>
       /\ v.ledger[i].key.kind \in {"free", "expire"} /\ v.ledger[i].purchased = 0
       /\ v.ledger[i].key.kind = "free" => v.ledger[i].after - w.purchased = v.allocation

\* A month is closed: nothing is free, and no later month has been opened.
Over(w, v) ==
  /\ Sound(v) /\ Spending(v) /\ v.free = 0 /\ v.month = w.month
  /\ \A i \in DOMAIN v.ledger :
       /\ v.ledger[i].month <= w.month
       /\ v.ledger[i].key.kind = "free" => v.ledger[i].key.of \in 0 .. w.month
       /\ v.ledger[i].key.kind = "expire" => v.ledger[i].key.of \in 0 .. w.month
       /\ i \notin DOMAIN w.ledger => v.ledger[i].key.kind = "expire"

\* The month that is over is closed once.
LEMMA ExpireOver ==
  ASSUME NEW w, Good(w)
  PROVE  Over(w, Expire(w)) /\ Rollover(w, Expire(w))
<1>1. /\ w \in WalletRows /\ w.month \in Nat /\ w.free \in Nat /\ Len(w.ledger) \in Nat
      /\ w.purchased \in Int /\ w.ledger \in Seq(Entries)
  BY RowTypes DEF Good, Sound
<1>2. CASE w.month = NoMonth
  <2>1. w.ledger = <<>> /\ DOMAIN w.ledger = {} /\ Expire(w) = w
    BY <1>2 DEF Good, Monthly, Expire
  <2>2. w.free = 0
    BY <2>1, SumEmpty DEF Good, Sound, ExplainsBuckets
  <2>. QED BY <1>1, <2>1, <2>2 DEF Good, Over, Rollover
<1>3. CASE w.month # NoMonth
  <2> DEFINE key == Key("expire", w.month, 0)
             back == 0 - w.free
             none == 0
             never == FALSE
             v == PostWith(w, key, back, none, none, never)
             e == NewEntry(w, key, back, none, none, never)
  <2>1. key \in EntryKeys /\ key.kind = "expire" /\ key.of = w.month
    BY <1>1, KeyType DEF Kinds
  <2>2. ~Posted(w, key)
    <3> SUFFICES ASSUME NEW i \in DOMAIN w.ledger, w.ledger[i].key = key PROVE FALSE
      BY DEF Posted
    <3>1. w.ledger[i].key.of \in 0 .. w.month - 1
      BY <2>1 DEF Good, Monthly, Dated
    <3>. QED BY <1>1, <2>1, <3>1
  <2>3. Expire(w) = v
    BY <1>3 DEF Expire, Post
  <2>4. back \in Int /\ w.free + back >= 0 /\ w.free + back = 0 /\ none \in Int /\ none = 0
    BY <1>1
  <2>11. /\ v = PostWith(w, key, back, none, none, never)
         /\ e = NewEntry(w, key, back, none, none, never) /\ never \in BOOLEAN
    OBVIOUS
  <2> HIDE DEF key, back, none, never, v, e
  <2>5. /\ v \in WalletRows /\ Longer(v.ledger, w.ledger, e)
        /\ v.free = w.free + back /\ v.purchased = w.purchased + none
        /\ v.month = w.month /\ v.allocation = w.allocation /\ v.spent = w.spent
        /\ e.key = key /\ e.free = back /\ e.purchased = none /\ e.month = w.month
    BY <1>1, <2>1, <2>2, <2>4, <2>11, PostFields
  <2>6. Sound(v)
    BY <2>1, <2>4, <2>11, PostSound DEF Good
  <2>7. Spending(v)
    BY <1>1, <2>1, <2>5, NeutralSpends DEF Good
  <2>8. \A i \in DOMAIN v.ledger :
           \/ i \in DOMAIN w.ledger /\ v.ledger[i] = w.ledger[i]
           \/ i \notin DOMAIN w.ledger /\ v.ledger[i] = e
    BY <2>5 DEF Longer
  <2>9. Over(w, v)
    <3>1. \A i \in DOMAIN w.ledger :
             /\ w.ledger[i].month <= w.month
             /\ w.ledger[i].key.kind = "free" => w.ledger[i].key.of \in 0 .. w.month
             /\ w.ledger[i].key.kind = "expire" => w.ledger[i].key.of \in 0 .. w.month
      BY <1>1 DEF Good, Monthly, Dated
    <3>2. e.month <= w.month /\ e.key.kind = "expire" /\ e.key.of \in 0 .. w.month
      BY <1>1, <2>1, <2>5
    <3>. QED BY <2>4, <2>5, <2>6, <2>7, <2>8, <3>1, <3>2 DEF Over
  <2>10. Rollover(w, v)
    <3>1. Len(w.ledger) <= Len(v.ledger) /\ \A i \in DOMAIN w.ledger : i \in DOMAIN v.ledger
      BY <2>5 DEF Longer
    <3>. QED BY <1>1, <2>1, <2>4, <2>5, <2>8, <3>1 DEF Rollover
  <2>. QED BY <2>3, <2>9, <2>10
<1>. QED BY <1>2, <1>3

\* get_wallet gives a good wallet of the month, whatever the allowance is.
LEMMA GetWalletGood ==
  ASSUME NEW w, Good(w), NEW month \in Nat, month >= 1, w.month <= month, NEW allowance \in Nat
  PROVE  /\ Good(GetWallet(w, month, allowance))
         /\ GetWallet(w, month, allowance).month = month
         /\ Rollover(w, GetWallet(w, month, allowance))
<1>1. /\ w \in WalletRows /\ w.month \in Nat /\ w.purchased \in Int /\ Len(w.ledger) \in Nat
  BY RowTypes DEF Good, Sound
<1>2. CASE w.month = month
  BY <1>1, <1>2 DEF GetWallet, Rollover
<1>3. CASE w.month # month
  <2> DEFINE x == Expire(w)
             u == [x EXCEPT !.month = month, !.allocation = allowance]
             key == Key("free", month, 0)
             none == 0
             never == FALSE
             v == PostWith(u, key, allowance, none, none, never)
             e == NewEntry(u, key, allowance, none, none, never)
  <2>1. Over(w, x) /\ Rollover(w, x)
    BY ExpireOver
  <2> HIDE DEF x
  <2>2. x \in WalletRows
    BY <2>1 DEF Over, Sound
  <2>3. /\ u \in WalletRows /\ u.ledger = x.ledger /\ u.free = x.free
        /\ u.purchased = x.purchased /\ u.month = month /\ u.allocation = allowance
        /\ u.spent = x.spent
    BY <2>2 DEF WalletRows
  <2>4. GetWallet(w, month, allowance) = v
    BY <1>3 DEF GetWallet, Post, x
  <2>5. key \in EntryKeys /\ key.kind = "free" /\ key.of = month
    BY KeyType DEF Kinds
  <2>18. /\ v = PostWith(u, key, allowance, none, none, never)
         /\ e = NewEntry(u, key, allowance, none, none, never) /\ never \in BOOLEAN
    OBVIOUS
  <2> HIDE DEF u, key
  <2>6. ~Posted(u, key)
    <3> SUFFICES ASSUME NEW i \in DOMAIN x.ledger, x.ledger[i].key = key PROVE FALSE
      BY <2>3 DEF Posted
    <3>1. x.ledger[i].key.of \in 0 .. w.month
      BY <2>1, <2>5 DEF Over
    <3>. QED BY <1>1, <1>3, <2>5, <3>1
  <2>7. u.free = 0 /\ u.free + allowance >= 0 /\ allowance \in Int /\ none \in Int /\ none = 0
    BY <2>1, <2>3 DEF Over
  <2> HIDE DEF none, never, v, e
  <2>8. Sound(u)
    BY <2>1, <2>3, SoundColumns DEF Over
  <2>9. /\ v \in WalletRows /\ Longer(v.ledger, u.ledger, e)
        /\ v.free = u.free + allowance /\ v.purchased = u.purchased + none
        /\ v.month = u.month /\ v.allocation = u.allocation /\ v.spent = u.spent
        /\ e.key = key /\ e.purchased = none /\ e.month = u.month
        /\ e.after = Balance(u) + allowance + none
    BY <2>3, <2>5, <2>6, <2>7, <2>18, PostFields
  <2>10. Sound(v)
    BY <2>5, <2>7, <2>8, <2>18, PostSound
  <2>11. Longer(v.ledger, x.ledger, e) /\ v.spent = x.spent /\ v.month = month
         /\ v.allocation = allowance /\ v.free = allowance /\ v.purchased = w.purchased
    BY <1>1, <2>1, <2>3, <2>7, <2>9 DEF Rollover
  <2>12. Spending(v)
    BY <2>1, <2>2, <2>5, <2>9, <2>11, NeutralSpends DEF Over
  <2>13. \A i \in DOMAIN v.ledger :
            \/ i \in DOMAIN x.ledger /\ v.ledger[i] = x.ledger[i]
            \/ i \notin DOMAIN x.ledger /\ v.ledger[i] = e
    BY <2>11 DEF Longer
  <2>14. Dated(v)
    <3>1. \A i \in DOMAIN x.ledger :
             /\ x.ledger[i].month <= month
             /\ x.ledger[i].key.kind = "free" => x.ledger[i].key.of \in 0 .. month
             /\ x.ledger[i].key.kind = "expire" => x.ledger[i].key.of \in 0 .. month - 1
      <4> SUFFICES ASSUME NEW i \in DOMAIN x.ledger
                   PROVE  /\ x.ledger[i].month <= month
                          /\ x.ledger[i].key.kind = "free" => x.ledger[i].key.of \in 0 .. month
                          /\ x.ledger[i].key.kind = "expire" =>
                               x.ledger[i].key.of \in 0 .. month - 1
        OBVIOUS
      <4>1. x.ledger[i].month \in Nat
        BY <2>2, RowTypes, EntryTypes
      <4>2. /\ x.ledger[i].month <= w.month
            /\ x.ledger[i].key.kind = "free" => x.ledger[i].key.of \in 0 .. w.month
            /\ x.ledger[i].key.kind = "expire" => x.ledger[i].key.of \in 0 .. w.month
        BY <2>1 DEF Over
      <4>. QED BY <1>1, <1>3, <4>1, <4>2
    <3>2. e.month <= month /\ e.key.kind = "free" /\ e.key.of \in 0 .. month
      BY <2>3, <2>5, <2>9
    <3>. QED BY <2>11, <2>13, <3>1, <3>2 DEF Dated
  <2>15. MintsNothing(v)
    <3> DEFINE l == v.ledger
               f == FreeTaken(l, month)
    <3>1. l \in Seq(Entries)
      BY <2>9, RowTypes
    <3>2. ASSUME NEW h \in OpenHolds(l) PROVE f[h] = 0
      <4>1. h \in DOMAIN l /\ l[h].key.kind = "reserve"
        BY DEF OpenHolds, Positions
      <4>2. h \in DOMAIN x.ledger /\ l[h] = x.ledger[h]
        BY <2>5, <2>9, <2>13, <4>1
      <4>3. l[h].month <= w.month /\ l[h].month \in Nat
        BY <2>1, <2>2, <4>2, RowTypes, EntryTypes DEF Over
      <4>4. l[h].month # month
        BY <1>1, <1>3, <4>3
      <4>. QED BY <3>1, <4>1, <4>4, FreeTakenValue
    <3> HIDE DEF f
    <3>3. OpenHolds(l) \in SUBSET DOMAIN l
      BY DEF OpenHolds, Positions
    <3>4. IsFiniteSet(OpenHolds(l))
      BY <3>1, <3>3, PositionsFinite
    <3>5. SumFunctionOnSet(f, OpenHolds(l)) = 0
      BY <3>2, <3>4, SumZero
    <3>. QED BY <2>11, <3>5 DEF MintsNothing, f
  <2>16. Rollover(w, v)
    <3>1. Len(x.ledger) \in Nat /\ Len(x.ledger) <= Len(v.ledger)
          /\ \A i \in DOMAIN x.ledger : i \in DOMAIN v.ledger
      BY <2>2, <2>11, RowTypes DEF Longer
    <3>2. Len(v.ledger) \in Nat
      BY <2>9, RowTypes
    <3>3. e.after - w.purchased = v.allocation
      BY <1>1, <2>1, <2>3, <2>7, <2>9, <2>11 DEF Balance, Rollover
    <3>4. Len(w.ledger) <= Len(v.ledger)
      BY <1>1, <2>1, <3>1, <3>2 DEF Rollover
    <3>5. v.spent = w.spent
      BY <2>1, <2>11 DEF Rollover
    <3>6. \A i \in DOMAIN w.ledger : i \in DOMAIN v.ledger /\ v.ledger[i] = w.ledger[i]
      BY <2>1, <2>13, <3>1 DEF Rollover
    <3>7. ASSUME NEW i \in DOMAIN v.ledger, i \notin DOMAIN w.ledger
          PROVE  /\ v.ledger[i].key.kind \in {"free", "expire"} /\ v.ledger[i].purchased = 0
                 /\ v.ledger[i].key.kind = "free" => v.ledger[i].after - w.purchased = v.allocation
      <4>1. CASE i \in DOMAIN x.ledger /\ v.ledger[i] = x.ledger[i]
        BY <2>1, <3>7, <4>1 DEF Rollover, Over
      <4>2. CASE v.ledger[i] = e
        BY <2>5, <2>7, <2>9, <3>3, <4>2
      <4>. QED BY <2>13, <4>1, <4>2
    <3>. QED BY <2>11, <3>4, <3>5, <3>6, <3>7 DEF Rollover
  <2>17. month # NoMonth
    BY DEF NoMonth
  <2>. QED BY <2>4, <2>10, <2>11, <2>12, <2>14, <2>15, <2>16, <2>17 DEF Good, Monthly
<1>. QED BY <1>2, <1>3
-----------------------------------------------------------------------------
(* settle_reservations: the loop over the holds of a job.                  *)

Captures == [left : Nat, free : Nat, purchased : Nat]

\* The smaller of two numbers.
LEMMA MinPair ==
  ASSUME NEW a \in Int, NEW b \in Int
  PROVE  Min({a, b}) = IF a <= b THEN a ELSE b
<1>1. \E x \in {a, b} : \A y \in {a, b} : x <= y
  <2>1. CASE a <= b
    BY <2>1
  <2>2. CASE b <= a
    BY <2>2
  <2>. QED BY <2>1, <2>2
<1>2. Min({a, b}) \in {a, b} /\ \A y \in {a, b} : Min({a, b}) <= y
  BY <1>1 DEF Min
<1>. QED BY <1>2

\* A turn of the loop captures from a hold as much as is left of the charge,
\* and loses at most the free credits of an earlier month.
LEMMA ReleaseTurn ==
  ASSUME NEW month, NEW failed \in BOOLEAN, NEW r \in Captures,
         NEW h, NEW x \in Nat, NEW y \in Nat, h.free = 0 - x, h.purchased = 0 - y,
         NEW s, s = Release(month, failed, r, h),
         NEW mine, mine = (IF h.month = month THEN x ELSE 0)
  PROVE  /\ s \in Captures
         /\ s.left <= r.left /\ r.left - s.left <= x + y
         /\ s.left > 0 => r.left - s.left = x + y
         /\ s.free - r.free <= mine
         /\ failed /\ r.left = 0 => s.left = 0 /\ s.free - r.free = mine
         /\ failed => (s.free - r.free) + (s.purchased - r.purchased) = x + y - (r.left - s.left)
         /\ ~failed =>
              /\ s.purchased - r.purchased <= y
              /\ (s.free - r.free) + (s.purchased - r.purchased) <= x + y - (r.left - s.left)
              /\ x + y - (r.left - s.left) - (s.free - r.free) - (s.purchased - r.purchased)
                   <= x - mine
<1> DEFINE free == Min({r.left, x})
           bought == Min({r.left - free, y})
           unused == x - free
           to == Lands(month, failed, h)
           toFree == IF to = "free" THEN unused ELSE 0
           toPurchased == IF to = "purchased" THEN unused ELSE 0
<1>1. r.left \in Nat /\ r.free \in Nat /\ r.purchased \in Nat
  BY DEF Captures
<1>2. 0 - h.free = x /\ 0 - h.purchased = y
  OBVIOUS
<1>3. s = [left |-> r.left - free - bought, free |-> r.free + toFree,
           purchased |-> (r.purchased - h.purchased - bought) + toPurchased]
  BY <1>2 DEF Release
<1>4. /\ to = "free" <=> h.month = month
      /\ to = "purchased" <=> h.month # month /\ failed
  BY DEF Lands
<1> HIDE DEF to
<1>5. free = IF r.left <= x THEN r.left ELSE x
  BY <1>1, MinPair
<1> HIDE DEF free
<1>6. free \in Nat /\ free <= r.left /\ free <= x /\ (free < r.left => free = x)
  BY <1>1, <1>5
<1>7. bought = IF r.left - free <= y THEN r.left - free ELSE y
  BY <1>1, <1>6, MinPair
<1> HIDE DEF bought
<1>8. bought \in Nat /\ bought <= r.left - free /\ bought <= y
      /\ (bought < r.left - free => bought = y)
  BY <1>1, <1>6, <1>7
<1>9. unused \in Nat /\ unused = x - free
  BY <1>6
<1> HIDE DEF unused
<1>10. /\ h.month = month => toFree = unused /\ toPurchased = 0 /\ mine = x
       /\ h.month # month => toFree = 0 /\ mine = 0
       /\ h.month # month /\ failed => toPurchased = unused
       /\ h.month # month /\ ~failed => toPurchased = 0
  BY <1>4
<1>11. toFree \in Nat /\ toPurchased \in Nat /\ mine \in Nat
  BY <1>4, <1>9
<1> HIDE DEF toFree, toPurchased
<1>12. /\ s.left = r.left - free - bought /\ s.free = r.free + toFree
       /\ s.purchased = r.purchased + (y - bought) + toPurchased
  BY <1>1, <1>3, <1>8, <1>11
<1>13. s \in Captures
  <2>1. r.left - free - bought \in Nat /\ r.free + toFree \in Nat
    BY <1>1, <1>6, <1>8, <1>11
  <2>2. (r.purchased - h.purchased - bought) + toPurchased \in Nat
    BY <1>1, <1>8, <1>11
  <2>. QED BY <1>3, <2>1, <2>2 DEF Captures
<1>14. s.left > 0 => free = x /\ bought = y
  BY <1>1, <1>6, <1>8, <1>12
<1> DEFINE dl == free + bought
           dp == (y - bought) + toPurchased
<1>15. r.left - s.left = dl /\ s.free - r.free = toFree /\ s.purchased - r.purchased = dp
  <2>1. r.left - (r.left - free - bought) = free + bought
    BY <1>1, <1>6, <1>8
  <2>2. (r.free + toFree) - r.free = toFree
    BY <1>1, <1>11
  <2>3. (r.purchased + (y - bought) + toPurchased) - r.purchased = (y - bought) + toPurchased
    BY <1>1, <1>8, <1>11
  <2>. QED BY <1>12, <2>1, <2>2, <2>3
<1>16. s.left <= r.left /\ dl <= x + y /\ (s.left > 0 => dl = x + y)
  <2>1. s.left <= r.left
    BY <1>1, <1>6, <1>8, <1>12
  <2>2. dl <= x + y
    BY <1>6, <1>8
  <2>. QED BY <1>14, <2>1, <2>2
<1>17. toFree <= mine /\ (failed /\ r.left = 0 => s.left = 0 /\ toFree = mine)
  <2>1. toFree <= mine
    BY <1>6, <1>9, <1>10
  <2>2. ASSUME r.left = 0
        PROVE  free = 0 /\ bought = 0 /\ s.left = 0
    BY <1>6, <1>8, <1>12, <2>2
  <2>3. ASSUME r.left = 0
        PROVE  unused = x
    BY <1>9, <2>2, <2>3
  <2>. QED BY <1>10, <2>1, <2>2, <2>3
<1>18. failed => toFree + dp = x + y - dl
  <2>1. failed => toFree + toPurchased = unused
    BY <1>9, <1>10
  <2>. QED BY <1>6, <1>8, <1>9, <1>11, <2>1
<1>19. ~failed => dp <= y /\ toFree + dp <= x + y - dl /\ x + y - dl - toFree - dp <= x - mine
  <2>1. ASSUME ~failed
        PROVE  /\ toPurchased = 0
               /\ \/ toFree = unused /\ mine = x
                  \/ toFree = 0 /\ mine = 0
    BY <1>10, <2>1
  <2>. QED BY <1>6, <1>8, <1>9, <1>11, <2>1
<1> HIDE DEF dl, dp
<1>. QED BY <1>13, <1>15, <1>16, <1>17, <1>18, <1>19

\* The same for a hold of the ledger.
LEMMA HoldTurn ==
  ASSUME NEW h \in Entries, HasShape(h), h.key.kind = "reserve",
         NEW month, NEW failed \in BOOLEAN, NEW r \in Captures,
         NEW s, s = Release(month, failed, r, h),
         NEW x, x = 0 - h.free, NEW y, y = 0 - h.purchased,
         NEW mine, mine = (IF h.month = month THEN x ELSE 0)
  PROVE  /\ s \in Captures /\ x \in Nat /\ y \in Nat /\ mine \in Nat
         /\ s.left <= r.left /\ r.left - s.left <= x + y
         /\ s.left > 0 => r.left - s.left = x + y
         /\ s.free - r.free <= mine
         /\ failed /\ r.left = 0 => s.left = 0 /\ s.free - r.free = mine
         /\ failed => (s.free - r.free) + (s.purchased - r.purchased) = x + y - (r.left - s.left)
         /\ ~failed =>
              /\ s.purchased - r.purchased <= y
              /\ (s.free - r.free) + (s.purchased - r.purchased) <= x + y - (r.left - s.left)
              /\ x + y - (r.left - s.left) - (s.free - r.free) - (s.purchased - r.purchased)
                   <= x - mine
<1>1. h.free \in Int /\ h.purchased \in Int /\ h.free <= 0 /\ h.purchased <= 0
  BY EntryTypes DEF HasShape
<1>2. x \in Nat /\ y \in Nat /\ h.free = 0 - x /\ h.purchased = 0 - y /\ mine \in Nat
  BY <1>1
<1>3. s = Release(month, failed, r, h) /\ mine = (IF h.month = month THEN x ELSE 0)
  OBVIOUS
<1>. QED BY ONLY <1>2, <1>3, ReleaseTurn

\* The states of the loop.
LEMMA ReleasedLoop ==
  ASSUME NEW w \in WalletRows, \A i \in DOMAIN w.ledger : HasShape(w.ledger[i]),
         NEW j, NEW charged \in Nat, NEW failed \in BOOLEAN
  PROVE  \E g :
           /\ g[0] = [left |-> charged, free |-> 0, purchased |-> 0]
           /\ \A i \in 1 .. Len(w.ledger) :
                g[i] = IF i \in Holds(w.ledger, j)
                       THEN Release(w.month, failed, g[i-1], w.ledger[i]) ELSE g[i-1]
           /\ g[Len(w.ledger)] = Released(w, j, charged, failed)
<1> DEFINE n == Len(w.ledger)
           start == [left |-> charged, free |-> 0, purchased |-> 0]
           H == Holds(w.ledger, j)
           Next1(i, r) == IF i \in H THEN Release(w.month, failed, r, w.ledger[i]) ELSE r
           F == [p \in (1 .. n) \X Captures |-> Next1(p[1], p[2])]
           Body(g) == [i \in 0 .. n |-> IF i = 0 THEN start ELSE Next1(i, g[i-1])]
           all == CHOOSE g : g = Body(g)
<1>1. n \in Nat /\ w.ledger \in Seq(Entries) /\ DOMAIN w.ledger = 1 .. n
  BY RowTypes
<1>2. start \in Captures
  BY DEF Captures
<1>3. ASSUME NEW i \in 1 .. n, NEW r \in Captures PROVE Next1(i, r) \in Captures
  <2>1. CASE i \in H
    <3> DEFINE h == w.ledger[i]
               x == 0 - h.free
               y == 0 - h.purchased
               s == Release(w.month, failed, r, h)
               mine == IF h.month = w.month THEN x ELSE 0
    <3>1. h \in Entries /\ HasShape(h) /\ h.key.kind = "reserve"
      BY <1>1, <2>1 DEF Holds, HoldsBefore, Positions
    <3>3. /\ s = Release(w.month, failed, r, h) /\ x = 0 - h.free /\ y = 0 - h.purchased
          /\ mine = IF h.month = w.month THEN x ELSE 0
      OBVIOUS
    <3> HIDE DEF h, x, y, s, mine
    <3>4. s \in Captures
      BY <3>1, <3>3, HoldTurn
    <3>. QED BY <2>1, <3>3, <3>4 DEF h
  <2>2. CASE i \notin H
    BY <2>2
  <2>. QED BY <2>1, <2>2
<1> HIDE DEF n, start, H, Next1
<1>4. F \in [(1 .. n) \X Captures -> Captures]
  BY <1>3
<1>5. PICK k \in [0 .. n -> Captures] : Runs(k, n, start, F)
  <2> HIDE DEF F
  <2>. QED BY <1>1, <1>2, <1>4, LoopExists
<1>6. k = Body(k)
  <2>1. \A i \in 1 .. n : k[i] = Next1(i, k[i-1])
    <3>1. \A i \in 1 .. n : i - 1 \in 0 .. n
      BY <1>1
    <3>2. \A i \in 1 .. n : <<i, k[i-1]>> \in (1 .. n) \X Captures
      BY <3>1, <1>5
    <3>. QED BY <3>2, <1>5 DEF Runs
  <2>2. k[0] = start
    BY <1>5 DEF Runs
  <2>3. \A i \in 0 .. n : i = 0 \/ i \in 1 .. n
    BY <1>1
  <2>. QED BY <2>1, <2>2, <2>3
<1>7. all = Body(all)
  <2>1. \E g : g = Body(g)
    BY <1>6
  <2> HIDE DEF Body
  <2>. QED BY <2>1
<1> HIDE DEF all
<1>8. all[0] = start /\ \A i \in 1 .. n : all[i] = Next1(i, all[i-1])
  <2>1. 0 \in 0 .. n /\ \A i \in 1 .. n : i \in 0 .. n /\ i # 0
    BY <1>1
  <2>. QED BY <1>7, <2>1
<1>9. Released(w, j, charged, failed) = all[n]
  BY DEF Released, all, n, start, H, Next1
<1>. QED BY <1>8, <1>9 DEF n, start, H, Next1

\* f is integer on S.
IntegerOn(f, S) == \A h \in S : f[h] \in Int

\* The holds before a position grow by the position, if it holds one.
LEMMA HeldNext ==
  ASSUME NEW l \in Seq(Entries), NEW j, NEW i \in DOMAIN l, NEW k, k = i + 1, NEW f,
         IntegerOn(f, DOMAIN l)
  PROVE  /\ SumFunctionOnSet(f, HoldsBefore(l, j, i)) \in Int
         /\ i \in Holds(l, j) => SumFunctionOnSet(f, HoldsBefore(l, j, k))
                                   = SumFunctionOnSet(f, HoldsBefore(l, j, i)) + f[i]
         /\ i \notin Holds(l, j) => HoldsBefore(l, j, k) = HoldsBefore(l, j, i)
<1> DEFINE S == HoldsBefore(l, j, i)
<1>1. /\ Len(l) \in Nat /\ DOMAIN l = 1 .. Len(l) /\ i \in Nat
      /\ \A h \in DOMAIN l : h \in Nat /\ h < Len(l) + 1 /\ (h < k <=> h < i \/ h = i)
  OBVIOUS
<1>2. S \in SUBSET DOMAIN l /\ i \notin S
  BY <1>1 DEF HoldsBefore, Positions
<1>3. i \in Holds(l, j) => HoldsBefore(l, j, k) = S \cup {i}
  BY <1>1 DEF Holds, HoldsBefore, Positions
<1>4. i \notin Holds(l, j) => HoldsBefore(l, j, k) = S
  BY <1>1 DEF Holds, HoldsBefore, Positions
<1> HIDE DEF S
<1>5. IsFiniteSet(S)
  BY <1>2, PositionsFinite
<1>6. (\A h \in S : f[h] \in Int) /\ (\A h \in S \cup {i} : f[h] \in Int)
  BY <1>2 DEF IntegerOn
<1>7. SumFunctionOnSet(f, S) \in Int
  BY <1>5, <1>6, SumType
<1>8. SumFunctionOnSet(f, S \cup {i}) = SumFunctionOnSet(f, S) + f[i]
  BY <1>2, <1>5, <1>6, SumAdd
<1>. QED BY <1>3, <1>4, <1>7, <1>8 DEF S

\* The books of the loop before position k: total, mine and bought are what
\* the holds seen so far took in all, of this month's free credits and of the
\* purchased ones.
Balanced(charged, failed, r, total, mine, bought) ==
  /\ r \in Captures /\ total \in Int /\ mine \in Int /\ bought \in Int
  /\ r.left <= charged /\ charged - r.left <= total
  /\ r.left > 0 => charged - r.left = total
  /\ r.free <= mine
  /\ failed => /\ r.left = 0 /\ r.free = mine
               /\ r.free + r.purchased = total - (charged - r.left)
  /\ ~failed => /\ r.purchased <= bought
                /\ r.free + r.purchased <= total - (charged - r.left)
                /\ total - (charged - r.left) - r.free - r.purchased <= total - bought - mine

\* A turn keeps the books balanced.
LEMMA BalancedTurn ==
  ASSUME NEW charged \in Nat, NEW failed \in BOOLEAN, NEW r, NEW s,
         NEW total, NEW mine, NEW bought, Balanced(charged, failed, r, total, mine, bought),
         NEW x \in Nat, NEW y \in Nat, NEW more \in Nat, s \in Captures,
         s.left <= r.left, r.left - s.left <= x + y,
         s.left > 0 => r.left - s.left = x + y,
         s.free - r.free <= more,
         failed /\ r.left = 0 => s.left = 0 /\ s.free - r.free = more,
         failed => (s.free - r.free) + (s.purchased - r.purchased) = x + y - (r.left - s.left),
         ~failed =>
            /\ s.purchased - r.purchased <= y
            /\ (s.free - r.free) + (s.purchased - r.purchased) <= x + y - (r.left - s.left)
            /\ x + y - (r.left - s.left) - (s.free - r.free) - (s.purchased - r.purchased)
                 <= x - more
  PROVE  Balanced(charged, failed, s, total + (x + y), mine + more, bought + y)
<1> DEFINE rl == r.left
           rf == r.free
           rp == r.purchased
           sl == s.left
           sf == s.free
           sp == s.purchased
<1>1. /\ rl \in Nat /\ rf \in Nat /\ rp \in Nat /\ sl \in Nat /\ sf \in Nat /\ sp \in Nat
      /\ total \in Int /\ mine \in Int /\ bought \in Int
  BY DEF Balanced, Captures
<1>2. /\ rl <= charged /\ charged - rl <= total /\ (rl > 0 => charged - rl = total) /\ rf <= mine
      /\ failed => rl = 0 /\ rf = mine /\ rf + rp = total - (charged - rl)
      /\ ~failed => /\ rp <= bought /\ rf + rp <= total - (charged - rl)
                    /\ total - (charged - rl) - rf - rp <= total - bought - mine
  BY DEF Balanced
<1>3. /\ sl <= rl /\ rl - sl <= x + y /\ (sl > 0 => rl - sl = x + y) /\ sf - rf <= more
      /\ failed /\ rl = 0 => sl = 0 /\ sf - rf = more
      /\ failed => (sf - rf) + (sp - rp) = x + y - (rl - sl)
      /\ ~failed => /\ sp - rp <= y /\ (sf - rf) + (sp - rp) <= x + y - (rl - sl)
                    /\ x + y - (rl - sl) - (sf - rf) - (sp - rp) <= x - more
  OBVIOUS
<1> HIDE DEF rl, rf, rp, sl, sf, sp
<1> DEFINE t == total + (x + y)
           m == mine + more
           b == bought + y
<1>4. t \in Int /\ t = total + (x + y) /\ m \in Int /\ m = mine + more
      /\ b \in Int /\ b = bought + y
  BY <1>1
<1> HIDE DEF t, m, b
<1>5. sl <= charged /\ charged - sl <= t
  BY <1>1, <1>2, <1>3, <1>4
<1>6. sl > 0 => charged - sl = t
  <2>1. sl > 0 => rl > 0
    BY <1>1, <1>3
  <2>. QED BY <1>1, <1>2, <1>3, <1>4, <2>1
<1>7. sf <= m
  BY <1>1, <1>2, <1>3, <1>4
<1>8. failed => sl = 0 /\ sf = m /\ sf + sp = t - (charged - sl)
  BY <1>1, <1>2, <1>3, <1>4
<1>9. ASSUME ~failed
      PROVE  /\ sp <= b /\ sf + sp <= t - (charged - sl)
             /\ t - (charged - sl) - sf - sp <= t - b - m
  <2>1. /\ rp <= bought /\ rf + rp <= total - (charged - rl)
        /\ total - (charged - rl) - rf - rp <= total - bought - mine
        /\ sp - rp <= y /\ (sf - rf) + (sp - rp) <= x + y - (rl - sl)
        /\ x + y - (rl - sl) - (sf - rf) - (sp - rp) <= x - more
    BY <1>2, <1>3, <1>9
  <2>2. sp <= b
    BY <1>1, <1>4, <2>1
  <2>3. sf + sp <= t - (charged - sl)
    BY <1>1, <1>4, <2>1
  <2>4. t - (charged - sl) - sf - sp <= t - b - m
    BY <1>1, <1>4, <2>1
  <2>. QED BY <2>2, <2>3, <2>4
<1>10. Balanced(charged, failed, s, t, m, b)
  BY <1>4, <1>5, <1>6, <1>7, <1>8, <1>9 DEF Balanced, sl, sf, sp
<1>. QED BY <1>10 DEF t, m, b

\* A whole charge within the holds is captured, and what is released is fair.
LEMMA ReleasedFair ==
  ASSUME NEW w \in WalletRows, \A i \in DOMAIN w.ledger : HasShape(w.ledger[i]),
         NEW j, NEW charged \in Nat, NEW failed \in BOOLEAN, failed => charged = 0,
         Fits(w, j, charged), NEW back, back = Released(w, j, charged, failed)
  PROVE  /\ back.free \in Nat /\ back.purchased \in Nat
         /\ FairlySettled(w, j, back.free, back.purchased, charged, failed)
         /\ back.free <= HeldFree(w.ledger, j, Len(w.ledger) + 1, w.month)
<1> DEFINE l == w.ledger
           n == Len(l)
           total(k) == Held(l, j, k)
           mine(k) == HeldFree(l, j, k, w.month)
           bought(k) == HeldPurchased(l, j, k)
           ok(k, r) == Balanced(charged, failed, r, total(k), mine(k), bought(k))
<1>1. n \in Nat /\ l \in Seq(Entries) /\ DOMAIN l = 1 .. n
  BY RowTypes
<1>2. PICK g :
        /\ g[0] = [left |-> charged, free |-> 0, purchased |-> 0]
        /\ \A i \in 1 .. n :
             g[i] = IF i \in Holds(l, j) THEN Release(w.month, failed, g[i-1], l[i]) ELSE g[i-1]
        /\ g[n] = back
  BY ReleasedLoop
<1>10. \A i \in DOMAIN l : HasShape(l[i])
  OBVIOUS
<1> HIDE DEF l, n
<1>3. ok(1, g[0])
  <2>1. HoldsBefore(l, j, 1) = {}
    BY <1>1 DEF HoldsBefore, Positions
  <2>2. total(1) = 0 /\ mine(1) = 0 /\ bought(1) = 0
    BY <2>1, SumEmpty DEF Held, HeldFree, HeldPurchased
  <2>3. /\ g[0] \in Captures /\ g[0].left = charged /\ g[0].free = 0 /\ g[0].purchased = 0
    BY <1>2 DEF Captures
  <2> HIDE DEF total, mine, bought
  <2>4. failed => charged = 0
    OBVIOUS
  <2>. QED BY <2>2, <2>3, <2>4 DEF Balanced
<1>4. ASSUME NEW i \in 1 .. n, ok(i, g[i-1]) PROVE ok(i + 1, g[i])
  <2> DEFINE k == i + 1
             f == Taken(l)
             a == FreeTaken(l, w.month)
             b == PurchasedTaken(l)
  <2>1. i \in DOMAIN l /\ k = i + 1
    BY <1>1
  <2>2. IntegerOn(f, DOMAIN l) /\ IntegerOn(b, DOMAIN l)
    BY <1>1, Values DEF IntegerOn
  <2>3. IntegerOn(a, DOMAIN l)
    BY <1>1, FreeTakenValue DEF IntegerOn
  <2> HIDE DEF k, f, a, b
  <2>4. /\ i \in Holds(l, j) => SumFunctionOnSet(f, HoldsBefore(l, j, k))
                                  = SumFunctionOnSet(f, HoldsBefore(l, j, i)) + f[i]
        /\ i \in Holds(l, j) => SumFunctionOnSet(a, HoldsBefore(l, j, k))
                                  = SumFunctionOnSet(a, HoldsBefore(l, j, i)) + a[i]
        /\ i \in Holds(l, j) => SumFunctionOnSet(b, HoldsBefore(l, j, k))
                                  = SumFunctionOnSet(b, HoldsBefore(l, j, i)) + b[i]
        /\ i \notin Holds(l, j) => HoldsBefore(l, j, k) = HoldsBefore(l, j, i)
    BY ONLY <1>1, <2>1, <2>2, <2>3, HeldNext
  <2>5. CASE i \notin Holds(l, j)
    <3>1. total(k) = total(i) /\ mine(k) = mine(i) /\ bought(k) = bought(i) /\ g[i] = g[i-1]
      BY <1>2, <2>4, <2>5 DEF Held, HeldFree, HeldPurchased
    <3>. QED BY <1>4, <3>1 DEF k
  <2>6. CASE i \in Holds(l, j)
    <3> DEFINE h == l[i]
               r == g[i-1]
               s == g[i]
               x == 0 - h.free
               y == 0 - h.purchased
               more == IF h.month = w.month THEN x ELSE 0
    <3>1. s = Release(w.month, failed, r, h)
      BY <1>2, <2>6
    <3>2. h \in Entries /\ HasShape(h) /\ h.key.kind = "reserve"
      BY <1>1, <1>10, <2>1, <2>6 DEF Holds, HoldsBefore, Positions
    <3>3. h.free \in Int /\ h.purchased \in Int
      BY <3>2, EntryTypes
    <3>4. f[i] = x + y /\ a[i] = more /\ b[i] = y
      <4>1. f[i] = 0 - h.free - h.purchased /\ b[i] = y
        BY <1>1, <2>1, Values DEF f, b
      <4>2. a[i] = more
        BY <1>1, <2>1, FreeTakenValue DEF a
      <4>. QED BY <3>3, <4>1, <4>2
    <3>5. /\ total(k) = total(i) + (x + y) /\ mine(k) = mine(i) + more
          /\ bought(k) = bought(i) + y
      BY <2>4, <2>6, <3>4 DEF Held, HeldFree, HeldPurchased, f, a, b
    <3>6. r \in Captures
      BY <1>4 DEF Balanced
    <3>7. x = 0 - h.free /\ y = 0 - h.purchased /\ more = (IF h.month = w.month THEN x ELSE 0)
      OBVIOUS
    <3> HIDE DEF h, r, s, x, y, more, total, mine, bought
    <3>8. /\ s \in Captures /\ x \in Nat /\ y \in Nat /\ more \in Nat
          /\ s.left <= r.left /\ r.left - s.left <= x + y
          /\ s.left > 0 => r.left - s.left = x + y
          /\ s.free - r.free <= more
          /\ failed /\ r.left = 0 => s.left = 0 /\ s.free - r.free = more
          /\ failed => (s.free - r.free) + (s.purchased - r.purchased) = x + y - (r.left - s.left)
          /\ ~failed =>
               /\ s.purchased - r.purchased <= y
               /\ (s.free - r.free) + (s.purchased - r.purchased) <= x + y - (r.left - s.left)
               /\ x + y - (r.left - s.left) - (s.free - r.free) - (s.purchased - r.purchased)
                    <= x - more
      BY ONLY <3>1, <3>2, <3>6, <3>7, HoldTurn, failed \in BOOLEAN
    <3>9. Balanced(charged, failed, r, total(i), mine(i), bought(i))
      BY <1>4 DEF r
    <3>10. Balanced(charged, failed, s, total(i) + (x + y), mine(i) + more, bought(i) + y)
      BY ONLY <3>8, <3>9, BalancedTurn, failed \in BOOLEAN, charged \in Nat
    <3>. QED BY <3>5, <3>10 DEF k, s
  <2>. QED BY <2>5, <2>6
<1>5. ok(n + 1, g[n])
  <2> DEFINE good == {i \in 0 .. n : ok(i + 1, g[i])}
  <2>1. 0 \in good
    BY <1>1, <1>3
  <2>2. ASSUME NEW i \in 1 .. n, i - 1 \in good PROVE i \in good
    <3>1. ok((i - 1) + 1, g[i-1]) /\ (i - 1) + 1 = i /\ i \in 0 .. n
      BY <1>1, <2>2
    <3> HIDE DEF ok
    <3>2. ok(i, g[i-1])
      BY <3>1
    <3>. QED BY <1>4, <3>1, <3>2
  <2>3. n \in good
    <3> HIDE DEF good
    <3>1. \A i \in 0 .. n : i \in good
      BY <1>1, <2>1, <2>2, LoopInduction
    <3>. QED BY <1>1, <3>1
  <2>. QED BY <2>3
<1> DEFINE k == n + 1
<1>6. /\ Balanced(charged, failed, back, total(k), mine(k), bought(k))
      /\ charged <= total(k)
  <2>1. HoldTotal(w, j) = total(k)
    BY DEF HoldTotal, Held, Holds, l, n
  <2>2. total(k) \in Int
    BY <1>5 DEF Balanced
  <2>. QED BY <1>2, <1>5, <2>1, <2>2 DEF Fits
<1>7. total(k) = Held(l, j, k) /\ mine(k) = HeldFree(l, j, k, w.month)
      /\ bought(k) = HeldPurchased(l, j, k) /\ k = Len(w.ledger) + 1
  BY DEF n, l
<1> HIDE DEF total, mine, bought, k
<1>8. back.left = 0
  <2>1. back.left \in Nat /\ total(k) \in Int
    BY <1>6 DEF Balanced, Captures
  <2>2. back.left > 0 => charged - back.left = total(k)
    BY <1>6 DEF Balanced
  <2>. QED BY <1>6, <2>1, <2>2
<1>9. /\ back.free \in Nat /\ back.purchased \in Nat /\ total(k) \in Int /\ mine(k) \in Int
      /\ bought(k) \in Int /\ back.free <= mine(k)
      /\ failed => back.free = mine(k) /\ back.free + back.purchased = total(k) - charged
      /\ ~failed => /\ back.purchased <= bought(k)
                    /\ back.free + back.purchased <= total(k) - charged
                    /\ total(k) - charged - back.free - back.purchased
                         <= total(k) - bought(k) - mine(k)
  BY <1>6, <1>8 DEF Balanced, Captures
<1>11. FairlySettled(w, j, back.free, back.purchased, charged, failed)
  <2> DEFINE lost == total(k) - charged - back.free - back.purchased
             most == total(k) - bought(k) - mine(k)
             f == back.free
             p == back.purchased
             t == total(k)
             m == mine(k)
             b == bought(k)
  <2>5. /\ f \in Nat /\ p \in Nat /\ t \in Int /\ m \in Int /\ b \in Int
        /\ failed => f + p = t - charged
        /\ ~failed => f + p <= t - charged /\ t - charged - f - p <= t - b - m
    BY <1>9
  <2> HIDE DEF f, p, t, m, b
  <2>6. t - charged - f - p \in Int /\ t - b - m \in Int
    BY <2>5
  <2>7. failed => t - charged - f - p = 0
    BY <2>5
  <2>8. ~failed => 0 <= t - charged - f - p /\ t - charged - f - p <= t - b - m
    BY <2>5
  <2>1. lost \in Int /\ most \in Int
    BY <2>6 DEF f, p, t, m, b
  <2>2. failed => lost = 0
    BY <2>7 DEF f, p, t
  <2>3. ~failed => 0 <= lost /\ lost <= most
    BY <2>8 DEF f, p, t, m, b
  <2>4. ~failed => lost \in 0 .. most
    <3> HIDE DEF lost, most
    <3>. QED BY <2>1, <2>3
  <2>. QED BY <1>6, <1>7, <1>9, <2>2, <2>4 DEF FairlySettled, l
<1>. QED BY <1>7, <1>9, <1>11 DEF l
-----------------------------------------------------------------------------
(* What the callers make of a good wallet: the wallet itself, or the       *)
(* wallet with a lawful entry more.                                        *)

Answer(w, v) ==
  \/ v = w
  \/ /\ Good(v) /\ v.month = w.month /\ v.allocation = w.allocation
     /\ \E e \in Entries : Longer(v.ledger, w.ledger, e) /\ Lawful(w, e)

\* The entry that append makes.
LEMMA NewEntryFields ==
  ASSUME NEW w \in WalletRows, NEW key \in EntryKeys, NEW free \in Int, NEW purchased \in Int,
         NEW charged \in Int, NEW failed \in BOOLEAN,
         NEW e, e = NewEntry(w, key, free, purchased, charged, failed)
  PROVE  /\ e \in Entries
         /\ e.key = key /\ e.free = free /\ e.purchased = purchased
         /\ e.month = w.month /\ e.charged = charged /\ e.failed = failed
<1>1. NewBalance(w, free, purchased) \in Int /\ w.month \in Nat
  BY RowTypes DEF NewBalance, Balance
<1>. QED BY <1>1 DEF Entries, NewEntry

\* A lawful entry is an answer.
LEMMA PostAnswers ==
  ASSUME NEW w, Good(w), w.month # NoMonth, NEW key \in EntryKeys, ~Posted(w, key),
         NEW free \in Int, NEW purchased \in Int, NEW charged \in Int, NEW failed \in BOOLEAN,
         NEW e, e = NewEntry(w, key, free, purchased, charged, failed), Lawful(w, e),
         NEW spent \in Int, spent = w.spent + Spends(w.ledger, e)
  PROVE  Answer(w, PostWith([w EXCEPT !.spent = spent], key, free, purchased, charged, failed))
<1> DEFINE u == [w EXCEPT !.spent = spent]
           v == PostWith(u, key, free, purchased, charged, failed)
<1>1. Good(v) /\ Longer(v.ledger, w.ledger, e)
  BY PostGood
<1>2. w \in WalletRows
  BY DEF Good, Sound
<1>3. u \in WalletRows /\ u.month = w.month /\ u.allocation = w.allocation
  BY <1>2, SpentColumn
<1> HIDE DEF u
<1>4. v.month = w.month /\ v.allocation = w.allocation
  BY <1>3 DEF PostWith, WalletRows
<1>5. e \in Entries
  BY DEF Lawful
<1> HIDE DEF v
<1>6. Answer(w, v)
  BY <1>1, <1>4, <1>5 DEF Answer
<1>. QED BY <1>6 DEF v, u

\* append without a change of the counter.
LEMMA PlainAnswers ==
  ASSUME NEW w, Good(w), w.month # NoMonth, NEW key \in EntryKeys,
         key.kind \notin {"playbook", "reserve", "settle", "refund"},
         NEW free \in Int, NEW purchased \in Int,
         NEW none \in Int, none = 0, NEW never \in BOOLEAN, never = FALSE,
         NEW e, e = NewEntry(w, key, free, purchased, none, never), Lawful(w, e)
  PROVE  Answer(w, Post(w, key, free, purchased))
<1>1. CASE Posted(w, key)
  BY <1>1 DEF Post, PostWith, Answer
<1>2. CASE ~Posted(w, key)
  <2>1. w \in WalletRows /\ w.spent \in Int
    BY RowTypes DEF Good, Sound
  <2>2. w = [w EXCEPT !.spent = w.spent]
    BY <2>1 DEF WalletRows
  <2>3. Spends(w.ledger, e) = 0
    <3>1. e.key = key
      BY DEF NewEntry
    <3>. QED BY <3>1 DEF Spends
  <2> DEFINE spent == w.spent
  <2>4. spent \in Int /\ spent = w.spent + Spends(w.ledger, e)
    BY <2>1, <2>3
  <2>5. w = [w EXCEPT !.spent = spent]
    BY <2>2
  <2> HIDE DEF spent
  <2>6. Answer(w, PostWith([w EXCEPT !.spent = spent], key, free, purchased, none, never))
    BY <1>2, <2>4, PostAnswers
  <2>7. Answer(w, PostWith(w, key, free, purchased, none, never))
    BY <2>5, <2>6
  <2>. QED BY <2>7 DEF Post
<1>. QED BY <1>1, <1>2

\* A debit of an amount that the balance covers, free credits first.
LEMMA DebitLawful ==
  ASSUME NEW w \in WalletRows, NEW key \in EntryKeys, NEW amount \in Amounts, Covers(w, amount),
         key.kind \in {"playbook", "reserve", "admin"},
         key.kind = "reserve" => key.of \in Jobs /\ amount > 0,
         NEW free, free = (IF w.free < amount THEN w.free ELSE amount),
         NEW none \in Int, NEW never \in BOOLEAN,
         NEW e, e = NewEntry(w, key, 0 - free, free - amount, none, never)
  PROVE  /\ 0 - free \in Int /\ free - amount \in Int
         /\ Lawful(w, e)
         /\ e.key = key /\ e.free = 0 - free /\ e.purchased = free - amount
<1>1. amount \in Nat /\ w.free \in Nat /\ w.purchased \in Int
  BY RowTypes, WalletAssumption
<1>2. /\ free \in Nat /\ free <= w.free /\ free <= amount
      /\ free = amount \/ free = w.free
  BY <1>1
<1> DEFINE f == 0 - free
           p == free - amount
<1>3. f \in Int /\ p \in Int /\ f + p = 0 - amount /\ 0 - f - p = amount
  BY <1>1, <1>2
<1>4. w.free + f >= 0 /\ f <= 0 /\ p <= 0 /\ (amount > 0 => f + p < 0) /\ f + p <= 0
  BY <1>1, <1>2
<1>5. p >= 0 \/ w.purchased + p >= 0
  <2>1. w.free + w.purchased >= amount
    BY DEF Covers, Balance
  <2>. QED BY <1>1, <1>2, <2>1
<1>6. e = NewEntry(w, key, f, p, none, never)
  OBVIOUS
<1> HIDE DEF f, p
<1>7. e \in Entries /\ e.key = key /\ e.free = f /\ e.purchased = p /\ e.month = w.month
  BY <1>3, <1>6, NewEntryFields
<1>8. HasShape(e)
  BY <1>4, <1>7 DEF HasShape
<1>9. Lawful(w, e)
  BY <1>3, <1>4, <1>5, <1>7, <1>8 DEF Lawful, Closings
<1>. QED BY <1>3, <1>7, <1>9 DEF f, p

\* spend, once the balance covers the amount.
LEMMA SpendAnswers ==
  ASSUME NEW w, Good(w), w.month # NoMonth, NEW key \in EntryKeys, ~Posted(w, key),
         NEW amount \in Amounts, Covers(w, amount), key.kind \in {"playbook", "reserve"},
         key.kind = "reserve" => key.of \in Jobs /\ amount > 0
  PROVE  Answer(w, Spend(w, key, amount))
<1> DEFINE free == IF w.free < amount THEN w.free ELSE amount
           f == 0 - free
           p == free - amount
           none == 0
           never == FALSE
           e == NewEntry(w, key, f, p, none, never)
           spent == w.spent + amount
<1>1. w \in WalletRows /\ w.spent \in Int /\ amount \in Nat
  BY RowTypes, WalletAssumption DEF Good, Sound
<1>2. Spend(w, key, amount) = PostWith([w EXCEPT !.spent = spent], key, f, p, none, never)
  <2>1. [w EXCEPT !.spent = @ + amount] = [w EXCEPT !.spent = spent]
    OBVIOUS
  <2>. QED BY <2>1 DEF Spend, Post
<1>3. none \in Int /\ never \in BOOLEAN /\ free = (IF w.free < amount THEN w.free ELSE amount)
      /\ e = NewEntry(w, key, 0 - free, free - amount, none, never)
  OBVIOUS
<1>4. key.kind \in {"playbook", "reserve", "admin"}
  OBVIOUS
<1>5. free \in Nat /\ spent \in Int
  BY <1>1, RowTypes
<1>6. f = 0 - free /\ p = free - amount /\ e = NewEntry(w, key, f, p, none, never)
      /\ spent = w.spent + amount
  OBVIOUS
<1> HIDE DEF free, none, never, e, spent
<1>7. /\ 0 - free \in Int /\ free - amount \in Int /\ Lawful(w, e)
      /\ e.key = key /\ e.free = 0 - free /\ e.purchased = free - amount
  BY <1>1, <1>3, <1>4, DebitLawful
<1>8. Spends(w.ledger, e) = amount
  <2>1. e.key.kind \in {"playbook", "reserve", "refund"}
    BY <1>7
  <2>2. 0 - (0 - free) - (free - amount) = amount
    BY <1>1, <1>5
  <2>. QED BY <1>7, <2>1, <2>2 DEF Spends
<1>9. spent = w.spent + Spends(w.ledger, e) /\ f \in Int /\ p \in Int
  BY <1>6, <1>7, <1>8
<1> HIDE DEF f, p
<1>10. Answer(w, PostWith([w EXCEPT !.spent = spent], key, f, p, none, never))
  BY <1>3, <1>5, <1>6, <1>7, <1>9, PostAnswers
<1>. QED BY <1>2, <1>10

\* adjust_credits, when it takes.
LEMMA WithdrawAnswers ==
  ASSUME NEW w, Good(w), w.month # NoMonth, NEW key \in EntryKeys, key.kind = "admin",
         NEW amount \in Amounts, Covers(w, amount)
  PROVE  LET free == IF w.free < amount THEN w.free ELSE amount
         IN  Answer(w, Post(w, key, 0 - free, free - amount))
<1> DEFINE free == IF w.free < amount THEN w.free ELSE amount
           f == 0 - free
           p == free - amount
           none == 0
           never == FALSE
           e == NewEntry(w, key, f, p, none, never)
<1>1. w \in WalletRows
  BY DEF Good, Sound
<1>2. none \in Int /\ never \in BOOLEAN /\ free = (IF w.free < amount THEN w.free ELSE amount)
      /\ e = NewEntry(w, key, 0 - free, free - amount, none, never)
  OBVIOUS
<1>8. none = 0 /\ never = FALSE
  OBVIOUS
<1>3. /\ key.kind \in {"playbook", "reserve", "admin"}
      /\ key.kind = "reserve" => key.of \in Jobs /\ amount > 0
  OBVIOUS
<1>4. f = 0 - free /\ p = free - amount /\ e = NewEntry(w, key, f, p, none, never)
  OBVIOUS
<1> HIDE DEF free, none, never, e
<1>5. 0 - free \in Int /\ free - amount \in Int /\ Lawful(w, e)
  BY <1>1, <1>2, <1>3, DebitLawful
<1>6. f \in Int /\ p \in Int /\ key.kind \notin {"playbook", "reserve", "settle", "refund"}
  BY <1>4, <1>5
<1> HIDE DEF f, p
<1>7. Answer(w, Post(w, key, f, p))
  BY <1>2, <1>4, <1>5, <1>6, <1>8, PlainAnswers
<1>. QED BY <1>7 DEF f, p, free

\* What moves the purchased bucket alone: a gift, or what a payment does.
LEMMA MoveAnswers ==
  ASSUME NEW w, Good(w), w.month # NoMonth, NEW key \in EntryKeys, NEW delta \in Int,
         \/ key.kind = "purchase"
         \/ key.kind = "admin" /\ delta >= 0
  PROVE  Answer(w, Post(w, key, 0, delta))
<1> DEFINE none == 0
           never == FALSE
           e == NewEntry(w, key, none, delta, none, never)
<1>1. w \in WalletRows /\ w.free \in Nat
  BY RowTypes DEF Good, Sound
<1>2. none \in Int /\ none = 0 /\ never \in BOOLEAN /\ never = FALSE
      /\ e = NewEntry(w, key, none, delta, none, never)
  OBVIOUS
<1>3. key.kind \notin {"playbook", "reserve", "settle", "refund"}
  OBVIOUS
<1> HIDE DEF none, never, e
<1>4. e \in Entries /\ e.key = key /\ e.free = none /\ e.purchased = delta /\ e.month = w.month
  BY <1>1, <1>2, NewEntryFields
<1>5. Lawful(w, e)
  BY <1>1, <1>2, <1>3, <1>4 DEF Lawful, HasShape, Closings
<1>6. Answer(w, Post(w, key, none, delta))
  BY <1>2, <1>3, <1>5, PlainAnswers
<1>. QED BY <1>2, <1>6

\* What the holds of a job took in all is at least what any of them took.
LEMMA HoldWithin ==
  ASSUME NEW w, Good(w), NEW j, NEW i \in Holds(w.ledger, j), NEW n, n = Len(w.ledger) + 1
  PROVE  /\ i \in DOMAIN w.ledger /\ w.ledger[i] \in Entries
         /\ w.ledger[i].free <= 0 /\ w.ledger[i].purchased <= 0
         /\ Held(w.ledger, j, n) \in Nat /\ Held(w.ledger, j, n) > 0
         /\ HeldFree(w.ledger, j, n, w.month) \in Nat
         /\ 0 - w.ledger[i].free - w.ledger[i].purchased <= Held(w.ledger, j, n)
         /\ w.ledger[i].month = w.month => 0 - w.ledger[i].free <= HeldFree(w.ledger, j, n, w.month)
         /\ Closing(w.ledger, j) = {} => Held(w.ledger, j, n) <= w.spent
<1> DEFINE l == w.ledger
           H == Holds(l, j)
           O == OpenHolds(l)
           f == Taken(l)
           a == FreeTaken(l, w.month)
<1>1. l \in Seq(Entries) /\ w.spent \in Int
  BY RowTypes DEF Good, Sound
<1>2. \A k \in DOMAIN l : HasShape(l[k])
  BY DEF Good, Sound
<1>3. H \in SUBSET Positions(l, "reserve") /\ O \in SUBSET Positions(l, "reserve")
      /\ Positions(l, "reserve") \in SUBSET DOMAIN l
  BY DEF Holds, HoldsBefore, Positions, OpenHolds
<1>4. IsFiniteSet(H) /\ IsFiniteSet(O)
  BY <1>1, <1>3, PositionsFinite
<1>5. /\ i \in DOMAIN l /\ l[i] \in Entries /\ HasShape(l[i]) /\ l[i].key.kind = "reserve"
  BY <1>1, <1>2 DEF Holds, HoldsBefore, Positions
<1>6. l[i].free <= 0 /\ l[i].purchased <= 0
  BY <1>5 DEF HasShape
<1>7. Held(l, j, n) = SumFunctionOnSet(f, H) /\ HeldFree(l, j, n, w.month) = SumFunctionOnSet(a, H)
  BY DEF Held, HeldFree, Holds
<1>8. Closing(l, j) = {} => H \in SUBSET O
  BY HoldsOpen
<1>9. w.spent >= SumFunctionOnSet(f, O)
  BY DEF Good, Spending
<1>10. /\ f[i] = 0 - l[i].free - l[i].purchased
       /\ l[i].month = w.month => a[i] = 0 - l[i].free
  <2>1. f[i] = 0 - l[i].free - l[i].purchased
    BY <1>1, <1>5, Values
  <2>2. a[i] = IF l[i].month = w.month THEN 0 - l[i].free ELSE 0
    BY <1>1, <1>5, FreeTakenValue
  <2>. QED BY <2>1, <2>2
<1>11. i \in H
  OBVIOUS
<1> HIDE DEF l, H, O
<1>12. /\ \A h \in Positions(l, "reserve") : f[h] \in Nat /\ f[h] > 0
       /\ \A h \in Positions(l, "reserve") : a[h] \in Nat
  BY <1>1, <1>2, HoldsTake
<1> HIDE DEF f, a
<1>13. /\ \A h \in H : f[h] \in Nat
       /\ \A h \in O : f[h] \in Nat
       /\ \A h \in H : a[h] \in Nat
  BY <1>3, <1>12
<1>14. SumFunctionOnSet(f, H) \in Nat /\ SumFunctionOnSet(a, H) \in Nat
       /\ SumFunctionOnSet(f, O) \in Nat
  BY <1>4, <1>13, SumNatural
<1>15. f[i] <= SumFunctionOnSet(f, H) /\ a[i] <= SumFunctionOnSet(a, H)
  BY <1>4, <1>11, <1>13, SumElement
<1>16. SumFunctionOnSet(f, H) > 0
  <2>1. f[i] > 0 /\ f[i] \in Nat
    BY <1>3, <1>11, <1>12
  <2>. QED BY <1>14, <1>15, <2>1
<1>17. Closing(l, j) = {} => SumFunctionOnSet(f, H) <= w.spent
  <2>1. ASSUME H \in SUBSET O
        PROVE  SumFunctionOnSet(f, H) <= SumFunctionOnSet(f, O)
    BY <1>4, <1>13, <2>1, SumPart
  <2>. QED BY <1>1, <1>8, <1>9, <1>14, <2>1
<1>. QED BY <1>5, <1>6, <1>7, <1>10, <1>14, <1>15, <1>16, <1>17 DEF l

\* The first hold of a job.
LEMMA ReserveHolds ==
  ASSUME NEW w \in WalletRows, NEW j \in Jobs, NEW i \in DOMAIN w.ledger,
         w.ledger[i].key = Key("reserve", j, 0)
  PROVE  i \in Holds(w.ledger, j)
<1>1. w.ledger[i].key.kind = "reserve" /\ w.ledger[i].key.of = j
  BY DEF Key
<1>2. i < Len(w.ledger) + 1
  BY RowTypes
<1>. QED BY <1>1, <1>2 DEF Holds, HoldsBefore, Positions

\* settle_reservations, when append accepts what it releases.
LEMMA SettleAnswers ==
  ASSUME NEW w, Good(w), w.month # NoMonth, NEW j \in Jobs, NEW charged, NEW failed \in BOOLEAN,
         failed => charged = 0, Fits(w, j, charged),
         CanPost(w, Released(w, j, charged, failed).free),
         Posted(w, Key("reserve", j, 0)),
         ~Posted(w, Key("settle", j, 0)), ~Posted(w, Key("refund", j, 0))
  PROVE  Answer(w, Settle(w, j, charged, failed))
<1> DEFINE back == Released(w, j, charged, failed)
           held == HoldTotal(w, j)
           spent == w.spent - (held - charged)
           key == Key("settle", j, 0)
           free == back.free
           purchased == back.purchased
           e == NewEntry(w, key, free, purchased, charged, failed)
           n == Len(w.ledger) + 1
<1>1. /\ w \in WalletRows /\ w.spent \in Int
      /\ \A i \in DOMAIN w.ledger : HasShape(w.ledger[i]) /\ w.ledger[i].key \in EntryKeys
  BY RowTypes, EntryTypes DEF Good, Sound
<1>2. charged \in Nat /\ charged <= held
  BY DEF Fits
<1>3. key \in EntryKeys /\ key.kind = "settle" /\ key.of = j /\ key.n = 0
  BY KeyType DEF Kinds
<1>4. Closing(w.ledger, j) = {}
  BY <1>1, NotClosed
<1>5. Held(w.ledger, j, n) = held
  BY DEF Held, Holds, HoldTotal
<1>6. PICK i \in DOMAIN w.ledger : w.ledger[i].key = Key("reserve", j, 0)
  BY DEF Posted
<1>7. i \in Holds(w.ledger, j)
  BY <1>1, <1>6, ReserveHolds
<1>8. Held(w.ledger, j, n) \in Nat
  <2>1. n = Len(w.ledger) + 1
    OBVIOUS
  <2> HIDE DEF n
  <2>. QED BY <1>7, <2>1, HoldWithin
<1>9. /\ free \in Nat /\ purchased \in Nat
      /\ FairlySettled(w, j, free, purchased, charged, failed)
      /\ free <= HeldFree(w.ledger, j, n, w.month)
  <2>1. back = Released(w, j, charged, failed)
    OBVIOUS
  <2> HIDE DEF back
  <2>. QED BY <1>1, <1>2, <2>1, ReleasedFair
<1>10. Settle(w, j, charged, failed)
         = PostWith([w EXCEPT !.spent = spent], key, free, purchased, charged, failed)
  <2>1. [w EXCEPT !.spent = @ - (held - charged)] = [w EXCEPT !.spent = spent]
    OBVIOUS
  <2>. QED BY <2>1 DEF Settle
<1>11. w.free + free >= 0
  BY DEF CanPost
<1>12. ~Posted(w, key) /\ e = NewEntry(w, key, free, purchased, charged, failed)
       /\ spent = w.spent - (held - charged) /\ n = Len(w.ledger) + 1
  OBVIOUS
<1> HIDE DEF back, free, purchased, key, e, spent, held, n
<1>13. e \in Entries /\ e.key = key /\ e.free = free /\ e.purchased = purchased
       /\ e.month = w.month /\ e.charged = charged /\ e.failed = failed
  BY <1>1, <1>2, <1>3, <1>9, <1>12, NewEntryFields
<1>14. Lawful(w, e)
  BY <1>2, <1>3, <1>4, <1>7, <1>9, <1>11, <1>12, <1>13 DEF Lawful, HasShape, Closings
<1>15. Spends(w.ledger, e) = charged - held
  BY <1>3, <1>5, <1>12, <1>13 DEF Spends
<1>16. spent \in Int /\ spent = w.spent + Spends(w.ledger, e)
  <2>1. held \in Nat
    BY <1>5, <1>8
  <2>. QED BY <1>1, <1>2, <1>12, <1>15, <2>1
<1>17. free \in Int /\ purchased \in Int /\ charged \in Int
  BY <1>2, <1>9
<1>18. Answer(w, PostWith([w EXCEPT !.spent = spent], key, free, purchased, charged, failed))
  BY <1>3, <1>12, <1>14, <1>16, <1>17, PostAnswers
<1>. QED BY <1>10, <1>18

\* refund_spend, when there is a first reservation to give back.
LEMMA RefundAnswers ==
  ASSUME NEW w, Good(w), w.month # NoMonth, NEW j \in Jobs, Posted(w, Key("reserve", j, 0)),
         ~Posted(w, Key("settle", j, 0)), ~Posted(w, Key("refund", j, 0))
  PROVE  Answer(w, Refund(w, j))
<1> DEFINE i == CHOOSE k \in DOMAIN w.ledger : w.ledger[k].key = Key("reserve", j, 0)
           orig == w.ledger[i]
           same == orig.month = w.month
           amount == 0 - orig.free - orig.purchased
           left == w.spent - amount
           spent == IF left < 0 THEN 0 ELSE left
           free == IF same THEN 0 - orig.free ELSE 0
           purchased == IF same THEN 0 - orig.purchased ELSE amount
           key == Key("refund", j, 0)
           none == 0
           never == FALSE
           e == NewEntry(w, key, free, purchased, none, never)
           n == Len(w.ledger) + 1
           held == Held(w.ledger, j, n)
           mine == HeldFree(w.ledger, j, n, w.month)
<1>1. /\ w \in WalletRows /\ w.spent \in Int /\ w.free \in Nat
      /\ \A k \in DOMAIN w.ledger : HasShape(w.ledger[k]) /\ w.ledger[k].key \in EntryKeys
  BY RowTypes, EntryTypes DEF Good, Sound
<1>2. i \in DOMAIN w.ledger /\ orig.key = Key("reserve", j, 0)
  BY DEF Posted
<1>3. Refund(w, j) = PostWith([w EXCEPT !.spent = spent], key, free, purchased, none, never)
  BY DEF Refund, Post
<1>4. key \in EntryKeys /\ key.kind = "refund" /\ key.of = j /\ key.n = 0 /\ ~Posted(w, key)
  BY KeyType DEF Kinds
<1>5. Closing(w.ledger, j) = {}
  BY <1>1, NotClosed
<1> HIDE DEF i
<1>6. i \in Holds(w.ledger, j)
  BY <1>1, <1>2, ReserveHolds
<1>7. n = Len(w.ledger) + 1
  OBVIOUS
<1> HIDE DEF n
<1>8. /\ orig \in Entries /\ orig.free <= 0 /\ orig.purchased <= 0
      /\ held \in Nat /\ held > 0 /\ mine \in Nat
      /\ 0 - orig.free - orig.purchased <= held
      /\ orig.month = w.month => 0 - orig.free <= mine
      /\ held <= w.spent
  BY <1>5, <1>6, <1>7, HoldWithin
<1>9. orig.free \in Int /\ orig.purchased \in Int
  BY <1>8, EntryTypes
<1> HIDE DEF orig, held, mine
<1>10. amount \in Nat /\ amount <= held
  BY <1>8, <1>9
<1>11. spent = w.spent - amount /\ spent \in Int
  <2>1. left \in Int /\ left >= 0
    BY <1>1, <1>8, <1>10
  <2>. QED BY <2>1
<1>12. /\ free \in Int /\ purchased \in Int /\ purchased >= 0 /\ free + purchased = amount
       /\ free <= mine /\ free >= 0
  <2>1. CASE same
    BY <1>8, <1>9, <2>1
  <2>2. CASE ~same
    BY <1>8, <1>10, <2>2
  <2>. QED BY <2>1, <2>2
<1>13. none \in Int /\ never \in BOOLEAN /\ e = NewEntry(w, key, free, purchased, none, never)
  OBVIOUS
<1>14. none = 0
  OBVIOUS
<1> HIDE DEF amount, spent, free, purchased, key, e, none, never
<1>15. e \in Entries /\ e.key = key /\ e.free = free /\ e.purchased = purchased
       /\ e.month = w.month /\ e.charged = none
  BY <1>1, <1>4, <1>12, <1>13, NewEntryFields
<1>16. Lawful(w, e)
  <2>1. free + purchased <= Held(w.ledger, j, Len(w.ledger) + 1)
        /\ free <= HeldFree(w.ledger, j, Len(w.ledger) + 1, w.month)
    BY <1>7, <1>10, <1>12 DEF held, mine
  <2>2. w.free + free >= 0
    BY <1>1, <1>12
  <2>. QED BY <1>4, <1>5, <1>6, <1>12, <1>14, <1>15, <2>1, <2>2 DEF Lawful, HasShape, Closings
<1>17. Spends(w.ledger, e) = 0 - amount
  <2>1. 0 - free - purchased = 0 - amount
    BY <1>12
  <2>. QED BY <1>4, <1>15, <2>1 DEF Spends
<1>18. spent = w.spent + Spends(w.ledger, e)
  BY <1>1, <1>10, <1>11, <1>17
<1>19. Answer(w, PostWith([w EXCEPT !.spent = spent], key, free, purchased, none, never))
  BY <1>4, <1>11, <1>12, <1>13, <1>16, <1>18, PostAnswers
<1>. QED BY <1>3, <1>19

\* recharges.settle: what a purchase was credited is a whole number, and the
\* version of the next entry counts the ones before it.
LEMMA PurchaseAnswers ==
  ASSUME NEW w, Good(w), w.month # NoMonth, NEW p \in Purchases, NEW desired \in Int
  PROVE  LET delta   == desired - Credited(w, p)
             version == Cardinality(PurchaseEntries(w, p)) + 1
         IN  Answer(w, Post(w, Key("purchase", p, version), 0, delta))
<1> DEFINE S == PurchaseEntries(w, p)
           delta == desired - Credited(w, p)
           version == Cardinality(S) + 1
           key == Key("purchase", p, version)
<1>1. w \in WalletRows /\ w.ledger \in Seq(Entries)
  BY RowTypes DEF Good, Sound
<1>2. S \in SUBSET DOMAIN w.ledger
  BY DEF PurchaseEntries, Positions
<1>3. IsFiniteSet(S)
  BY <1>1, <1>2, PositionsFinite
<1>4. version \in Nat
  BY <1>3, FS_CardinalityType
<1>5. delta \in Int
  <2> DEFINE f == Purchased(w.ledger)
  <2>1. \A i \in S : f[i] \in Int
    BY <1>1, <1>2, Values
  <2> HIDE DEF S, f
  <2>2. SumFunctionOnSet(f, S) \in Int
    BY <1>3, <2>1, SumType
  <2>. QED BY <2>2 DEF Credited, S, f
<1> HIDE DEF version, delta
<1>6. key \in EntryKeys /\ key.kind = "purchase"
  BY <1>4, KeyType DEF Kinds
<1> HIDE DEF key
<1>8. /\ Good(w) /\ w.month # NoMonth
      /\ \/ key.kind = "purchase"
         \/ key.kind = "admin" /\ delta >= 0
  BY <1>6
<1> HIDE DEF S
<1>7. Answer(w, Post(w, key, 0, delta))
  BY ONLY <1>5, <1>6, <1>8, MoveAnswers
<1>. QED BY <1>7 DEF key, version, delta, S
-----------------------------------------------------------------------------
(* The steps.                                                              *)

\* Every call starts from a good wallet of the month, rolled over if need be.
LEMMA FreshGood ==
  ASSUME Inv, NEW w \in Fresh
  PROVE  Good(w) /\ w.month = clock /\ w.month # NoMonth /\ Rollover(wallet, w)
<1>1. PICK n \in Allowances : w = GetWallet(wallet, clock, n)
  BY DEF Fresh
<1>2. n \in Nat
  BY WalletAssumption
<1>3. Good(w) /\ w.month = clock /\ Rollover(wallet, w)
  BY <1>1, <1>2, GetWalletGood DEF Inv
<1>. QED BY <1>3 DEF Inv, NoMonth

\* What is not posted before get_wallet is not posted after it, but for the
\* rollover's own keys.
LEMMA StillUnposted ==
  ASSUME NEW w, NEW v, Rollover(w, v), NEW key, key.kind \notin {"free", "expire"},
         ~Posted(w, key)
  PROVE  ~Posted(v, key)
  BY DEF Rollover, Posted

\* What is posted stays posted.
LEMMA StillPosted ==
  ASSUME NEW w, NEW v, Rollover(w, v), NEW key, Posted(w, key)
  PROVE  Posted(v, key)
  BY DEF Rollover, Posted

\* A call answers with the wallet of the month, or with a lawful entry more.
Answers == clock' = clock /\ \E w \in Fresh : Answer(w, wallet')

\* What reserves or spends.
LEMMA DebitStep ==
  ASSUME Inv, NEW key \in EntryKeys, NEW amount \in Amounts, Debit(key, amount),
         key.kind \in {"playbook", "reserve"},
         key.kind = "reserve" => key.of \in Jobs /\ amount > 0
  PROVE  Answers
<1>1. PICK w \in Fresh : \/ Commit(w)
                         \/ ~Posted(w, key) /\ Covers(w, amount) /\ Commit(Spend(w, key, amount))
  BY DEF Debit
<1>2. Good(w) /\ w.month # NoMonth
  BY FreshGood
<1>3. ~Posted(w, key) /\ Covers(w, amount) => Answer(w, Spend(w, key, amount))
  BY <1>2, SpendAnswers
<1>4. Answer(w, w)
  BY DEF Answer
<1>. QED BY <1>1, <1>3, <1>4 DEF Answers, Commit

\* What an administrator gives or takes.
LEMMA AdjustStep ==
  ASSUME Inv, NEW k \in Requests, NEW amount \in Amounts,
         GrantCredits(k, amount) \/ WithdrawCredits(k, amount)
  PROVE  Answers
<1> DEFINE key == Key("admin", k, 0)
<1>1. key \in EntryKeys /\ key.kind = "admin"
  BY KeyType DEF Kinds
<1>2. amount \in Int /\ amount >= 0
  BY WalletAssumption
<1>3. CASE GrantCredits(k, amount)
  <2>1. PICK w \in Fresh : Commit(Post(w, key, 0, amount))
    BY <1>3 DEF GrantCredits
  <2>2. Good(w) /\ w.month # NoMonth
    BY FreshGood
  <2> HIDE DEF key
  <2>3. Answer(w, Post(w, key, 0, amount))
    BY <1>1, <1>2, <2>2, MoveAnswers
  <2>. QED BY <2>1, <2>3 DEF Answers, Commit
<1>4. CASE WithdrawCredits(k, amount)
  <2>1. PICK w \in Fresh :
          LET free == IF w.free < amount THEN w.free ELSE amount
          IN  /\ Covers(w, amount)
              /\ Commit(Post(w, key, 0 - free, free - amount))
    BY <1>4 DEF WithdrawCredits
  <2>2. Good(w) /\ w.month # NoMonth
    BY FreshGood
  <2> HIDE DEF key
  <2>3. LET free == IF w.free < amount THEN w.free ELSE amount
        IN  Answer(w, Post(w, key, 0 - free, free - amount))
    BY <1>1, <2>1, <2>2, WithdrawAnswers
  <2>. QED BY <2>1, <2>3 DEF Answers, Commit
<1>. QED BY <1>3, <1>4

\* A review is settled.
LEMMA SettleStep ==
  ASSUME Inv, NEW j \in Jobs, NEW charged, NEW failed \in BOOLEAN,
         SettleReservations(j, charged, failed)
  PROVE  Answers
<1>1. PICK w \in Fresh :
        \/ Commit(w)
        \/ /\ ~Posted(w, Key("settle", j, 0))
           /\ Fits(w, j, charged)
           /\ CanPost(w, Released(w, j, charged, failed).free)
           /\ Commit(Settle(w, j, charged, failed))
  BY DEF SettleReservations
<1>2. Good(w) /\ w.month # NoMonth /\ Rollover(wallet, w)
  BY FreshGood
<1>3. Posted(w, Key("reserve", j, 0)) /\ ~Posted(w, Key("refund", j, 0))
  <2>1. Key("refund", j, 0).kind \notin {"free", "expire"}
    BY DEF Key
  <2>2. Posted(wallet, Key("reserve", j, 0)) /\ ~Posted(wallet, Key("refund", j, 0))
    BY DEF SettleReservations
  <2>. QED BY <1>2, <2>1, <2>2, StillPosted, StillUnposted
<1>4. failed => charged = 0
  BY DEF SettleReservations
<1>5. Answer(w, w)
  BY DEF Answer
<1>6. CASE Commit(w)
  BY <1>5, <1>6 DEF Answers, Commit
<1>7. CASE /\ ~Posted(w, Key("settle", j, 0))
           /\ Fits(w, j, charged)
           /\ CanPost(w, Released(w, j, charged, failed).free)
           /\ Commit(Settle(w, j, charged, failed))
  <2>1. Answer(w, Settle(w, j, charged, failed))
    BY <1>2, <1>3, <1>4, <1>7, SettleAnswers
  <2>. QED BY <1>7, <2>1 DEF Answers, Commit
<1>. QED BY <1>1, <1>6, <1>7

\* A spend is refunded.
LEMMA RefundStep ==
  ASSUME Inv, NEW j \in Jobs, RefundSpend(j)
  PROVE  Answers
<1>1. PICK w \in Fresh :
        \/ Commit(w)
        \/ /\ ~Posted(w, Key("refund", j, 0))
           /\ Posted(w, Key("reserve", j, 0))
           /\ Commit(Refund(w, j))
  BY DEF RefundSpend
<1>2. Good(w) /\ w.month # NoMonth /\ Rollover(wallet, w)
  BY FreshGood
<1>3. ~Posted(w, Key("settle", j, 0))
  <2>1. Key("settle", j, 0).kind \notin {"free", "expire"}
    BY DEF Key
  <2>. QED BY <1>2, <2>1, StillUnposted DEF RefundSpend
<1>4. Answer(w, w)
  BY DEF Answer
<1>5. ~Posted(w, Key("refund", j, 0)) /\ Posted(w, Key("reserve", j, 0)) => Answer(w, Refund(w, j))
  BY <1>2, <1>3, RefundAnswers
<1>. QED BY <1>1, <1>4, <1>5 DEF Answers, Commit

\* A purchase moves to its credits.
LEMMA PurchaseStep ==
  ASSUME Inv, NEW p \in Purchases, NEW desired \in Amounts \cup {0}, SettlePurchase(p, desired)
  PROVE  Answers
<1>1. PICK w \in Fresh :
        LET delta   == desired - Credited(w, p)
            version == Cardinality(PurchaseEntries(w, p)) + 1
        IN  Commit(IF delta = 0 THEN w
                   ELSE Post(w, Key("purchase", p, version), 0, delta))
  BY DEF SettlePurchase
<1>2. Good(w) /\ w.month # NoMonth /\ desired \in Int
  BY FreshGood, WalletAssumption
<1>3. LET delta   == desired - Credited(w, p)
          version == Cardinality(PurchaseEntries(w, p)) + 1
      IN  Answer(w, Post(w, Key("purchase", p, version), 0, delta))
  BY <1>2, PurchaseAnswers
<1>4. Answer(w, w)
  BY DEF Answer
<1>. QED BY <1>1, <1>3, <1>4 DEF Answers, Commit

\* Whatever the callers do.
LEMMA CallerStep ==
  ASSUME Inv, CallerNext
  PROVE  Answers
<1>1. CASE \E k \in Requests, n \in Amounts :
             CreatePlaybook(k, n) \/ GrantCredits(k, n) \/ WithdrawCredits(k, n)
  <2>1. PICK k \in Requests, n \in Amounts :
          CreatePlaybook(k, n) \/ GrantCredits(k, n) \/ WithdrawCredits(k, n)
    BY <1>1
  <2>2. Key("playbook", k, 0) \in EntryKeys /\ Key("playbook", k, 0).kind = "playbook"
    BY KeyType DEF Kinds
  <2>3. CASE CreatePlaybook(k, n)
    BY <2>2, <2>3, DebitStep DEF CreatePlaybook
  <2>. QED BY <2>1, <2>3, AdjustStep
<1>2. CASE \E j \in Jobs, n \in Amounts :
             \/ Reserve(j, n)
             \/ \E r \in 1 .. MaxRevision : Extend(j, r, n)
  <2>1. PICK j \in Jobs, n \in Amounts :
             \/ Reserve(j, n)
             \/ \E r \in 1 .. MaxRevision : Extend(j, r, n)
    BY <1>2
  <2>2. PICK r \in Nat : Debit(Key("reserve", j, r), n) /\ n > 0
    BY <2>1, WalletAssumption DEF Reserve, Extend
  <2>3. Key("reserve", j, r) \in EntryKeys /\ Key("reserve", j, r).kind = "reserve"
        /\ Key("reserve", j, r).of = j
    BY KeyType DEF Kinds
  <2>. QED BY <2>2, <2>3, DebitStep
<1>3. CASE \E j \in Jobs, n \in Amounts \cup {0}, failed \in BOOLEAN :
             SettleReservations(j, n, failed)
  BY <1>3, SettleStep
<1>4. CASE \E j \in Jobs : RefundSpend(j)
  BY <1>4, RefundStep
<1>5. CASE \E p \in Purchases, n \in Amounts \cup {0} : SettlePurchase(p, n)
  BY <1>5, PurchaseStep
<1>. QED BY <1>1, <1>2, <1>3, <1>4, <1>5 DEF CallerNext

\* A step answers a call, or moves the clock alone.
LEMMA StepAnswers ==
  ASSUME Inv, Next
  PROVE  \/ Answers
         \/ clock' \in Nat /\ clock' >= clock /\ wallet' = wallet
<1>1. CASE Tick
  <2>1. clock' \in clock + 1 .. MaxMonth /\ wallet' = wallet /\ clock \in Nat
    BY <1>1 DEF Tick, Inv
  <2>. QED BY <2>1, WalletAssumption
<1>2. CASE Visit
  BY <1>2 DEF Visit, Commit, Answers, Answer
<1>. QED BY <1>1, <1>2, CallerStep DEF Next

\* An answer keeps the invariant.
LEMMA AnswersInv ==
  ASSUME Inv, Answers
  PROVE  Inv'
<1>1. PICK w \in Fresh : Answer(w, wallet')
  BY DEF Answers
<1>2. Good(w) /\ w.month = clock
  BY FreshGood
<1>3. Good(wallet') /\ wallet'.month = clock
  BY <1>1, <1>2 DEF Answer
<1>4. clock' = clock /\ clock \in Nat /\ clock >= 1
  BY DEF Answers, Inv
<1>. QED BY <1>3, <1>4 DEF Inv

\* The invariant holds at first.
LEMMA InitInv == Init => Inv
<1> SUFFICES ASSUME Init PROVE Inv
  OBVIOUS
<1> DEFINE w == wallet
           l == w.ledger
<1>1. /\ clock = 1 /\ w.month = 0 /\ w.allocation = 0 /\ w.free = 0 /\ w.purchased = 0
      /\ w.spent = 0 /\ l = <<>> /\ DOMAIN l = {} /\ Len(l) = 0
  BY DEF Init, NoMonth
<1>2. w \in WalletRows
  BY DEF Init, NoMonth, WalletRows
<1> HIDE DEF w
<1>3. Balance(w) = 0
  BY <1>1 DEF Balance
<1>4. IsChained(w)
  BY <1>1, <1>3 DEF IsChained, Before
<1>5. HasDistinctKeys(l)
  BY <1>1 DEF HasDistinctKeys
<1>6. (\A kind : Positions(l, kind) = {}) /\ OpenHolds(l) = {}
  BY <1>1 DEF Positions, OpenHolds
<1>7. \A f : SumFunctionOnSet(f, {}) = 0
  BY SumEmpty
<1>14. \A f : SumFunctionOnSet(f, OpenHolds(l)) = 0
  BY <1>6, <1>7
<1>15. \A f, kind : SumFunctionOnSet(f, Positions(l, kind)) = 0
  BY <1>6, <1>7
<1> DEFINE sum(f, kind) == SumFunctionOnSet(f, Positions(l, kind))
<1>16. /\ sum(Reversed(l), "purchase") = 0 /\ sum(Taken(l), "playbook") = 0
       /\ sum(Taken(l), "reserve") = 0 /\ sum(Unused(l), "settle") = 0
       /\ sum(Given(l), "refund") = 0
  BY <1>15
<1>17. /\ SumFunctionOnSet(FreeTaken(l, 0), OpenHolds(l)) = 0
       /\ SumFunctionOnSet(Taken(l), OpenHolds(l)) = 0
  BY <1>14
<1>8. ExplainsBuckets(w)
  BY <1>1, <1>7 DEF ExplainsBuckets
<1>9. OwesReversals(w)
  BY <1>1, <1>16 DEF OwesReversals
<1>10. Sound(w)
  BY <1>1, <1>2, <1>4, <1>5, <1>6, <1>8, <1>9 DEF Sound
<1>11. Monthly(w)
  BY <1>1, <1>17 DEF Monthly, Dated, MintsNothing
<1>12. ExplainsSpent(w)
  BY <1>1, <1>16 DEF ExplainsSpent
<1>13. Spending(w)
  BY <1>1, <1>12, <1>17 DEF Spending
<1>. QED BY <1>1, <1>10, <1>11, <1>13 DEF Inv, Good, w

\* A step keeps the invariant.
LEMMA StepInv == Inv /\ [Next]_vars => Inv'
<1> SUFFICES ASSUME Inv, [Next]_vars PROVE Inv'
  OBVIOUS
<1>1. CASE Answers
  BY <1>1, AnswersInv
<1>2. CASE clock' \in Nat /\ clock' >= clock /\ wallet' = wallet
  <2>1. wallet.month \in Nat /\ clock \in Nat
    BY RowTypes DEF Inv, Good, Sound
  <2>. QED BY <1>2, <2>1 DEF Inv
<1>3. CASE UNCHANGED vars
  <2>1. clock' = clock /\ wallet' = wallet /\ clock \in Nat
    BY <1>3 DEF vars, Inv
  <2>. QED BY <2>1 DEF Inv
<1>. QED BY <1>1, <1>2, <1>3, StepAnswers

\* Whatever its callers do and repeat, in whatever months: what the ledger, the
\* buckets, the month and the counter have to do with one another stays.
THEOREM Invariance == Spec => []Inv
  BY InitInv, StepInv, PTL DEF Spec

\* The columns keep their types and the free bucket is never negative.
THEOREM TypeCorrect == Spec => []TypeOK
<1>1. Inv => TypeOK
  BY DEF Inv, Good, Sound, TypeOK
<1>. QED BY Invariance, <1>1, PTL

\* A retried request debits, refunds, settles or grants once.
THEOREM EventsPostOnce == Spec => []KeysPostedOnce
<1>1. Inv => KeysPostedOnce
  BY DEF Inv, Good, Sound, KeysPostedOnce
<1>. QED BY Invariance, <1>1, PTL

\* Every balance_after is the one before it plus the entry, and the last one
\* is the balance.
THEOREM LedgerIsChained == Spec => []LedgerChains
<1>1. Inv => LedgerChains
  BY DEF Inv, Good, Sound, LedgerChains
<1>. QED BY Invariance, <1>1, PTL

\* However many months a job outlives, settling it never leaves more free
\* credits than the month was allotted.
THEOREM NothingMinted == Spec => []FreeNeverMinted
<1>1. Inv => FreeNeverMinted
  BY DEF Inv, Good, Monthly, FreeNeverMinted
<1>. QED BY Invariance, <1>1, PTL

\* A settlement charges within the holds, and gives back to each bucket what
\* it may.
THEOREM SettlementsConserve == Spec => []SettlementConserves
<1>1. Inv => SettlementConserves
  BY DEF Inv, Good, Sound, SettlementConserves
<1>. QED BY Invariance, <1>1, PTL

\* The purchased bucket owes no more than payment reversals took.
THEOREM DebtsAreReversals == Spec => []DebtIsReversals
<1>1. Inv => DebtIsReversals
  BY DEF Inv, Good, Sound, DebtIsReversals
<1>. QED BY Invariance, <1>1, PTL

\* The deltas add up to each bucket, and authorizations and charges to the
\* counter, which is never negative.
THEOREM LedgerExplains == Spec => []LedgerExplainsWallet
<1>1. ASSUME Inv PROVE LedgerExplainsWallet
  <2> DEFINE l == wallet.ledger
             f == Taken(l)
             O == OpenHolds(l)
  <2>1. l \in Seq(Entries) /\ wallet.spent \in Int
    BY <1>1, RowTypes DEF Inv, Good, Sound
  <2>2. \A i \in DOMAIN l : HasShape(l[i])
    BY <1>1 DEF Inv, Good, Sound
  <2>3. O \in SUBSET Positions(l, "reserve") /\ O \in SUBSET DOMAIN l
    BY DEF OpenHolds, Positions
  <2>4. IsFiniteSet(O)
    BY <2>1, <2>3, PositionsFinite
  <2>5. wallet.spent >= SumFunctionOnSet(f, O)
    BY <1>1 DEF Inv, Good, Spending
  <2> HIDE DEF l, O
  <2>6. \A h \in Positions(l, "reserve") : f[h] \in Nat
    BY <2>1, <2>2, HoldsTake
  <2> HIDE DEF f
  <2>7. SumFunctionOnSet(f, O) \in Nat
    <3>1. \A h \in O : f[h] \in Nat
      BY <2>3, <2>6
    <3>. QED BY <2>4, <3>1, SumNatural
  <2>8. wallet.spent >= 0
    BY <2>1, <2>5, <2>7
  <2>. QED BY <1>1, <2>8 DEF Inv, Good, Sound, Spending, LedgerExplainsWallet, SpentIsAuthorized
<1>2. Inv => LedgerExplainsWallet
  BY <1>1
<1>. QED BY Invariance, <1>2, PTL

\* In a step that notices a new month the rollover's own entries leave the
\* purchased bucket alone, and the free bucket starts from the allowance.
LEMMA StepSpares ==
  ASSUME Inv, [Next]_vars, wallet'.month # wallet.month,
         NEW i \in Len(wallet.ledger) + 1 .. Len(wallet'.ledger)
  PROVE  LET e == wallet'.ledger[i]
         IN  /\ e.key.kind \in {"free", "expire"} => e.purchased = 0
             /\ e.key.kind = "free" => e.after - wallet.purchased = wallet'.allocation
<1>1. Answers
  BY StepAnswers DEF vars
<1>2. PICK w \in Fresh : Answer(w, wallet')
  BY <1>1 DEF Answers
<1>3. Good(w) /\ Rollover(wallet, w)
  BY <1>2, FreshGood
<1>4. /\ wallet.ledger \in Seq(Entries) /\ w.ledger \in Seq(Entries) /\ wallet'.ledger \in Seq(Entries)
      /\ wallet' \in WalletRows /\ w \in WalletRows
  <2>1. Inv'
    BY StepInv
  <2>2. wallet \in WalletRows /\ w \in WalletRows /\ wallet' \in WalletRows
    BY <1>3, <2>1 DEF Inv, Good, Sound
  <2>. QED BY <2>2, RowTypes
<1>5. i \in DOMAIN wallet'.ledger /\ i \notin DOMAIN wallet.ledger
  BY <1>4
<1> DEFINE e == wallet'.ledger[i]
<1>6. CASE i \in DOMAIN w.ledger /\ e = w.ledger[i]
  <2>1. wallet'.allocation = w.allocation
    <3>1. CASE wallet' = w
      BY <3>1
    <3>2. CASE wallet' # w
      BY <1>2, <3>2 DEF Answer
    <3>. QED BY <3>1, <3>2
  <2>. QED BY <1>3, <1>5, <1>6, <2>1 DEF Rollover
<1>7. CASE e.key.kind \notin {"free", "expire"}
  BY <1>7
<1>8. \/ i \in DOMAIN w.ledger /\ e = w.ledger[i]
      \/ e.key.kind \notin {"free", "expire"}
  <2>1. CASE wallet' = w
    BY <1>5, <2>1
  <2>2. CASE \E x \in Entries : Longer(wallet'.ledger, w.ledger, x) /\ Lawful(w, x)
    <3>1. PICK x \in Entries : Longer(wallet'.ledger, w.ledger, x) /\ Lawful(w, x)
      BY <2>2
    <3>2. \/ i \in DOMAIN w.ledger /\ e = w.ledger[i]
          \/ e = x
      BY <1>5, <3>1 DEF Longer
    <3>. QED BY <3>1, <3>2 DEF Lawful
  <2>. QED BY <1>2, <2>1, <2>2 DEF Answer
<1>. QED BY <1>6, <1>7, <1>8

\* Rollover is the free bucket's alone.
THEOREM RolloverIsFree == Spec => RolloverSparesPurchased
<1> DEFINE Spares == wallet'.month # wallet.month =>
             \A i \in Len(wallet.ledger) + 1 .. Len(wallet'.ledger) :
               LET e == wallet'.ledger[i]
               IN  /\ e.key.kind \in {"free", "expire"} => e.purchased = 0
                   /\ e.key.kind = "free" => e.after - wallet.purchased = wallet'.allocation
<1>1. Inv /\ [Next]_vars => [Spares]_vars
  BY StepSpares
<1>. QED BY Invariance, <1>1, PTL DEF Spec, RolloverSparesPurchased
-----------------------------------------------------------------------------
(* The ledger as a record of authorizations and charges.                   *)

OutcomeOf(l, j) ==
  IF Closing(l, j) = {} THEN -1 ELSE l[Min(Closing(l, j))].charged

\* The first entry that closes a job is one of the ledger's.
LEMMA FirstClosing ==
  ASSUME NEW l \in Seq(Entries), NEW j, Closing(l, j) # {}
  PROVE  Min(Closing(l, j)) \in Closing(l, j) /\ Closing(l, j) \in SUBSET DOMAIN l
<1> DEFINE C == Closing(l, j)
           n == Len(l)
<1>1. C \in SUBSET DOMAIN l /\ DOMAIN l = 1 .. n /\ n \in Nat
  BY DEF Closing, Positions
<1> HIDE DEF C, n
<1>2. C \in SUBSET (0 .. n) /\ C # {}
  BY <1>1 DEF C
<1>3. \E x \in C : \A y \in C : x <= y
  BY <1>1, <1>2, SmallestNumber
<1>4. Min(C) \in C
  BY <1>3 DEF Min
<1>. QED BY <1>1, <1>4 DEF C

\* l goes on as m, with nothing in it for job j.
Silent(l, m, j) ==
  /\ \A i \in DOMAIN l : i \in DOMAIN m /\ m[i] = l[i]
  /\ \A i \in DOMAIN m : i \notin DOMAIN l =>
       ~(m[i].key.kind \in Closings \cup {"reserve"} /\ m[i].key.of = j)

\* What is authorized for a job, and its outcome, stay.
LEMMA SilentKeeps ==
  ASSUME NEW w \in WalletRows, NEW v \in WalletRows, NEW j, Silent(w.ledger, v.ledger, j)
  PROVE  /\ HoldTotal(v, j) = HoldTotal(w, j)
         /\ OutcomeOf(v.ledger, j) = OutcomeOf(w.ledger, j)
<1> DEFINE l == w.ledger
           m == v.ledger
           f == Taken(l)
           g == Taken(m)
           H == Holds(l, j)
<1>1. /\ l \in Seq(Entries) /\ m \in Seq(Entries)
      /\ \A i \in DOMAIN l : i < Len(l) + 1
      /\ \A i \in DOMAIN m : i < Len(m) + 1
  BY RowTypes
<1>2. /\ \A i \in DOMAIN l : i \in DOMAIN m /\ m[i] = l[i]
      /\ \A i \in DOMAIN m : i \notin DOMAIN l =>
           ~(m[i].key.kind \in Closings \cup {"reserve"} /\ m[i].key.of = j)
  BY DEF Silent
<1> HIDE DEF l, m
<1>3. Holds(m, j) = H
  BY <1>1, <1>2 DEF Holds, HoldsBefore, Positions
<1>4. Closing(m, j) = Closing(l, j)
  BY <1>2 DEF Closing, Positions, Closings
<1>5. H \in SUBSET DOMAIN l
  BY DEF Holds, HoldsBefore, Positions
<1>6. \A h \in H : g[h] = f[h]
  BY <1>2, <1>5 DEF Taken
<1>7. IsFiniteSet(H)
  BY <1>1, <1>5, PositionsFinite
<1> HIDE DEF H, f, g
<1>8. SumFunctionOnSet(g, H) = SumFunctionOnSet(f, H)
  BY <1>6, <1>7, SumSame
<1>9. OutcomeOf(m, j) = OutcomeOf(l, j)
  <2>1. CASE Closing(l, j) = {}
    BY <1>4, <2>1 DEF OutcomeOf
  <2>2. CASE Closing(l, j) # {}
    <3>1. Min(Closing(l, j)) \in DOMAIN l
      BY <1>1, <2>2, FirstClosing
    <3>. QED BY <1>2, <1>4, <2>2, <3>1 DEF OutcomeOf
  <2>. QED BY <2>1, <2>2
<1>. QED BY <1>3, <1>8, <1>9 DEF HoldTotal, l, m, H, f, g

\* A rollover is silent, and so is an entry that is not the job's.
LEMMA RolloverSilent ==
  ASSUME NEW w, NEW v, Rollover(w, v), NEW j
  PROVE  Silent(w.ledger, v.ledger, j)
  BY DEF Rollover, Silent, Closings

\* An entry that is not the job's, or neither holds nor closes, is silent.
LEMMA LongerSilent ==
  ASSUME NEW l, NEW m, NEW e, Longer(m, l, e), NEW j,
         ~(e.key.kind \in Closings \cup {"reserve"} /\ e.key.of = j)
  PROVE  Silent(l, m, j)
  BY DEF Longer, Silent

\* A hold authorizes what it takes.
LEMMA HoldAuthorizes ==
  ASSUME NEW w \in WalletRows, NEW v \in WalletRows, NEW e, Longer(v.ledger, w.ledger, e),
         e.key.kind = "reserve", NEW j, e.key.of = j
  PROVE  /\ HoldTotal(v, j) = HoldTotal(w, j) + (0 - e.free - e.purchased)
         /\ OutcomeOf(v.ledger, j) = OutcomeOf(w.ledger, j)
<1> DEFINE l == w.ledger
           m == v.ledger
           n == Len(l) + 1
           H == Holds(l, j)
           f == Taken(l)
           g == Taken(m)
<1>1. /\ l \in Seq(Entries) /\ m \in Seq(Entries) /\ n \in DOMAIN m /\ m[n] = e
      /\ DOMAIN m = DOMAIN l \cup {n} /\ n \notin DOMAIN l
      /\ \A i \in DOMAIN l : m[i] = l[i]
      /\ \A i \in DOMAIN l : i < Len(l) + 1
      /\ \A i \in DOMAIN m : i < Len(m) + 1
  BY RowTypes DEF Longer
<1>2. Longer(m, l, e) /\ n = Len(l) + 1
  OBVIOUS
<1> HIDE DEF l, m, n
<1>3. Holds(m, j) = H \cup {n}
  BY <1>1 DEF Holds, HoldsBefore, Positions
<1>4. H \in SUBSET DOMAIN l
  BY DEF Holds, HoldsBefore, Positions
<1> HIDE DEF H
<1>5. Keeps(g, f, H)
  BY <1>2, <1>4, LedgerKeeps
<1>6. g[n] = 0 - e.free - e.purchased /\ g[n] \in Int
  BY <1>1, Values
<1> HIDE DEF f, g
<1>7. SumFunctionOnSet(g, H \cup {n}) = SumFunctionOnSet(f, H) + g[n]
  BY ONLY <1>2, <1>4, <1>5, <1>6, SumLonger
<1>8. Closing(m, j) = Closing(l, j)
  BY <1>1 DEF Closing, Positions
<1>9. OutcomeOf(m, j) = OutcomeOf(l, j)
  <2>1. CASE Closing(l, j) = {}
    BY <1>8, <2>1 DEF OutcomeOf
  <2>2. CASE Closing(l, j) # {}
    <3>1. Min(Closing(l, j)) \in DOMAIN l
      BY <1>1, <2>2, FirstClosing
    <3>. QED BY <1>1, <1>8, <2>2, <3>1 DEF OutcomeOf
  <2>. QED BY <2>1, <2>2
<1>. QED BY <1>3, <1>6, <1>7, <1>9 DEF HoldTotal, l, m, H, f, g

\* A settlement or a refund is the outcome of a job that had none.
LEMMA ClosingCharges ==
  ASSUME NEW w \in WalletRows, NEW v \in WalletRows, NEW e, Longer(v.ledger, w.ledger, e),
         e.key.kind \in Closings, NEW j, e.key.of = j, Closing(w.ledger, j) = {}
  PROVE  /\ HoldTotal(v, j) = HoldTotal(w, j)
         /\ OutcomeOf(w.ledger, j) = -1 /\ OutcomeOf(v.ledger, j) = e.charged
<1> DEFINE l == w.ledger
           m == v.ledger
           n == Len(l) + 1
           H == Holds(l, j)
           f == Taken(l)
           g == Taken(m)
<1>1. /\ l \in Seq(Entries) /\ m \in Seq(Entries) /\ n \in DOMAIN m /\ m[n] = e
      /\ DOMAIN m = DOMAIN l \cup {n} /\ n \in Int
      /\ \A i \in DOMAIN l : m[i] = l[i]
      /\ \A i \in DOMAIN l : i < Len(l) + 1
      /\ \A i \in DOMAIN m : i < Len(m) + 1
  BY RowTypes DEF Longer
<1>2. Longer(m, l, e) /\ n = Len(l) + 1
  OBVIOUS
<1>3. Closing(l, j) = {}
  OBVIOUS
<1> HIDE DEF l, m, n
<1>4. Holds(m, j) = H
  BY <1>1 DEF Holds, HoldsBefore, Positions, Closings
<1>5. H \in SUBSET DOMAIN l
  BY DEF Holds, HoldsBefore, Positions
<1> HIDE DEF H
<1>6. Keeps(g, f, H)
  BY <1>2, <1>5, LedgerKeeps
<1> HIDE DEF f, g
<1>7. SumFunctionOnSet(g, H) = SumFunctionOnSet(f, H)
  BY ONLY <1>2, <1>5, <1>6, SumLonger
<1>8. Closing(m, j) = {n}
  BY <1>2, <1>3, ClosingLonger
<1>9. Min({n}) = n
  <2>1. {n} = {n, n}
    OBVIOUS
  <2>. QED BY <1>1, <2>1, MinPair
<1>10. OutcomeOf(m, j) = e.charged /\ OutcomeOf(l, j) = -1
  BY <1>1, <1>3, <1>8, <1>9 DEF OutcomeOf
<1>. QED BY <1>4, <1>7, <1>10 DEF HoldTotal, l, m, H, f, g

\* What is authorized for each job, and what came of it.
Authorizations(w) == [j \in Jobs |-> HoldTotal(w, j)]
Outcomes(w) == [j \in Jobs |-> OutcomeOf(w.ledger, j)]

\* An authorization, and a charge, of Authorization.
MoreFor(w, v, j, n) ==
  /\ Authorizations(v) = [Authorizations(w) EXCEPT ![j] = @ + n]
  /\ Outcomes(v) = Outcomes(w)

ChargeFor(w, v, j, c) ==
  /\ Authorizations(w)[j] > 0 /\ Outcomes(w)[j] = -1
  /\ c \in 0 .. Authorizations(w)[j]
  /\ Outcomes(v) = [Outcomes(w) EXCEPT ![j] = c]
  /\ Authorizations(v) = Authorizations(w)

Quiet(w, v) == Authorizations(v) = Authorizations(w) /\ Outcomes(v) = Outcomes(w)

\* Ledgers that are silent on every job record the same.
LEMMA SilentQuiet ==
  ASSUME NEW w \in WalletRows, NEW v \in WalletRows,
         \A j \in Jobs : Silent(w.ledger, v.ledger, j)
  PROVE  Quiet(w, v)
<1>1. \A j \in Jobs : /\ HoldTotal(v, j) = HoldTotal(w, j)
                      /\ OutcomeOf(v.ledger, j) = OutcomeOf(w.ledger, j)
  BY SilentKeeps
<1>. QED BY <1>1 DEF Quiet, Authorizations, Outcomes

\* An answer authorizes an amount, or charges a job once within what it had
\* been authorized, or records nothing new.
LEMMA AnswerAuthorizes ==
  ASSUME NEW w, Good(w), NEW v, Answer(w, v)
  PROVE  \/ Quiet(w, v)
         \/ \E j \in Jobs, n \in Amounts \ {0} : MoreFor(w, v, j, n)
         \/ \E j \in Jobs, c \in Nat : ChargeFor(w, v, j, c)
<1>1. CASE v = w
  BY <1>1 DEF Quiet
<1>2. CASE Good(v) /\ \E e \in Entries : Longer(v.ledger, w.ledger, e) /\ Lawful(w, e)
  <2>1. PICK e \in Entries : Longer(v.ledger, w.ledger, e) /\ Lawful(w, e)
    BY <1>2
  <2>2. w \in WalletRows /\ v \in WalletRows
    BY <1>2 DEF Good, Sound
  <2> DEFINE k == e.key.of
  <2>3. HasShape(e) /\ e.free \in Int /\ e.purchased \in Int
    BY <2>1, EntryTypes DEF Lawful
  <2>4. ASSUME NEW j \in Jobs, e.key.kind \notin Closings \cup {"reserve"} \/ j # k
        PROVE  /\ HoldTotal(v, j) = HoldTotal(w, j)
               /\ OutcomeOf(v.ledger, j) = OutcomeOf(w.ledger, j)
    <3>1. Silent(w.ledger, v.ledger, j)
      BY <2>1, <2>4, LongerSilent
    <3>. QED BY <2>2, <3>1, SilentKeeps
  <2>5. CASE e.key.kind \notin Closings \cup {"reserve"}
    <3>1. Quiet(w, v)
      BY <2>4, <2>5 DEF Quiet, Authorizations, Outcomes
    <3>. QED BY <3>1
  <2>6. CASE e.key.kind = "reserve"
    <3> DEFINE n == 0 - e.free - e.purchased
    <3>1. k \in Jobs /\ n \in Amounts \ {0}
      <4>1. e.free + e.purchased < 0
        BY <2>3, <2>6 DEF HasShape
      <4>. QED BY <2>1, <2>3, <2>6, <4>1 DEF Lawful, HasShape
    <3>2. HoldTotal(v, k) = HoldTotal(w, k) + n /\ OutcomeOf(v.ledger, k) = OutcomeOf(w.ledger, k)
      BY <2>1, <2>2, <2>6, HoldAuthorizes
    <3> HIDE DEF n, k
    <3>3. MoreFor(w, v, k, n)
      <4>1. Authorizations(v) = [Authorizations(w) EXCEPT ![k] = @ + n]
        BY <2>4, <3>1, <3>2 DEF Authorizations
      <4>2. Outcomes(v) = Outcomes(w)
        BY <2>4, <3>2 DEF Outcomes
      <4>. QED BY <4>1, <4>2 DEF MoreFor
    <3>. QED BY <3>1, <3>3
  <2>7. CASE e.key.kind \in Closings
    <3> DEFINE c == e.charged
               held == HoldTotal(w, k)
    <3>1. k \in Jobs /\ Closing(w.ledger, k) = {} /\ Holds(w.ledger, k) # {}
      BY <2>1, <2>3, <2>7 DEF Lawful, HasShape, Closings
    <3>2. held = Held(w.ledger, k, Len(w.ledger) + 1)
      BY DEF Held, Holds, HoldTotal
    <3>3. held \in Nat /\ held > 0
      <4>1. PICK i \in Holds(w.ledger, k) : TRUE
        BY <3>1
      <4> HIDE DEF held
      <4>. QED BY <3>2, <4>1, HoldWithin
    <3>4. c \in 0 .. held
      <4>1. c \in Int
        BY EntryTypes
      <4>2. CASE e.key.kind = "settle"
        BY <2>1, <3>2, <3>3, <4>1, <4>2 DEF Lawful, FairlySettled
      <4>3. CASE e.key.kind = "refund"
        BY <2>1, <3>3, <4>3 DEF Lawful
      <4>. QED BY <2>7, <4>2, <4>3 DEF Closings
    <3>5. /\ HoldTotal(v, k) = held
          /\ OutcomeOf(w.ledger, k) = -1 /\ OutcomeOf(v.ledger, k) = c
      BY <2>1, <2>2, <2>7, <3>1, ClosingCharges
    <3>6. Authorizations(w)[k] = held /\ Outcomes(w)[k] = -1
      BY <3>1, <3>5 DEF Authorizations, Outcomes
    <3> HIDE DEF c, k
    <3>7. Outcomes(v) = [Outcomes(w) EXCEPT ![k] = c]
      BY <2>4, <3>1, <3>5 DEF Outcomes
    <3>8. Authorizations(v) = Authorizations(w)
      BY <2>4, <3>5 DEF Authorizations
    <3> HIDE DEF held
    <3>9. ChargeFor(w, v, k, c) /\ c \in Nat
      BY <3>3, <3>4, <3>6, <3>7, <3>8 DEF ChargeFor
    <3>. QED BY <3>1, <3>9
  <2>. QED BY <2>5, <2>6, <2>7
<1>. QED BY <1>1, <1>2 DEF Answer

\* The ledger of no entries has authorized nothing.
LEMMA InitAuthorized == Init => Authorized!Init
<1> SUFFICES ASSUME Init PROVE Authorized!Init
  OBVIOUS
<1>1. ASSUME NEW j \in Jobs PROVE HoldTotal(wallet, j) = 0 /\ Closing(wallet.ledger, j) = {}
  <2>1. Holds(wallet.ledger, j) = {} /\ Closing(wallet.ledger, j) = {}
    BY DEF Init, Holds, HoldsBefore, Closing, Positions
  <2>. QED BY <2>1, SumEmpty DEF HoldTotal
<1>. QED BY <1>1 DEF Authorized!Init, Authorized!Open

\* A step authorizes, charges, or leaves both alone.
LEMMA StepAuthorized ==
  Inv /\ [Next]_vars =>
    [Authorized!Next]_<<[j \in Jobs |-> HoldTotal(wallet, j)],
                        [j \in Jobs |-> IF Closing(wallet.ledger, j) = {} THEN -1
                           ELSE wallet.ledger[Min(Closing(wallet.ledger, j))].charged]>>
<1> SUFFICES ASSUME Inv, [Next]_vars
             PROVE  \/ Authorized!Next
                    \/ Quiet(wallet, wallet')
  BY DEF Quiet, Authorizations, Outcomes, OutcomeOf
<1>1. CASE wallet' = wallet
  BY <1>1 DEF Quiet
<1>2. CASE Answers
  <2>1. PICK w \in Fresh : Answer(w, wallet')
    BY <1>2 DEF Answers
  <2>2. Good(w) /\ Rollover(wallet, w)
    BY FreshGood
  <2>3. Quiet(wallet, w)
    <3>1. \A j \in Jobs : Silent(wallet.ledger, w.ledger, j)
      BY <2>2, RolloverSilent
    <3>2. wallet \in WalletRows /\ w \in WalletRows
      BY <2>2 DEF Inv, Good, Sound
    <3>. QED BY <3>1, <3>2, SilentQuiet
  <2>4. \/ Quiet(w, wallet')
        \/ \E j \in Jobs, n \in Amounts \ {0} : MoreFor(w, wallet', j, n)
        \/ \E j \in Jobs, c \in Nat : ChargeFor(w, wallet', j, c)
    BY <2>1, <2>2, AnswerAuthorizes
  <2>5. \/ Quiet(wallet, wallet')
        \/ \E j \in Jobs, n \in Amounts \ {0} : MoreFor(wallet, wallet', j, n)
        \/ \E j \in Jobs, c \in Nat : ChargeFor(wallet, wallet', j, c)
    BY <2>3, <2>4 DEF Quiet, MoreFor, ChargeFor
  <2>6. ASSUME NEW j \in Jobs, NEW n \in Amounts \ {0}, MoreFor(wallet, wallet', j, n)
        PROVE  Authorized!Next
    <3>1. Authorized!Authorize(j, n)
      BY <2>6 DEF Authorized!Authorize, MoreFor, Authorizations, Outcomes, OutcomeOf
    <3>. QED BY <3>1 DEF Authorized!Next
  <2>7. ASSUME NEW j \in Jobs, NEW c \in Nat, ChargeFor(wallet, wallet', j, c)
        PROVE  Authorized!Next
    <3>1. Authorized!Charge(j, c)
      BY <2>7 DEF Authorized!Charge, Authorized!Open, ChargeFor, Authorizations, Outcomes, OutcomeOf
    <3>2. c \in 0 .. HoldTotal(wallet, j)
      BY <2>7 DEF ChargeFor, Authorizations
    <3>. QED BY <3>1, <3>2 DEF Authorized!Next
  <2>. QED BY <2>5, <2>6, <2>7
<1>. QED BY <1>1, <1>2, StepAnswers DEF vars

\* Read as authorizations and charges, the ledger charges a job at most once,
\* within what had been authorized for it.
THEOREM ImplementsAuthorization == Spec => ChargesAsAuthorized
  BY InitAuthorized, StepAuthorized, Invariance, PTL DEF Spec, ChargesAsAuthorized, Authorized!Spec
=============================================================================
