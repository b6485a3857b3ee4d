---------------------------- MODULE SumTheorems ----------------------------
(***************************************************************************)
(* Facts about SumFunctionOnSet over finite sets, and about loops over     *)
(* 1 .. n, for the proofs about the ledger.                                *)
(*                                                                         *)
(* The induction theorems of the library take an operator; here induction  *)
(* is stated with sets: a set of bad subsets of a finite set has a minimal *)
(* one (SmallestSubset), a set of good numbers closed under the loop's     *)
(* step holds them all (LoopInduction).                                    *)
(***************************************************************************)
EXTENDS Integers, FiniteSets, Functions, FiniteSetTheorems, TLAPS

\* Induction over the finite sets, as a fact about a set of sets.
LEMMA SmallestSubset ==
  ASSUME NEW S, IsFiniteSet(S), NEW bad \in SUBSET SUBSET S, bad # {}
  PROVE  \E T \in bad : \A U \in bad : U \subseteq T => U = T
<1>1. IsWellFoundedOn(StrictSubsetOrdering(S), SUBSET S)
  BY FS_StrictSubsetOrderingWellFounded, FS_FiniteSubsetsOfFinite
<1>2. PICK T \in bad : \A U \in bad : ~(<<U, T>> \in StrictSubsetOrdering(S))
  BY <1>1, WFMin
<1>. QED BY <1>2 DEF StrictSubsetOrdering

Pick(s) == CHOOSE x \in s : TRUE

\* g adds up f over the subsets of S, as MapThenFoldSet does.
IsSum(g, f, S) ==
  g = [s \in SUBSET S |-> IF s = {} THEN 0 ELSE f[Pick(s)] + g[s \ {Pick(s)}]]

\* The definition, without its operator arguments.
LEMMA SumUnfolds ==
  ASSUME NEW f, NEW S
  PROVE  SumFunctionOnSet(f, S) = (CHOOSE g : IsSum(g, f, S))[S]
  BY DEF SumFunctionOnSet, FoldFunctionOnSet, MapThenFoldSet, IsSum, Pick

\* Pick(s) is an element of s.
LEMMA PickMember ==
  ASSUME NEW s, s # {}
  PROVE  Pick(s) \in s
  BY DEF Pick

\* Two ways to add up agree where both are defined.
LEMMA SumUnique ==
  ASSUME NEW S, IsFiniteSet(S), NEW A, NEW B, S \subseteq A, S \subseteq B,
         NEW f, NEW h, \A x \in S : f[x] = h[x], NEW g, NEW k, IsSum(g, f, A), IsSum(k, h, B)
  PROVE  g[S] = k[S]
<1> DEFINE bad == {s \in SUBSET S : g[s] # k[s]}
<1>1. SUFFICES ASSUME bad # {} PROVE FALSE
  OBVIOUS
<1>2. PICK T \in bad : \A U \in bad : U \subseteq T => U = T
  <2>1. bad \in SUBSET SUBSET S
    OBVIOUS
  <2>. HIDE DEF bad
  <2>. QED BY <1>1, <2>1, SmallestSubset
<1>3. T \in SUBSET A /\ T \in SUBSET B /\ T \in SUBSET S
  BY <1>2
<1>4. /\ g[T] = IF T = {} THEN 0 ELSE f[Pick(T)] + g[T \ {Pick(T)}]
      /\ k[T] = IF T = {} THEN 0 ELSE h[Pick(T)] + k[T \ {Pick(T)}]
  BY <1>3 DEF IsSum
<1>5. CASE T = {}
  BY <1>2, <1>4, <1>5
<1>6. CASE T # {}
  <2>1. Pick(T) \in T
    BY <1>6, PickMember
  <2>2. T \ {Pick(T)} \notin bad /\ T \ {Pick(T)} \in SUBSET S
    BY <1>2, <1>3, <2>1
  <2>3. g[T \ {Pick(T)}] = k[T \ {Pick(T)}]
    BY <2>2
  <2>4. f[Pick(T)] = h[Pick(T)]
    BY <1>3, <2>1
  <2>. QED BY <1>2, <1>4, <1>6, <2>3, <2>4
<1>. QED BY <1>5, <1>6

\* Every finite set can be added up over.
LEMMA SumExists ==
  ASSUME NEW S, IsFiniteSet(S), NEW f
  PROVE  \E g : IsSum(g, f, S)
<1> DEFINE G(s) == CHOOSE g : IsSum(g, f, s)
           bad == {s \in SUBSET S : ~ \E g : IsSum(g, f, s)}
<1>1. SUFFICES ASSUME bad # {} PROVE FALSE
  OBVIOUS
<1>2. PICK T \in bad : \A U \in bad : U \subseteq T => U = T
  <2>1. bad \in SUBSET SUBSET S
    OBVIOUS
  <2>. HIDE DEF bad
  <2>. QED BY <1>1, <2>1, SmallestSubset
<1>3. T \subseteq S /\ ~ \E g : IsSum(g, f, T)
  BY <1>2
<1>4. \A U \in SUBSET T : U # T => IsSum(G(U), f, U)
  <2>. SUFFICES ASSUME NEW U \in SUBSET T, U # T PROVE IsSum(G(U), f, U)
    OBVIOUS
  <2>1. \E g : IsSum(g, f, U)
    BY <1>2, <1>3
  <2>. QED BY <2>1
<1> DEFINE h == [s \in SUBSET T |-> IF s = {} THEN 0
                                    ELSE f[Pick(s)] + G(s \ {Pick(s)})[s \ {Pick(s)}]]
<1> HIDE DEF G
<1>5. \A s \in SUBSET T : s # {} => h[s \ {Pick(s)}] = G(s \ {Pick(s)})[s \ {Pick(s)}]
  <2>. SUFFICES ASSUME NEW s \in SUBSET T, s # {}
                PROVE  h[s \ {Pick(s)}] = G(s \ {Pick(s)})[s \ {Pick(s)}]
    OBVIOUS
  <2> DEFINE u == s \ {Pick(s)}
  <2>1. u \in SUBSET T /\ u # T
    BY PickMember
  <2> HIDE DEF u
  <2>2. IsSum(G(u), f, u)
    BY <1>4, <2>1
  <2>3. G(u)[u] = IF u = {} THEN 0 ELSE f[Pick(u)] + G(u)[u \ {Pick(u)}]
    BY <2>2 DEF IsSum
  <2>4. h[u] = IF u = {} THEN 0 ELSE f[Pick(u)] + G(u \ {Pick(u)})[u \ {Pick(u)}]
    BY <2>1
  <2>5. CASE u = {}
    BY <2>3, <2>4, <2>5 DEF u
  <2>6. CASE u # {}
    <3> DEFINE v == u \ {Pick(u)}
    <3>1. v \in SUBSET T /\ v # T /\ v \subseteq u /\ IsFiniteSet(v)
      BY <1>3, <2>1, <2>6, PickMember, FS_Subset
    <3> HIDE DEF v
    <3>2. IsSum(G(v), f, v)
      BY <1>4, <3>1
    <3>3. G(u)[v] = G(v)[v]
      BY <2>2, <3>1, <3>2, SumUnique
    <3>. QED BY <2>3, <2>4, <2>6, <3>3 DEF u, v
  <2>. QED BY <2>5, <2>6
<1>6. IsSum(h, f, T)
  BY <1>5 DEF IsSum
<1>. QED BY <1>3, <1>6
-----------------------------------------------------------------------------
\* A sum is over the picked element and over the others.
LEMMA SumPicks ==
  ASSUME NEW S, IsFiniteSet(S), NEW f
  PROVE  SumFunctionOnSet(f, S)
           = IF S = {} THEN 0 ELSE f[Pick(S)] + SumFunctionOnSet(f, S \ {Pick(S)})
<1> DEFINE G(s) == CHOOSE g : IsSum(g, f, s)
           R == S \ {Pick(S)}
<1>1. IsFiniteSet(R)
  BY FS_Subset
<1>2. IsSum(G(S), f, S) /\ IsSum(G(R), f, R)
  BY <1>1, SumExists
<1>3. SumFunctionOnSet(f, S) = G(S)[S] /\ SumFunctionOnSet(f, R) = G(R)[R]
  BY SumUnfolds
<1> HIDE DEF G
<1>4. G(S)[R] = G(R)[R]
  BY <1>1, <1>2, SumUnique
<1>5. G(S)[S] = IF S = {} THEN 0 ELSE f[Pick(S)] + G(S)[R]
  BY <1>2 DEF IsSum
<1>. QED BY <1>3, <1>4, <1>5

\* Nothing adds up to 0.
LEMMA SumEmpty ==
  ASSUME NEW f
  PROVE  SumFunctionOnSet(f, {}) = 0
  BY SumPicks, FS_EmptySet

\* A sum only depends on what is added up.
LEMMA SumSame ==
  ASSUME NEW S, IsFiniteSet(S), NEW f, NEW h, \A x \in S : f[x] = h[x]
  PROVE  SumFunctionOnSet(f, S) = SumFunctionOnSet(h, S)
<1> DEFINE G == CHOOSE g : IsSum(g, f, S)
           H == CHOOSE g : IsSum(g, h, S)
<1>1. IsSum(G, f, S) /\ IsSum(H, h, S)
  BY SumExists
<1>2. SumFunctionOnSet(f, S) = G[S] /\ SumFunctionOnSet(h, S) = H[S]
  BY SumUnfolds
<1> HIDE DEF G, H
<1>. QED BY <1>1, <1>2, SumUnique

\* Integers add up to an integer.
LEMMA SumType ==
  ASSUME NEW S, IsFiniteSet(S), NEW f, \A x \in S : f[x] \in Int
  PROVE  SumFunctionOnSet(f, S) \in Int
<1> DEFINE bad == {s \in SUBSET S : SumFunctionOnSet(f, s) \notin Int}
<1>1. SUFFICES ASSUME bad # {} PROVE FALSE
  OBVIOUS
<1>2. PICK T \in bad : \A U \in bad : U \subseteq T => U = T
  <2>1. bad \in SUBSET SUBSET S
    OBVIOUS
  <2>. HIDE DEF bad
  <2>. QED BY <1>1, <2>1, SmallestSubset
<1>3. T \in SUBSET S /\ SumFunctionOnSet(f, T) \notin Int
  BY <1>2
<1>4. IsFiniteSet(T)
  BY <1>3, FS_Subset
<1>5. T # {}
  BY <1>3, SumEmpty
<1>6. Pick(T) \in T /\ Pick(T) \in S
  BY <1>3, <1>5, PickMember
<1>7. SumFunctionOnSet(f, T \ {Pick(T)}) \in Int
  BY <1>2, <1>6
<1>8. SumFunctionOnSet(f, T) = f[Pick(T)] + SumFunctionOnSet(f, T \ {Pick(T)})
  BY <1>4, <1>5, SumPicks
<1>9. f[Pick(T)] \in Int
  BY <1>6
<1>. QED BY <1>3, <1>7, <1>8, <1>9

\* Natural numbers add up to a natural number.
LEMMA SumNatural ==
  ASSUME NEW S, IsFiniteSet(S), NEW f, \A x \in S : f[x] \in Nat
  PROVE  SumFunctionOnSet(f, S) \in Nat
<1> DEFINE bad == {s \in SUBSET S : SumFunctionOnSet(f, s) \notin Nat}
<1>1. SUFFICES ASSUME bad # {} PROVE FALSE
  OBVIOUS
<1>2. PICK T \in bad : \A U \in bad : U \subseteq T => U = T
  <2>1. bad \in SUBSET SUBSET S
    OBVIOUS
  <2>. HIDE DEF bad
  <2>. QED BY <1>1, <2>1, SmallestSubset
<1>3. T \in SUBSET S /\ SumFunctionOnSet(f, T) \notin Nat
  BY <1>2
<1>4. IsFiniteSet(T)
  BY <1>3, FS_Subset
<1>5. T # {}
  BY <1>3, SumEmpty
<1>6. Pick(T) \in T /\ Pick(T) \in S
  BY <1>3, <1>5, PickMember
<1>7. SumFunctionOnSet(f, T \ {Pick(T)}) \in Nat
  BY <1>2, <1>6
<1>8. SumFunctionOnSet(f, T) = f[Pick(T)] + SumFunctionOnSet(f, T \ {Pick(T)})
  BY <1>4, <1>5, SumPicks
<1>9. f[Pick(T)] \in Nat
  BY <1>6
<1>. QED BY <1>3, <1>7, <1>8, <1>9

\* Zeros add up to 0.
LEMMA SumZero ==
  ASSUME NEW S, IsFiniteSet(S), NEW f, \A x \in S : f[x] = 0
  PROVE  SumFunctionOnSet(f, S) = 0
<1> DEFINE bad == {s \in SUBSET S : SumFunctionOnSet(f, s) # 0}
<1>1. SUFFICES ASSUME bad # {} PROVE FALSE
  OBVIOUS
<1>2. PICK T \in bad : \A U \in bad : U \subseteq T => U = T
  <2>1. bad \in SUBSET SUBSET S
    OBVIOUS
  <2>. HIDE DEF bad
  <2>. QED BY <1>1, <2>1, SmallestSubset
<1>3. T \in SUBSET S /\ SumFunctionOnSet(f, T) # 0
  BY <1>2
<1>4. IsFiniteSet(T)
  BY <1>3, FS_Subset
<1>5. T # {}
  BY <1>3, SumEmpty
<1>6. Pick(T) \in T /\ Pick(T) \in S
  BY <1>3, <1>5, PickMember
<1>7. SumFunctionOnSet(f, T \ {Pick(T)}) = 0
  BY <1>2, <1>6
<1>8. SumFunctionOnSet(f, T) = f[Pick(T)] + SumFunctionOnSet(f, T \ {Pick(T)})
  BY <1>4, <1>5, SumPicks
<1>9. f[Pick(T)] = 0
  BY <1>6
<1>. QED BY <1>3, <1>7, <1>8, <1>9

\* Any element may be taken out first.
LEMMA SumRemove ==
  ASSUME NEW S, IsFiniteSet(S), NEW f, \A y \in S : f[y] \in Int, NEW x \in S
  PROVE  SumFunctionOnSet(f, S) = f[x] + SumFunctionOnSet(f, S \ {x})
<1> DEFINE sum(s) == SumFunctionOnSet(f, s)
           bad == {s \in SUBSET S : \E y \in s : sum(s) # f[y] + sum(s \ {y})}
<1>1. SUFFICES ASSUME bad # {} PROVE FALSE
  OBVIOUS
<1>2. PICK T \in bad : \A U \in bad : U \subseteq T => U = T
  <2>1. bad \in SUBSET SUBSET S
    OBVIOUS
  <2>. HIDE DEF bad
  <2>. QED BY <1>1, <2>1, SmallestSubset
<1>3. PICK y \in T : sum(T) # f[y] + sum(T \ {y})
  BY <1>2
<1> DEFINE c == Pick(T)
<1>4. T \in SUBSET S /\ IsFiniteSet(T) /\ T # {}
  BY <1>2, <1>3, FS_Subset
<1>5. sum(T) = f[c] + sum(T \ {c}) /\ c \in T
  BY <1>4, SumPicks, PickMember
<1> HIDE DEF c
<1>6. c # y
  BY <1>3, <1>5
<1>7. sum(T \ {c}) = f[y] + sum((T \ {c}) \ {y})
  BY <1>2, <1>4, <1>5, <1>6
<1>8. sum(T \ {y}) = f[c] + sum((T \ {y}) \ {c})
  BY <1>2, <1>4, <1>5, <1>6
<1>9. (T \ {y}) \ {c} = (T \ {c}) \ {y}
  OBVIOUS
<1>10. sum((T \ {c}) \ {y}) \in Int /\ f[c] \in Int /\ f[y] \in Int
  <2>1. IsFiniteSet((T \ {c}) \ {y})
    BY <1>4, FS_Subset
  <2>. QED BY <1>4, <1>5, <2>1, SumType
<1>11. sum(T \ {y}) \in Int /\ sum(T \ {c}) \in Int
  BY <1>7, <1>8, <1>9, <1>10
<1> HIDE DEF sum
<1>. QED BY <1>3, <1>5, <1>7, <1>8, <1>9, <1>10

\* An element more adds its value.
LEMMA SumAdd ==
  ASSUME NEW S, IsFiniteSet(S), NEW x, x \notin S, NEW f, \A y \in S \cup {x} : f[y] \in Int
  PROVE  SumFunctionOnSet(f, S \cup {x}) = SumFunctionOnSet(f, S) + f[x]
<1>1. IsFiniteSet(S \cup {x}) /\ x \in S \cup {x}
  BY FS_AddElement
<1>2. SumFunctionOnSet(f, S \cup {x}) = f[x] + SumFunctionOnSet(f, (S \cup {x}) \ {x})
  BY <1>1, SumRemove
<1>3. (S \cup {x}) \ {x} = S
  OBVIOUS
<1>4. SumFunctionOnSet(f, S) \in Int /\ f[x] \in Int
  BY SumType
<1>5. SumFunctionOnSet(f, S \cup {x}) = f[x] + SumFunctionOnSet(f, S)
  BY <1>2, <1>3
<1>. QED BY <1>4, <1>5

\* A sum of what is nowhere less is no less.
LEMMA SumMonotone ==
  ASSUME NEW S, IsFiniteSet(S), NEW f, NEW h,
         \A x \in S : f[x] \in Int /\ h[x] \in Int /\ f[x] <= h[x]
  PROVE  SumFunctionOnSet(f, S) <= SumFunctionOnSet(h, S)
<1> DEFINE bad == {s \in SUBSET S : ~(SumFunctionOnSet(f, s) <= SumFunctionOnSet(h, s))}
<1>1. SUFFICES ASSUME bad # {} PROVE FALSE
  OBVIOUS
<1>2. PICK T \in bad : \A U \in bad : U \subseteq T => U = T
  <2>1. bad \in SUBSET SUBSET S
    OBVIOUS
  <2>. HIDE DEF bad
  <2>. QED BY <1>1, <2>1, SmallestSubset
<1>3. IsFiniteSet(T) /\ T # {}
  <2>1. T \in SUBSET S /\ ~(SumFunctionOnSet(f, T) <= SumFunctionOnSet(h, T))
    BY <1>2
  <2>2. T # {}
    BY <2>1, SumEmpty
  <2>. QED BY <2>1, <2>2, FS_Subset
<1> DEFINE c == Pick(T)
<1>4. c \in T /\ c \in S
  BY <1>2, <1>3, PickMember
<1>5. SumFunctionOnSet(f, T \ {c}) <= SumFunctionOnSet(h, T \ {c})
  BY <1>2, <1>4
<1>6. SumFunctionOnSet(f, T \ {c}) \in Int /\ SumFunctionOnSet(h, T \ {c}) \in Int
  <2>1. IsFiniteSet(T \ {c})
    BY <1>3, FS_Subset
  <2>. QED BY <1>2, <2>1, SumType
<1>7. /\ SumFunctionOnSet(f, T) = f[c] + SumFunctionOnSet(f, T \ {c})
      /\ SumFunctionOnSet(h, T) = h[c] + SumFunctionOnSet(h, T \ {c})
  BY <1>3, SumPicks
<1>. QED BY <1>2, <1>4, <1>5, <1>6, <1>7

\* A sum over two sets that are apart.
LEMMA SumUnion ==
  ASSUME NEW S, IsFiniteSet(S), NEW R, IsFiniteSet(R), S \cap R = {},
         NEW f, \A x \in S \cup R : f[x] \in Int
  PROVE  SumFunctionOnSet(f, S \cup R) = SumFunctionOnSet(f, S) + SumFunctionOnSet(f, R)
<1> DEFINE sum(s) == SumFunctionOnSet(f, s)
           bad == {s \in SUBSET R : sum(S \cup s) # sum(S) + sum(s)}
<1>1. SUFFICES ASSUME bad # {} PROVE FALSE
  OBVIOUS
<1>2. PICK T \in bad : \A U \in bad : U \subseteq T => U = T
  <2>1. bad \in SUBSET SUBSET R
    OBVIOUS
  <2>. HIDE DEF bad
  <2>. QED BY <1>1, <2>1, SmallestSubset
<1>3. T \in SUBSET R /\ IsFiniteSet(T) /\ sum(S \cup T) # sum(S) + sum(T)
  BY <1>2, FS_Subset
<1>4. sum(S) \in Int
  BY SumType
<1>5. T # {}
  <2>1. ASSUME T = {} PROVE sum(S \cup T) = sum(S) + sum(T)
    <3>1. S \cup T = S /\ sum(T) = 0
      BY <2>1, SumEmpty
    <3>2. sum(S \cup T) = sum(S)
      BY <3>1
    <3>. HIDE DEF sum
    <3>. QED BY <1>4, <3>1, <3>2
  <2>. QED BY <1>3, <2>1
<1> DEFINE c == Pick(T)
           U == T \ {c}
<1>6. c \in T /\ c \in R /\ c \notin S /\ f[c] \in Int
  BY <1>3, <1>5, PickMember
<1> HIDE DEF c
<1>7. U \in SUBSET R /\ IsFiniteSet(U) /\ c \notin U /\ c \notin S \cup U /\ IsFiniteSet(S \cup U)
  BY <1>3, <1>6, FS_Subset, FS_Union
<1>8. sum(S \cup U) = sum(S) + sum(U)
  BY <1>2, <1>6
<1>9. sum((S \cup U) \cup {c}) = sum(S \cup U) + f[c]
  BY <1>6, <1>7, SumAdd
<1>10. sum(U \cup {c}) = sum(U) + f[c]
  BY <1>6, <1>7, SumAdd
<1>11. (S \cup U) \cup {c} = S \cup T /\ U \cup {c} = T
  BY <1>6
<1>12. sum(U) \in Int
  BY <1>7, SumType
<1> HIDE DEF sum, U
<1>13. sum(S \cup T) = (sum(S) + sum(U)) + f[c] /\ sum(T) = sum(U) + f[c]
  BY <1>8, <1>9, <1>10, <1>11
<1>. QED BY <1>3, <1>4, <1>6, <1>12, <1>13
\* A set without a part of it adds up to what the part leaves.
LEMMA SumWithout ==
  ASSUME NEW S, IsFiniteSet(S), NEW R \in SUBSET S, NEW f, \A x \in S : f[x] \in Int
  PROVE  SumFunctionOnSet(f, S \ R) = SumFunctionOnSet(f, S) - SumFunctionOnSet(f, R)
<1>1. IsFiniteSet(S \ R) /\ IsFiniteSet(R) /\ (S \ R) \cap R = {} /\ S = (S \ R) \cup R
  BY FS_Subset
<1>2. SumFunctionOnSet(f, (S \ R) \cup R) = SumFunctionOnSet(f, S \ R) + SumFunctionOnSet(f, R)
  <2>1. \A x \in (S \ R) \cup R : f[x] \in Int
    OBVIOUS
  <2>. QED BY <1>1, <2>1, SumUnion
<1>3. SumFunctionOnSet(f, S \ R) \in Int /\ SumFunctionOnSet(f, R) \in Int
  BY <1>1, SumType
<1>4. SumFunctionOnSet(f, S) = SumFunctionOnSet(f, S \ R) + SumFunctionOnSet(f, R)
  BY <1>1, <1>2
<1>. QED BY <1>3, <1>4

\* A part adds up to no more than the whole, of natural numbers.
LEMMA SumPart ==
  ASSUME NEW S, IsFiniteSet(S), NEW R \in SUBSET S, NEW f, \A x \in S : f[x] \in Nat
  PROVE  SumFunctionOnSet(f, R) <= SumFunctionOnSet(f, S)
<1>1. \A x \in S : f[x] \in Int
  OBVIOUS
<1>2. SumFunctionOnSet(f, S \ R) = SumFunctionOnSet(f, S) - SumFunctionOnSet(f, R)
  BY <1>1, SumWithout
<1>3. IsFiniteSet(S \ R) /\ IsFiniteSet(R)
  BY FS_Subset
<1>4. SumFunctionOnSet(f, S \ R) \in Nat
  BY <1>3, SumNatural
<1>5. SumFunctionOnSet(f, S) \in Int /\ SumFunctionOnSet(f, R) \in Int
  BY <1>1, <1>3, SumType
<1>. QED BY <1>2, <1>4, <1>5

\* One element is no more than the whole.
LEMMA SumElement ==
  ASSUME NEW S, IsFiniteSet(S), NEW y \in S, NEW f, \A x \in S : f[x] \in Nat
  PROVE  f[y] <= SumFunctionOnSet(f, S)
<1>1. SumFunctionOnSet(f, S) = f[y] + SumFunctionOnSet(f, S \ {y})
  <2>1. \A x \in S : f[x] \in Int
    OBVIOUS
  <2>. QED BY <2>1, SumRemove
<1>2. SumFunctionOnSet(f, S \ {y}) \in Nat
  <2>1. IsFiniteSet(S \ {y})
    BY FS_Subset
  <2>. QED BY <2>1, SumNatural
<1>3. f[y] \in Nat
  OBVIOUS
<1>. QED BY <1>1, <1>2, <1>3

-----------------------------------------------------------------------------
\* Induction over the positions of a loop, as a fact about a set of numbers.
LEMMA LoopInduction ==
  ASSUME NEW n \in Nat, NEW good, 0 \in good, \A i \in 1 .. n : i - 1 \in good => i \in good
  PROVE  \A i \in 0 .. n : i \in good
<1> DEFINE bad == {i \in 0 .. n : i \notin good}
           Below(i) == 0 .. i
           sets == {Below(i) : i \in bad}
<1>1. SUFFICES ASSUME bad # {} PROVE FALSE
  OBVIOUS
<1>2. PICK T \in sets : \A U \in sets : U \subseteq T => U = T
  <2> DEFINE all == 0 .. n
  <2>1. IsFiniteSet(all)
    BY FS_Interval
  <2>2. sets \in SUBSET SUBSET all /\ sets # {}
    BY <1>1
  <2>. HIDE DEF sets, all
  <2>. QED BY <2>1, <2>2, SmallestSubset
<1>3. PICK m \in 0 .. n : m \notin good /\ T = 0 .. m
  BY <1>2
<1>4. m - 1 \in 0 .. n /\ m - 1 \notin good
  BY <1>3
<1>5. Below(m - 1) \in sets
  BY <1>4
<1>6. Below(m - 1) = T
  <2>1. 0 .. m - 1 \subseteq 0 .. m
    BY <1>4
  <2>. QED BY <1>2, <1>3, <1>5, <2>1
<1>. QED BY <1>3, <1>4, <1>6

\* A set of numbers up to n has a smallest one.
LEMMA SmallestNumber ==
  ASSUME NEW n \in Nat, NEW S \in SUBSET (0 .. n), S # {}
  PROVE  \E x \in S : \A y \in S : x <= y
<1> DEFINE least == \E x \in S : \A y \in S : x <= y
           good == {i \in 0 .. n : (\E y \in S : y <= i) => least}
<1>1. 0 \in good
  <2>1. ASSUME NEW y \in S, y <= 0 PROVE least
    <3>1. y = 0 /\ \A z \in S : 0 <= z
      BY <2>1
    <3>. QED BY <3>1
  <2>. QED BY <2>1
<1>2. ASSUME NEW i \in 1 .. n, i - 1 \in good PROVE i \in good
  <2>1. SUFFICES ASSUME NEW y \in S, y <= i PROVE least
    BY <1>2
  <2>2. CASE \E z \in S : z <= i - 1
    BY <1>2, <2>2
  <2>3. CASE ~ \E z \in S : z <= i - 1
    <3>1. \A z \in S : y <= z
      BY <2>1, <2>3
    <3>. QED BY <3>1
  <2>. QED BY <2>2, <2>3
<1>3. \A i \in 0 .. n : i \in good
  <2> HIDE DEF good
  <2>. QED BY <1>1, <1>2, LoopInduction
<1>4. n \in good
  <2> HIDE DEF good
  <2>. QED BY <1>3
<1>5. PICK y \in S : TRUE
  OBVIOUS
<1>6. y <= n
  OBVIOUS
<1>. QED BY <1>4, <1>5, <1>6

\* The states of a loop from v on: F takes a position and the state before it.
Runs(g, k, v, F) == g[0] = v /\ \A i \in 1 .. k : g[i] = F[i, g[i-1]]

\* A loop that runs from 1 to n has its states.
LEMMA LoopExists ==
  ASSUME NEW n \in Nat, NEW V, NEW v \in V, NEW F \in [(1 .. n) \X V -> V]
  PROVE  \E g \in [0 .. n -> V] : Runs(g, n, v, F)
<1> DEFINE good == {k \in 0 .. n : \E g \in [0 .. k -> V] : Runs(g, k, v, F)}
<1>1. 0 \in good
  <2>1. [i \in 0 .. 0 |-> v] \in [0 .. 0 -> V] /\ Runs([i \in 0 .. 0 |-> v], 0, v, F)
    BY DEF Runs
  <2>. QED BY <2>1
<1>2. ASSUME NEW k \in 1 .. n, k - 1 \in good PROVE k \in good
  <2>1. PICK g \in [0 .. k - 1 -> V] : Runs(g, k - 1, v, F)
    BY <1>2
  <2> DEFINE w == F[k, g[k-1]]
             h == [i \in 0 .. k |-> IF i = k THEN w ELSE g[i]]
  <2>2. w \in V
    <3>1. g[k-1] \in V /\ <<k, g[k-1]>> \in (1 .. n) \X V
      OBVIOUS
    <3>. QED BY <3>1
  <2>3. h \in [0 .. k -> V]
    <3>1. \A i \in 0 .. k : i # k => g[i] \in V
      OBVIOUS
    <3>. HIDE DEF w
    <3>. QED BY <2>2, <3>1
  <2>4. h[k] = w /\ \A i \in 0 .. k - 1 : h[i] = g[i]
    <3>1. k \in 0 .. k /\ \A i \in 0 .. k - 1 : i # k /\ i \in 0 .. k
      OBVIOUS
    <3>. HIDE DEF w
    <3>. QED BY <3>1
  <2>5. h[k-1] = g[k-1] /\ h[0] = g[0]
    <3>1. k - 1 \in 0 .. k - 1 /\ 0 \in 0 .. k - 1
      OBVIOUS
    <3>. HIDE DEF h
    <3>. QED BY <2>4, <3>1
  <2> HIDE DEF h
  <2>6. Runs(h, k, v, F)
    <3>1. h[0] = v
      BY <2>1, <2>5 DEF Runs
    <3>2. ASSUME NEW i \in 1 .. k PROVE h[i] = F[i, h[i-1]]
      <4>1. CASE i = k
        BY <2>4, <2>5, <4>1
      <4>2. CASE i # k
        <5>1. i \in 1 .. k - 1 /\ i \in 0 .. k - 1 /\ i - 1 \in 0 .. k - 1
          BY <4>2
        <5>2. g[i] = F[i, g[i-1]]
          BY <2>1, <5>1 DEF Runs
        <5>. QED BY <2>4, <5>1, <5>2
      <4>. QED BY <4>1, <4>2
    <3>. QED BY <3>1, <3>2 DEF Runs
  <2>7. \E e \in [0 .. k -> V] : Runs(e, k, v, F)
    BY <2>3, <2>6
  <2>. QED BY <2>7
<1>3. \A k \in 0 .. n : k \in good
  <2>. HIDE DEF good
  <2>. QED BY <1>1, <1>2, LoopInduction
<1>. QED BY <1>3

-----------------------------------------------------------------------------
\* A sum of differences.
LEMMA SumMinus ==
  ASSUME NEW S, IsFiniteSet(S), NEW f, NEW g, NEW h,
         \A x \in S : g[x] \in Int /\ h[x] \in Int /\ f[x] = g[x] - h[x]
  PROVE  SumFunctionOnSet(f, S) = SumFunctionOnSet(g, S) - SumFunctionOnSet(h, S)
<1> DEFINE F(s) == SumFunctionOnSet(f, s)
           G(s) == SumFunctionOnSet(g, s)
           H(s) == SumFunctionOnSet(h, s)
           bad == {s \in SUBSET S : F(s) # G(s) - H(s)}
<1>1. SUFFICES ASSUME bad # {} PROVE FALSE
  OBVIOUS
<1>2. PICK T \in bad : \A U \in bad : U \subseteq T => U = T
  <2>1. bad \in SUBSET SUBSET S
    OBVIOUS
  <2>. HIDE DEF bad
  <2>. QED BY <1>1, <2>1, SmallestSubset
<1>3. T \in SUBSET S /\ IsFiniteSet(T) /\ F(T) # G(T) - H(T)
  BY <1>2, FS_Subset
<1>4. CASE T = {}
  <2>1. F({}) = 0 /\ G({}) = 0 /\ H({}) = 0
    BY SumEmpty
  <2>. QED BY <1>3, <1>4, <2>1
<1>5. CASE T # {}
  <2>1. PICK x \in T : TRUE
    BY <1>5
  <2> DEFINE R == T \ {x}
  <2>2. R \notin bad /\ R \in SUBSET S /\ IsFiniteSet(R)
    BY <1>2, <1>3, <2>1, FS_Subset
  <2>3. F(R) = G(R) - H(R)
    BY <2>2
  <2>4. \A y \in T : f[y] \in Int /\ g[y] \in Int /\ h[y] \in Int /\ f[y] = g[y] - h[y]
    BY <1>3
  <2>5. F(T) = f[x] + F(R) /\ G(T) = g[x] + G(R) /\ H(T) = h[x] + H(R)
    BY <1>3, <2>1, <2>4, SumRemove
  <2>6. G(R) \in Int /\ H(R) \in Int
    BY <2>2, <2>4, SumType
  <2> HIDE DEF F, G, H
  <2>. QED BY <1>3, <2>1, <2>3, <2>4, <2>5, <2>6
<1>. QED BY <1>4, <1>5

\* Ones add up to the size of a set.
LEMMA SumCount ==
  ASSUME NEW S, IsFiniteSet(S), NEW f, \A x \in S : f[x] = 1
  PROVE  SumFunctionOnSet(f, S) = Cardinality(S)
<1> DEFINE F(s) == SumFunctionOnSet(f, s)
           bad == {s \in SUBSET S : F(s) # Cardinality(s)}
<1>1. SUFFICES ASSUME bad # {} PROVE FALSE
  OBVIOUS
<1>2. PICK T \in bad : \A U \in bad : U \subseteq T => U = T
  <2>1. bad \in SUBSET SUBSET S
    OBVIOUS
  <2>. HIDE DEF bad
  <2>. QED BY <1>1, <2>1, SmallestSubset
<1>3. T \in SUBSET S /\ IsFiniteSet(T) /\ F(T) # Cardinality(T)
  BY <1>2, FS_Subset
<1>4. CASE T = {}
  BY <1>3, <1>4, SumEmpty, FS_EmptySet
<1>5. CASE T # {}
  <2>1. PICK x \in T : TRUE
    BY <1>5
  <2> DEFINE R == T \ {x}
  <2>2. R \notin bad /\ R \in SUBSET S /\ IsFiniteSet(R)
    BY <1>2, <1>3, <2>1, FS_Subset
  <2>3. F(R) = Cardinality(R)
    BY <2>2
  <2>4. \A y \in T : f[y] \in Int /\ f[y] = 1
    BY <1>3
  <2>5. F(T) = f[x] + F(R)
    BY <1>3, <2>1, <2>4, SumRemove
  <2>6. Cardinality(R) = Cardinality(T) - 1 /\ Cardinality(T) \in Nat
    BY <1>3, <2>1, FS_RemoveElement, FS_CardinalityType
  <2> HIDE DEF F, R
  <2>. QED BY <1>3, <2>1, <2>3, <2>4, <2>5, <2>6
<1>. QED BY <1>4, <1>5

\* The elements of S with a key in C, and g that shares out f by the key.
Keyed(S, key, C) == {x \in S : key[x] \in C}
Shared(S, f, key, C, g) ==
  /\ IsFiniteSet(S) /\ IsFiniteSet(C)
  /\ \A x \in S : f[x] \in Int
  /\ \A c \in C : g[c] = SumFunctionOnSet(f, {x \in S : key[x] = c})

\* What is shared out by a key adds up to what there was.
LEMMA SumPartition ==
  ASSUME NEW S, NEW f, NEW key, NEW C, NEW g, Shared(S, f, key, C, g)
  PROVE  SumFunctionOnSet(g, C) = SumFunctionOnSet(f, Keyed(S, key, C))
<1>0. /\ IsFiniteSet(S) /\ IsFiniteSet(C)
      /\ \A x \in S : f[x] \in Int
      /\ \A c \in C : g[c] = SumFunctionOnSet(f, {x \in S : key[x] = c})
  BY DEF Shared
<1>. USE <1>0 DEF Keyed
<1> DEFINE Of(c) == {x \in S : key[x] = c}
           All(s) == {x \in S : key[x] \in s}
           bad == {s \in SUBSET C : SumFunctionOnSet(g, s) # SumFunctionOnSet(f, All(s))}
<1>1. SUFFICES ASSUME bad # {} PROVE FALSE
  OBVIOUS
<1>2. PICK T \in bad : \A U \in bad : U \subseteq T => U = T
  <2>1. bad \in SUBSET SUBSET C
    OBVIOUS
  <2>. HIDE DEF bad
  <2>. QED BY <1>1, <2>1, SmallestSubset
<1>3. /\ T \in SUBSET C /\ IsFiniteSet(T)
      /\ SumFunctionOnSet(g, T) # SumFunctionOnSet(f, All(T))
  BY <1>2, FS_Subset
<1>4. CASE T = {}
  <2>1. All(T) = {}
    BY <1>4
  <2> HIDE DEF All
  <2>. QED BY <1>3, <1>4, <2>1, SumEmpty
<1>5. CASE T # {}
  <2>1. PICK c \in T : TRUE
    BY <1>5
  <2> DEFINE R == T \ {c}
  <2>2. R \notin bad /\ R \in SUBSET C
    BY <1>2, <1>3, <2>1
  <2>3. SumFunctionOnSet(g, R) = SumFunctionOnSet(f, All(R))
    BY <2>2
  <2>4. /\ All(T) = Of(c) \cup All(R) /\ Of(c) \cap All(R) = {}
        /\ \A x \in Of(c) \cup All(R) : f[x] \in Int
    BY <2>1
  <2>5. IsFiniteSet(Of(c)) /\ IsFiniteSet(All(R))
    BY FS_Subset
  <2>6. g[c] = SumFunctionOnSet(f, Of(c))
    BY <1>3, <2>1
  <2>7. \A d \in T : g[d] \in Int
    <3>. SUFFICES ASSUME NEW d \in T PROVE g[d] \in Int
      OBVIOUS
    <3>1. g[d] = SumFunctionOnSet(f, Of(d)) /\ IsFiniteSet(Of(d)) /\ \A x \in Of(d) : f[x] \in Int
      BY <1>3, FS_Subset
    <3> HIDE DEF Of
    <3>. QED BY <3>1, SumType
  <2> HIDE DEF Of, All
  <2>8. SumFunctionOnSet(g, T) = g[c] + SumFunctionOnSet(g, R)
    BY <1>3, <2>1, <2>7, SumRemove
  <2>9. SumFunctionOnSet(f, Of(c) \cup All(R))
          = SumFunctionOnSet(f, Of(c)) + SumFunctionOnSet(f, All(R))
    BY <2>4, <2>5, SumUnion
  <2>. QED BY <1>3, <2>3, <2>4, <2>6, <2>8, <2>9
<1>. QED BY <1>4, <1>5

\* The values of a function on a finite set are finitely many.
LEMMA FiniteImage ==
  ASSUME NEW S, IsFiniteSet(S), NEW f
  PROVE  IsFiniteSet({f[x] : x \in S})
<1> DEFINE T == {f[x] : x \in S}
           g == [x \in S |-> f[x]]
<1>1. g \in Surjection(S, T)
  BY DEF Surjection
<1> HIDE DEF T, g
<1>2. IsFiniteSet(T)
  BY <1>1, FS_Surjection
<1>. QED BY <1>2 DEF T

\* The first k values of o.
Passed(o, k) == {o[i] : i \in 1 .. k}

\* g holds what f gives for the first n values of o, which are distinct.
InOrder(n, o, f, g) ==
  /\ n \in Nat
  /\ \A i, j \in 1 .. n : o[i] = o[j] => i = j
  /\ \A i \in 1 .. n : f[o[i]] \in Int /\ g[i] = f[o[i]]

\* What is added up in an order adds up to what has been passed.
LEMMA SumInOrder ==
  ASSUME NEW n, NEW o, NEW f, NEW g, InOrder(n, o, f, g), NEW m \in 0 .. n
  PROVE  SumFunctionOnSet(g, 1 .. m) = SumFunctionOnSet(f, Passed(o, m))
<1>0. /\ n \in Nat
      /\ \A i, j \in 1 .. n : o[i] = o[j] => i = j
      /\ \A i \in 1 .. n : f[o[i]] \in Int /\ g[i] = f[o[i]]
  BY DEF InOrder
<1>. USE <1>0
<1> DEFINE good == {k \in 0 .. n : SumFunctionOnSet(g, 1 .. k) = SumFunctionOnSet(f, Passed(o, k))}
<1>1. 0 \in good
  <2>1. 1 .. 0 = {} /\ Passed(o, 0) = {} /\ 0 \in 0 .. n
    BY DEF Passed
  <2>. QED BY <2>1, SumEmpty
<1>2. ASSUME NEW k \in 1 .. n, k - 1 \in good PROVE k \in good
  <2>1. /\ 1 .. k = (1 .. k - 1) \cup {k} /\ k \notin 1 .. k - 1 /\ k \in 0 .. n
        /\ \A i \in (1 .. k - 1) \cup {k} : i \in 1 .. n
    BY <1>2
  <2>2. Passed(o, k) = Passed(o, k - 1) \cup {o[k]} /\ o[k] \notin Passed(o, k - 1)
    <3>1. \A i \in 1 .. k - 1 : o[i] # o[k]
      BY <2>1
    <3>. QED BY <2>1, <3>1 DEF Passed
  <2>3. IsFiniteSet(1 .. k - 1) /\ IsFiniteSet(Passed(o, k - 1))
    <3>1. IsFiniteSet(1 .. k - 1)
      BY <1>2, FS_Interval
    <3>. QED BY <3>1, FiniteImage DEF Passed
  <2>4. (\A i \in (1 .. k - 1) \cup {k} : g[i] \in Int)
        /\ \A x \in Passed(o, k - 1) \cup {o[k]} : f[x] \in Int
    BY <2>1 DEF Passed
  <2>5. SumFunctionOnSet(g, 1 .. k - 1) = SumFunctionOnSet(f, Passed(o, k - 1))
    BY <1>2
  <2> DEFINE old == Passed(o, k - 1)
             x == o[k]
  <2>6. SumFunctionOnSet(g, (1 .. k - 1) \cup {k}) = SumFunctionOnSet(g, 1 .. k - 1) + g[k]
    BY <2>1, <2>3, <2>4, SumAdd
  <2>7. SumFunctionOnSet(f, old \cup {x}) = SumFunctionOnSet(f, old) + f[x]
    <3>1. x \notin old /\ IsFiniteSet(old) /\ \A y \in old \cup {x} : f[y] \in Int
      BY <2>2, <2>3, <2>4
    <3> HIDE DEF old, x
    <3>. QED BY <3>1, SumAdd
  <2>8. g[k] = f[o[k]]
    OBVIOUS
  <2>. QED BY <2>1, <2>2, <2>5, <2>6, <2>7, <2>8
<1>3. \A k \in 0 .. n : k \in good
  <2> HIDE DEF good
  <2>. QED BY <1>1, <1>2, LoopInduction
<1>. QED BY <1>3

\* A finite set of integers has a largest one.
LEMMA LargestNumber ==
  ASSUME NEW S \in SUBSET Int, IsFiniteSet(S), S # {}
  PROVE  \E x \in S : \A y \in S : x >= y
<1> DEFINE Above(x) == {y \in S : y > x}
           sets == {Above(x) : x \in S}
<1>1. PICK T \in sets : \A U \in sets : U \subseteq T => U = T
  <2> DEFINE all == S
  <2>1. sets \in SUBSET SUBSET all /\ sets # {} /\ IsFiniteSet(all)
    OBVIOUS
  <2> HIDE DEF sets, all
  <2>. QED BY ONLY <2>1, SmallestSubset
<1>2. PICK x \in S : T = Above(x)
  BY <1>1
<1>3. ASSUME NEW y \in S, y > x PROVE FALSE
  <2>1. x \in Int /\ y \in Int /\ \A z \in S : z \in Int
    OBVIOUS
  <2>2. Above(y) \subseteq Above(x)
    <3>. SUFFICES ASSUME NEW z \in Above(y) PROVE z \in Above(x)
      OBVIOUS
    <3>1. z \in S /\ z > y /\ z \in Int
      BY <2>1
    <3>. QED BY <1>3, <2>1, <3>1
  <2>3. y \in Above(x) /\ y \notin Above(y)
    BY <1>3, <2>1
  <2>4. Above(y) \in sets
    OBVIOUS
  <2>. QED BY <1>1, <1>2, <2>2, <2>3, <2>4
<1>. QED BY <1>3
=============================================================================
