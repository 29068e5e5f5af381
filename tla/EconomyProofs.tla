--------------------------- MODULE EconomyProofs ---------------------------
(***************************************************************************)
(* Proofs about Economy, for any number of users, wallets, requests and    *)
(* scenarios.  The argument about keys: a tip that holds the payer's       *)
(* wallet row holds a row nobody has committed since its snapshot, every   *)
(* tip of that payer writes that row, so its snapshot has all of the       *)
(* payer's ledger rows.  Then what requests of different components hold   *)
(* against each other; the ledger, row by row; and the locks, which are    *)
(* taken in an order.  Sums over finite sets come first.                   *)
(***************************************************************************)
EXTENDS Economy, FiniteSetTheorems, TLAPS

-----------------------------------------------------------------------------
(* Sums over finite sets.  What MapThenSumSet computes is a function on    *)
(* all subsets; by the least counterexample to what is said of it, such a  *)
(* function exists, is the only one, and does not depend on the order in   *)
(* which elements are taken.                                               *)

First(s) == CHOOSE x \in s : TRUE

\* What a sum over a set computes, one element after the other, in the order of CHOOSE.
IsSum(g, w, U) ==
    g = [s \in SUBSET U |-> IF s = {} THEN 0 ELSE w[First(s)] + g[s \ {First(s)}]]

\* Among the finite sets of a collection there is one that has no other below it.
LEMMA Least ==
    \A U : \A T \in SUBSET FiniteSubsetsOf(U) : T = {} \/ \E s \in T : \A r \in T : r \subseteq s => r = s
<1> SUFFICES ASSUME NEW U, NEW T \in SUBSET FiniteSubsetsOf(U), T # {}
             PROVE  \E s \in T : \A r \in T : r \subseteq s => r = s
  OBVIOUS
<1>1. IsWellFoundedOn(StrictSubsetOrdering(U), FiniteSubsetsOf(U))
  BY FS_StrictSubsetOrderingWellFounded
<1>2. PICK s \in T : \A r \in T : <<r, s>> \notin StrictSubsetOrdering(U)
  BY <1>1, WFMin
<1>3. ASSUME NEW r \in T, r \subseteq s, r # s
      PROVE  FALSE
  BY <1>2, <1>3 DEF StrictSubsetOrdering, FiniteSubsetsOf
<1> QED
  BY <1>2, <1>3

\* A set that is not empty has a first element.
LEMMA FirstIn == \A s : s # {} => First(s) \in s
BY DEF First

\* Two sums agree on every finite set that both are about.
LEMMA SumUnique ==
    ASSUME NEW g, NEW h, NEW w, NEW U, NEW V, IsSum(g, w, U), IsSum(h, w, V),
           NEW s, s \subseteq U, s \subseteq V, IsFiniteSet(s)
    PROVE  g[s] = h[s]
<1> DEFINE T == {r \in FiniteSubsetsOf(s) : g[r] # h[r]}
<1>1. T = {} \/ \E r \in T : \A q \in T : q \subseteq r => q = r
  <2>1. T \in SUBSET FiniteSubsetsOf(s)
    OBVIOUS
  <2> HIDE DEF T
  <2> QED
    BY <2>1, Least, SMT
<1>2. ASSUME NEW r \in T, \A q \in T : q \subseteq r => q = r
      PROVE  FALSE
  <2>1. r \subseteq s /\ IsFiniteSet(r) /\ r \in SUBSET U /\ r \in SUBSET V
    BY DEF FiniteSubsetsOf
  <2>2. g[r] = IF r = {} THEN 0 ELSE w[First(r)] + g[r \ {First(r)}]
    BY <2>1 DEF IsSum
  <2>3. h[r] = IF r = {} THEN 0 ELSE w[First(r)] + h[r \ {First(r)}]
    BY <2>1 DEF IsSum
  <2>4. r # {} /\ First(r) \in r
    BY <2>2, <2>3, FirstIn
  <2>5. r \ {First(r)} \in FiniteSubsetsOf(s) /\ r \ {First(r)} # r
    BY <2>1, <2>4, FS_RemoveElement DEF FiniteSubsetsOf
  <2>6. g[r \ {First(r)}] = h[r \ {First(r)}]
    BY <1>2, <2>5
  <2> QED
    BY <2>2, <2>3, <2>4, <2>6
<1>3. s \in FiniteSubsetsOf(s)
  BY DEF FiniteSubsetsOf
<1> QED
  BY <1>1, <1>2, <1>3

\* A sum about a set is one about each of its subsets.
LEMMA SumOfPart ==
    ASSUME NEW g, NEW w, NEW U, IsSum(g, w, U), NEW V, V \subseteq U
    PROVE  IsSum([s \in SUBSET V |-> g[s]], w, V)
<1> DEFINE h == [s \in SUBSET V |-> g[s]]
<1>1. ASSUME NEW s \in SUBSET V
      PROVE  h[s] = IF s = {} THEN 0 ELSE w[First(s)] + h[s \ {First(s)}]
  <2>1. s \in SUBSET U /\ s \ {First(s)} \in SUBSET V
    OBVIOUS
  <2> QED
    BY <2>1 DEF IsSum
<1>2. h = [s \in SUBSET V |-> h[s]]
  OBVIOUS
<1> HIDE DEF h
<1>3. h = [s \in SUBSET V |-> IF s = {} THEN 0 ELSE w[First(s)] + h[s \ {First(s)}]]
  BY <1>1, <1>2
<1>4. IsSum(h, w, V)
  BY <1>3 DEF IsSum
<1> QED
  BY <1>4 DEF h

\* Every finite set has a sum.
LEMMA SumExists ==
    ASSUME NEW w, NEW U, IsFiniteSet(U)
    PROVE  \E g : IsSum(g, w, U)
<1> DEFINE T == {r \in FiniteSubsetsOf(U) : ~ \E g : IsSum(g, w, r)}
           Value(s) == (CHOOSE g : IsSum(g, w, s))[s]
           G(r) == [s \in SUBSET r |-> IF s = {} THEN 0 ELSE w[First(s)] + Value(s \ {First(s)})]
<1>1. T = {} \/ \E r \in T : \A q \in T : q \subseteq r => q = r
  <2>1. T \in SUBSET FiniteSubsetsOf(U)
    OBVIOUS
  <2> HIDE DEF T
  <2> QED
    BY <2>1, Least, SMT
<1>2. ASSUME NEW r \in T, \A q \in T : q \subseteq r => q = r
      PROVE  FALSE
  <2>1. r \subseteq U /\ IsFiniteSet(r)
    BY DEF FiniteSubsetsOf
  <2>2. ASSUME NEW s \in SUBSET r, s # r
        PROVE  IsFiniteSet(s) /\ IsSum(CHOOSE g : IsSum(g, w, s), w, s)
    <3>1. IsFiniteSet(s)
      BY <2>1, FS_Subset
    <3>2. \E g : IsSum(g, w, s)
      BY <1>2, <2>1, <2>2, <3>1 DEF FiniteSubsetsOf
    <3>3. IsSum(CHOOSE g : IsSum(g, w, s), w, s)
      BY <3>2, Zenon
    <3> QED
      BY <3>1, <3>3
  <2>3. ASSUME NEW s \in SUBSET r, s # r
        PROVE  Value(s) = IF s = {} THEN 0 ELSE w[First(s)] + Value(s \ {First(s)})
    <3> DEFINE h == CHOOSE g : IsSum(g, w, s)
               rest == s \ {First(s)}
               k == CHOOSE g : IsSum(g, w, rest)
    <3>1. IsSum(h, w, s) /\ IsFiniteSet(s)
      BY <2>2, <2>3
    <3>2. CASE s = {}
      <4> HIDE DEF h
      <4>1. h[s] = 0
        BY <3>1, <3>2 DEF IsSum
      <4> QED
        BY <3>2, <4>1 DEF h
    <3>3. CASE s # {}
      <4>1. First(s) \in s
        BY <3>3, FirstIn
      <4>2. rest \in SUBSET r /\ rest # r /\ rest \in SUBSET s
        BY <4>1
      <4>3. IsSum(k, w, rest) /\ IsFiniteSet(rest)
        BY <2>2, <4>2
      <4> HIDE DEF h, k, rest
      <4>4. h[rest] = k[rest]
        BY <3>1, <4>2, <4>3, SumUnique
      <4>5. h[s] = w[First(s)] + h[rest]
        BY <3>1, <3>3 DEF IsSum, rest
      <4> QED
        BY <3>3, <4>4, <4>5 DEF h, k, rest
    <3> QED
      BY <3>2, <3>3
  <2>4. ASSUME NEW s \in SUBSET r
        PROVE  G(r)[s] = IF s = {} THEN 0 ELSE w[First(s)] + G(r)[s \ {First(s)}]
    <3> DEFINE rest == s \ {First(s)}
    <3>1. CASE s = {}
      BY <3>1
    <3>2. CASE s # {}
      <4>1. First(s) \in s
        BY <3>2, FirstIn
      <4>2. rest \in SUBSET r /\ rest # r
        BY <4>1
      <4>3. G(r)[rest] = Value(rest)
        <5> HIDE DEF Value, rest
        <5>1. Value(rest) = IF rest = {} THEN 0 ELSE w[First(rest)] + Value(rest \ {First(rest)})
          BY <2>3, <4>2
        <5> QED
          BY <5>1, <4>2
      <4> HIDE DEF Value
      <4> QED
        BY <3>2, <4>3
    <3> QED
      BY <3>1, <3>2
  <2>5. G(r) = [s \in SUBSET r |-> G(r)[s]]
    OBVIOUS
  <2> DEFINE g == G(r)
  <2> HIDE DEF G
  <2>6. g = [s \in SUBSET r |-> IF s = {} THEN 0 ELSE w[First(s)] + g[s \ {First(s)}]]
    BY <2>4, <2>5
  <2>7. IsSum(g, w, r)
    BY <2>6 DEF IsSum
  <2> QED
    BY <2>7
<1>3. U \in FiniteSubsetsOf(U)
  BY DEF FiniteSubsetsOf
<1> QED
  BY <1>1, <1>2, <1>3

\* A sum of integers is an integer.
LEMMA SumIsInt ==
    ASSUME NEW g, NEW w, NEW U, IsSum(g, w, U), \A x \in U : w[x] \in Int,
           NEW s \in SUBSET U, IsFiniteSet(s)
    PROVE  g[s] \in Int
<1> DEFINE T == {r \in FiniteSubsetsOf(s) : g[r] \notin Int}
<1>1. T = {} \/ \E r \in T : \A q \in T : q \subseteq r => q = r
  <2>1. T \in SUBSET FiniteSubsetsOf(s)
    OBVIOUS
  <2> HIDE DEF T
  <2> QED
    BY <2>1, Least, SMT
<1>2. ASSUME NEW r \in T, \A q \in T : q \subseteq r => q = r
      PROVE  FALSE
  <2>1. r \subseteq s /\ IsFiniteSet(r) /\ r \in SUBSET U
    BY DEF FiniteSubsetsOf
  <2>2. g[r] = IF r = {} THEN 0 ELSE w[First(r)] + g[r \ {First(r)}]
    BY <2>1 DEF IsSum
  <2>3. r # {} /\ First(r) \in r
    BY <2>2, FirstIn
  <2>4. r \ {First(r)} \in FiniteSubsetsOf(s) /\ r \ {First(r)} # r
    BY <2>1, <2>3, FS_RemoveElement DEF FiniteSubsetsOf
  <2>5. g[r \ {First(r)}] \in Int
    BY <1>2, <2>4
  <2> QED
    BY <2>1, <2>2, <2>3, <2>5
<1>3. s \in FiniteSubsetsOf(s)
  BY DEF FiniteSubsetsOf
<1> QED
  BY <1>1, <1>2, <1>3

\* Any element may be taken out first.
LEMMA SumWithout ==
    ASSUME NEW g, NEW w, NEW U, IsSum(g, w, U), \A x \in U : w[x] \in Int,
           NEW t \in SUBSET U, IsFiniteSet(t), NEW y \in t
    PROVE  g[t] = w[y] + g[t \ {y}]
<1> DEFINE T == {r \in FiniteSubsetsOf(t) : \E x \in r : g[r] # w[x] + g[r \ {x}]}
<1>1. T = {} \/ \E r \in T : \A q \in T : q \subseteq r => q = r
  <2>1. T \in SUBSET FiniteSubsetsOf(t)
    OBVIOUS
  <2> HIDE DEF T
  <2> QED
    BY <2>1, Least, SMT
<1>2. ASSUME NEW r \in T, \A q \in T : q \subseteq r => q = r
      PROVE  FALSE
  <2>1. r \subseteq t /\ IsFiniteSet(r) /\ r \in SUBSET U
    BY DEF FiniteSubsetsOf
  <2>2. PICK x \in r : g[r] # w[x] + g[r \ {x}]
    OBVIOUS
  <2> DEFINE f == First(r)
  <2>3. f \in r
    BY FirstIn
  <2> HIDE DEF f
  <2>4. g[r] = w[f] + g[r \ {f}]
    BY <2>1, <2>2 DEF IsSum, f
  <2>5. x # f
    BY <2>2, <2>4
  <2>6. /\ r \ {x} \in FiniteSubsetsOf(t) /\ r \ {x} # r
        /\ r \ {f} \in FiniteSubsetsOf(t) /\ r \ {f} # r
    BY <2>1, <2>3, FS_RemoveElement DEF FiniteSubsetsOf
  <2>a. ASSUME NEW q \in FiniteSubsetsOf(t), q \subseteq r, q # r, NEW z \in q
        PROVE  g[q] = w[z] + g[q \ {z}]
    BY <1>2, <2>a
  <2>7. g[r \ {f}] = w[x] + g[(r \ {f}) \ {x}]
    BY <2>5, <2>6, <2>a
  <2>8. g[r \ {x}] = w[f] + g[(r \ {x}) \ {f}]
    BY <2>3, <2>5, <2>6, <2>a
  <2>9. (r \ {f}) \ {x} = (r \ {x}) \ {f}
    OBVIOUS
  <2>10. g[(r \ {f}) \ {x}] \in Int
    <3>1. (r \ {f}) \ {x} \in SUBSET U /\ IsFiniteSet((r \ {f}) \ {x})
      BY <2>1, FS_RemoveElement
    <3> QED
      BY <3>1, SumIsInt
  <2>11. w[x] \in Int /\ w[f] \in Int
    BY <2>1, <2>3
  <2> DEFINE rest == g[(r \ {f}) \ {x}]
  <2>12. g[r] = w[f] + (w[x] + rest)
    BY <2>4, <2>7
  <2>13. g[r \ {x}] = w[f] + rest
    BY <2>8, <2>9
  <2> HIDE DEF rest
  <2>14. w[f] + (w[x] + rest) = w[x] + (w[f] + rest)
    BY <2>10, <2>11 DEF rest
  <2> QED
    BY <2>2, <2>12, <2>13, <2>14, Zenon
<1>3. t \in FiniteSubsetsOf(t)
  BY DEF FiniteSubsetsOf
<1> QED
  BY <1>1, <1>2, <1>3

\* What is added is added once.
LEMMA SumAdd ==
    ASSUME NEW g, NEW h, NEW w, NEW S, NEW y, IsFiniteSet(S), y \notin S,
           \A x \in S \union {y} : w[x] \in Int, IsSum(g, w, S), IsSum(h, w, S \union {y})
    PROVE  g[S] \in Int /\ h[S \union {y}] = g[S] + w[y]
<1>1. IsFiniteSet(S \union {y}) /\ (S \union {y}) \ {y} = S
  BY FS_AddElement
<1>2. h[S \union {y}] = w[y] + h[S]
  BY <1>1, SumWithout
<1>3. h[S] = g[S]
  BY SumUnique
<1>4. g[S] \in Int
  BY SumIsInt
<1> QED
  BY <1>2, <1>3, <1>4

\* The sum of w over a finite set.
Total(w, S) == (CHOOSE g : IsSum(g, w, S))[S]

\* It is what any such function says.
LEMMA TotalIs ==
    ASSUME NEW g, NEW w, NEW S, NEW T, IsFiniteSet(S), S \subseteq T, IsSum(g, w, T)
    PROVE  Total(w, S) = g[S]
<1>1. IsSum(CHOOSE h : IsSum(h, w, S), w, S)
  BY SumExists
<1> QED
  BY <1>1, SumUnique DEF Total

\* A sum over nothing is zero, a sum of integers is one, and what is added is added once.
LEMMA TotalOfNone == ASSUME NEW w PROVE Total(w, {}) = 0
<1>1. PICK g : IsSum(g, w, {})
  BY FS_EmptySet, SumExists
<1>2. g[{}] = 0
  BY <1>1 DEF IsSum
<1> QED
  BY <1>1, <1>2, FS_EmptySet, TotalIs

LEMMA TotalInt ==
    ASSUME NEW w, NEW S, IsFiniteSet(S), \A x \in S : w[x] \in Int
    PROVE  Total(w, S) \in Int
<1>1. PICK g : IsSum(g, w, S)
  BY SumExists
<1> QED
  BY <1>1, TotalIs, SumIsInt

LEMMA TotalAdded ==
    ASSUME NEW w, NEW S, NEW y, IsFiniteSet(S), y \notin S, \A x \in S \union {y} : w[x] \in Int
    PROVE  Total(w, S \union {y}) = Total(w, S) + w[y]
<1>1. IsFiniteSet(S \union {y})
  BY FS_AddElement
<1>2. PICK g : IsSum(g, w, S)
  BY SumExists
<1>3. PICK h : IsSum(h, w, S \union {y})
  BY <1>1, SumExists
<1> QED
  BY <1>1, <1>2, <1>3, TotalIs, SumAdd

\* The sum of net amounts, which MapThenSumSet computes, is such a sum.
NetSum(S) == MapThenSumSet(LAMBDA x : x.net, S)

LEMMA NetTotal ==
    ASSUME NEW S, IsFiniteSet(S), NEW w, \A x \in S : w[x] = x.net
    PROVE  NetSum(S) = Total(w, S)
<1> DEFINE P(g) == g = [s \in SUBSET S |->
               IF s = {} THEN 0
               ELSE (CHOOSE x \in s : TRUE).net + g[s \ {CHOOSE x \in s : TRUE}]]
<1>1. NetSum(S) = (CHOOSE g : P(g))[S]
  BY Zenon DEF NetSum, MapThenSumSet, MapThenFoldSet
<1>2. ASSUME NEW g
      PROVE  P(g) <=> IsSum(g, w, S)
  <2>1. \A s \in SUBSET S : s # {} => w[First(s)] = First(s).net
    BY FirstIn
  <2>2. [s \in SUBSET S |-> IF s = {} THEN 0 ELSE First(s).net + g[s \ {First(s)}]]
         = [s \in SUBSET S |-> IF s = {} THEN 0 ELSE w[First(s)] + g[s \ {First(s)}]]
    BY <2>1
  <2> QED
    BY <2>2, Zenon DEF IsSum, First
<1> HIDE DEF P
<1>3. \E g : P(g)
  BY <1>2, SumExists
<1>4. P(CHOOSE g : P(g))
  BY <1>3, Zenon
<1>5. IsSum(CHOOSE g : P(g), w, S)
  BY <1>2, <1>4
<1> QED
  BY <1>1, <1>5, TotalIs

\* The sum of gross amounts, which MapThenSumSet computes, is such a sum.
GrossSum(S) == MapThenSumSet(LAMBDA x : x.gross, S)

LEMMA GrossTotal ==
    ASSUME NEW S, IsFiniteSet(S), NEW w, \A x \in S : w[x] = x.gross
    PROVE  GrossSum(S) = Total(w, S)
<1> DEFINE P(g) == g = [s \in SUBSET S |->
               IF s = {} THEN 0
               ELSE (CHOOSE x \in s : TRUE).gross + g[s \ {CHOOSE x \in s : TRUE}]]
<1>1. GrossSum(S) = (CHOOSE g : P(g))[S]
  BY Zenon DEF GrossSum, MapThenSumSet, MapThenFoldSet
<1>2. ASSUME NEW g
      PROVE  P(g) <=> IsSum(g, w, S)
  <2>1. \A s \in SUBSET S : s # {} => w[First(s)] = First(s).gross
    BY FirstIn
  <2>2. [s \in SUBSET S |-> IF s = {} THEN 0 ELSE First(s).gross + g[s \ {First(s)}]]
         = [s \in SUBSET S |-> IF s = {} THEN 0 ELSE w[First(s)] + g[s \ {First(s)}]]
    BY <2>1
  <2> QED
    BY <2>2, Zenon DEF IsSum, First
<1> HIDE DEF P
<1>3. \E g : P(g)
  BY <1>2, SumExists
<1>4. P(CHOOSE g : P(g))
  BY <1>3, Zenon
<1>5. IsSum(CHOOSE g : P(g), w, S)
  BY <1>2, <1>4
<1> QED
  BY <1>1, <1>5, TotalIs

\* The sum of fees, which MapThenSumSet computes, is such a sum.
FeeSum(S) == MapThenSumSet(LAMBDA x : x.gross - x.net, S)

LEMMA FeeTotal ==
    ASSUME NEW S, IsFiniteSet(S), NEW w, \A x \in S : w[x] = x.gross - x.net
    PROVE  FeeSum(S) = Total(w, S)
<1> DEFINE P(g) == g = [s \in SUBSET S |->
               IF s = {} THEN 0
               ELSE ((CHOOSE x \in s : TRUE).gross - (CHOOSE x \in s : TRUE).net) + g[s \ {CHOOSE x \in s : TRUE}]]
<1>1. FeeSum(S) = (CHOOSE g : P(g))[S]
  BY Zenon DEF FeeSum, MapThenSumSet, MapThenFoldSet
<1>2. ASSUME NEW g
      PROVE  P(g) <=> IsSum(g, w, S)
  <2>1. \A s \in SUBSET S : s # {} => w[First(s)] = First(s).gross - First(s).net
    BY FirstIn
  <2>2. [s \in SUBSET S |-> IF s = {} THEN 0 ELSE (First(s).gross - First(s).net) + g[s \ {First(s)}]]
         = [s \in SUBSET S |-> IF s = {} THEN 0 ELSE w[First(s)] + g[s \ {First(s)}]]
    BY <2>1
  <2> QED
    BY <2>2, Zenon DEF IsSum, First
<1> HIDE DEF P
<1>3. \E g : P(g)
  BY <1>2, SumExists
<1>4. P(CHOOSE g : P(g))
  BY <1>3, Zenon
<1>5. IsSum(CHOOSE g : P(g), w, S)
  BY <1>2, <1>4
<1> QED
  BY <1>1, <1>5, TotalIs

\* The sum over the rows that a condition picks, when a row is entered that it may pick.
LEMMA Picked ==
    ASSUME NEW w, NEW S, NEW T, NEW y, IsFiniteSet(S), y \notin S,
           \A x \in T : w[x] \in Int, T \subseteq S \union {y}
    PROVE  /\ IsFiniteSet(T) /\ IsFiniteSet(T \ {y})
           /\ Total(w, T) \in Int
           /\ Total(w, T) = Total(w, T \ {y}) + (IF y \in T THEN w[y] ELSE 0)
<1>1. IsFiniteSet(T) /\ IsFiniteSet(T \ {y})
  BY FS_AddElement, FS_Subset
<1> DEFINE R == T \ {y}
<1>2. IsFiniteSet(R) /\ y \notin R /\ (\A x \in R : w[x] \in Int)
  BY <1>1
<1>3. /\ y \in T => T = R \union {y}
      /\ y \notin T => T = R
  OBVIOUS
<1>4. R = T \ {y}
  OBVIOUS
<1> HIDE DEF R
<1>5. Total(w, T) \in Int /\ Total(w, R) \in Int
  BY <1>1, <1>2, TotalInt
<1>6. CASE y \in T
  <2>1. Total(w, R \union {y}) = Total(w, R) + w[y]
    BY <1>2, <1>3, <1>6, TotalAdded
  <2> QED
    BY <1>1, <1>3, <1>4, <1>5, <1>6, <2>1
<1>7. CASE y \notin T
  <2>1. Total(w, T) = Total(w, R)
    BY <1>3, <1>7, Zenon
  <2>2. Total(w, T) = Total(w, R) + (IF y \in T THEN w[y] ELSE 0)
    BY <1>5, <1>7, <2>1
  <2> QED
    BY <1>1, <1>4, <1>5, <2>2, Zenon
<1> QED
  BY <1>6, <1>7

-----------------------------------------------------------------------------
(* The inductive invariant *)

USE EconomyAssumption, RelationsAssumption

\* A wallet row that an open tip has locked was not committed by others since its
\* snapshot.
LockedFresh ==
    \A r \in Tip : phase[r] = "open" =>
        \A w \in Wallet : walletLock[w] = r => w \notin staleWallets[r]

\* Only open tips have stale rows.
StaleOnlyOpen == \A r \in Tip : phase[r] # "open" => staleWallets[r] = {}

\* A tip committed after the snapshot of an open tip made its payer's row stale.
SnapshotMisses ==
    \A r \in Tip : phase[r] = "open" =>
        /\ snap[r].ledger \subseteq ledger
        /\ \A x \in TipRows(ledger) : x.from \notin staleWallets[r] => x \in snap[r].ledger

\* Nobody tips himself past the first checks.
NotSelf == \A r \in Tip : phase[r] \in {"ready", "open"} => Sender(r) # Recipient(r)

IInv == TypeOK /\ NotSelf /\ LockedFresh /\ StaleOnlyOpen /\ SnapshotMisses /\ OncePerKey

-----------------------------------------------------------------------------
(* Types *)

\* A tip request names users, whoever the target is.
LEMMA TipParties ==
    ASSUME tips \in [Tip -> TipRequest], NEW r \in Tip
    PROVE  /\ Sender(r) \in User /\ Recipient(r) \in User
           /\ UsersOf(r) \subseteq User /\ WalletsOf(r) \subseteq Wallet
           /\ ContentsOf(r) \subseteq Content
           /\ tips[r].amount \in Nat /\ tips[r].key \in Nat
BY DEF EconomyAssumption, TipRequest, Sender, Recipient, UsersOf, WalletsOf, ContentsOf, Wallet, NoContent

\* The recipient's share is a natural number no larger than the tip.
LEMMA ShareBound == \A gross \in Nat : RecipientShare(gross) \in Nat /\ RecipientShare(gross) <= gross
BY DEF RecipientShare

\* The outcome of the checks is one of the results.
LEMMA OutcomeType == \A r \in Tip : Outcome(r) \in Result /\ PrepareOutcome(r) \in Result
BY DEF Outcome, PrepareOutcome, Result

\* The relation requests keep the types of their variables.
LEMMA RelationTypes == RelTypeOK /\ RelNext => RelTypeOK'
<1> SUFFICES ASSUME RelTypeOK, NEW b \in Relation, RelBegin(b) \/ RelLock(b) \/ RelRead(b) \/ RelCommit(b)
             PROVE  RelTypeOK'
  BY DEF RelNext
<1> USE DEF RelTypeOK
<1>1. CASE RelBegin(b)
  BY <1>1 DEF RelBegin
<1>2. CASE RelLock(b)
  BY <1>2 DEF RelLock, LockUser
<1>3. CASE RelRead(b)
  <2> DEFINE may == /\ RelOf[b].op = "follow" => ~Blocked(blocks, RelOf[b].actor, RelOf[b].target)
                    /\ RelOf[b].op = "block" => RelOf[b].target \in active
  <2>1. may \in BOOLEAN
    BY Zenon
  <2>2. permitted' = [permitted EXCEPT ![b] = may]
    BY <1>3, Zenon DEF RelRead
  <2>3. permitted' \in [Relation -> BOOLEAN]
    BY <2>1, <2>2
  <2> QED
    BY <1>3, <2>3 DEF RelRead
<1>4. CASE RelCommit(b)
  <2>1. <<RelOf[b].actor, RelOf[b].target>> \in User \X User
    OBVIOUS
  <2> QED
    BY <1>4, <2>1 DEF RelCommit, ReleaseUsers
<1> QED
  BY <1>1, <1>2, <1>3, <1>4

\* Initially every variable has its type.
LEMMA InitType == Init => TypeOK
<1> SUFFICES ASSUME Init
             PROVE  TypeOK
  OBVIOUS
<1>1. RelTypeOK
  BY DEF Init, RelInit, RelTypeOK
<1>2. tips \in [Tip -> TipRequest]
  BY DEF Init
<1>3. phase \in [Tip \union Visit -> {"new", "ready", "open", "decided", "done"}]
  BY DEF Init
<1>4. RequestTypeOK
  BY <1>2, <1>3 DEF Init, RequestTypeOK, Result
<1>5. EmptySnapshot \in SnapshotType
  BY DEF EmptySnapshot, SnapshotType
<1>6. TransactionTypeOK
  BY <1>5 DEF Init, TransactionTypeOK
<1>7. MoneyTypeOK
  BY DEF Init, MoneyTypeOK, EconomyAssumption
<1>8. WorldTypeOK
  BY DEF Init, WorldTypeOK, EconomyAssumption
<1> QED
  BY <1>1, <1>4, <1>6, <1>7, <1>8 DEF TypeOK

\* Marking rows stale adds rows of the right kind to the sets of open tips.
LEMMA MarkType ==
    ASSUME NEW S, NEW stale \in [Tip -> SUBSET S], NEW t, NEW rows \in SUBSET S
    PROVE  MarkStale(stale, t, rows) \in [Tip -> SUBSET S]
BY DEF MarkStale

\* The bookkeeping of the requests keeps its types.
LEMMA NextRequestType == TypeOK /\ [Next]_vars => RequestTypeOK'
<1> SUFFICES ASSUME TypeOK, [Next]_vars
             PROVE  RequestTypeOK'
  OBVIOUS
<1> USE DEF TypeOK, RequestTypeOK, relVars, moneyVars, reqVars, txnVars, othersUnchanged
<1>1. ASSUME NEW r \in Tip, Prepare(r)
      PROVE  RequestTypeOK'
  <2>1. PrepareOutcome(r) \in Result
    BY OutcomeType
  <2>2. PrepareOutcome(r) = "replayed" => (CHOOSE x \in Earlier(ledger, r) : TRUE).by \in Tip
    BY DEF PrepareOutcome, Earlier, TipRows, MoneyTypeOK, LedgerRow
  <2>3. answer' \in [Tip -> Tip \union {NoRow}]
    BY <1>1, <2>2 DEF Prepare, Report
  <2> QED
    BY <1>1, <2>1, <2>3 DEF Prepare
<1>2. ASSUME NEW r \in Tip, Begin(r)
      PROVE  RequestTypeOK'
  BY <1>2 DEF Begin, Snapshot
<1>3. ASSUME NEW r \in Tip, TipLockUser(r)
      PROVE  RequestTypeOK'
  BY <1>3 DEF TipLockUser, LockUser
<1>4. ASSUME NEW r \in Tip, TipGone(r)
      PROVE  RequestTypeOK'
  BY <1>4 DEF TipGone, Finish, Result
<1>5. ASSUME NEW r \in Tip, TipLockWallet(r)
      PROVE  RequestTypeOK'
  BY <1>5 DEF TipLockWallet
<1>6. ASSUME NEW r \in Tip, SerializationFailure(r)
      PROVE  RequestTypeOK'
  BY <1>6 DEF SerializationFailure, Finish, Result
<1>7. ASSUME NEW r \in Tip, Refuse(r)
      PROVE  RequestTypeOK'
  <2>1. Outcome(r) \in Result
    BY OutcomeType
  <2>2. Outcome(r) = "replayed" => (CHOOSE x \in Earlier(snap[r].ledger, r) : TRUE).by \in Tip
    BY DEF Outcome, Earlier, TipRows, TransactionTypeOK, SnapshotType, LedgerRow
  <2>3. answer' \in [Tip -> Tip \union {NoRow}]
    BY <1>7, <2>2 DEF Refuse, Report
  <2> QED
    BY <1>7, <2>1, <2>3 DEF Refuse, Finish
<1>8. ASSUME NEW r \in Tip, Pay(r)
      PROVE  RequestTypeOK'
  BY <1>8 DEF Pay, Finish, Result
<1>9. ASSUME NEW v \in Visit, VisitBegin(v)
      PROVE  RequestTypeOK'
  BY <1>9 DEF VisitBegin, WorldTypeOK
<1>10. ASSUME NEW v \in Visit, VisitLock(v)
       PROVE  RequestTypeOK'
  BY <1>10 DEF VisitLock, LockUser
<1>11. ASSUME NEW v \in Visit, VisitRefuse(v)
       PROVE  RequestTypeOK'
  BY <1>11 DEF VisitRefuse, Finish, Result
<1>12. ASSUME NEW v \in Visit, VisitProceed(v)
       PROVE  RequestTypeOK'
  BY <1>12 DEF VisitProceed
<1>13. ASSUME NEW v \in Visit, VisitPay(v)
       PROVE  RequestTypeOK'
  BY <1>13 DEF VisitPay, Finish, Result
<1>14. CASE Relate
  BY <1>14 DEF Relate
<1>15. ASSUME NEW c \in Content, Close(c)
       PROVE  RequestTypeOK'
  BY <1>15 DEF Close, MarkStale, OpenTips
<1>16. ASSUME NEW c \in Content, NEW m \in SUBSET User, MakePrivate(c, m)
       PROVE  RequestTypeOK'
  BY <1>16 DEF MakePrivate
<1>17. ASSUME NEW u \in User, Leave(u)
       PROVE  RequestTypeOK'
  BY <1>17 DEF Leave, Deactivate, MarkStale, OpenTips
<1>18. CASE NextDay
  BY <1>18 DEF NextDay
<1>19. CASE UNCHANGED vars
  BY <1>19 DEF vars
<1> QED
  BY <1>1, <1>2, <1>3, <1>4, <1>5, <1>6, <1>7, <1>8, <1>9, <1>10,
     <1>11, <1>12, <1>13, <1>14, <1>15, <1>16, <1>17, <1>18, <1>19
     DEF Next, TipStep, VisitStep

\* Money and experience keep their types: no balance falls below zero.
LEMMA NextMoneyType == TypeOK /\ NotSelf /\ [Next]_vars => MoneyTypeOK'
<1> SUFFICES ASSUME TypeOK, NotSelf, [Next]_vars
             PROVE  MoneyTypeOK'
  OBVIOUS
<1> USE DEF TypeOK, MoneyTypeOK, relVars, moneyVars, reqVars, txnVars, othersUnchanged
<1>1. ASSUME NEW r \in Tip, Prepare(r)
      PROVE  MoneyTypeOK'
  BY <1>1 DEF Prepare, Report
<1>2. ASSUME NEW r \in Tip, Begin(r)
      PROVE  MoneyTypeOK'
  BY <1>2 DEF Begin, Snapshot
<1>3. ASSUME NEW r \in Tip, TipLockUser(r)
      PROVE  MoneyTypeOK'
  BY <1>3 DEF TipLockUser, LockUser
<1>4. ASSUME NEW r \in Tip, TipGone(r)
      PROVE  MoneyTypeOK'
  BY <1>4 DEF TipGone, EndTransaction, ForgetStale, Finish, ReleaseUsers
<1>5. ASSUME NEW r \in Tip, TipLockWallet(r)
      PROVE  MoneyTypeOK'
  BY <1>5 DEF TipLockWallet
<1>6. ASSUME NEW r \in Tip, SerializationFailure(r)
      PROVE  MoneyTypeOK'
  BY <1>6 DEF SerializationFailure, EndTransaction, ForgetStale, Finish, ReleaseUsers
<1>7. ASSUME NEW r \in Tip, Refuse(r)
      PROVE  MoneyTypeOK'
  BY <1>7 DEF Refuse, EndTransaction, ForgetStale, Finish, Report, ReleaseUsers
<1>8. ASSUME NEW r \in Tip, Pay(r)
      PROVE  MoneyTypeOK'
  <2>1. Sender(r) \in User /\ Recipient(r) \in User /\ ContentsOf(r) \subseteq Content
        /\ tips[r].amount \in Nat /\ tips[r].key \in Nat
    BY TipParties DEF RequestTypeOK
  <2>2. Sender(r) \in Wallet /\ Recipient(r) \in Wallet /\ Platform \in Wallet
    BY <2>1 DEF Wallet
  <2>3. RecipientShare(tips[r].amount) \in Nat /\ RecipientShare(tips[r].amount) <= tips[r].amount
    BY <2>1, ShareBound
  <2>4. balance[Sender(r)] >= tips[r].amount
    <3>1. Outcome(r) = "paid"
      BY <1>8 DEF Pay
    <3>2. ~(balance[Sender(r)] < tips[r].amount)
      BY <3>1 DEF Outcome
    <3> QED
      BY <2>1, <2>2, <3>2
  <2>5. Sender(r) # Recipient(r) /\ Sender(r) # Platform /\ Recipient(r) # Platform
    BY <1>8, <2>1 DEF Pay, NotSelf, EconomyAssumption
  <2>6. balance' \in [Wallet -> Nat]
    <3>1. balance' = Transfer(balance, Sender(r), Recipient(r), tips[r].amount)
      BY <1>8 DEF Pay
    <3> HIDE DEF MoneyTypeOK
    <3>2. balance \in [Wallet -> Nat]
      BY DEF MoneyTypeOK
    <3> QED
      BY <2>1, <2>2, <2>3, <2>4, <2>5, <3>1, <3>2 DEF Transfer
  <2>7. TipRow(r) \in LedgerRow
    <3>1. tips[r].content \in Content \union {NoContent}
      BY DEF RequestTypeOK, TipRequest
    <3> QED
      BY <2>1, <2>3, <3>1 DEF TipRow, LedgerRow
  <2>8. ledger' \subseteq LedgerRow
    BY <1>8, <2>7 DEF Pay
  <2>9. received' \in [Wallet -> Nat] /\ receivedCount' \in [Wallet -> Nat]
    BY <1>8, <2>1, <2>2 DEF Pay
  <2>10. tipTotal' \in [Content -> Nat] /\ tipEvents' \subseteq Tip
    BY <1>8, <2>1 DEF Pay
  <2> QED
    BY <1>8, <2>6, <2>8, <2>9, <2>10 DEF Pay
<1>9. ASSUME NEW v \in Visit, VisitBegin(v)
      PROVE  MoneyTypeOK'
  BY <1>9 DEF VisitBegin
<1>10. ASSUME NEW v \in Visit, VisitLock(v)
       PROVE  MoneyTypeOK'
  BY <1>10 DEF VisitLock, LockUser
<1>11. ASSUME NEW v \in Visit, VisitRefuse(v)
       PROVE  MoneyTypeOK'
  BY <1>11 DEF VisitRefuse, Finish, ReleaseUsers
<1>12. ASSUME NEW v \in Visit, VisitProceed(v)
       PROVE  MoneyTypeOK'
  BY <1>12 DEF VisitProceed
<1>13. ASSUME NEW v \in Visit, VisitPay(v)
       PROVE  MoneyTypeOK'
  <2>1. VisitorOf[v] \in User /\ VisitorOf[v] \in Wallet /\ day \in Nat /\ dayOf[v] \in Nat
    BY DEF EconomyAssumption, Wallet, WorldTypeOK, RequestTypeOK
  <2>2. PICK reward \in Rewards :
          /\ balance' = [balance EXCEPT ![VisitorOf[v]] = @ + reward]
          /\ ledger' = ledger \union {[type |-> "DAILY_CHECK_IN", by |-> v, to |-> VisitorOf[v],
                                       net |-> reward, day |-> dayOf[v]]}
    BY <1>13 DEF VisitPay
  <2>3. reward \in Nat
    BY DEF EconomyAssumption
  <2>4. [type |-> "DAILY_CHECK_IN", by |-> v, to |-> VisitorOf[v],
         net |-> reward, day |-> dayOf[v]] \in LedgerRow
    BY <2>1, <2>3 DEF LedgerRow
  <2>5. balance' \in [Wallet -> Nat] /\ ledger' \subseteq LedgerRow
    BY <2>1, <2>2, <2>3, <2>4
  <2>6. experience' \in [User -> Nat]
    <3>1. experience' = [experience EXCEPT ![VisitorOf[v]] =
              IF GrantDue(VisitorOf[v]) THEN experience[VisitorOf[v]] + CheckInExperience
                                        ELSE experience[VisitorOf[v]]]
      BY <1>13 DEF VisitPay
    <3>2. CheckInExperience \in Nat /\ experience[VisitorOf[v]] \in Nat
      BY <2>1 DEF EconomyAssumption
    <3>3. experience[VisitorOf[v]] + CheckInExperience \in Nat
      BY <3>2
    <3> QED
      BY <3>1, <3>2, <3>3
  <2>7. checkIns' \subseteq User \X Nat /\ activeDays' \subseteq User \X Nat
    BY <1>13, <2>1 DEF VisitPay
  <2> QED
    BY <1>13, <2>5, <2>6, <2>7 DEF VisitPay
<1>14. CASE Relate
  BY <1>14 DEF Relate
<1>15. ASSUME NEW c \in Content, Close(c)
       PROVE  MoneyTypeOK'
  BY <1>15 DEF Close, MarkStale, OpenTips
<1>16. ASSUME NEW c \in Content, NEW m \in SUBSET User, MakePrivate(c, m)
       PROVE  MoneyTypeOK'
  BY <1>16 DEF MakePrivate
<1>17. ASSUME NEW u \in User, Leave(u)
       PROVE  MoneyTypeOK'
  BY <1>17 DEF Leave, Deactivate, MarkStale, OpenTips
<1>18. CASE NextDay
  BY <1>18 DEF NextDay
<1>19. CASE UNCHANGED vars
  BY <1>19 DEF vars
<1> QED
  BY <1>1, <1>2, <1>3, <1>4, <1>5, <1>6, <1>7, <1>8, <1>9, <1>10,
     <1>11, <1>12, <1>13, <1>14, <1>15, <1>16, <1>17, <1>18, <1>19
     DEF Next, TipStep, VisitStep

\* A snapshot of the present has the type of a snapshot, and so has none.
LEMMA SnapshotsType == TypeOK => Snapshot \in SnapshotType /\ EmptySnapshot \in SnapshotType
BY DEF TypeOK, RelTypeOK, MoneyTypeOK, WorldTypeOK, Snapshot, EmptySnapshot, SnapshotType

\* The state of the open transactions keeps its types.
LEMMA NextTransactionType == TypeOK /\ [Next]_vars => TransactionTypeOK'
<1> SUFFICES ASSUME TypeOK, [Next]_vars
             PROVE  TransactionTypeOK'
  OBVIOUS
<1> USE DEF TypeOK, TransactionTypeOK, relVars, moneyVars, reqVars, txnVars, othersUnchanged
<1>1. ASSUME NEW r \in Tip, Prepare(r)
      PROVE  TransactionTypeOK'
  BY <1>1 DEF Prepare, Report
<1>2. ASSUME NEW r \in Tip, Begin(r)
      PROVE  TransactionTypeOK'
  <2>1. Snapshot \in SnapshotType
    BY SnapshotsType DEF TypeOK
  <2>2. snap' = [snap EXCEPT ![r] = Snapshot]
    BY <1>2 DEF Begin
  <2>3. snap' \in [Tip -> SnapshotType]
    BY <2>1, <2>2
  <2> QED
    BY <1>2, <2>3 DEF Begin
<1>3. ASSUME NEW r \in Tip, TipLockUser(r)
      PROVE  TransactionTypeOK'
  BY <1>3 DEF TipLockUser, LockUser
<1>4. ASSUME NEW r \in Tip, TipGone(r)
      PROVE  TransactionTypeOK'
  <2>1. EmptySnapshot \in SnapshotType
    BY SnapshotsType DEF TypeOK
  <2> QED
    BY <1>4, <2>1 DEF TipGone, EndTransaction, ForgetStale
<1>5. ASSUME NEW r \in Tip, TipLockWallet(r)
      PROVE  TransactionTypeOK'
  BY <1>5, r \in Holder DEF TipLockWallet, EconomyAssumption
<1>6. ASSUME NEW r \in Tip, SerializationFailure(r)
      PROVE  TransactionTypeOK'
  <2>1. EmptySnapshot \in SnapshotType
    BY SnapshotsType DEF TypeOK
  <2> QED
    BY <1>6, <2>1 DEF SerializationFailure, EndTransaction, ForgetStale
<1>7. ASSUME NEW r \in Tip, Refuse(r)
      PROVE  TransactionTypeOK'
  <2>1. EmptySnapshot \in SnapshotType
    BY SnapshotsType DEF TypeOK
  <2> QED
    BY <1>7, <2>1 DEF Refuse, EndTransaction, ForgetStale
<1>8. ASSUME NEW r \in Tip, Pay(r)
      PROVE  TransactionTypeOK'
  <2>1. EmptySnapshot \in SnapshotType
    BY SnapshotsType DEF TypeOK
  <2>2. UsersOf(r) \subseteq User /\ WalletsOf(r) \subseteq Wallet /\ ContentsOf(r) \subseteq Content
    BY TipParties DEF RequestTypeOK
  <2>3. staleUsers' \in [Tip -> SUBSET User]
    BY <1>8, MarkType DEF Pay
  <2>4. staleWallets' \in [Tip -> SUBSET Wallet]
    BY <1>8, <2>2, MarkType DEF Pay
  <2>5. staleContent' \in [Tip -> SUBSET Content]
    BY <1>8, <2>2, MarkType DEF Pay
  <2> QED
    BY <1>8, <2>1, <2>3, <2>4, <2>5 DEF Pay, EndTransaction
<1>9. ASSUME NEW v \in Visit, VisitBegin(v)
      PROVE  TransactionTypeOK'
  BY <1>9 DEF VisitBegin
<1>10. ASSUME NEW v \in Visit, VisitLock(v)
       PROVE  TransactionTypeOK'
  BY <1>10 DEF VisitLock, LockUser
<1>11. ASSUME NEW v \in Visit, VisitRefuse(v)
       PROVE  TransactionTypeOK'
  BY <1>11 DEF VisitRefuse, Finish, ReleaseUsers
<1>12. ASSUME NEW v \in Visit, VisitProceed(v)
       PROVE  TransactionTypeOK'
  BY <1>12 DEF VisitProceed
<1>13. ASSUME NEW v \in Visit, VisitPay(v)
       PROVE  TransactionTypeOK'
  <2>1. VisitorOf[v] \in User /\ {VisitorOf[v]} \subseteq Wallet
    BY DEF EconomyAssumption, Wallet
  <2>2. staleUsers' \in [Tip -> SUBSET User]
    <3>1. (IF GrantDue(VisitorOf[v]) THEN {VisitorOf[v]} ELSE {}) \subseteq User
      BY <2>1
    <3> QED
      BY <1>13, <3>1, MarkType DEF VisitPay
  <2>3. staleWallets' \in [Tip -> SUBSET Wallet]
    BY <1>13, <2>1, MarkType DEF VisitPay
  <2> QED
    BY <1>13, <2>2, <2>3 DEF VisitPay
<1>14. CASE Relate
  BY <1>14 DEF Relate
<1>15. ASSUME NEW c \in Content, Close(c)
       PROVE  TransactionTypeOK'
  <2>1. staleContent' \in [Tip -> SUBSET Content]
    BY <1>15, {c} \subseteq Content, MarkType DEF Close
  <2> QED
    BY <1>15, <2>1 DEF Close
<1>16. ASSUME NEW c \in Content, NEW m \in SUBSET User, MakePrivate(c, m)
       PROVE  TransactionTypeOK'
  <2>1. staleContent' \in [Tip -> SUBSET Content]
    BY <1>16, {c} \subseteq Content, MarkType DEF MakePrivate
  <2> QED
    BY <1>16, <2>1 DEF MakePrivate
<1>17. ASSUME NEW u \in User, Leave(u)
       PROVE  TransactionTypeOK'
  <2>1. staleUsers' \in [Tip -> SUBSET User]
    BY <1>17, {u} \subseteq User, MarkType DEF Leave
  <2> QED
    BY <1>17, <2>1 DEF Leave
<1>18. CASE NextDay
  BY <1>18 DEF NextDay
<1>19. CASE UNCHANGED vars
  BY <1>19 DEF vars
<1> QED
  BY <1>1, <1>2, <1>3, <1>4, <1>5, <1>6, <1>7, <1>8, <1>9, <1>10,
     <1>11, <1>12, <1>13, <1>14, <1>15, <1>16, <1>17, <1>18, <1>19
     DEF Next, TipStep, VisitStep

\* Contents, audiences and the clock keep their types.
LEMMA NextWorldType == TypeOK /\ [Next]_vars => WorldTypeOK'
<1> SUFFICES ASSUME TypeOK, [Next]_vars
             PROVE  WorldTypeOK'
  OBVIOUS
<1> USE DEF TypeOK, WorldTypeOK, relVars, moneyVars, reqVars, txnVars, othersUnchanged
<1>1. ASSUME NEW r \in Tip, Prepare(r)
      PROVE  WorldTypeOK'
  BY <1>1 DEF Prepare, Report
<1>2. ASSUME NEW r \in Tip, Begin(r)
      PROVE  WorldTypeOK'
  BY <1>2 DEF Begin, Snapshot
<1>3. ASSUME NEW r \in Tip, TipLockUser(r)
      PROVE  WorldTypeOK'
  BY <1>3 DEF TipLockUser, LockUser
<1>4. ASSUME NEW r \in Tip, TipGone(r)
      PROVE  WorldTypeOK'
  BY <1>4 DEF TipGone, EndTransaction, ForgetStale, Finish, ReleaseUsers
<1>5. ASSUME NEW r \in Tip, TipLockWallet(r)
      PROVE  WorldTypeOK'
  BY <1>5 DEF TipLockWallet
<1>6. ASSUME NEW r \in Tip, SerializationFailure(r)
      PROVE  WorldTypeOK'
  BY <1>6 DEF SerializationFailure, EndTransaction, ForgetStale, Finish, ReleaseUsers
<1>7. ASSUME NEW r \in Tip, Refuse(r)
      PROVE  WorldTypeOK'
  BY <1>7 DEF Refuse, EndTransaction, ForgetStale, Finish, Report, ReleaseUsers
<1>8. ASSUME NEW r \in Tip, Pay(r)
      PROVE  WorldTypeOK'
  BY <1>8 DEF Pay, EndTransaction, Finish, ReleaseUsers, MarkStale, OpenTips
<1>9. ASSUME NEW v \in Visit, VisitBegin(v)
      PROVE  WorldTypeOK'
  BY <1>9 DEF VisitBegin
<1>10. ASSUME NEW v \in Visit, VisitLock(v)
       PROVE  WorldTypeOK'
  BY <1>10 DEF VisitLock, LockUser
<1>11. ASSUME NEW v \in Visit, VisitRefuse(v)
       PROVE  WorldTypeOK'
  BY <1>11 DEF VisitRefuse, Finish, ReleaseUsers
<1>12. ASSUME NEW v \in Visit, VisitProceed(v)
       PROVE  WorldTypeOK'
  BY <1>12 DEF VisitProceed
<1>13. ASSUME NEW v \in Visit, VisitPay(v)
       PROVE  WorldTypeOK'
  BY <1>13 DEF VisitPay, Finish, ReleaseUsers, MarkStale, OpenTips
<1>14. CASE Relate
  BY <1>14 DEF Relate
<1>15. ASSUME NEW c \in Content, Close(c)
       PROVE  WorldTypeOK'
  BY <1>15 DEF Close, MarkStale, OpenTips
<1>16. ASSUME NEW c \in Content, NEW m \in SUBSET User, MakePrivate(c, m)
       PROVE  WorldTypeOK'
  BY <1>16 DEF MakePrivate
<1>17. ASSUME NEW u \in User, Leave(u)
       PROVE  WorldTypeOK'
  BY <1>17 DEF Leave, Deactivate, MarkStale, OpenTips
<1>18. CASE NextDay
  BY <1>18 DEF NextDay
<1>19. CASE UNCHANGED vars
  BY <1>19 DEF vars
<1> QED
  BY <1>1, <1>2, <1>3, <1>4, <1>5, <1>6, <1>7, <1>8, <1>9, <1>10,
     <1>11, <1>12, <1>13, <1>14, <1>15, <1>16, <1>17, <1>18, <1>19
     DEF Next, TipStep, VisitStep

\* The relations and the user locks keep their types.
LEMMA NextRelTypeOK == TypeOK /\ [Next]_vars => RelTypeOK'
<1> SUFFICES ASSUME TypeOK, [Next]_vars
             PROVE  RelTypeOK'
  OBVIOUS
<1> USE DEF TypeOK, RelTypeOK, relVars, moneyVars, reqVars, txnVars, othersUnchanged
<1>1. ASSUME NEW r \in Tip, Prepare(r)
      PROVE  RelTypeOK'
  BY <1>1 DEF Prepare, Report
<1>2. ASSUME NEW r \in Tip, Begin(r)
      PROVE  RelTypeOK'
  BY <1>2 DEF Begin, Snapshot
<1>3. ASSUME NEW r \in Tip, TipLockUser(r)
      PROVE  RelTypeOK'
  <2>1. r \in Holder
    BY DEF EconomyAssumption
  <2>2. PICK u \in UsersOf(r) \ staleUsers[r] : LockUser(r, UsersOf(r), u)
    BY <1>3 DEF TipLockUser
  <2>3. userLock' = [userLock EXCEPT ![u] = r]
    BY <2>2 DEF LockUser
  <2> QED
    BY <1>3, <2>1, <2>3 DEF TipLockUser
<1>4. ASSUME NEW r \in Tip, TipGone(r)
      PROVE  RelTypeOK'
  BY <1>4 DEF TipGone, EndTransaction, ForgetStale, Finish, ReleaseUsers
<1>5. ASSUME NEW r \in Tip, TipLockWallet(r)
      PROVE  RelTypeOK'
  BY <1>5 DEF TipLockWallet
<1>6. ASSUME NEW r \in Tip, SerializationFailure(r)
      PROVE  RelTypeOK'
  BY <1>6 DEF SerializationFailure, EndTransaction, ForgetStale, Finish, ReleaseUsers
<1>7. ASSUME NEW r \in Tip, Refuse(r)
      PROVE  RelTypeOK'
  BY <1>7 DEF Refuse, EndTransaction, ForgetStale, Finish, Report, ReleaseUsers
<1>8. ASSUME NEW r \in Tip, Pay(r)
      PROVE  RelTypeOK'
  BY <1>8 DEF Pay, EndTransaction, Finish, ReleaseUsers, MarkStale, OpenTips
<1>9. ASSUME NEW v \in Visit, VisitBegin(v)
      PROVE  RelTypeOK'
  BY <1>9 DEF VisitBegin
<1>10. ASSUME NEW v \in Visit, VisitLock(v)
       PROVE  RelTypeOK'
  <2>1. v \in Holder
    BY DEF EconomyAssumption
  <2> QED
    BY <1>10, <2>1 DEF VisitLock, LockUser
<1>11. ASSUME NEW v \in Visit, VisitRefuse(v)
       PROVE  RelTypeOK'
  BY <1>11 DEF VisitRefuse, Finish, ReleaseUsers
<1>12. ASSUME NEW v \in Visit, VisitProceed(v)
       PROVE  RelTypeOK'
  BY <1>12 DEF VisitProceed
<1>13. ASSUME NEW v \in Visit, VisitPay(v)
       PROVE  RelTypeOK'
  BY <1>13 DEF VisitPay, Finish, ReleaseUsers, MarkStale, OpenTips
<1>14. CASE Relate
  BY <1>14, RelationTypes DEF Relate
<1>15. ASSUME NEW c \in Content, Close(c)
       PROVE  RelTypeOK'
  BY <1>15 DEF Close, MarkStale, OpenTips
<1>16. ASSUME NEW c \in Content, NEW m \in SUBSET User, MakePrivate(c, m)
       PROVE  RelTypeOK'
  BY <1>16 DEF MakePrivate
<1>17. ASSUME NEW u \in User, Leave(u)
       PROVE  RelTypeOK'
  BY <1>17 DEF Leave, Deactivate
<1>18. CASE NextDay
  BY <1>18 DEF NextDay
<1>19. CASE UNCHANGED vars
  BY <1>19 DEF vars
<1> QED
  BY <1>1, <1>2, <1>3, <1>4, <1>5, <1>6, <1>7, <1>8, <1>9, <1>10,
     <1>11, <1>12, <1>13, <1>14, <1>15, <1>16, <1>17, <1>18, <1>19
     DEF Next, TipStep, VisitStep

\* Every step keeps every type.
LEMMA NextType == TypeOK /\ NotSelf /\ [Next]_vars => TypeOK'
BY NextRequestType, NextMoneyType, NextTransactionType, NextWorldType, NextRelTypeOK DEF TypeOK

-----------------------------------------------------------------------------
(* The invariant *)

\* No step lets a request past the first checks that tips its own sender.
LEMMA NextNotSelf == TypeOK /\ NotSelf /\ [Next]_vars => NotSelf'
<1> SUFFICES ASSUME TypeOK, NotSelf, [Next]_vars
             PROVE  NotSelf'
  OBVIOUS
<1> USE DEF TypeOK, RequestTypeOK, NotSelf, Sender, Recipient, relVars, moneyVars, reqVars, txnVars, othersUnchanged
<1>1. ASSUME NEW r \in Tip, Prepare(r)
      PROVE  NotSelf'
  <2>1. PrepareOutcome(r) = "none" => Sender(r) # Recipient(r)
    BY DEF PrepareOutcome
  <2> QED
    BY <1>1, <2>1 DEF Prepare
<1>2. ASSUME NEW r \in Tip, Begin(r)
      PROVE  NotSelf'
  BY <1>2 DEF Begin, Snapshot
<1>3. ASSUME NEW r \in Tip, TipLockUser(r)
      PROVE  NotSelf'
  BY <1>3 DEF TipLockUser, LockUser
<1>4. ASSUME NEW r \in Tip, TipGone(r)
      PROVE  NotSelf'
  BY <1>4 DEF TipGone, EndTransaction, ForgetStale, Finish, ReleaseUsers
<1>5. ASSUME NEW r \in Tip, TipLockWallet(r)
      PROVE  NotSelf'
  BY <1>5 DEF TipLockWallet
<1>6. ASSUME NEW r \in Tip, SerializationFailure(r)
      PROVE  NotSelf'
  BY <1>6 DEF SerializationFailure, EndTransaction, ForgetStale, Finish, ReleaseUsers
<1>7. ASSUME NEW r \in Tip, Refuse(r)
      PROVE  NotSelf'
  BY <1>7 DEF Refuse, EndTransaction, ForgetStale, Finish, Report, ReleaseUsers
<1>8. ASSUME NEW r \in Tip, Pay(r)
      PROVE  NotSelf'
  BY <1>8 DEF Pay, EndTransaction, Finish, ReleaseUsers, MarkStale, OpenTips
<1>9. ASSUME NEW v \in Visit, VisitBegin(v)
      PROVE  NotSelf'
  BY <1>9 DEF VisitBegin
<1>10. ASSUME NEW v \in Visit, VisitLock(v)
       PROVE  NotSelf'
  BY <1>10 DEF VisitLock, LockUser
<1>11. ASSUME NEW v \in Visit, VisitRefuse(v)
       PROVE  NotSelf'
  BY <1>11 DEF VisitRefuse, Finish, ReleaseUsers
<1>12. ASSUME NEW v \in Visit, VisitProceed(v)
       PROVE  NotSelf'
  BY <1>12 DEF VisitProceed
<1>13. ASSUME NEW v \in Visit, VisitPay(v)
       PROVE  NotSelf'
  BY <1>13 DEF VisitPay, Finish, ReleaseUsers, MarkStale, OpenTips
<1>14. CASE Relate
  BY <1>14 DEF Relate
<1>15. ASSUME NEW c \in Content, Close(c)
       PROVE  NotSelf'
  BY <1>15 DEF Close, MarkStale, OpenTips
<1>16. ASSUME NEW c \in Content, NEW m \in SUBSET User, MakePrivate(c, m)
       PROVE  NotSelf'
  BY <1>16 DEF MakePrivate
<1>17. ASSUME NEW u \in User, Leave(u)
       PROVE  NotSelf'
  BY <1>17 DEF Leave, Deactivate, MarkStale, OpenTips
<1>18. CASE NextDay
  BY <1>18 DEF NextDay
<1>19. CASE UNCHANGED vars
  BY <1>19 DEF vars
<1> QED
  BY <1>1, <1>2, <1>3, <1>4, <1>5, <1>6, <1>7, <1>8, <1>9, <1>10,
     <1>11, <1>12, <1>13, <1>14, <1>15, <1>16, <1>17, <1>18, <1>19
     DEF Next, TipStep, VisitStep

\* A transaction's stale rows are forgotten when it ends.
LEMMA NextStaleOnlyOpen == TypeOK /\ StaleOnlyOpen /\ [Next]_vars => StaleOnlyOpen'
<1> SUFFICES ASSUME TypeOK, StaleOnlyOpen, [Next]_vars
             PROVE  StaleOnlyOpen'
  OBVIOUS
<1> USE DEF TypeOK, RequestTypeOK, TransactionTypeOK, StaleOnlyOpen, relVars, moneyVars, reqVars, txnVars, othersUnchanged
<1>1. ASSUME NEW r \in Tip, Prepare(r)
      PROVE  StaleOnlyOpen'
  BY <1>1 DEF Prepare, Report
<1>2. ASSUME NEW r \in Tip, Begin(r)
      PROVE  StaleOnlyOpen'
  BY <1>2 DEF Begin, Snapshot
<1>3. ASSUME NEW r \in Tip, TipLockUser(r)
      PROVE  StaleOnlyOpen'
  BY <1>3 DEF TipLockUser, LockUser
<1>4. ASSUME NEW r \in Tip, TipGone(r)
      PROVE  StaleOnlyOpen'
  BY <1>4 DEF TipGone, EndTransaction, ForgetStale, Finish, ReleaseUsers
<1>5. ASSUME NEW r \in Tip, TipLockWallet(r)
      PROVE  StaleOnlyOpen'
  BY <1>5 DEF TipLockWallet
<1>6. ASSUME NEW r \in Tip, SerializationFailure(r)
      PROVE  StaleOnlyOpen'
  BY <1>6 DEF SerializationFailure, EndTransaction, ForgetStale, Finish, ReleaseUsers
<1>7. ASSUME NEW r \in Tip, Refuse(r)
      PROVE  StaleOnlyOpen'
  BY <1>7 DEF Refuse, EndTransaction, ForgetStale, Finish, Report, ReleaseUsers
<1>8. ASSUME NEW r \in Tip, Pay(r)
      PROVE  StaleOnlyOpen'
  BY <1>8 DEF Pay, EndTransaction, Finish, ReleaseUsers, MarkStale, OpenTips
<1>9. ASSUME NEW v \in Visit, VisitBegin(v)
      PROVE  StaleOnlyOpen'
  BY <1>9 DEF VisitBegin
<1>10. ASSUME NEW v \in Visit, VisitLock(v)
       PROVE  StaleOnlyOpen'
  BY <1>10 DEF VisitLock, LockUser
<1>11. ASSUME NEW v \in Visit, VisitRefuse(v)
       PROVE  StaleOnlyOpen'
  BY <1>11 DEF VisitRefuse, Finish, ReleaseUsers
<1>12. ASSUME NEW v \in Visit, VisitProceed(v)
       PROVE  StaleOnlyOpen'
  BY <1>12 DEF VisitProceed
<1>13. ASSUME NEW v \in Visit, VisitPay(v)
       PROVE  StaleOnlyOpen'
  BY <1>13 DEF VisitPay, Finish, ReleaseUsers, MarkStale, OpenTips
<1>14. CASE Relate
  BY <1>14 DEF Relate
<1>15. ASSUME NEW c \in Content, Close(c)
       PROVE  StaleOnlyOpen'
  BY <1>15 DEF Close, MarkStale, OpenTips
<1>16. ASSUME NEW c \in Content, NEW m \in SUBSET User, MakePrivate(c, m)
       PROVE  StaleOnlyOpen'
  BY <1>16 DEF MakePrivate
<1>17. ASSUME NEW u \in User, Leave(u)
       PROVE  StaleOnlyOpen'
  BY <1>17 DEF Leave, Deactivate, MarkStale, OpenTips
<1>18. CASE NextDay
  BY <1>18 DEF NextDay
<1>19. CASE UNCHANGED vars
  BY <1>19 DEF vars
<1> QED
  BY <1>1, <1>2, <1>3, <1>4, <1>5, <1>6, <1>7, <1>8, <1>9, <1>10,
     <1>11, <1>12, <1>13, <1>14, <1>15, <1>16, <1>17, <1>18, <1>19
     DEF Next, TipStep, VisitStep

\* Whoever commits a wallet row holds it or finds it free, so no other tip holds it.
LEMMA NextLockedFresh == TypeOK /\ StaleOnlyOpen /\ LockedFresh /\ [Next]_vars => LockedFresh'
<1> SUFFICES ASSUME TypeOK, StaleOnlyOpen, LockedFresh, [Next]_vars
             PROVE  LockedFresh'
  OBVIOUS
<1> USE DEF TypeOK, RequestTypeOK, TransactionTypeOK, LockedFresh, relVars, moneyVars, reqVars, txnVars, othersUnchanged
<1>1. ASSUME NEW r \in Tip, Prepare(r)
      PROVE  LockedFresh'
  BY <1>1 DEF Prepare, Report
<1>2. ASSUME NEW r \in Tip, Begin(r)
      PROVE  LockedFresh'
  BY <1>2 DEF Begin, StaleOnlyOpen
<1>3. ASSUME NEW r \in Tip, TipLockUser(r)
      PROVE  LockedFresh'
  BY <1>3 DEF TipLockUser, LockUser
<1>4. ASSUME NEW r \in Tip, TipGone(r)
      PROVE  LockedFresh'
  BY <1>4 DEF TipGone, EndTransaction, ForgetStale, Finish, ReleaseUsers
<1>5. ASSUME NEW r \in Tip, TipLockWallet(r)
      PROVE  LockedFresh'
  BY <1>5 DEF TipLockWallet
<1>6. ASSUME NEW r \in Tip, SerializationFailure(r)
      PROVE  LockedFresh'
  BY <1>6 DEF SerializationFailure, EndTransaction, ForgetStale, Finish, ReleaseUsers
<1>7. ASSUME NEW r \in Tip, Refuse(r)
      PROVE  LockedFresh'
  BY <1>7 DEF Refuse, EndTransaction, ForgetStale, Finish, Report, ReleaseUsers
<1>8. ASSUME NEW r \in Tip, Pay(r)
      PROVE  LockedFresh'
  <2>1. \A w \in WalletsOf(r) : walletLock[w] = r
    BY <1>8 DEF Pay, HoldsEverything, HoldsAll
  <2>2. \A q \in Tip : phase'[q] = "open" => q # r /\ phase[q] = "open"
    BY <1>8 DEF Pay, Finish
  <2>3. \A q \in Tip \ {r} : staleWallets'[q] \subseteq staleWallets[q] \union WalletsOf(r)
    BY <1>8 DEF Pay, MarkStale
  <2>4. \A q \in Tip \ {r}, w \in Wallet : walletLock'[w] = q => walletLock[w] = q
    BY <1>8 DEF Pay, EndTransaction, EconomyAssumption, RelationsAssumption
  <2> QED
    BY <2>1, <2>2, <2>3, <2>4
<1>9. ASSUME NEW v \in Visit, VisitBegin(v)
      PROVE  LockedFresh'
  BY <1>9 DEF VisitBegin
<1>10. ASSUME NEW v \in Visit, VisitLock(v)
       PROVE  LockedFresh'
  BY <1>10 DEF VisitLock, LockUser
<1>11. ASSUME NEW v \in Visit, VisitRefuse(v)
       PROVE  LockedFresh'
  BY <1>11 DEF VisitRefuse, Finish, ReleaseUsers
<1>12. ASSUME NEW v \in Visit, VisitProceed(v)
       PROVE  LockedFresh'
  BY <1>12 DEF VisitProceed
<1>13. ASSUME NEW v \in Visit, VisitPay(v)
       PROVE  LockedFresh'
  <2>1. walletLock[VisitorOf[v]] = NoTxn /\ NoTxn \notin Tip
    BY <1>13 DEF VisitPay, EconomyAssumption, RelationsAssumption
  <2>2. \A q \in Tip : phase'[q] = "open" => phase[q] = "open"
    BY <1>13 DEF VisitPay, Finish
  <2>3. \A q \in Tip : staleWallets'[q] \subseteq staleWallets[q] \union {VisitorOf[v]}
    BY <1>13 DEF VisitPay, MarkStale
  <2>4. walletLock' = walletLock
    BY <1>13 DEF VisitPay
  <2> QED
    BY <2>1, <2>2, <2>3, <2>4
<1>14. CASE Relate
  BY <1>14 DEF Relate
<1>15. ASSUME NEW c \in Content, Close(c)
       PROVE  LockedFresh'
  BY <1>15 DEF Close, MarkStale, OpenTips
<1>16. ASSUME NEW c \in Content, NEW m \in SUBSET User, MakePrivate(c, m)
       PROVE  LockedFresh'
  BY <1>16 DEF MakePrivate
<1>17. ASSUME NEW u \in User, Leave(u)
       PROVE  LockedFresh'
  BY <1>17 DEF Leave, Deactivate, MarkStale, OpenTips
<1>18. CASE NextDay
  BY <1>18 DEF NextDay
<1>19. CASE UNCHANGED vars
  BY <1>19 DEF vars
<1> QED
  BY <1>1, <1>2, <1>3, <1>4, <1>5, <1>6, <1>7, <1>8, <1>9, <1>10,
     <1>11, <1>12, <1>13, <1>14, <1>15, <1>16, <1>17, <1>18, <1>19
     DEF Next, TipStep, VisitStep

\* Every tip committed after a snapshot makes its payer's row stale in it.
LEMMA NextSnapshotMisses == TypeOK /\ SnapshotMisses /\ [Next]_vars => SnapshotMisses'
<1> SUFFICES ASSUME TypeOK, SnapshotMisses, [Next]_vars
             PROVE  SnapshotMisses'
  OBVIOUS
<1> USE DEF TypeOK, RequestTypeOK, TransactionTypeOK, SnapshotMisses, relVars, moneyVars, reqVars, txnVars, othersUnchanged
<1>1. ASSUME NEW r \in Tip, Prepare(r)
      PROVE  SnapshotMisses'
  BY <1>1 DEF Prepare, Report
<1>2. ASSUME NEW r \in Tip, Begin(r)
      PROVE  SnapshotMisses'
  <2>1. snap' = [snap EXCEPT ![r] = Snapshot] /\ phase' = [phase EXCEPT ![r] = "open"]
        /\ UNCHANGED <<ledger, staleWallets>>
    BY <1>2 DEF Begin
  <2>2. Snapshot.ledger = ledger
    BY DEF Snapshot
  <2> QED
    BY <2>1, <2>2 DEF TipRows
<1>3. ASSUME NEW r \in Tip, TipLockUser(r)
      PROVE  SnapshotMisses'
  BY <1>3 DEF TipLockUser, LockUser
<1>4. ASSUME NEW r \in Tip, TipGone(r)
      PROVE  SnapshotMisses'
  BY <1>4 DEF TipGone, EndTransaction, ForgetStale, Finish, ReleaseUsers
<1>5. ASSUME NEW r \in Tip, TipLockWallet(r)
      PROVE  SnapshotMisses'
  BY <1>5 DEF TipLockWallet
<1>6. ASSUME NEW r \in Tip, SerializationFailure(r)
      PROVE  SnapshotMisses'
  BY <1>6 DEF SerializationFailure, EndTransaction, ForgetStale, Finish, ReleaseUsers
<1>7. ASSUME NEW r \in Tip, Refuse(r)
      PROVE  SnapshotMisses'
  BY <1>7 DEF Refuse, EndTransaction, ForgetStale, Finish, Report, ReleaseUsers
<1>8. ASSUME NEW r \in Tip, Pay(r)
      PROVE  SnapshotMisses'
  <2>1. \A q \in Tip : phase'[q] = "open" => q # r /\ phase[q] = "open"
    BY <1>8 DEF Pay, Finish
  <2>2. \A q \in Tip \ {r} : snap'[q] = snap[q]
    BY <1>8 DEF Pay, EndTransaction
  <2>3. ledger' = ledger \union {TipRow(r)}
    BY <1>8 DEF Pay
  <2>4. TipRow(r).from \in WalletsOf(r)
    BY DEF TipRow, WalletsOf
  <2>5. \A q \in Tip \ {r} : phase[q] = "open" =>
           staleWallets'[q] = staleWallets[q] \union WalletsOf(r)
    BY <1>8 DEF Pay, MarkStale, OpenTips
  <2> QED
    BY <2>1, <2>2, <2>3, <2>4, <2>5 DEF TipRows
<1>9. ASSUME NEW v \in Visit, VisitBegin(v)
      PROVE  SnapshotMisses'
  BY <1>9 DEF VisitBegin
<1>10. ASSUME NEW v \in Visit, VisitLock(v)
       PROVE  SnapshotMisses'
  BY <1>10 DEF VisitLock, LockUser
<1>11. ASSUME NEW v \in Visit, VisitRefuse(v)
       PROVE  SnapshotMisses'
  BY <1>11 DEF VisitRefuse, Finish, ReleaseUsers
<1>12. ASSUME NEW v \in Visit, VisitProceed(v)
       PROVE  SnapshotMisses'
  BY <1>12 DEF VisitProceed
<1>13. ASSUME NEW v \in Visit, VisitPay(v)
       PROVE  SnapshotMisses'
  <2>1. PICK reward \in Rewards :
          ledger' = ledger \union {[type |-> "DAILY_CHECK_IN", by |-> v, to |-> VisitorOf[v],
                                    net |-> reward, day |-> dayOf[v]]}
    BY <1>13 DEF VisitPay
  <2>2. TipRows(ledger') = TipRows(ledger)
    BY <2>1 DEF TipRows
  <2>3. \A q \in Tip : phase'[q] = "open" => phase[q] = "open"
    BY <1>13 DEF VisitPay, Finish
  <2>4. \A q \in Tip : staleWallets[q] \subseteq staleWallets'[q] \/ phase[q] # "open"
    BY <1>13 DEF VisitPay, MarkStale, OpenTips, EconomyAssumption
  <2>5. UNCHANGED snap
    BY <1>13 DEF VisitPay
  <2>6. ledger \subseteq ledger'
    BY <2>1
  <2>7. TipRows(ledger)' = TipRows(ledger)
    BY <2>2 DEF TipRows
  <2> QED
    BY <2>3, <2>4, <2>5, <2>6, <2>7
<1>14. CASE Relate
  BY <1>14 DEF Relate
<1>15. ASSUME NEW c \in Content, Close(c)
       PROVE  SnapshotMisses'
  BY <1>15, TipRows(ledger)' = TipRows(ledger) DEF Close, MarkStale, OpenTips
<1>16. ASSUME NEW c \in Content, NEW m \in SUBSET User, MakePrivate(c, m)
       PROVE  SnapshotMisses'
  BY <1>16 DEF MakePrivate
<1>17. ASSUME NEW u \in User, Leave(u)
       PROVE  SnapshotMisses'
  BY <1>17, TipRows(ledger)' = TipRows(ledger) DEF Leave, Deactivate, MarkStale, OpenTips
<1>18. CASE NextDay
  BY <1>18 DEF NextDay
<1>19. CASE UNCHANGED vars
  BY <1>19 DEF vars
<1> QED
  BY <1>1, <1>2, <1>3, <1>4, <1>5, <1>6, <1>7, <1>8, <1>9, <1>10,
     <1>11, <1>12, <1>13, <1>14, <1>15, <1>16, <1>17, <1>18, <1>19
     DEF Next, TipStep, VisitStep

\* What a tip that holds its wallets finds under its key is what the ledger has.
LEMMA LookupCurrent ==
    ASSUME TypeOK, LockedFresh, SnapshotMisses, NEW r \in Tip, phase[r] = "open", HoldsEverything(r)
    PROVE  Earlier(snap[r].ledger, r) = Earlier(ledger, r)
<1>1. walletLock[Sender(r)] = r /\ Sender(r) \in Wallet
  BY TipParties DEF HoldsEverything, HoldsAll, WalletsOf, TypeOK, RequestTypeOK
<1>2. Sender(r) \notin staleWallets[r]
  BY <1>1 DEF LockedFresh
<1>3. \A x \in TipRows(ledger) : x.from = tips[r].sender => x \in snap[r].ledger
  BY <1>2 DEF SnapshotMisses, Sender
<1>4. snap[r].ledger \subseteq ledger
  BY DEF SnapshotMisses
<1> QED
  BY <1>3, <1>4 DEF Earlier, TipRows

\* Only a tip whose key the ledger does not have yet adds a row.
LEMMA NextOncePerKey == TypeOK /\ LockedFresh /\ SnapshotMisses /\ OncePerKey /\ [Next]_vars => OncePerKey'
<1> SUFFICES ASSUME TypeOK, LockedFresh, SnapshotMisses, OncePerKey, [Next]_vars
             PROVE  OncePerKey'
  OBVIOUS
<1> USE DEF OncePerKey, relVars, moneyVars, reqVars, txnVars, othersUnchanged
<1>1. ASSUME NEW r \in Tip, Prepare(r)
      PROVE  OncePerKey'
  BY <1>1 DEF Prepare, Report
<1>2. ASSUME NEW r \in Tip, Begin(r)
      PROVE  OncePerKey'
  BY <1>2 DEF Begin, Snapshot
<1>3. ASSUME NEW r \in Tip, TipLockUser(r)
      PROVE  OncePerKey'
  BY <1>3 DEF TipLockUser, LockUser
<1>4. ASSUME NEW r \in Tip, TipGone(r)
      PROVE  OncePerKey'
  BY <1>4 DEF TipGone, EndTransaction, ForgetStale, Finish, ReleaseUsers
<1>5. ASSUME NEW r \in Tip, TipLockWallet(r)
      PROVE  OncePerKey'
  BY <1>5 DEF TipLockWallet
<1>6. ASSUME NEW r \in Tip, SerializationFailure(r)
      PROVE  OncePerKey'
  BY <1>6 DEF SerializationFailure, EndTransaction, ForgetStale, Finish, ReleaseUsers
<1>7. ASSUME NEW r \in Tip, Refuse(r)
      PROVE  OncePerKey'
  BY <1>7 DEF Refuse, EndTransaction, ForgetStale, Finish, Report, ReleaseUsers
<1>8. ASSUME NEW r \in Tip, Pay(r)
      PROVE  OncePerKey'
  <2>1. Outcome(r) = "paid" /\ phase[r] = "open" /\ HoldsEverything(r)
    BY <1>8 DEF Pay
  <2>2. Earlier(snap[r].ledger, r) = {}
    BY <2>1 DEF Outcome
  <2>3. Earlier(ledger, r) = {}
    BY <2>1, <2>2, LookupCurrent
  <2>4. \A x \in TipRows(ledger) : ~(x.from = TipRow(r).from /\ x.key = TipRow(r).key)
    BY <2>3 DEF Earlier, TipRow, Sender
  <2>5. TipRows(ledger') \subseteq TipRows(ledger) \union {TipRow(r)}
    BY <1>8 DEF Pay, TipRows
  <2>6. TipRows(ledger)' = TipRows(ledger')
    BY DEF TipRows
  <2> QED
    BY <2>4, <2>5, <2>6
<1>9. ASSUME NEW v \in Visit, VisitBegin(v)
      PROVE  OncePerKey'
  BY <1>9 DEF VisitBegin
<1>10. ASSUME NEW v \in Visit, VisitLock(v)
       PROVE  OncePerKey'
  BY <1>10 DEF VisitLock, LockUser
<1>11. ASSUME NEW v \in Visit, VisitRefuse(v)
       PROVE  OncePerKey'
  BY <1>11 DEF VisitRefuse, Finish, ReleaseUsers
<1>12. ASSUME NEW v \in Visit, VisitProceed(v)
       PROVE  OncePerKey'
  BY <1>12 DEF VisitProceed
<1>13. ASSUME NEW v \in Visit, VisitPay(v)
       PROVE  OncePerKey'
  <2>1. TipRows(ledger)' = TipRows(ledger)
    BY <1>13 DEF VisitPay, TipRows
  <2> QED
    BY <2>1
<1>14. CASE Relate
  BY <1>14 DEF Relate
<1>15. ASSUME NEW c \in Content, Close(c)
       PROVE  OncePerKey'
  BY <1>15 DEF Close, MarkStale, OpenTips
<1>16. ASSUME NEW c \in Content, NEW m \in SUBSET User, MakePrivate(c, m)
       PROVE  OncePerKey'
  BY <1>16 DEF MakePrivate
<1>17. ASSUME NEW u \in User, Leave(u)
       PROVE  OncePerKey'
  BY <1>17 DEF Leave, Deactivate, MarkStale, OpenTips
<1>18. CASE NextDay
  BY <1>18 DEF NextDay
<1>19. CASE UNCHANGED vars
  BY <1>19 DEF vars
<1> QED
  BY <1>1, <1>2, <1>3, <1>4, <1>5, <1>6, <1>7, <1>8, <1>9, <1>10,
     <1>11, <1>12, <1>13, <1>14, <1>15, <1>16, <1>17, <1>18, <1>19
     DEF Next, TipStep, VisitStep

\* The invariant holds initially and every step keeps it.
LEMMA Inductive == (Init => IInv) /\ (IInv /\ [Next]_vars => IInv')
<1>1. ASSUME Init PROVE IInv
  <2>1. TypeOK
    BY <1>1, InitType
  <2>2. \A r \in Tip : phase[r] \in {"new", "done"}
    BY <1>1 DEF Init
  <2>3. ledger = {} /\ staleWallets = [r \in Tip |-> {}]
    BY <1>1 DEF Init
  <2> QED
    BY <2>1, <2>2, <2>3 DEF IInv, NotSelf, LockedFresh, StaleOnlyOpen, SnapshotMisses,
                            OncePerKey, TipRows
<1>2. IInv /\ [Next]_vars => IInv'
  BY NextType, NextNotSelf, NextStaleOnlyOpen, NextLockedFresh, NextSnapshotMisses,
     NextOncePerKey DEF IInv
<1> QED
  BY <1>1, <1>2

\* IInv is an invariant.
LEMMA Invariance == Spec => []IInv
<1>1. Init => IInv
  BY Inductive
<1>2. IInv /\ [Next]_vars => IInv'
  BY Inductive
<1> QED
  BY <1>1, <1>2, PTL DEF Spec

-----------------------------------------------------------------------------
(* Results *)

\* Every variable keeps its type; no wallet is overdrawn by tips that run together.
THEOREM TypeCorrect == Spec => []TypeOK
<1>1. IInv => TypeOK
  BY DEF IInv
<1> QED
  BY <1>1, Invariance, PTL

\* A payer is charged at most once for a clientRequestId (economy.service.ts tip).
THEOREM OncePerKeyAlways == Spec => []OncePerKey
<1>1. IInv => OncePerKey
  BY DEF IInv
<1> QED
  BY <1>1, Invariance, PTL

\* Once its wallets are locked a tip's replay lookup, although it reads the
\* snapshot, misses nothing that is committed (economy.service.ts:386).
THEOREM ReplayLookupCurrentAlways == Spec => []ReplayLookupCurrent
<1>1. IInv => ReplayLookupCurrent
  BY LookupCurrent DEF IInv, ReplayLookupCurrent
<1> QED
  BY <1>1, Invariance, PTL

-----------------------------------------------------------------------------
(* What requests of different components hold against each other *)

\* What an open tip read of its users and content holds unless the row is stale, and no row it has locked is.
\* Its wallets are locked only after both accounts were found active.
Sound(r) ==
    /\ \A u \in User : userLock[u] = r => u \notin staleUsers[r]
    /\ (\E w \in Wallet : walletLock[w] = r) => BothActive(r)
    /\ \A u \in snap[r].active : u \in active \/ u \in staleUsers[r]
    /\ \A c \in snap[r].open : c \in open \/ c \in staleContent[r]
    /\ \A c \in Content : snap[r].audience[c] \subseteq audience[c] \/ c \in staleContent[r]

TipHolds == \A r \in Tip : phase[r] = "open" => Sound(r)

\* A tip that is not open has no locks and no stale rows.
TipRests == \A r \in Tip : phase[r] # "open" =>
    /\ \A u \in User : userLock[u] # r
    /\ \A w \in Wallet : walletLock[w] # r
    /\ staleUsers[r] = {} /\ staleContent[r] = {}

\* A check-in writes its user only under the user's lock.
VisitHolds == \A v \in Visit : phase[v] = "decided" => userLock[VisitorOf[v]] = v

\* Between its reads and its commit a relation request holds both users, so no block comes between.
RelationHolds == \A b \in Relation : relPhase[b] = "decided" =>
    /\ HoldsAll(Pair(b), userLock, b)
    /\ RelOf[b].op = "follow" /\ permitted[b] => ~Blocked(blocks, RelOf[b].actor, RelOf[b].target)

Held == TipHolds /\ TipRests /\ VisitHolds /\ RelationHolds

-----------------------------------------------------------------------------
\* Locks of others stay as they are when rows are locked and released.
LEMMA OthersLocks ==
    ASSUME RelTypeOK, NEW t \in Holder, NEW s \in Holder, s # t,
           (\E rows, u : LockUser(t, rows, u)) \/ ReleaseUsers(t)
    PROVE  \A u \in User : userLock'[u] = s <=> userLock[u] = s
BY DEF RelTypeOK, LockUser, ReleaseUsers

\* A relation request that commits a block holds both users, so it waits for every other that has read them.
LEMMA NextRelationHolds == TypeOK /\ RelationHolds /\ [Next]_vars => RelationHolds'
<1> SUFFICES ASSUME TypeOK, RelationHolds, [Next]_vars
             PROVE  RelationHolds'
  OBVIOUS
<1>0. RelTypeOK /\ \A b \in Relation : Pair(b) \subseteq User
  BY DEF TypeOK, Pair
<1>1. ASSUME UNCHANGED <<relPhase, permitted, blocks>>,
             NEW t \in Holder \ Relation,
             (\E rows, u : LockUser(t, rows, u)) \/ ReleaseUsers(t) \/ UNCHANGED userLock
      PROVE  RelationHolds'
  <2>1. \A b \in Relation : b \in Holder /\ b # t
    OBVIOUS
  <2>2. \A b \in Relation, u \in User : userLock[u] = b => userLock'[u] = b
    BY <1>0, <1>1, <2>1, OthersLocks
  <2>3. \A b \in Relation : relPhase'[b] = "decided" => HoldsAll(Pair(b), userLock', b)
    BY <1>0, <1>1, <2>2 DEF RelationHolds, HoldsAll
  <2>4. \A b \in Relation : relPhase'[b] = "decided" /\ RelOf[b].op = "follow" /\ permitted'[b] =>
           ~Blocked(blocks', RelOf[b].actor, RelOf[b].target)
    BY <1>1 DEF RelationHolds
  <2> QED
    BY <2>3, <2>4 DEF RelationHolds, HoldsAll, Pair, Blocked
<1>2. ASSUME UNCHANGED <<relPhase, permitted, blocks, userLock>> PROVE RelationHolds'
  BY <1>2 DEF RelationHolds, HoldsAll, Pair, Blocked
<1>3. ASSUME NEW r \in Tip, TipStep(r) PROVE RelationHolds'
  <2>1. r \in Holder \ Relation
    OBVIOUS
  <2>2. UNCHANGED <<relPhase, permitted, blocks>>
    BY <1>3 DEF TipStep, Prepare, Begin, TipLockUser, TipGone, TipLockWallet, SerializationFailure, Refuse, Pay,
                relVars
  <2>3. (\E rows, u : LockUser(r, rows, u)) \/ ReleaseUsers(r) \/ UNCHANGED userLock
    BY <1>3 DEF TipStep, Prepare, Begin, TipLockUser, TipGone, TipLockWallet, SerializationFailure, Refuse, Pay,
                relVars, EndTransaction
  <2> QED
    BY <1>1, <2>1, <2>2, <2>3
<1>4. ASSUME NEW v \in Visit, VisitStep(v) PROVE RelationHolds'
  <2>1. v \in Holder \ Relation
    OBVIOUS
  <2>2. UNCHANGED <<relPhase, permitted, blocks>>
    BY <1>4 DEF VisitStep, VisitBegin, VisitLock, VisitRefuse, VisitProceed, VisitPay, relVars
  <2>3. (\E rows, u : LockUser(v, rows, u)) \/ ReleaseUsers(v) \/ UNCHANGED userLock
    BY <1>4 DEF VisitStep, VisitBegin, VisitLock, VisitRefuse, VisitProceed, VisitPay, relVars
  <2> QED
    BY <1>1, <2>1, <2>2, <2>3
<1>5. ASSUME NEW b \in Relation, RelBegin(b) \/ RelLock(b) \/ RelRead(b) \/ RelCommit(b)
      PROVE  RelationHolds'
  <2> USE <1>0 DEF RelTypeOK
  <2>1. \A c \in Relation \ {b} : (relPhase'[c] = "decided" <=> relPhase[c] = "decided") /\ permitted'[c] = permitted[c]
    BY <1>5 DEF RelBegin, RelLock, RelRead, RelCommit
  <2>2. \A c \in Relation \ {b}, u \in User : userLock[u] = c => userLock'[u] = c
    <3>1. (\E rows, u : LockUser(b, rows, u)) \/ ReleaseUsers(b) \/ UNCHANGED userLock
      BY <1>5 DEF RelBegin, RelLock, RelRead, RelCommit
    <3> QED
      BY <3>1, OthersLocks
  <2>3. ASSUME NEW c \in Relation \ {b}, relPhase[c] = "decided",
               ~Blocked(blocks, RelOf[c].actor, RelOf[c].target)
        PROVE  ~Blocked(blocks', RelOf[c].actor, RelOf[c].target)
    <3>1. CASE UNCHANGED blocks
      BY <2>3, <3>1 DEF Blocked
    <3>2. CASE RelCommit(b)
      <4>1. HoldsAll(Pair(c), userLock, c)
        BY <2>3 DEF RelationHolds
      <4>2. HoldsAll(Pair(b), userLock, b)
        BY <3>2 DEF RelCommit, RelationHolds
      <4>3. Pair(b) \intersect Pair(c) = {}
        BY <2>3, <4>1, <4>2 DEF HoldsAll
      <4>4. blocks' \subseteq blocks \union {<<RelOf[b].actor, RelOf[b].target>>}
        BY <3>2 DEF RelCommit
      <4> QED
        BY <2>3, <4>3, <4>4 DEF Blocked, Pair
    <3> QED
      BY <1>5, <3>1, <3>2 DEF RelBegin, RelLock, RelRead
  <2>4. \A c \in Relation \ {b} : relPhase'[c] = "decided" =>
           /\ HoldsAll(Pair(c), userLock', c)
           /\ RelOf[c].op = "follow" /\ permitted'[c] => ~Blocked(blocks', RelOf[c].actor, RelOf[c].target)
    BY <2>1, <2>2, <2>3 DEF RelationHolds, HoldsAll
  <2>5. relPhase'[b] = "decided" =>
           /\ HoldsAll(Pair(b), userLock', b)
           /\ RelOf[b].op = "follow" /\ permitted'[b] => ~Blocked(blocks', RelOf[b].actor, RelOf[b].target)
    <3>1. CASE RelRead(b)
      <4>1. HoldsAll(Pair(b), userLock', b) /\ blocks' = blocks
        BY <3>1 DEF RelRead, HoldsAll
      <4>2. RelOf[b].op = "follow" /\ permitted'[b] => ~Blocked(blocks, RelOf[b].actor, RelOf[b].target)
        BY <3>1 DEF RelRead
      <4> QED
        BY <4>1, <4>2
    <3>2. CASE RelBegin(b) \/ RelLock(b) \/ RelCommit(b)
      BY <3>2 DEF RelBegin, RelLock, RelCommit
    <3> QED
      BY <1>5, <3>1, <3>2
  <2>6. \A c \in Relation : relPhase'[c] = "decided" =>
           /\ HoldsAll(Pair(c), userLock', c)
           /\ RelOf[c].op = "follow" /\ permitted'[c] => ~Blocked(blocks', RelOf[c].actor, RelOf[c].target)
    BY <2>4, <2>5, Zenon
  <2> HIDE DEF RelTypeOK
  <2> QED
    BY <2>6 DEF RelationHolds, HoldsAll, Pair, Blocked
<1>6. CASE Relate
  BY <1>5, <1>6 DEF Relate, RelNext
<1>7. CASE \/ \E c \in Content : Close(c) \/ \E m \in SUBSET User : MakePrivate(c, m)
           \/ \E u \in User : Leave(u)
           \/ NextDay \/ UNCHANGED vars
  BY <1>2, <1>7 DEF Close, MakePrivate, Leave, Deactivate, NextDay, vars, relVars
<1> QED
  BY <1>3, <1>4, <1>6, <1>7 DEF Next

\* A check-in keeps its user's lock until it is done.
LEMMA NextVisitHolds == TypeOK /\ VisitHolds /\ [Next]_vars => VisitHolds'
<1> SUFFICES ASSUME TypeOK, VisitHolds, [Next]_vars
             PROVE  VisitHolds'
  OBVIOUS
<1>0. RelTypeOK /\ RequestTypeOK /\ \A v \in Visit : VisitorOf[v] \in User /\ v \in Holder
  BY DEF TypeOK
<1>1. ASSUME \A v \in Visit : phase'[v] = "decided" => phase[v] = "decided",
             NEW t \in Holder \ Visit,
             (\E rows, u : LockUser(t, rows, u)) \/ ReleaseUsers(t) \/ UNCHANGED userLock
      PROVE  VisitHolds'
  <2>1. \A v \in Visit, u \in User : userLock[u] = v => userLock'[u] = v
    BY <1>0, <1>1, OthersLocks
  <2> QED
    BY <1>0, <1>1, <2>1 DEF VisitHolds
<1>2. ASSUME UNCHANGED <<phase, userLock>> PROVE VisitHolds'
  BY <1>2 DEF VisitHolds
<1>3. ASSUME NEW r \in Tip, TipStep(r) PROVE VisitHolds'
  <2>1. r \in Holder \ Visit
    OBVIOUS
  <2>2. \A v \in Visit : phase'[v] = "decided" => phase[v] = "decided"
    BY <1>0, <1>3 DEF TipStep, Prepare, Begin, TipLockUser, TipGone, TipLockWallet, SerializationFailure, Refuse,
                      Pay, reqVars, Finish, RequestTypeOK
  <2>3. (\E rows, u : LockUser(r, rows, u)) \/ ReleaseUsers(r) \/ UNCHANGED userLock
    BY <1>3 DEF TipStep, Prepare, Begin, TipLockUser, TipGone, TipLockWallet, SerializationFailure, Refuse, Pay,
                relVars, EndTransaction
  <2> QED
    BY <1>1, <2>1, <2>2, <2>3
<1>4. ASSUME NEW v \in Visit, VisitStep(v) PROVE VisitHolds'
  <2>1. (\E rows, u : LockUser(v, rows, u)) \/ ReleaseUsers(v) \/ UNCHANGED userLock
    BY <1>4 DEF VisitStep, VisitBegin, VisitLock, VisitRefuse, VisitProceed, VisitPay, relVars
  <2>2. \A w \in Visit \ {v}, u \in User : userLock[u] = w => userLock'[u] = w
    BY <1>0, <2>1, OthersLocks
  <2>3. \A w \in Visit \ {v} : phase'[w] = phase[w]
    BY <1>0, <1>4 DEF VisitStep, VisitBegin, VisitLock, VisitRefuse, VisitProceed, VisitPay, reqVars, Finish,
                      RequestTypeOK
  <2>4. phase'[v] = "decided" => userLock'[VisitorOf[v]] = v
    BY <1>0, <1>4 DEF VisitStep, VisitBegin, VisitLock, VisitRefuse, VisitProceed, VisitPay, reqVars, relVars, Finish,
                      RequestTypeOK, LockUser, RelTypeOK, VisitHolds
  <2> QED
    BY <1>0, <2>2, <2>3, <2>4 DEF VisitHolds
<1>5. CASE Relate
  <2>1. PICK b \in Relation : RelBegin(b) \/ RelLock(b) \/ RelRead(b) \/ RelCommit(b)
    BY <1>5 DEF Relate, RelNext
  <2>2. (\E rows, u : LockUser(b, rows, u)) \/ ReleaseUsers(b) \/ UNCHANGED userLock
    BY <2>1 DEF RelBegin, RelLock, RelRead, RelCommit
  <2>3. UNCHANGED phase /\ b \in Holder \ Visit
    BY <1>5 DEF Relate, othersUnchanged, reqVars
  <2> QED
    BY <1>1, <2>2, <2>3
<1>6. CASE \/ \E c \in Content : Close(c) \/ \E m \in SUBSET User : MakePrivate(c, m)
           \/ \E u \in User : Leave(u)
           \/ NextDay \/ UNCHANGED vars
  BY <1>2, <1>6 DEF Close, MakePrivate, Leave, Deactivate, NextDay, vars, relVars, othersUnchanged, reqVars
<1> QED
  BY <1>3, <1>4, <1>5, <1>6 DEF Next

\* A tip's locks and stale rows go with its transaction, and nobody else gives it any.
LEMMA NextTipRests == TypeOK /\ TipRests /\ [Next]_vars => TipRests'
<1> SUFFICES ASSUME TypeOK, TipRests, [Next]_vars
             PROVE  TipRests'
  OBVIOUS
<1>0. RelTypeOK /\ RequestTypeOK /\ TransactionTypeOK /\ \A r \in Tip : r \in Holder
  BY DEF TypeOK
<1>1. ASSUME NEW r \in Tip, TipStep(r) PROVE TipRests'
  <2>1. (\E rows, u : LockUser(r, rows, u)) \/ ReleaseUsers(r) \/ UNCHANGED userLock
    BY <1>1 DEF TipStep, Prepare, Begin, TipLockUser, TipGone, TipLockWallet, SerializationFailure, Refuse, Pay,
                relVars, EndTransaction
  <2>2. \A q \in Tip \ {r}, u \in User : userLock'[u] = q <=> userLock[u] = q
    BY <1>0, <2>1, OthersLocks
  <2>3. \A q \in Tip \ {r}, w \in Wallet : walletLock'[w] = q => walletLock[w] = q
    BY <1>0, <1>1 DEF TipStep, Prepare, Begin, TipLockUser, TipGone, TipLockWallet, SerializationFailure, Refuse, Pay,
                EndTransaction, TransactionTypeOK
  <2>4. \A q \in Tip \ {r} : phase'[q] = phase[q]
    BY <1>0, <1>1 DEF TipStep, Prepare, Begin, TipLockUser, TipGone, TipLockWallet, SerializationFailure, Refuse, Pay,
                reqVars, Finish, RequestTypeOK
  <2>5. \A q \in Tip \ {r} : phase[q] # "open" => staleUsers'[q] = staleUsers[q] /\ staleContent'[q] = staleContent[q]
    BY <1>0, <1>1 DEF TipStep, Prepare, Begin, TipLockUser, TipGone, TipLockWallet, SerializationFailure, Refuse, Pay,
                txnVars, ForgetStale, TransactionTypeOK, MarkStale, OpenTips
  <2>6. phase'[r] # "open" => /\ \A u \in User : userLock'[u] # r
                              /\ \A w \in Wallet : walletLock'[w] # r
                              /\ staleUsers'[r] = {} /\ staleContent'[r] = {}
    <3>1. CASE Prepare(r)
      BY <1>0, <3>1 DEF Prepare, relVars, txnVars, TipRests
    <3>2. CASE Begin(r) \/ TipLockUser(r) \/ TipLockWallet(r)
      BY <1>0, <3>2 DEF Begin, TipLockUser, TipLockWallet, reqVars, RequestTypeOK
    <3>3. CASE TipGone(r) \/ SerializationFailure(r) \/ Refuse(r)
      BY <1>0, <3>3 DEF TipGone, SerializationFailure, Refuse, EndTransaction, ReleaseUsers, ForgetStale,
                        TransactionTypeOK
    <3>4. CASE Pay(r)
      BY <1>0, <3>4 DEF Pay, EndTransaction, ReleaseUsers, MarkStale
    <3> QED
      BY <1>1, <3>1, <3>2, <3>3, <3>4 DEF TipStep
  <2> QED
    BY <2>2, <2>3, <2>4, <2>5, <2>6 DEF TipRests
<1>2. ASSUME NEW t \in Holder \ Tip,
             (\E rows, u : LockUser(t, rows, u)) \/ ReleaseUsers(t) \/ UNCHANGED userLock,
             UNCHANGED walletLock, \A r \in Tip : phase'[r] = phase[r],
             \A r \in Tip : phase[r] # "open" => staleUsers'[r] = staleUsers[r] /\ staleContent'[r] = staleContent[r]
      PROVE  TipRests'
  <2>1. \A r \in Tip, u \in User : userLock'[u] = r <=> userLock[u] = r
    BY <1>0, <1>2, OthersLocks
  <2> QED
    BY <1>2, <2>1 DEF TipRests
<1>3. ASSUME NEW v \in Visit, VisitStep(v) PROVE TipRests'
  <2>1. (\E rows, u : LockUser(v, rows, u)) \/ ReleaseUsers(v) \/ UNCHANGED userLock
    BY <1>3 DEF VisitStep, VisitBegin, VisitLock, VisitRefuse, VisitProceed, VisitPay, relVars
  <2>2. UNCHANGED walletLock /\ \A r \in Tip : phase'[r] = phase[r]
    BY <1>0, <1>3 DEF VisitStep, VisitBegin, VisitLock, VisitRefuse, VisitProceed, VisitPay, reqVars, Finish,
                      RequestTypeOK
  <2>3. \A r \in Tip : phase[r] # "open" => staleUsers'[r] = staleUsers[r] /\ staleContent'[r] = staleContent[r]
    BY <1>0, <1>3 DEF VisitStep, VisitBegin, VisitLock, VisitRefuse, VisitProceed, VisitPay, txnVars, MarkStale,
                      OpenTips
  <2>4. v \in Holder \ Tip
    OBVIOUS
  <2> QED
    BY <1>2, <2>1, <2>2, <2>3, <2>4
<1>4. CASE Relate
  <2>1. PICK b \in Relation : RelBegin(b) \/ RelLock(b) \/ RelRead(b) \/ RelCommit(b)
    BY <1>4 DEF Relate, RelNext
  <2>2. (\E rows, u : LockUser(b, rows, u)) \/ ReleaseUsers(b) \/ UNCHANGED userLock
    BY <2>1 DEF RelBegin, RelLock, RelRead, RelCommit
  <2>3. UNCHANGED <<phase, walletLock, staleUsers, staleContent>> /\ b \in Holder \ Tip
    BY <1>4 DEF Relate, othersUnchanged, reqVars, txnVars
  <2> QED
    BY <1>2, <2>2, <2>3
<1>5. CASE \/ \E c \in Content : Close(c) \/ \E m \in SUBSET User : MakePrivate(c, m)
           \/ \E u \in User : Leave(u)
           \/ NextDay \/ UNCHANGED vars
  <2>1. UNCHANGED <<phase, walletLock, userLock>>
    BY <1>5 DEF Close, MakePrivate, Leave, Deactivate, NextDay, vars, relVars, othersUnchanged, reqVars
  <2>2. \A r \in Tip : phase[r] # "open" => staleUsers'[r] = staleUsers[r] /\ staleContent'[r] = staleContent[r]
    BY <1>5 DEF Close, MakePrivate, Leave, NextDay, vars, txnVars, MarkStale, OpenTips
  <2> QED
    BY <2>1, <2>2 DEF TipRests
<1> QED
  BY <1>1, <1>3, <1>4, <1>5 DEF Next

\* Whoever changes a row that an open tip has read marks it stale, and nobody changes one the tip has locked.
LEMMA NextTipHolds == TypeOK /\ TipHolds /\ TipRests /\ VisitHolds /\ [Next]_vars => TipHolds'
<1> SUFFICES ASSUME TypeOK, TipHolds, TipRests, VisitHolds, [Next]_vars
             PROVE  TipHolds'
  OBVIOUS
<1>0. RelTypeOK /\ RequestTypeOK /\ TransactionTypeOK /\ \A r \in Tip : r \in Holder
  BY DEF TypeOK
\* A step of somebody else
<1>1. ASSUME NEW q \in Tip, phase[q] = "open", tips' = tips, snap'[q] = snap[q],
             \A u \in User : userLock'[u] = q => userLock[u] = q,
             \A w \in Wallet : walletLock'[w] = q => walletLock[w] = q,
             staleUsers[q] \subseteq staleUsers'[q], staleContent[q] \subseteq staleContent'[q],
             \A u \in staleUsers'[q] \ staleUsers[q] : userLock[u] # q,
             active \ active' \subseteq staleUsers'[q], open \ open' \subseteq staleContent'[q],
             \A c \in Content : audience[c] \subseteq audience'[c] \/ c \in staleContent'[q]
      PROVE  Sound(q)'
  <2>1. Sound(q)
    BY <1>1 DEF TipHolds
  <2> QED
    BY <1>1, <2>1 DEF Sound, BothActive, UsersOf, Sender, Recipient
<1>2. ASSUME NEW r \in Tip, TipStep(r), NEW q \in Tip, phase'[q] = "open" PROVE Sound(q)'
  <2>1. CASE q # r
    <3>1. (\E rows, u : LockUser(r, rows, u)) \/ ReleaseUsers(r) \/ UNCHANGED userLock
      BY <1>2 DEF TipStep, Prepare, Begin, TipLockUser, TipGone, TipLockWallet, SerializationFailure, Refuse, Pay,
                  relVars, EndTransaction
    <3>2. \A u \in User : userLock'[u] = q => userLock[u] = q
      BY <1>0, <2>1, <3>1, OthersLocks
    <3>3. \A w \in Wallet : walletLock'[w] = q => walletLock[w] = q
      BY <1>0, <1>2, <2>1 DEF TipStep, Prepare, Begin, TipLockUser, TipGone, TipLockWallet, SerializationFailure,
                              Refuse, Pay, EndTransaction, TransactionTypeOK
    <3>4. phase[q] = "open"
      BY <1>0, <1>2, <2>1 DEF TipStep, Prepare, Begin, TipLockUser, TipGone, TipLockWallet, SerializationFailure,
                              Refuse, Pay, reqVars, Finish, RequestTypeOK
    <3>5. staleUsers'[q] = staleUsers[q] /\ staleContent[q] \subseteq staleContent'[q] /\ snap'[q] = snap[q]
      BY <1>0, <1>2, <2>1 DEF TipStep, Prepare, Begin, TipLockUser, TipGone, TipLockWallet, SerializationFailure,
                              Refuse, Pay, txnVars, ForgetStale, TransactionTypeOK, MarkStale, EndTransaction
    <3>6. UNCHANGED <<active, open, audience, tips>>
      BY <1>2 DEF TipStep, Prepare, Begin, TipLockUser, TipGone, TipLockWallet, SerializationFailure, Refuse, Pay,
                  reqVars, relVars
    <3> QED
      BY <1>1, <3>2, <3>3, <3>4, <3>5, <3>6
  <2>2. CASE q = r
    <3>1. CASE Begin(r)
      <4>1. /\ \A u \in User : userLock[u] # r
            /\ \A w \in Wallet : walletLock[w] # r
        BY <3>1 DEF Begin, TipRests
      <4>2. snap'[r].active = active /\ snap'[r].open = open /\ snap'[r].audience = audience
        BY <1>0, <3>1 DEF Begin, TransactionTypeOK, Snapshot
      <4>3. UNCHANGED <<active, open, audience, userLock, walletLock>>
        BY <3>1 DEF Begin, relVars
      <4> QED
        BY <2>2, <4>1, <4>2, <4>3 DEF Sound
    <3>2. CASE TipLockUser(r)
      <4>1. Sound(r)
        BY <3>2 DEF TipLockUser, TipHolds
      <4>2. UNCHANGED <<active, open, audience, walletLock, snap, staleUsers, staleContent, tips>>
        BY <3>2 DEF TipLockUser, txnVars, reqVars
      <4>3. \A u \in User : userLock'[u] = r => userLock[u] = r \/ u \notin staleUsers[r]
        BY <1>0, <3>2 DEF TipLockUser, LockUser, RelTypeOK
      <4> QED
        BY <2>2, <4>1, <4>2, <4>3 DEF Sound, BothActive, UsersOf, Sender, Recipient
    <3>3. CASE TipLockWallet(r)
      <4>1. Sound(r) /\ BothActive(r)
        BY <3>3 DEF TipLockWallet, TipHolds
      <4>2. UNCHANGED <<active, open, audience, userLock, snap, staleUsers, staleContent, tips>>
        BY <3>3 DEF TipLockWallet, txnVars, reqVars, relVars
      <4> QED
        BY <2>2, <4>1, <4>2 DEF Sound, BothActive, UsersOf, Sender, Recipient
    <3>4. CASE Prepare(r) \/ TipGone(r) \/ SerializationFailure(r) \/ Refuse(r) \/ Pay(r)
      BY <1>0, <1>2, <2>2, <3>4 DEF Prepare, TipGone, SerializationFailure, Refuse, Pay, Finish, RequestTypeOK
    <3> QED
      BY <1>2, <3>1, <3>2, <3>3, <3>4 DEF TipStep
  <2> QED
    BY <2>1, <2>2
<1>3. ASSUME NEW v \in Visit, VisitStep(v), NEW q \in Tip, phase'[q] = "open" PROVE Sound(q)'
  <2>1. (\E rows, u : LockUser(v, rows, u)) \/ ReleaseUsers(v) \/ UNCHANGED userLock
    BY <1>3 DEF VisitStep, VisitBegin, VisitLock, VisitRefuse, VisitProceed, VisitPay, relVars
  <2>2. \A u \in User : userLock'[u] = q => userLock[u] = q
    BY <1>0, <2>1, OthersLocks
  <2>3. phase[q] = "open" /\ UNCHANGED <<walletLock, active, open, audience, tips, snap, staleContent>>
    BY <1>0, <1>3 DEF VisitStep, VisitBegin, VisitLock, VisitRefuse, VisitProceed, VisitPay, reqVars, relVars, txnVars,
                      Finish, RequestTypeOK
  <2>4. staleUsers[q] \subseteq staleUsers'[q] /\ \A u \in staleUsers'[q] \ staleUsers[q] : userLock[u] # q
    <3>1. CASE VisitPay(v)
      <4>1. userLock[VisitorOf[v]] = v /\ v # q
        BY <3>1 DEF VisitPay, VisitHolds
      <4>2. staleUsers[q] \subseteq staleUsers'[q] /\ staleUsers'[q] \subseteq staleUsers[q] \union {VisitorOf[v]}
        BY <3>1, <4>1 DEF VisitPay, MarkStale
      <4> QED
        BY <4>1, <4>2
    <3>2. CASE VisitBegin(v) \/ VisitLock(v) \/ VisitRefuse(v) \/ VisitProceed(v)
      BY <3>2 DEF VisitBegin, VisitLock, VisitRefuse, VisitProceed, txnVars
    <3> QED
      BY <1>3, <3>1, <3>2 DEF VisitStep
  <2> QED
    BY <1>1, <2>2, <2>3, <2>4
<1>4. ASSUME Relate, NEW q \in Tip, phase'[q] = "open" PROVE Sound(q)'
  <2>1. PICK b \in Relation : RelBegin(b) \/ RelLock(b) \/ RelRead(b) \/ RelCommit(b)
    BY <1>4 DEF Relate, RelNext
  <2>2. ((\E rows, u : LockUser(b, rows, u)) \/ ReleaseUsers(b) \/ UNCHANGED userLock) /\ UNCHANGED active
    BY <2>1 DEF RelBegin, RelLock, RelRead, RelCommit
  <2>3. \A u \in User : userLock'[u] = q => userLock[u] = q
    BY <1>0, <2>2, OthersLocks
  <2>4. UNCHANGED <<phase, walletLock, staleUsers, staleContent, snap, open, audience, tips>>
    BY <1>4 DEF Relate, othersUnchanged, reqVars, txnVars
  <2> QED
    BY <1>1, <1>4, <2>2, <2>3, <2>4
<1>5. ASSUME NEW c \in Content, Close(c), NEW q \in Tip, phase'[q] = "open" PROVE Sound(q)'
  <2>1. UNCHANGED <<phase, walletLock, userLock, staleUsers, snap, active, audience, tips>> /\ open' = open \ {c}
    BY <1>5 DEF Close, othersUnchanged, reqVars, relVars
  <2>2. staleContent'[q] = staleContent[q] \union {c}
    BY <1>5, <2>1 DEF Close, MarkStale, OpenTips
  <2> QED
    BY <1>1, <1>5, <2>1, <2>2
<1>6. ASSUME NEW x \in User, Leave(x), NEW q \in Tip, phase'[q] = "open" PROVE Sound(q)'
  <2>1. UNCHANGED <<phase, walletLock, userLock, staleContent, snap, open, audience, tips>> /\ active' = active \ {x}
        /\ userLock[x] = NoTxn
    BY <1>6 DEF Leave, Deactivate, othersUnchanged, reqVars
  <2>2. staleUsers'[q] = staleUsers[q] \union {x}
    BY <1>6, <2>1 DEF Leave, MarkStale, OpenTips
  <2>3. q # NoTxn
    OBVIOUS
  <2> QED
    BY <1>1, <1>6, <2>1, <2>2, <2>3
<1>7. ASSUME NEW c \in Content, NEW m \in SUBSET User, MakePrivate(c, m), NEW q \in Tip, phase'[q] = "open"
      PROVE  Sound(q)'
  <2>1. UNCHANGED <<phase, walletLock, userLock, staleUsers, snap, active, open, tips>>
        /\ audience' = [audience EXCEPT ![c] = m]
    BY <1>7 DEF MakePrivate, othersUnchanged, reqVars, relVars
  <2>2. staleContent'[q] = staleContent[q] \union {c}
    BY <1>7, <2>1 DEF MakePrivate, MarkStale, OpenTips
  <2>3. \A d \in Content : d # c => audience'[d] = audience[d]
    BY <2>1, <1>0 DEF TypeOK, WorldTypeOK
  <2> QED
    BY <1>1, <1>7, <2>1, <2>2, <2>3
<1>8. ASSUME NextDay \/ UNCHANGED vars, NEW q \in Tip, phase'[q] = "open" PROVE Sound(q)'
  <2>1. UNCHANGED <<phase, walletLock, userLock, staleContent, staleUsers, snap, open, audience, tips, active>>
    BY <1>8 DEF NextDay, vars, relVars, txnVars, othersUnchanged, reqVars
  <2> QED
    BY <1>1, <1>8, <2>1
<1> QED
  BY <1>2, <1>3, <1>4, <1>5, <1>6, <1>7, <1>8 DEF Next, TipHolds

\* What a request that succeeded reports is the ledger row of its key.
LEMMA NextAnswer == IInv /\ AnswerIsOwnTip /\ [Next]_vars => AnswerIsOwnTip'
<1> SUFFICES ASSUME IInv, AnswerIsOwnTip, [Next]_vars
             PROVE  AnswerIsOwnTip'
  OBVIOUS
<1>0. RequestTypeOK
  BY DEF IInv, TypeOK
<1>2. ASSUME tips' = tips, ledger \subseteq ledger', NEW q \in Tip, result'[q] = result[q], answer'[q] = answer[q],
             result'[q] \in {"paid", "replayed"}
      PROVE  \E x \in Earlier(ledger, q)' : x.by = answer'[q] /\ SamePayload(x, q)'
  BY <1>2 DEF AnswerIsOwnTip, Earlier, TipRows, SamePayload
<1>3. ASSUME NEW r \in Tip, TipStep(r), NEW q \in Tip, result'[q] \in {"paid", "replayed"}
      PROVE  \E x \in Earlier(ledger, q)' : x.by = answer'[q] /\ SamePayload(x, q)'
  <2>1. tips' = tips /\ ledger \subseteq ledger'
    BY <1>3 DEF TipStep, Prepare, Begin, TipLockUser, TipGone, TipLockWallet, SerializationFailure, Refuse, Pay,
                reqVars, moneyVars
  <2>2. CASE q # r
    <3>1. result'[q] = result[q] /\ answer'[q] = answer[q]
      BY <1>0, <1>3, <2>2 DEF TipStep, Prepare, Begin, TipLockUser, TipGone, TipLockWallet, SerializationFailure,
                              Refuse, Pay, reqVars, Finish, Report, RequestTypeOK
    <3> QED
      BY <1>2, <1>3, <2>1, <3>1
  <2>3. CASE q = r
    <3>1. ASSUME NEW L, L \subseteq ledger, NEW x \in Earlier(L, r), SamePayload(x, r),
                 answer' = [answer EXCEPT ![r] = (CHOOSE y \in Earlier(L, r) : TRUE).by]
          PROVE  x.by = answer'[r] /\ x \in Earlier(ledger, r)
      <4>1. \A y \in Earlier(L, r) : y \in TipRows(ledger) /\ y.from = x.from /\ y.key = x.key
        BY <3>1 DEF Earlier, TipRows
      <4>2. \A y \in Earlier(L, r) : y = x
        BY <3>1, <4>1 DEF IInv, OncePerKey
      <4>3. (CHOOSE y \in Earlier(L, r) : TRUE) = x
        BY <3>1, <4>2
      <4>4. x \in Earlier(ledger, r)
        BY <3>1 DEF Earlier, TipRows
      <4>5. answer'[r] = x.by
        BY <1>0, <3>1, <4>3 DEF RequestTypeOK
      <4> QED
        BY <4>4, <4>5
    <3>2. CASE Prepare(r)
      <4>1. PrepareOutcome(r) = "replayed"
        BY <1>0, <1>3, <2>3, <3>2 DEF Prepare, PrepareOutcome, RequestTypeOK
      <4>2. PICK x \in Earlier(ledger, r) : SamePayload(x, r)
        BY <4>1 DEF PrepareOutcome
      <4>3. answer' = [answer EXCEPT ![r] = (CHOOSE y \in Earlier(ledger, r) : TRUE).by] /\ ledger' = ledger
        BY <3>2, <4>1 DEF Prepare, Report, moneyVars
      <4> QED
        BY <2>1, <2>3, <3>1, <4>2, <4>3 DEF Earlier, TipRows, SamePayload
    <3>3. CASE Refuse(r)
      <4>1. Outcome(r) = "replayed"
        BY <1>0, <1>3, <2>3, <3>3 DEF Refuse, Finish, Outcome, RequestTypeOK
      <4>2. PICK x \in Earlier(snap[r].ledger, r) : SamePayload(x, r)
        BY <4>1 DEF Outcome
      <4>3. answer' = [answer EXCEPT ![r] = (CHOOSE y \in Earlier(snap[r].ledger, r) : TRUE).by] /\ ledger' = ledger
        BY <3>3, <4>1 DEF Refuse, Report, moneyVars
      <4>4. snap[r].ledger \subseteq ledger
        BY <3>3 DEF Refuse, IInv, SnapshotMisses
      <4>5. x.by = answer'[r] /\ x \in Earlier(ledger, r)
        BY <3>1, <4>2, <4>3, <4>4
      <4> QED
        BY <2>1, <2>3, <4>2, <4>3, <4>5 DEF Earlier, TipRows, SamePayload
    <3>4. CASE Pay(r)
      <4>1. TipRow(r) \in ledger' /\ answer'[r] = r
        BY <1>0, <3>4 DEF Pay, RequestTypeOK
      <4> QED
        BY <2>1, <2>3, <4>1 DEF TipRow, Earlier, TipRows, SamePayload, Sender, Recipient
    <3>5. CASE Begin(r) \/ TipLockUser(r) \/ TipLockWallet(r)
      <4>1. result' = result /\ answer' = answer
        BY <3>5 DEF Begin, TipLockUser, TipLockWallet, reqVars
      <4> QED
        BY <1>2, <1>3, <2>1, <4>1
    <3>6. CASE TipGone(r) \/ SerializationFailure(r)
      <4>1. answer' = answer /\ (result' = result \/ result'[r] \in {"gone", "conflict"})
        BY <1>0, <3>6 DEF TipGone, SerializationFailure, Finish, RequestTypeOK
      <4> QED
        BY <1>2, <1>3, <2>1, <2>3, <4>1
    <3> QED
      BY <1>3, <3>2, <3>3, <3>4, <3>5, <3>6 DEF TipStep
  <2> QED
    BY <2>2, <2>3
<1>4. ASSUME NEW v \in Visit, VisitStep(v), NEW q \in Tip, result'[q] \in {"paid", "replayed"}
      PROVE  \E x \in Earlier(ledger, q)' : x.by = answer'[q] /\ SamePayload(x, q)'
  <2>1. tips' = tips /\ ledger \subseteq ledger' /\ answer' = answer /\ result'[q] = result[q]
    BY <1>0, <1>4 DEF VisitStep, VisitBegin, VisitLock, VisitRefuse, VisitProceed, VisitPay, reqVars, moneyVars, Finish,
                RequestTypeOK
  <2> QED
    BY <1>2, <1>4, <2>1
<1>5. CASE \/ Relate
           \/ \E c \in Content : Close(c) \/ \E m \in SUBSET User : MakePrivate(c, m)
           \/ \E u \in User : Leave(u)
           \/ NextDay \/ UNCHANGED vars
  <2>1. UNCHANGED <<tips, ledger, answer, result>>
    BY <1>5 DEF Relate, Close, MakePrivate, Leave, NextDay, vars, othersUnchanged, reqVars, moneyVars
  <2> QED
    BY <2>1 DEF AnswerIsOwnTip, Earlier, TipRows, SamePayload
<1> QED
  BY <1>3, <1>4, <1>5 DEF Next, AnswerIsOwnTip

-----------------------------------------------------------------------------
(* Results *)

\* All of this holds from the beginning and is kept.
LEMMA Always == Spec => [](IInv /\ Held /\ AnswerIsOwnTip)
<1>1. Init => Held /\ AnswerIsOwnTip
  <2> SUFFICES ASSUME Init PROVE Held /\ AnswerIsOwnTip
    OBVIOUS
  <2>1. \A b \in Relation : relPhase[b] # "decided"
    BY DEF Init, RelInit
  <2>2. \A t \in Tip \union Visit : phase[t] \in {"new", "done"} /\ result[t] = "none"
    BY DEF Init
  <2>3. /\ \A u \in User : userLock[u] = NoTxn
        /\ \A w \in Wallet : walletLock[w] = NoTxn
        /\ \A r \in Tip : staleUsers[r] = {} /\ staleContent[r] = {}
    BY DEF Init, RelInit
  <2> QED
    BY <2>1, <2>2, <2>3 DEF Held, TipHolds, TipRests, VisitHolds, RelationHolds, AnswerIsOwnTip
<1>2. IInv /\ Held /\ AnswerIsOwnTip /\ [Next]_vars => (Held /\ AnswerIsOwnTip)'
  BY NextTipHolds, NextTipRests, NextVisitHolds, NextRelationHolds, NextAnswer DEF IInv, Held
<1> QED
  BY <1>1, <1>2, Invariance, PTL DEF Spec

\* However follows and blocks of two users interleave, no follow is committed while a block is in force
\* (user-relations.service.ts follow and block, on the ordered user locks).
THEOREM FollowRespectsBlockAlways == Spec => FollowRespectsBlock
<1>1. ASSUME IInv, Held, [Next]_vars
      PROVE  [\A e \in follows' \ follows : ~Blocked(blocks, e[1], e[2])]_vars
  <2> SUFFICES ASSUME NEW e \in follows' \ follows PROVE ~Blocked(blocks, e[1], e[2])
    OBVIOUS
  <2>1. ~UNCHANGED follows
    OBVIOUS
  <2>2. Relate
    BY <1>1, <2>1 DEF Next, TipStep, Prepare, Begin, TipLockUser, TipGone, TipLockWallet, SerializationFailure, Refuse,
        Pay, VisitStep, VisitBegin, VisitLock, VisitRefuse, VisitProceed, VisitPay, Close, MakePrivate, Leave, Deactivate,
        NextDay, vars, relVars
  <2>3. PICK b \in Relation : RelCommit(b)
    BY <2>1, <2>2 DEF Relate, RelNext, RelBegin, RelLock, RelRead
  <2>4. permitted[b] /\ RelOf[b].op = "follow" /\ e = <<RelOf[b].actor, RelOf[b].target>>
    BY <2>3 DEF RelCommit
  <2> QED
    BY <1>1, <2>3, <2>4 DEF RelCommit, Held, RelationHolds
<1> QED
  BY <1>1, Always, PTL DEF Spec, FollowRespectsBlock

\* However long a tip's snapshot is open, what it pays is there for its sender and both accounts exist when it commits
\* (economy.service.ts tip: the accounts are read after their locks, and the target's row is locked or updated).
THEOREM PaidTargetIsLiveAlways == Spec => PaidTargetIsLive
<1>1. ASSUME IInv, Held, [Next]_vars
      PROVE  [\A x \in ledger' \ ledger : x.type = "TIP" =>
                 /\ x.content # NoContent =>
                       /\ x.content \in open
                       /\ KindOf[x.content] = "THREAD" => x.from \in audience[x.content]
                 /\ x.from \in active /\ x.to \in active]_vars
  <2> SUFFICES ASSUME NEW x \in ledger' \ ledger, x.type = "TIP"
               PROVE  /\ x.content # NoContent =>
                            /\ x.content \in open
                            /\ KindOf[x.content] = "THREAD" => x.from \in audience[x.content]
                      /\ x.from \in active /\ x.to \in active
    OBVIOUS
  <2>1. PICK r \in Tip : Pay(r)
    <3>1. ASSUME NEW v \in Visit, VisitPay(v) PROVE FALSE
      BY <3>1 DEF VisitPay
    <3>2. ~UNCHANGED ledger
      OBVIOUS
    <3>3. ASSUME NEW r \in Tip, TipStep(r) PROVE Pay(r)
      BY <3>2, <3>3 DEF TipStep, Prepare, Begin, TipLockUser, TipGone, TipLockWallet, SerializationFailure, Refuse,
                        moneyVars
    <3>4. ASSUME NEW v \in Visit, VisitStep(v) PROVE FALSE
      BY <3>1, <3>2, <3>4 DEF VisitStep, VisitBegin, VisitLock, VisitRefuse, VisitProceed, moneyVars
    <3>5. ~Relate /\ ~NextDay /\ ~UNCHANGED vars /\ (\A u \in User : ~Leave(u))
          /\ \A c \in Content : ~Close(c) /\ \A m \in SUBSET User : ~MakePrivate(c, m)
      BY <3>2 DEF Relate, Close, MakePrivate, Leave, NextDay, vars, moneyVars, othersUnchanged
    <3> QED
      BY <1>1, <3>3, <3>4, <3>5 DEF Next
  <2>2. x = TipRow(r) /\ phase[r] = "open" /\ HoldsEverything(r) /\ Outcome(r) = "paid" /\ TargetFresh(r)
    BY <2>1 DEF Pay
  <2>3. Sound(r) /\ UsersOf(r) \subseteq User /\ Sender(r) \in Wallet
    BY <1>1, <2>2, TipParties DEF Held, TipHolds, IInv, TypeOK, RequestTypeOK, WalletsOf
  <2>4. BothActive(r) /\ \A u \in UsersOf(r) : u \notin staleUsers[r]
    BY <2>2, <2>3 DEF Sound, HoldsEverything, HoldsAll, WalletsOf
  <2>5. UsersOf(r) \subseteq active
    BY <2>3, <2>4 DEF Sound, BothActive
  <2>6. \A c \in ContentsOf(r) : c \in open /\ (KindOf[c] = "THREAD" => Sender(r) \in audience[c])
    <3>1. Reachable(r, snap[r].open, snap[r].audience)
      BY <2>2 DEF Outcome
    <3>2. ContentsOf(r) \subseteq Content
      BY <1>1, TipParties DEF IInv, TypeOK, RequestTypeOK
    <3> QED
      BY <2>2, <2>3, <3>1, <3>2 DEF Reachable, Sound, TargetFresh
  <2> QED
    BY <2>2, <2>5, <2>6 DEF TipRow, UsersOf, ContentsOf
<1> QED
  BY <1>1, Always, PTL DEF Spec, PaidTargetIsLive

\* However a tip is sent again and retried, the answer names a committed tip of its key with its payload
\* (economy.service.ts: the replay lookup before and inside the transaction).
THEOREM AnswerIsOwnTipAlways == Spec => []AnswerIsOwnTip
BY Always, PTL

-----------------------------------------------------------------------------
(* The ledger *)

\* A row of the ledger is written by the last step of its request.
RowsAreDone == \A x \in ledger : phase[x.by] = "done"

Books == IsFiniteSet(ledger) /\ RowsAreDone /\ LedgerBalances

\* What the ledger says a content got.
Given(c) == MapThenSumSet(LAMBDA x : x.gross, {x \in TipRows(ledger) : x.content = c})

\* The sums of a ledger that has one row more.
LEMMA Entered ==
    ASSUME ledger \subseteq LedgerRow, IsFiniteSet(ledger), NEW y \in LedgerRow, y \notin ledger,
           ledger' = ledger \union {y}
    PROVE  /\ \A u : Credited(u)' = Credited(u) + (IF y.to = u THEN y.net ELSE 0) /\ Credited(u) \in Int
           /\ \A u : /\ Debited(u)' = Debited(u) + (IF y.type = "TIP" /\ y.from = u THEN y.gross ELSE 0)
                     /\ Debited(u) \in Int
           /\ Fees' = Fees + (IF y.type = "TIP" THEN y.gross - y.net ELSE 0) /\ Fees \in Int
           /\ \A c : /\ Given(c)' = Given(c) + (IF y.type = "TIP" /\ y.content = c THEN y.gross ELSE 0)
                     /\ Given(c) \in Int
<1>1. \A x \in ledger \union {y} : x.net \in Int
  BY DEF LedgerRow
<1>2. \A x \in ledger \union {y} : x.type = "TIP" => x.gross \in Int
  BY DEF LedgerRow
<1>3. IsFiniteSet(ledger')
  BY FS_AddElement
<1>4. ASSUME NEW u
      PROVE  Credited(u)' = Credited(u) + (IF y.to = u THEN y.net ELSE 0) /\ Credited(u) \in Int
  <2> DEFINE rows == {x \in ledger : x.to = u}
             rowsNow == {x \in ledger' : x.to = u}
             w == [x \in rowsNow |-> x.net]
  <2>1. /\ Credited(u) = NetSum(rows)
        /\ Credited(u)' = NetSum(rowsNow)
    BY Zenon DEF Credited, NetSum, MapThenSumSet, MapThenFoldSet
  <2>2. rowsNow \subseteq ledger \union {y} /\ rowsNow \ {y} = rows /\ (y \in rowsNow <=> y.to = u)
    BY DEF TipRows
  <2>3. (\A x \in rowsNow : w[x] = x.net /\ w[x] \in Int) /\ (y.to = u => w[y] = y.net)
    BY <1>1, <1>2, <2>2 DEF TipRows
  <2> HIDE DEF w, rows, rowsNow
  <2>4. /\ IsFiniteSet(rowsNow) /\ IsFiniteSet(rows)
        /\ Total(w, rowsNow) = Total(w, rows) + (IF y \in rowsNow THEN w[y] ELSE 0)
    BY <2>2, <2>3, Picked
  <2>5. Total(w, rows) \in Int
    BY <2>2, <2>3, <2>4, TotalInt
  <2>6. NetSum(rowsNow) = Total(w, rowsNow)
    BY <2>3, <2>4, NetTotal
  <2>7. NetSum(rows) = Total(w, rows)
    BY <2>2, <2>3, <2>4, NetTotal
  <2> QED
    BY <2>1, <2>2, <2>3, <2>4, <2>5, <2>6, <2>7
<1>5. ASSUME NEW u
      PROVE  Debited(u)' = Debited(u) + (IF y.type = "TIP" /\ y.from = u THEN y.gross ELSE 0) /\ Debited(u) \in Int
  <2> DEFINE rows == {x \in TipRows(ledger) : x.from = u}
             rowsNow == {x \in TipRows(ledger') : x.from = u}
             w == [x \in rowsNow |-> x.gross]
  <2>1. /\ Debited(u) = GrossSum(rows)
        /\ Debited(u)' = GrossSum(rowsNow)
    BY Zenon DEF Debited, GrossSum, MapThenSumSet, MapThenFoldSet
  <2>2. rowsNow \subseteq ledger \union {y} /\ rowsNow \ {y} = rows /\ (y \in rowsNow <=> y.type = "TIP" /\ y.from = u)
    BY DEF TipRows
  <2>3. (\A x \in rowsNow : w[x] = x.gross /\ w[x] \in Int) /\ (y.type = "TIP" /\ y.from = u => w[y] = y.gross)
    BY <1>1, <1>2, <2>2 DEF TipRows
  <2> HIDE DEF w, rows, rowsNow
  <2>4. /\ IsFiniteSet(rowsNow) /\ IsFiniteSet(rows)
        /\ Total(w, rowsNow) = Total(w, rows) + (IF y \in rowsNow THEN w[y] ELSE 0)
    BY <2>2, <2>3, Picked
  <2>5. Total(w, rows) \in Int
    BY <2>2, <2>3, <2>4, TotalInt
  <2>6. GrossSum(rowsNow) = Total(w, rowsNow)
    BY <2>3, <2>4, GrossTotal
  <2>7. GrossSum(rows) = Total(w, rows)
    BY <2>2, <2>3, <2>4, GrossTotal
  <2> QED
    BY <2>1, <2>2, <2>3, <2>4, <2>5, <2>6, <2>7
<1>6. Fees' = Fees + (IF y.type = "TIP" THEN y.gross - y.net ELSE 0) /\ Fees \in Int
  <2> DEFINE rows == TipRows(ledger)
             rowsNow == TipRows(ledger')
             w == [x \in rowsNow |-> x.gross - x.net]
  <2>1. /\ Fees = FeeSum(rows)
        /\ Fees' = FeeSum(rowsNow)
    BY Zenon DEF Fees, FeeSum, MapThenSumSet, MapThenFoldSet
  <2>2. rowsNow \subseteq ledger \union {y} /\ rowsNow \ {y} = rows /\ (y \in rowsNow <=> y.type = "TIP")
    BY DEF TipRows
  <2>3. (\A x \in rowsNow : w[x] = x.gross - x.net /\ w[x] \in Int) /\ (y.type = "TIP" => w[y] = y.gross - y.net)
    BY <1>1, <1>2, <2>2 DEF TipRows
  <2> HIDE DEF w, rows, rowsNow
  <2>4. /\ IsFiniteSet(rowsNow) /\ IsFiniteSet(rows)
        /\ Total(w, rowsNow) = Total(w, rows) + (IF y \in rowsNow THEN w[y] ELSE 0)
    BY <2>2, <2>3, Picked
  <2>5. Total(w, rows) \in Int
    BY <2>2, <2>3, <2>4, TotalInt
  <2>6. FeeSum(rowsNow) = Total(w, rowsNow)
    BY <2>3, <2>4, FeeTotal
  <2>7. FeeSum(rows) = Total(w, rows)
    BY <2>2, <2>3, <2>4, FeeTotal
  <2> QED
    BY <2>1, <2>2, <2>3, <2>4, <2>5, <2>6, <2>7
<1>7. ASSUME NEW c
      PROVE  Given(c)' = Given(c) + (IF y.type = "TIP" /\ y.content = c THEN y.gross ELSE 0) /\ Given(c) \in Int
  <2> DEFINE rows == {x \in TipRows(ledger) : x.content = c}
             rowsNow == {x \in TipRows(ledger') : x.content = c}
             w == [x \in rowsNow |-> x.gross]
  <2>1. /\ Given(c) = GrossSum(rows)
        /\ Given(c)' = GrossSum(rowsNow)
    BY Zenon DEF Given, GrossSum, MapThenSumSet, MapThenFoldSet
  <2>2. rowsNow \subseteq ledger \union {y} /\ rowsNow \ {y} = rows /\ (y \in rowsNow <=> y.type = "TIP" /\ y.content = c)
    BY DEF TipRows
  <2>3. (\A x \in rowsNow : w[x] = x.gross /\ w[x] \in Int) /\ (y.type = "TIP" /\ y.content = c => w[y] = y.gross)
    BY <1>1, <1>2, <2>2 DEF TipRows
  <2> HIDE DEF w, rows, rowsNow
  <2>4. /\ IsFiniteSet(rowsNow) /\ IsFiniteSet(rows)
        /\ Total(w, rowsNow) = Total(w, rows) + (IF y \in rowsNow THEN w[y] ELSE 0)
    BY <2>2, <2>3, Picked
  <2>5. Total(w, rows) \in Int
    BY <2>2, <2>3, <2>4, TotalInt
  <2>6. GrossSum(rowsNow) = Total(w, rowsNow)
    BY <2>3, <2>4, GrossTotal
  <2>7. GrossSum(rows) = Total(w, rows)
    BY <2>2, <2>3, <2>4, GrossTotal
  <2> QED
    BY <2>1, <2>2, <2>3, <2>4, <2>5, <2>6, <2>7
<1> QED
  BY <1>4, <1>5, <1>6, <1>7

\* The sums of a ledger that stays as it is.
LEMMA Kept ==
    ASSUME ledger' = ledger
    PROVE  /\ \A u : Credited(u)' = Credited(u) /\ Debited(u)' = Debited(u)
           /\ Fees' = Fees
           /\ \A c : Given(c)' = Given(c)
<1>1. ASSUME NEW u
      PROVE  Credited(u)' = Credited(u)
  <2>1. /\ Credited(u) = NetSum({x \in ledger : x.to = u})
        /\ Credited(u)' = NetSum({x \in ledger' : x.to = u})
    BY Zenon DEF Credited, NetSum, MapThenSumSet, MapThenFoldSet
  <2> QED
    BY <2>1
<1>2. ASSUME NEW u
      PROVE  Debited(u)' = Debited(u)
  <2>1. /\ Debited(u) = GrossSum({x \in TipRows(ledger) : x.from = u})
        /\ Debited(u)' = GrossSum({x \in TipRows(ledger') : x.from = u})
    BY Zenon DEF Debited, GrossSum, MapThenSumSet, MapThenFoldSet
  <2> QED
    BY <2>1
<1>3. Fees' = Fees
  <2>1. /\ Fees = FeeSum(TipRows(ledger))
        /\ Fees' = FeeSum(TipRows(ledger'))
    BY Zenon DEF Fees, FeeSum, MapThenSumSet, MapThenFoldSet
  <2> QED
    BY <2>1
<1>4. ASSUME NEW c
      PROVE  Given(c)' = Given(c)
  <2>1. /\ Given(c) = GrossSum({x \in TipRows(ledger) : x.content = c})
        /\ Given(c)' = GrossSum({x \in TipRows(ledger') : x.content = c})
    BY Zenon DEF Given, GrossSum, MapThenSumSet, MapThenFoldSet
  <2> QED
    BY <2>1
<1> QED
  BY <1>1, <1>2, <1>3, <1>4, Zenon

\* The books balance when nothing was entered.
LEMMA EmptyBooks ==
    ASSUME ledger = {}
    PROVE  /\ \A u : Credited(u) = 0 /\ Debited(u) = 0
           /\ Fees = 0
           /\ \A c : Given(c) = 0
<1>1. NetSum({}) = 0 /\ GrossSum({}) = 0 /\ FeeSum({}) = 0
  BY FS_EmptySet, NetTotal, GrossTotal, FeeTotal, TotalOfNone
<1>2. ASSUME NEW u
      PROVE  Credited(u) = 0 /\ Debited(u) = 0 /\ Given(u) = 0
  <2>1. /\ Credited(u) = NetSum({x \in ledger : x.to = u})
        /\ Debited(u) = GrossSum({x \in TipRows(ledger) : x.from = u})
        /\ Given(u) = GrossSum({x \in TipRows(ledger) : x.content = u})
    BY Zenon DEF Credited, Debited, Given, NetSum, GrossSum
  <2>2. /\ {x \in ledger : x.to = u} = {}
        /\ {x \in TipRows(ledger) : x.from = u} = {}
        /\ {x \in TipRows(ledger) : x.content = u} = {}
    BY DEF TipRows
  <2> QED
    BY <1>1, <2>1, <2>2
<1>3. Fees = 0
  <2>1. Fees = FeeSum(TipRows(ledger))
    BY Zenon DEF Fees, FeeSum
  <2>2. TipRows(ledger) = {}
    BY DEF TipRows
  <2> QED
    BY <1>1, <2>1, <2>2
<1> QED
  BY <1>2, <1>3

\* Done is the last phase of a request, and only the two payments touch the books.
LEMMA BooksTouched ==
    ASSUME TypeOK, [Next]_vars
    PROVE  /\ \A t \in Tip \union Visit : phase[t] = "done" => phase'[t] = "done"
           /\ \/ UNCHANGED <<balance, ledger, tipTotal>>
              \/ \E r \in Tip : Pay(r)
              \/ \E v \in Visit : VisitPay(v)
<1>0. phase \in [Tip \union Visit -> {"new", "ready", "open", "decided", "done"}]
  BY DEF TypeOK, RequestTypeOK
<1> USE DEF moneyVars, reqVars, othersUnchanged
<1>1. ASSUME NEW r \in Tip, TipStep(r) PROVE \A t \in Tip \union Visit : phase[t] = "done" => phase'[t] = "done"
  BY <1>0, <1>1 DEF TipStep, Prepare, Begin, TipLockUser, TipGone, TipLockWallet, SerializationFailure, Refuse,
                    Pay, Finish
<1>2. ASSUME NEW r \in Tip, TipStep(r) PROVE UNCHANGED <<balance, ledger, tipTotal>> \/ Pay(r)
  BY <1>2 DEF TipStep, Prepare, Begin, TipLockUser, TipGone, TipLockWallet, SerializationFailure, Refuse
<1>3. ASSUME NEW v \in Visit, VisitStep(v) PROVE \A t \in Tip \union Visit : phase[t] = "done" => phase'[t] = "done"
  BY <1>0, <1>3 DEF VisitStep, VisitBegin, VisitLock, VisitRefuse, VisitProceed, VisitPay, Finish
<1>4. ASSUME NEW v \in Visit, VisitStep(v) PROVE UNCHANGED <<balance, ledger, tipTotal>> \/ VisitPay(v)
  BY <1>4 DEF VisitStep, VisitBegin, VisitLock, VisitRefuse, VisitProceed
<1>5. CASE \/ Relate \/ NextDay \/ UNCHANGED vars
           \/ \E c \in Content : Close(c) \/ \E m \in SUBSET User : MakePrivate(c, m)
           \/ \E u \in User : Leave(u)
  BY <1>5 DEF Relate, NextDay, Close, MakePrivate, Leave, vars
<1> QED
  BY <1>1, <1>2, <1>3, <1>4, <1>5 DEF Next

\* What the balances are, in terms of the four sums.
LEMMA BooksSay ==
    /\ LedgerBalances <=> /\ \A u \in User : balance[u] = Funds[u] + Credited(u) - Debited(u)
                          /\ balance[Platform] = Funds[Platform] + Fees
                          /\ \A c \in Content : tipTotal[c] = Given(c)
    /\ LedgerBalances' <=> /\ \A u \in User : balance'[u] = Funds[u] + Credited(u)' - Debited(u)'
                           /\ balance'[Platform] = Funds[Platform] + Fees'
                           /\ \A c \in Content : tipTotal'[c] = Given(c)'
BY Zenon DEF LedgerBalances, Given

\* A payment enters one row and moves exactly what the row says.
LEMMA NextBooks == IInv /\ Books /\ [Next]_vars => Books'
<1> SUFFICES ASSUME IInv, Books, [Next]_vars
             PROVE  Books'
  OBVIOUS
<1>0. /\ TypeOK /\ NotSelf /\ RequestTypeOK /\ MoneyTypeOK
      /\ IsFiniteSet(ledger) /\ RowsAreDone /\ LedgerBalances
      /\ ledger \subseteq LedgerRow /\ balance \in [Wallet -> Nat] /\ tipTotal \in [Content -> Nat]
      /\ phase \in [Tip \union Visit -> {"new", "ready", "open", "decided", "done"}]
      /\ \A u \in User : u \in Wallet /\ u # Platform
      /\ Platform \in Wallet
  BY DEF IInv, Books, TypeOK, RequestTypeOK, MoneyTypeOK, Wallet
<1>f. \A w \in Wallet : Funds[w] \in Nat
  OBVIOUS
<1>d. \A x \in ledger : phase'[x.by] = "done"
  BY <1>0, BooksTouched DEF RowsAreDone, LedgerRow
<1>1. CASE UNCHANGED <<balance, ledger, tipTotal>>
  <2>1. IsFiniteSet(ledger') /\ RowsAreDone'
    BY <1>0, <1>1, <1>d DEF RowsAreDone
  <2>2. /\ \A u : Credited(u)' = Credited(u) /\ Debited(u)' = Debited(u)
        /\ Fees' = Fees
        /\ \A c : Given(c)' = Given(c)
    BY <1>1, Kept, Zenon
  <2>3. LedgerBalances'
    BY <1>0, <1>1, <2>2, BooksSay, Zenon
  <2> QED
    BY <2>1, <2>3, Zenon DEF Books
<1>2. ASSUME NEW r \in Tip, Pay(r)
      PROVE  Books'
  <2> DEFINE y == TipRow(r)
             gross == tips[r].amount
             s == Sender(r)
             t == Recipient(r)
  <2>1. /\ s \in User /\ t \in User /\ s # t /\ gross \in Nat
        /\ tips[r].key \in Nat /\ tips[r].content \in Content \union {NoContent}
        /\ RecipientShare(gross) \in Nat
    BY <1>0, <1>2, TipParties, ShareBound DEF NotSelf, Pay, RequestTypeOK, TipRequest
  <2>2. y \in LedgerRow /\ y.by = r /\ y.type = "TIP" /\ y.from = s /\ y.to = t
        /\ y.content = tips[r].content /\ y.gross = gross /\ y.net = RecipientShare(gross)
    BY <2>1 DEF LedgerRow, TipRow
  <2>3. ledger' = ledger \union {y} /\ phase[r] = "open" /\ phase'[r] = "done"
    BY <1>0, <1>2 DEF Pay, Finish
  <2>4. y \notin ledger
    BY <1>0, <2>2, <2>3 DEF RowsAreDone
  <2>5. /\ balance' = Transfer(balance, s, t, gross)
        /\ tipTotal' = [c \in Content |-> IF c \in ContentsOf(r) THEN tipTotal[c] + gross ELSE tipTotal[c]]
    BY <1>2 DEF Pay
  <2> HIDE DEF y, gross, s, t
  <2>6. /\ \A u : Credited(u)' = Credited(u) + (IF y.to = u THEN y.net ELSE 0) /\ Credited(u) \in Int
        /\ \A u : /\ Debited(u)' = Debited(u) + (IF y.type = "TIP" /\ y.from = u THEN y.gross ELSE 0)
                  /\ Debited(u) \in Int
        /\ Fees' = Fees + (IF y.type = "TIP" THEN y.gross - y.net ELSE 0) /\ Fees \in Int
        /\ \A c : /\ Given(c)' = Given(c) + (IF y.type = "TIP" /\ y.content = c THEN y.gross ELSE 0)
                  /\ Given(c) \in Int
    BY <1>0, <2>2, <2>3, <2>4, Entered
  <2>7. IsFiniteSet(ledger') /\ RowsAreDone'
    <3>1. IsFiniteSet(ledger')
      BY <1>0, <2>3, FS_AddElement
    <3>2. \A x \in ledger' : phase'[x.by] = "done"
      BY <1>d, <2>2, <2>3
    <3> QED
      BY <3>1, <3>2 DEF RowsAreDone
  <2>8. \A u \in User : balance'[u] = Funds[u] + Credited(u)' - Debited(u)'
    <3>1. ASSUME NEW u \in User
          PROVE  balance'[u] = balance[u] + (IF t = u THEN RecipientShare(gross) ELSE 0) - (IF s = u THEN gross ELSE 0)
      BY <1>0, <2>1, <2>5 DEF Transfer
    <3>2. ASSUME NEW u \in User
          PROVE  balance[u] = Funds[u] + Credited(u) - Debited(u)
      BY <1>0, BooksSay, Zenon
    <3>3. ASSUME NEW u \in User
          PROVE  balance'[u] = Funds[u] + Credited(u)' - Debited(u)'
      <4>1. /\ Credited(u)' = Credited(u) + (IF t = u THEN RecipientShare(gross) ELSE 0) /\ Credited(u) \in Int
            /\ Debited(u)' = Debited(u) + (IF s = u THEN gross ELSE 0) /\ Debited(u) \in Int
        BY <2>2, <2>6
      <4> QED
        BY <1>0, <1>f, <2>1, <3>1, <3>2, <4>1
    <3> QED
      BY <3>3
  <2>9. balance'[Platform] = Funds[Platform] + Fees'
    <3>1. balance'[Platform] = balance[Platform] + gross - RecipientShare(gross)
      BY <1>0, <2>1, <2>5 DEF Transfer
    <3>2. balance[Platform] = Funds[Platform] + Fees
      BY <1>0, BooksSay, Zenon
    <3>3. Fees' = Fees + (gross - RecipientShare(gross)) /\ Fees \in Int
      BY <2>2, <2>6
    <3> QED
      BY <1>0, <1>f, <2>1, <3>1, <3>2, <3>3
  <2>10. \A c \in Content : tipTotal'[c] = Given(c)'
    <3>1. ASSUME NEW c \in Content
          PROVE  tipTotal[c] = Given(c)
      BY <1>0, BooksSay, Zenon
    <3>2. ASSUME NEW c \in Content
          PROVE  tipTotal'[c] = tipTotal[c] + (IF y.content = c THEN gross ELSE 0)
      BY <1>0, <2>1, <2>2, <2>5 DEF ContentsOf, NoContent
    <3>3. ASSUME NEW c \in Content
          PROVE  Given(c)' = Given(c) + (IF y.content = c THEN gross ELSE 0)
      BY <2>2, <2>6
    <3> QED
      BY <3>1, <3>2, <3>3
  <2>11. LedgerBalances'
    BY <2>8, <2>9, <2>10, BooksSay, Zenon
  <2> QED
    BY <2>7, <2>11, Zenon DEF Books
<1>3. ASSUME NEW v \in Visit, VisitPay(v)
      PROVE  Books'
  <2> DEFINE u == VisitorOf[v]
  <2>1. PICK reward \in Rewards :
          /\ balance' = [balance EXCEPT ![u] = @ + reward]
          /\ ledger' = ledger \union {[type |-> "DAILY_CHECK_IN", by |-> v, to |-> u,
                                       net |-> reward, day |-> dayOf[v]]}
    BY <1>3 DEF VisitPay
  <2> DEFINE y == [type |-> "DAILY_CHECK_IN", by |-> v, to |-> u, net |-> reward, day |-> dayOf[v]]
  <2>2. /\ y \in LedgerRow /\ y.by = v /\ y.type = "DAILY_CHECK_IN" /\ y.to = u /\ y.net = reward
        /\ reward \in Nat /\ u \in User
    BY <1>0 DEF LedgerRow, RequestTypeOK
  <2>3. /\ phase[v] = "decided" /\ phase'[v] = "done" /\ tipTotal' = tipTotal
        /\ ledger' = ledger \union {y}
    BY <1>0, <1>3, <2>1 DEF VisitPay, Finish
  <2> HIDE DEF y
  <2>4. y \notin ledger
    BY <1>0, <2>2, <2>3 DEF RowsAreDone
  <2>5. /\ \A w : Credited(w)' = Credited(w) + (IF y.to = w THEN y.net ELSE 0) /\ Credited(w) \in Int
        /\ \A w : /\ Debited(w)' = Debited(w) + (IF y.type = "TIP" /\ y.from = w THEN y.gross ELSE 0)
                  /\ Debited(w) \in Int
        /\ Fees' = Fees + (IF y.type = "TIP" THEN y.gross - y.net ELSE 0) /\ Fees \in Int
        /\ \A c : /\ Given(c)' = Given(c) + (IF y.type = "TIP" /\ y.content = c THEN y.gross ELSE 0)
                  /\ Given(c) \in Int
    BY <1>0, <2>2, <2>3, <2>4, Entered
  <2>6. IsFiniteSet(ledger') /\ RowsAreDone'
    <3>1. IsFiniteSet(ledger')
      BY <1>0, <2>3, FS_AddElement
    <3>2. \A x \in ledger' : phase'[x.by] = "done"
      BY <1>d, <2>2, <2>3
    <3> QED
      BY <3>1, <3>2 DEF RowsAreDone
  <2>7. \A w \in User : balance'[w] = Funds[w] + Credited(w)' - Debited(w)'
    <3>1. ASSUME NEW w \in User
          PROVE  balance'[w] = balance[w] + (IF u = w THEN reward ELSE 0)
      BY <1>0, <2>1, <2>2
    <3>2. ASSUME NEW w \in User
          PROVE  balance[w] = Funds[w] + Credited(w) - Debited(w)
      BY <1>0, BooksSay, Zenon
    <3>3. ASSUME NEW w \in User
          PROVE  balance'[w] = Funds[w] + Credited(w)' - Debited(w)'
      <4>1. /\ Credited(w)' = Credited(w) + (IF u = w THEN reward ELSE 0) /\ Credited(w) \in Int
            /\ Debited(w)' = Debited(w) + 0 /\ Debited(w) \in Int
        BY <2>2, <2>5
      <4> QED
        BY <1>0, <1>f, <2>2, <3>1, <3>2, <4>1
    <3> QED
      BY <3>3
  <2>8. balance'[Platform] = Funds[Platform] + Fees'
    <3>1. balance'[Platform] = balance[Platform]
      BY <1>0, <2>1, <2>2
    <3>2. balance[Platform] = Funds[Platform] + Fees
      BY <1>0, BooksSay, Zenon
    <3>3. Fees' = Fees + 0 /\ Fees \in Int
      BY <2>2, <2>5
    <3> QED
      BY <3>1, <3>2, <3>3
  <2>9. \A c \in Content : tipTotal'[c] = Given(c)'
    <3>1. ASSUME NEW c \in Content
          PROVE  tipTotal[c] = Given(c)
      BY <1>0, BooksSay, Zenon
    <3>2. ASSUME NEW c \in Content
          PROVE  Given(c)' = Given(c) + 0 /\ Given(c) \in Int
      BY <2>2, <2>5
    <3> QED
      BY <2>3, <3>1, <3>2
  <2>10. LedgerBalances'
    BY <2>7, <2>8, <2>9, BooksSay, Zenon
  <2> QED
    BY <2>6, <2>10, Zenon DEF Books
<1> QED
  BY <1>0, <1>1, <1>2, <1>3, BooksTouched

\* Nothing is entered at first.
LEMMA InitBooks == Init => Books
<1> SUFFICES ASSUME Init
             PROVE  Books
  OBVIOUS
<1>1. ledger = {} /\ balance = Funds /\ tipTotal = [c \in Content |-> 0]
  BY DEF Init
<1>2. IsFiniteSet(ledger) /\ RowsAreDone
  BY <1>1, FS_EmptySet DEF RowsAreDone
<1>3. \A u \in User : balance[u] = Funds[u] + Credited(u) - Debited(u)
  BY <1>1, EmptyBooks DEF Wallet
<1>4. balance[Platform] = Funds[Platform] + Fees
  BY <1>1, EmptyBooks DEF Wallet
<1>5. \A c \in Content : tipTotal[c] = Given(c)
  BY <1>1, EmptyBooks
<1> QED
  BY <1>2, <1>3, <1>4, <1>5, BooksSay, Zenon DEF Books

\* Every wallet holds its opening funds plus what the ledger says it got minus what
\* it gave, the platform its fees, and every content shows the sum of its tips,
\* whichever tips and check-ins run at the same time and however often they are
\* retried: economy.service.ts writes the balances and the row in one transaction.
THEOREM LedgerBalancesAlways == Spec => []LedgerBalances
<1>1. IInv /\ Books /\ [Next]_vars => Books'
  BY NextBooks
<1>2. Books => LedgerBalances
  BY DEF Books
<1> QED
  BY <1>1, <1>2, InitBooks, Invariance, PTL DEF Spec

-----------------------------------------------------------------------------
(* The order of the locks *)

\* The users a transaction locks.
Rows(t) == IF t \in Tip THEN UsersOf(t) ELSE IF t \in Visit THEN {VisitorOf[t]} ELSE Pair(t)

\* Whoever holds a user holds all of his users with smaller ids.
UsersInOrder ==
    \A t \in Holder, u \in User : userLock[u] = t => \A v \in Rows(t) : v < u => userLock[v] = t

\* Whoever holds a wallet is a tip that holds all of its users, and all of its wallets
\* that come before.
WalletsInOrder ==
    \A t \in Holder, w \in Wallet : walletLock[w] = t =>
        /\ t \in Tip /\ HoldsAll(UsersOf(t), userLock, t)
        /\ \A v \in WalletsOf(t) : WalletRank[v] < WalletRank[w] => walletLock[v] = t

\* COMMIT or ROLLBACK: all locks of a transaction go.
ReleaseAll(t) ==
    /\ ReleaseUsers(t)
    /\ walletLock' = [w \in Wallet |-> IF walletLock[w] = t THEN NoTxn ELSE walletLock[w]]

\* A transaction takes the next of its users.
TakesUser(t) == \E u \in User : LockUser(t, Rows(t), u)

\* What a step does to the locks.
LockEffect ==
    \/ UNCHANGED <<userLock, walletLock>>
    \/ \E t \in Holder : TakesUser(t) /\ UNCHANGED walletLock
    \/ \E r \in Tip : TipLockWallet(r)
    \/ \E t \in Holder : ReleaseAll(t)

\* Every step does one of these, and none changes what a tip asks for.
LEMMA LockSteps ==
    ASSUME TypeOK, WalletsInOrder, [Next]_vars
    PROVE  tips' = tips /\ LockEffect
<1>0. /\ userLock \in [User -> Holder \union {NoTxn}] /\ walletLock \in [Wallet -> Holder \union {NoTxn}]
      /\ \A r \in Tip : UsersOf(r) \subseteq User /\ Rows(r) = UsersOf(r)
      /\ \A v \in Visit : VisitorOf[v] \in User /\ Rows(v) = {VisitorOf[v]}
      /\ \A b \in Relation : Pair(b) \subseteq User /\ Rows(b) = Pair(b)
  BY TipParties DEF TypeOK, RelTypeOK, RequestTypeOK, TransactionTypeOK, Rows, Pair
<1>w. \A t \in Holder \ Tip : walletLock = [w \in Wallet |-> IF walletLock[w] = t THEN NoTxn ELSE walletLock[w]]
  BY <1>0 DEF WalletsInOrder
<1>t. tips' = tips
  BY DEF Next, TipStep, Prepare, Begin, TipLockUser, TipGone, TipLockWallet, SerializationFailure, Refuse, Pay,
         VisitStep, VisitBegin, VisitLock, VisitRefuse, VisitProceed, VisitPay, Relate, NextDay, Close, MakePrivate,
         Leave, vars, reqVars, othersUnchanged
<1>1. ASSUME NEW r \in Tip, TipStep(r) PROVE LockEffect
  <2>1. CASE Prepare(r) \/ Begin(r)
    BY <2>1 DEF Prepare, Begin, relVars, LockEffect
  <2>2. CASE TipLockUser(r)
    <3>1. PICK u \in UsersOf(r) : LockUser(r, UsersOf(r), u)
      BY <2>2 DEF TipLockUser
    <3>2. LockUser(r, Rows(r), u) /\ u \in User
      BY <1>0, <3>1, Zenon
    <3>3. r \in Holder /\ UNCHANGED walletLock
      BY <2>2 DEF TipLockUser
    <3> QED
      BY <3>2, <3>3, Zenon DEF LockEffect, TakesUser
  <2>3. CASE TipGone(r) \/ SerializationFailure(r) \/ Refuse(r) \/ Pay(r)
    <3>1. ReleaseAll(r) /\ r \in Holder
      BY <2>3 DEF TipGone, SerializationFailure, Refuse, Pay, EndTransaction, ReleaseAll
    <3> QED
      BY <3>1 DEF LockEffect
  <2>4. CASE TipLockWallet(r)
    BY <2>4 DEF LockEffect
  <2> QED
    BY <1>1, <2>1, <2>2, <2>3, <2>4 DEF TipStep
<1>2. ASSUME NEW v \in Visit, VisitStep(v) PROVE LockEffect
  <2>0. v \in Holder \ Tip
    OBVIOUS
  <2>1. CASE VisitBegin(v) \/ VisitProceed(v)
    BY <2>1 DEF VisitBegin, VisitProceed, relVars, LockEffect
  <2>2. CASE VisitLock(v)
    <3>1. LockUser(v, Rows(v), VisitorOf[v]) /\ UNCHANGED walletLock
      BY <1>0, <2>2, Zenon DEF VisitLock
    <3>2. TakesUser(v)
      BY <1>0, <3>1, Zenon DEF TakesUser
    <3> QED
      BY <2>0, <3>1, <3>2 DEF LockEffect
  <2>3. CASE VisitRefuse(v) \/ VisitPay(v)
    <3>1. ReleaseAll(v)
      BY <1>w, <2>0, <2>3 DEF VisitRefuse, VisitPay, ReleaseAll
    <3> QED
      BY <2>0, <3>1 DEF LockEffect
  <2> QED
    BY <1>2, <2>1, <2>2, <2>3 DEF VisitStep
<1>3. ASSUME Relate PROVE LockEffect
  <2>1. PICK b \in Relation : RelBegin(b) \/ RelLock(b) \/ RelRead(b) \/ RelCommit(b)
    BY <1>3 DEF Relate, RelNext
  <2>2. b \in Holder \ Tip /\ walletLock' = walletLock
    BY <1>3 DEF Relate, othersUnchanged
  <2>3. CASE RelBegin(b) \/ RelRead(b)
    BY <2>2, <2>3 DEF RelBegin, RelRead, LockEffect
  <2>4. CASE RelLock(b)
    <3>1. PICK u \in Pair(b) : LockUser(b, Pair(b), u)
      BY <2>4 DEF RelLock
    <3>2. LockUser(b, Rows(b), u) /\ u \in User
      BY <1>0, <3>1, Zenon
    <3>3. TakesUser(b)
      BY <3>2, Zenon DEF TakesUser
    <3> QED
      BY <2>2, <3>3 DEF LockEffect
  <2>5. CASE RelCommit(b)
    <3>1. ReleaseAll(b)
      BY <1>w, <2>2, <2>5 DEF RelCommit, ReleaseAll
    <3> QED
      BY <2>2, <3>1 DEF LockEffect
  <2> QED
    BY <2>1, <2>3, <2>4, <2>5
<1>4. ASSUME \/ NextDay \/ UNCHANGED vars
             \/ \E c \in Content : Close(c) \/ \E m \in SUBSET User : MakePrivate(c, m)
             \/ \E u \in User : Leave(u)
      PROVE  LockEffect
  BY <1>4 DEF NextDay, Close, MakePrivate, Leave, Deactivate, vars, relVars, othersUnchanged, LockEffect
<1> QED
  BY <1>t, <1>1, <1>2, <1>3, <1>4 DEF Next

\* Every transaction takes its rows in order and lets go of all of them at once.
LEMMA NextInOrder ==
    TypeOK /\ UsersInOrder /\ WalletsInOrder /\ [Next]_vars => UsersInOrder' /\ WalletsInOrder'
<1> SUFFICES ASSUME TypeOK, UsersInOrder, WalletsInOrder, [Next]_vars
             PROVE  UsersInOrder' /\ WalletsInOrder'
  OBVIOUS
<1>0. /\ userLock \in [User -> Holder \union {NoTxn}] /\ walletLock \in [Wallet -> Holder \union {NoTxn}]
      /\ \A r \in Tip : UsersOf(r) \subseteq User /\ WalletsOf(r) \subseteq Wallet
      /\ \A t \in Holder : Rows(t) \subseteq User
      /\ \A w \in Wallet : WalletRank[w] \in Nat
  BY TipParties DEF TypeOK, RelTypeOK, RequestTypeOK, TransactionTypeOK, Rows, Pair
<1>t. /\ \A t \in Holder : Rows(t)' = Rows(t)
      /\ \A r \in Tip : UsersOf(r)' = UsersOf(r) /\ WalletsOf(r)' = WalletsOf(r)
  BY LockSteps DEF Rows, UsersOf, WalletsOf, Sender, Recipient, Pair
<1>1. CASE UNCHANGED <<userLock, walletLock>>
  BY <1>t, <1>1 DEF UsersInOrder, WalletsInOrder, HoldsAll
<1>2. ASSUME NEW t \in Holder, NEW u \in User, LockUser(t, Rows(t), u), UNCHANGED walletLock
      PROVE  UsersInOrder' /\ WalletsInOrder'
  <2>1. /\ userLock[u] = NoTxn /\ userLock' = [userLock EXCEPT ![u] = t]
        /\ \A v \in Rows(t) : userLock[v] # t => u <= v
    BY <1>2 DEF LockUser, LeastFree
  <2>2. ASSUME NEW s \in Holder, NEW v \in User, userLock'[v] = s, NEW x \in Rows(s), x < v
        PROVE  userLock'[x] = s
    <3>1. CASE v = u
      <4>1. s = t
        BY <1>0, <2>1, <2>2, <3>1
      <4>2. u \in Nat /\ x \in Nat /\ x < u /\ x \in Rows(t)
        BY <1>0, <2>2, <3>1, <4>1
      <4>3. userLock[x] = t
        BY <2>1, <4>2
      <4> QED
        BY <1>0, <2>1, <4>1, <4>2, <4>3
    <3>2. CASE v # u
      <4>1. userLock[v] = s
        BY <1>0, <2>1, <2>2, <3>2
      <4>2. userLock[x] = s
        BY <2>2, <4>1 DEF UsersInOrder
      <4> QED
        BY <1>0, <2>1, <4>2
    <3> QED
      BY <3>1, <3>2
  <2>3. UsersInOrder'
    BY <1>t, <2>2 DEF UsersInOrder
  <2>4. \A r \in Tip : HoldsAll(UsersOf(r), userLock, r) => HoldsAll(UsersOf(r), userLock', r)
    BY <1>0, <2>1 DEF HoldsAll
  <2>5. WalletsInOrder'
    BY <1>t, <1>2, <2>4 DEF WalletsInOrder, HoldsAll
  <2> QED
    BY <2>3, <2>5
<1>3. ASSUME NEW r \in Tip, TipLockWallet(r)
      PROVE  UsersInOrder' /\ WalletsInOrder'
  <2>1. HoldsAll(UsersOf(r), userLock, r) /\ userLock' = userLock
    BY <1>3 DEF TipLockWallet, relVars
  <2>2. PICK w \in WalletsOf(r) : /\ NextWallet(r, w) /\ walletLock[w] = NoTxn
                                  /\ walletLock' = [walletLock EXCEPT ![w] = r]
    BY <1>3 DEF TipLockWallet
  <2>3. UsersInOrder'
    BY <1>t, <2>1 DEF UsersInOrder
  <2>4. ASSUME NEW s \in Holder, NEW v \in Wallet, walletLock'[v] = s
        PROVE  /\ s \in Tip /\ HoldsAll(UsersOf(s), userLock, s)
               /\ \A x \in WalletsOf(s) : WalletRank[x] < WalletRank[v] => walletLock'[x] = s
    <3>1. CASE v = w
      <4>1. s = r /\ w \in Wallet
        BY <1>0, <2>2, <2>4, <3>1
      <4>2. ASSUME NEW x \in WalletsOf(r), WalletRank[x] < WalletRank[w]
            PROVE  walletLock[x] = r
        BY <1>0, <2>2, <4>1, <4>2 DEF NextWallet
      <4> QED
        BY <1>0, <2>1, <2>2, <3>1, <4>1, <4>2
    <3>2. CASE v # w
      <4>1. walletLock[v] = s
        BY <1>0, <2>2, <2>4, <3>2
      <4>2. /\ s \in Tip /\ HoldsAll(UsersOf(s), userLock, s)
            /\ \A x \in WalletsOf(s) : WalletRank[x] < WalletRank[v] => walletLock[x] = s
        BY <4>1 DEF WalletsInOrder
      <4> QED
        BY <1>0, <2>2, <4>2
    <3> QED
      BY <3>1, <3>2
  <2>5. WalletsInOrder'
    BY <1>t, <2>1, <2>4 DEF WalletsInOrder, HoldsAll
  <2> QED
    BY <2>3, <2>5
<1>4. ASSUME NEW t \in Holder, ReleaseAll(t)
      PROVE  UsersInOrder' /\ WalletsInOrder'
  <2>1. /\ \A s \in Holder, u \in User : userLock'[u] = s <=> s # t /\ userLock[u] = s
        /\ \A s \in Holder, w \in Wallet : walletLock'[w] = s <=> s # t /\ walletLock[w] = s
    <3>1. /\ userLock' = [u \in User |-> IF userLock[u] = t THEN NoTxn ELSE userLock[u]]
          /\ walletLock' = [w \in Wallet |-> IF walletLock[w] = t THEN NoTxn ELSE walletLock[w]]
          /\ NoTxn \notin Holder
      BY <1>4 DEF ReleaseAll, ReleaseUsers
    <3>2. \A s \in Holder, u \in User : userLock'[u] = s <=> s # t /\ userLock[u] = s
      BY <3>1
    <3>3. \A s \in Holder, w \in Wallet : walletLock'[w] = s <=> s # t /\ walletLock[w] = s
      BY <3>1
    <3> QED
      BY <3>2, <3>3
  <2>2. UsersInOrder'
    <3>1. ASSUME NEW s \in Holder, NEW u \in User, userLock'[u] = s, NEW v \in Rows(s), v < u
          PROVE  userLock'[v] = s
      <4>1. s # t /\ userLock[u] = s /\ v \in User
        BY <1>0, <2>1, <3>1
      <4>2. userLock[v] = s
        BY <3>1, <4>1 DEF UsersInOrder
      <4> QED
        BY <2>1, <4>1, <4>2
    <3>2. ASSUME NEW s \in Holder, NEW u \in User, userLock'[u] = s
          PROVE  \A v \in Rows(s)' : v < u => userLock'[v] = s
      <4>1. \A v \in Rows(s) : v < u => userLock'[v] = s
        BY <3>1, <3>2
      <4>2. Rows(s)' = Rows(s)
        BY <1>t
      <4> QED
        BY <4>1, <4>2, Zenon
    <3> QED
      BY <3>2, Zenon DEF UsersInOrder
  <2>3. \A s \in Holder, w \in Wallet : walletLock'[w] = s =>
          /\ s \in Tip /\ HoldsAll(UsersOf(s), userLock', s)
          /\ \A v \in WalletsOf(s) : WalletRank[v] < WalletRank[w] => walletLock'[v] = s
    <3>1. ASSUME NEW s \in Holder, NEW w \in Wallet, walletLock'[w] = s
          PROVE  /\ s # t /\ s \in Tip
                 /\ \A u \in UsersOf(s) : userLock[u] = s
                 /\ \A v \in WalletsOf(s) : WalletRank[v] < WalletRank[w] => walletLock[v] = s
      BY <2>1, <3>1 DEF WalletsInOrder, HoldsAll
    <3>2. ASSUME NEW s \in Holder, NEW w \in Wallet, walletLock'[w] = s
          PROVE  s \in Tip /\ HoldsAll(UsersOf(s), userLock', s)
      <4>1. s \in Tip /\ s # t /\ \A u \in UsersOf(s) : userLock[u] = s
        BY <3>1, <3>2
      <4> QED
        BY <1>0, <2>1, <4>1 DEF HoldsAll
    <3>3. ASSUME NEW s \in Holder, NEW w \in Wallet, walletLock'[w] = s,
                 NEW v \in WalletsOf(s), WalletRank[v] < WalletRank[w]
          PROVE  walletLock'[v] = s
      <4>1. s \in Tip /\ s # t /\ walletLock[v] = s
        BY <3>1, <3>3
      <4> QED
        BY <1>0, <2>1, <4>1
    <3> QED
      BY <3>2, <3>3
  <2>4. WalletsInOrder'
    BY <1>t, <2>3 DEF WalletsInOrder, HoldsAll
  <2> QED
    BY <2>2, <2>4
<1> QED
  BY <1>1, <1>2, <1>3, <1>4, LockSteps DEF LockEffect, TakesUser

\* Of finitely many rows one is the last in their order.
LEMMA Last ==
    ASSUME NEW W, IsFiniteSet(W), NEW rank \in [W -> Nat], NEW T \in SUBSET W, T # {}
    PROVE  \E w \in T : \A v \in T : rank[v] <= rank[w]
<1> DEFINE Above(w) == {v \in T : rank[w] < rank[v]}
           A == {Above(w) : w \in T}
<1>0. IsFiniteSet(T)
  BY FS_Subset
<1>1. A \in SUBSET FiniteSubsetsOf(T) /\ A # {}
  <2>1. ASSUME NEW w \in T
        PROVE  IsFiniteSet(Above(w)) /\ Above(w) \in SUBSET T
    BY <1>0, FS_Subset
  <2> HIDE DEF Above
  <2> QED
    BY <2>1 DEF FiniteSubsetsOf
<1> HIDE DEF A
<1>2. \E s \in A : \A r \in A : r \subseteq s => r = s
  BY <1>1, Least, SMT
<1>3. PICK w \in T : \A v \in T : Above(v) \subseteq Above(w) => Above(v) = Above(w)
  <2>1. PICK s \in A : \A r \in A : r \subseteq s => r = s
    BY <1>2
  <2>2. PICK w \in T : s = Above(w)
    BY DEF A
  <2>3. \A v \in T : Above(v) \in A
    BY DEF A
  <2> HIDE DEF Above
  <2> QED
    BY <2>1, <2>2, <2>3
<1>4. ASSUME NEW v \in T, rank[w] < rank[v]
      PROVE  FALSE
  <2>1. Above(v) \subseteq Above(w)
    BY <1>4
  <2>2. v \in Above(w) /\ v \notin Above(v)
    BY <1>4
  <2> QED
    BY <1>3, <2>1, <2>2
<1> QED
  BY <1>4

\* t waits for the user u that q holds, or for the wallet w.
WantsUser(t, u, q) == u \in User /\ LeastFree(Rows(t), userLock, t, u) /\ userLock[u] = q

WantsWallet(t, w, q) ==
    /\ w \in Wallet /\ walletLock[w] = q
    /\ \/ t \in Tip /\ phase[t] = "open" /\ HoldsAll(UsersOf(t), userLock, t) /\ NextWallet(t, w)
       \/ t \in Visit /\ phase[t] = "decided" /\ w = VisitorOf[t]

\* Whoever waits, waits for a user or a wallet.
LEMMA WantsSome ==
    ASSUME TypeOK, NEW t \in Holder, NEW q \in Holder \ {t}, Wants(t, q)
    PROVE  (\E u \in User : WantsUser(t, u, q)) \/ (\E w \in Wallet : WantsWallet(t, w, q))
<1>0. /\ \A r \in Tip : UsersOf(r) \subseteq User /\ WalletsOf(r) \subseteq Wallet /\ Rows(r) = UsersOf(r)
      /\ \A v \in Visit : VisitorOf[v] \in User /\ VisitorOf[v] \in Wallet /\ Rows(v) = {VisitorOf[v]}
      /\ \A b \in Relation : Pair(b) \subseteq User /\ Rows(b) = Pair(b)
  BY TipParties DEF TypeOK, RequestTypeOK, Rows, Pair, Wallet
<1>1. CASE t \in Tip
  <2>1. \/ \E u \in UsersOf(t) : LeastFree(UsersOf(t), userLock, t, u) /\ userLock[u] = q
        \/ /\ phase[t] = "open" /\ HoldsAll(UsersOf(t), userLock, t)
           /\ \E w \in WalletsOf(t) : NextWallet(t, w) /\ walletLock[w] = q
    BY <1>1 DEF Wants
  <2>2. CASE \E u \in UsersOf(t) : LeastFree(UsersOf(t), userLock, t, u) /\ userLock[u] = q
    <3>1. PICK u \in UsersOf(t) : LeastFree(UsersOf(t), userLock, t, u) /\ userLock[u] = q
      BY <2>2
    <3>2. u \in User /\ LeastFree(Rows(t), userLock, t, u)
      BY <1>0, <1>1, <3>1, Zenon
    <3> QED
      BY <3>1, <3>2, Zenon DEF WantsUser
  <2>3. CASE /\ phase[t] = "open" /\ HoldsAll(UsersOf(t), userLock, t)
             /\ \E w \in WalletsOf(t) : NextWallet(t, w) /\ walletLock[w] = q
    BY <1>0, <1>1, <2>3, Zenon DEF WantsWallet
  <2> QED
    BY <2>1, <2>2, <2>3
<1>2. CASE t \in Visit
  <2>1. \/ userLock[VisitorOf[t]] = q
        \/ phase[t] = "decided" /\ walletLock[VisitorOf[t]] = q
    BY <1>2 DEF Wants
  <2>2. CASE userLock[VisitorOf[t]] = q
    <3>1. LeastFree(Rows(t), userLock, t, VisitorOf[t])
      <4>1. Rows(t) = {VisitorOf[t]} /\ VisitorOf[t] \in User
        BY <1>0, <1>2, Zenon
      <4>2. \A n \in Nat : n <= n
        OBVIOUS
      <4>3. VisitorOf[t] <= VisitorOf[t]
        BY <4>1, <4>2, Zenon
      <4> QED
        BY <2>2, <4>1, <4>3 DEF LeastFree
    <3> QED
      BY <1>0, <1>2, <2>2, <3>1, Zenon DEF WantsUser
  <2>3. CASE phase[t] = "decided" /\ walletLock[VisitorOf[t]] = q
    BY <1>0, <1>2, <2>3, Zenon DEF WantsWallet
  <2> QED
    BY <2>1, <2>2, <2>3
<1>3. CASE t \in Relation
  BY <1>0, <1>3 DEF Wants, WantsUser
<1> QED
  BY <1>1, <1>2, <1>3

\* Who holds the wallet that another waits for can only wait for a wallet that comes later.
LEMMA LaterWallet ==
    ASSUME TypeOK, TipRests, WalletsInOrder, NEW t \in Holder, NEW q \in Holder, NEW p \in Holder \ {q},
           NEW w \in Wallet, WantsWallet(t, w, q), Wants(q, p)
    PROVE  \E v \in Wallet : WantsWallet(q, v, p) /\ WalletRank[w] < WalletRank[v]
<1>1. /\ walletLock[w] = q /\ q \in Tip /\ HoldsAll(UsersOf(q), userLock, q)
      /\ \A v \in WalletsOf(q) : WalletRank[v] < WalletRank[w] => walletLock[v] = q
  BY DEF WantsWallet, WalletsInOrder
<1>2. phase[q] = "open"
  BY <1>1 DEF TipRests
<1>3. ~\E u \in User : WantsUser(q, u, p)
  BY <1>1 DEF WantsUser, LeastFree, HoldsAll, Rows
<1>4. PICK v \in Wallet : WantsWallet(q, v, p)
  BY <1>3, WantsSome
<1>5. v \in WalletsOf(q) /\ walletLock[v] # q
  BY <1>1, <1>4 DEF WantsWallet, NextWallet
<1>6. WalletRank[v] # WalletRank[w] /\ WalletRank[v] \in Nat /\ WalletRank[w] \in Nat
  BY <1>1, <1>5
<1> QED
  BY <1>1, <1>4, <1>5, <1>6

\* Who holds the user that another waits for can only wait for a user that comes later, or for a wallet.
LEMMA LaterUser ==
    ASSUME TypeOK, UsersInOrder, NEW t \in Holder, NEW q \in Holder, NEW p \in Holder \ {q},
           NEW u \in User, WantsUser(t, u, q), Wants(q, p)
    PROVE  \/ \E v \in User : WantsUser(q, v, p) /\ u < v
           \/ \E w \in Wallet : WantsWallet(q, w, p)
<1> SUFFICES ASSUME NEW v \in User, WantsUser(q, v, p)
             PROVE  u < v
  BY WantsSome
<1>1. userLock[u] = q /\ v \in Rows(q) /\ userLock[v] # q
  BY DEF WantsUser, LeastFree
<1>2. ~(v < u)
  BY <1>1 DEF UsersInOrder
<1> QED
  BY <1>1, <1>2

\* Among transactions that wait, the one that waits for the last wallet, or when
\* none does for the last user, waits for none of them.
LEMMA NoCircle == TypeOK /\ TipRests /\ UsersInOrder /\ WalletsInOrder => NoLockCycle
<1> SUFFICES ASSUME TypeOK, TipRests, UsersInOrder, WalletsInOrder,
                    NEW S \in SUBSET Waiting, S # {},
                    \A t \in S : \E q \in S \ {t} : Wants(t, q)
             PROVE  FALSE
  BY DEF NoLockCycle
<1>1. S \subseteq Holder
  BY DEF Waiting
<1>2. IsFiniteSet(Wallet) /\ Platform \in Wallet
  BY FS_AddElement DEF Wallet
<1> DEFINE WW == {w \in Wallet : \E t \in S : \E q \in S \ {t} : WantsWallet(t, w, q)}
           UU == {u \in User : \E t \in S : \E q \in S \ {t} : WantsUser(t, u, q)}
<1>3. WW = {}
  <2> SUFFICES ASSUME WW # {}
               PROVE  FALSE
    OBVIOUS
  <2>1. WW \in SUBSET Wallet /\ WalletRank \in [Wallet -> Nat]
    OBVIOUS
  <2> HIDE DEF WW
  <2>2. PICK w \in WW : \A v \in WW : WalletRank[v] <= WalletRank[w]
    BY <1>2, <2>1, Last
  <2>3. PICK t \in S, q \in S : q # t /\ WantsWallet(t, w, q)
    BY <2>2 DEF WW
  <2>4. PICK p \in S \ {q} : Wants(q, p)
    BY <2>3
  <2>5. PICK v \in Wallet : WantsWallet(q, v, p) /\ WalletRank[w] < WalletRank[v]
    BY <1>1, <2>1, <2>2, <2>3, <2>4, LaterWallet
  <2>6. v \in WW
    BY <2>3, <2>4, <2>5 DEF WW
  <2> QED
    BY <2>1, <2>2, <2>5, <2>6
<1>4. UU # {}
  <2>1. PICK t \in S, q \in S : q # t /\ Wants(t, q)
    OBVIOUS
  <2>2. ~\E w \in Wallet : WantsWallet(t, w, q)
    BY <1>3, <2>1
  <2>3. PICK u \in User : WantsUser(t, u, q)
    BY <1>1, <2>1, <2>2, WantsSome
  <2> QED
    BY <2>1, <2>3
<1> DEFINE id == [u \in User |-> u]
<1>5. UU \in SUBSET User /\ id \in [User -> Nat] /\ IsFiniteSet(User)
  OBVIOUS
<1> HIDE DEF UU, WW, id
<1>6. PICK u \in UU : \A v \in UU : id[v] <= id[u]
  BY <1>4, <1>5, Last
<1>7. PICK t \in S, q \in S : q # t /\ WantsUser(t, u, q)
  BY <1>6 DEF UU
<1>8. PICK p \in S \ {q} : Wants(q, p)
  BY <1>7
<1>9. ~\E w \in Wallet : WantsWallet(q, w, p)
  BY <1>3, <1>7, <1>8 DEF WW
<1>10. PICK v \in User : WantsUser(q, v, p) /\ u < v
  BY <1>1, <1>5, <1>6, <1>7, <1>8, <1>9, LaterUser
<1>11. v \in UU /\ u \in User
  BY <1>5, <1>6, <1>7, <1>8, <1>10 DEF UU
<1>12. v <= u
  BY <1>6, <1>10, <1>11 DEF id
<1> QED
  BY <1>10, <1>11, <1>12

\* No set of tips, check-ins and relation requests waits in a circle: lockUsers and
\* lockWallets take rows in the order of their ids, users before wallets.
THEOREM NoLockCycleAlways == Spec => []NoLockCycle
<1>1. Init => UsersInOrder /\ WalletsInOrder
  BY DEF Init, RelInit, UsersInOrder, WalletsInOrder, Wallet
<1>2. IInv /\ UsersInOrder /\ WalletsInOrder /\ [Next]_vars => UsersInOrder' /\ WalletsInOrder'
  BY NextInOrder DEF IInv
<1>3. IInv /\ Held /\ UsersInOrder /\ WalletsInOrder => NoLockCycle
  BY NoCircle DEF IInv, Held
<1> QED
  BY <1>1, <1>2, <1>3, Always, PTL DEF Spec
=============================================================================
