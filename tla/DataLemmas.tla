----------------------------- MODULE DataLemmas -----------------------------
(***************************************************************************)
(* Facts about numbers, finite sets, sequences and folds that the proofs of  *)
(* the components share.  Induction is stated over a set of good values, so  *)
(* that it can be cited like any other fact: the principles of the library   *)
(* take a predicate.                                                       *)
(***************************************************************************)
EXTENDS Integers, FiniteSets, FiniteSetsExt, SequencesExt, FiniteSetTheorems,
        SequenceTheorems, WellFoundedInduction, TLAPS

-----------------------------------------------------------------------------
(* Numbers *)

(* Among any natural numbers there is a least. *)
LEMMA LeastNatural ==
  ASSUME NEW T, T \subseteq Nat, T # {}
  PROVE  \E m \in T : \A n \in T : m <= n
<1> DEFINE less == {ss \in Nat \X Nat : ss[1] < ss[2]}
<1>1. IsWellFoundedOn(less, Nat)
  BY NatLessThanWellFounded, Zenon DEF OpToRel
<1>2. PICK m \in T : \A n \in T : ~ (<<n, m>> \in less)
  BY <1>1, WFMin
<1>3. \A n \in T : ~ (n < m)
  BY <1>2
<1> QED
  BY <1>3

(* Min of natural numbers is one of them and below the others. *)
LEMMA MinIsLeast ==
  ASSUME NEW T, T \subseteq Nat, T # {}
  PROVE  Min(T) \in T /\ \A n \in T : Min(T) <= n
  BY LeastNatural DEF Min

(* Induction over the natural numbers. *)
LEMMA NaturalsAreGood ==
  ASSUME NEW Good, 0 \in Good, \A n \in Nat : n \in Good => n + 1 \in Good
  PROVE  Nat \subseteq Good
<1> DEFINE Bad == Nat \ Good
<1> SUFFICES ASSUME Bad # {} PROVE FALSE
  OBVIOUS
<1>1. PICK m \in Bad : \A n \in Bad : m <= n
  BY LeastNatural
<1>2. m # 0 /\ m - 1 \in Nat /\ m - 1 \notin Bad
  BY <1>1
<1> QED
  BY <1>1, <1>2

-----------------------------------------------------------------------------
(* Finite sets *)

(* Induction over the subsets of a finite set. *)
LEMMA SubsetsAreGood ==
  ASSUME NEW S, IsFiniteSet(S), NEW Good,
         {} \in Good,
         \A s \in SUBSET S : s # {} /\ (\A x \in s : s \ {x} \in Good) => s \in Good
  PROVE  SUBSET S \subseteq Good
<1> DEFINE Bad == {s \in SUBSET S : s \notin Good}
<1> SUFFICES ASSUME Bad # {} PROVE FALSE
  OBVIOUS
<1>1. Bad \subseteq FiniteSubsetsOf(S)
  BY FS_Subset DEF FiniteSubsetsOf
<1>2. PICK s \in Bad : \A t \in Bad : ~ (<<t, s>> \in StrictSubsetOrdering(S))
  BY <1>1, FS_StrictSubsetOrderingWellFounded, WFMin
<1>3. \A x \in s : s \ {x} \in Good
  <2> SUFFICES ASSUME NEW x \in s, s \ {x} \notin Good PROVE FALSE
    OBVIOUS
  <2>1. s \ {x} \in Bad /\ s \ {x} \subseteq s /\ s \ {x} # s
    OBVIOUS
  <2>2. <<s \ {x}, s>> \in StrictSubsetOrdering(S)
    BY <2>1 DEF StrictSubsetOrdering
  <2> QED BY <1>2, <2>1, <2>2
<1> QED
  BY <1>2, <1>3

(* A finite set of numbers has a greatest. *)
LEMMA MaxIsGreatest ==
  ASSUME NEW T, T \subseteq Int, IsFiniteSet(T), T # {}
  PROVE  Max(T) \in T /\ \A n \in T : n <= Max(T)
<1> DEFINE Good == {s \in SUBSET T : s # {} => \E m \in s : \A n \in s : m >= n}
<1>1. SUBSET T \subseteq Good
  <2>1. {} \in Good
    OBVIOUS
  <2>2. ASSUME NEW s \in SUBSET T, s # {}, \A x \in s : s \ {x} \in Good PROVE s \in Good
    <3>1. PICK x : x \in s
      BY <2>2
    <3>2. CASE s \ {x} = {}
      BY <3>1, <3>2
    <3>3. CASE s \ {x} # {}
      <4>1. PICK m \in s \ {x} : \A n \in s \ {x} : m >= n
        BY <2>2, <3>1, <3>3
      <4>2. \A n \in s : (IF m >= x THEN m ELSE x) >= n
        BY <3>1, <4>1
      <4> QED BY <3>1, <4>1, <4>2
    <3> QED BY <3>2, <3>3
  <2> HIDE DEF Good
  <2> QED BY <2>1, <2>2, SubsetsAreGood
<1>2. \E m \in T : \A n \in T : m >= n
  BY <1>1
<1> QED
  BY <1>2 DEF Max

-----------------------------------------------------------------------------
(* Sequences *)

(* A function of a finite set has finitely many values, no more than arguments. *)
LEMMA ValuesAreFinite ==
  ASSUME NEW S, IsFiniteSet(S), NEW f, DOMAIN f = S, f = [x \in S |-> f[x]]
  PROVE  /\ IsFiniteSet({f[x] : x \in S})
         /\ Cardinality({f[x] : x \in S}) <= Cardinality(S)
<1> DEFINE img == {f[x] : x \in S}
<1>1. f \in Surjection(S, img)
  BY DEF Surjection
<1> QED
  BY <1>1, FS_Surjection

(* Different arguments, different values: as many values as arguments. *)
LEMMA ValuesDiffer ==
  ASSUME NEW S, IsFiniteSet(S), NEW f, DOMAIN f = S, f = [x \in S |-> f[x]],
         \A x, y \in S : f[x] = f[y] => x = y
  PROVE  Cardinality({f[x] : x \in S}) = Cardinality(S)
<1> DEFINE img == {f[x] : x \in S}
<1>1. f \in Surjection(S, img) /\ f \in Injection(S, img)
  BY DEF Surjection, Injection, IsInjective
<1>2. IsFiniteSet(img)
  BY ValuesAreFinite
<1> HIDE DEF img
<1>3. Cardinality(S) = Cardinality(img)
  BY <1>1, <1>2, FS_Injection
<1> QED
  BY <1>3 DEF img

(* A function over the first numbers is a sequence. *)
LEMMA FunctionIsSeq ==
  ASSUME NEW S, NEW n \in Nat, NEW f \in [1..n -> S]
  PROVE  f \in Seq(S) /\ Len(f) = n /\ DOMAIN f = 1..n
<1>1. f \in Seq(S)
  BY SeqDef
<1>2. DOMAIN f = 1..n /\ DOMAIN f = 1..Len(f) /\ Len(f) \in Nat
  BY <1>1
<1> QED
  BY <1>1, <1>2

-----------------------------------------------------------------------------
(* Folds.  MapThenFoldSet is a function on the subsets of what it folds,      *)
(* which takes out one element at a time; `pick` says which.                 *)

IsFold(F, S, base, step, pick) ==
    F = [s \in SUBSET S |-> IF s = {} THEN base
                            ELSE step[<<pick[s], F[s \ {pick[s]}]>>]]

Picks(pick, S) == \A s \in SUBSET S : s # {} => pick[s] \in s

(* Such a function exists. *)
LEMMA FoldExists ==
  ASSUME NEW S, IsFiniteSet(S), NEW V, NEW base \in V, NEW step \in [S \X V -> V],
         NEW pick, Picks(pick, S)
  PROVE  \E F \in [SUBSET S -> V] : IsFold(F, S, base, step, pick)
<1> DEFINE Small(n) == {s \in SUBSET S : Cardinality(s) <= n}
           Upto(F, n) == F = [s \in Small(n) |-> IF s = {} THEN base
                                     ELSE step[<<pick[s], F[s \ {pick[s]}]>>]]
           Good == {n \in Nat : \E F \in [Small(n) -> V] : Upto(F, n)}
<1>1. \A s \in SUBSET S : IsFiniteSet(s) /\ Cardinality(s) \in Nat
  BY FS_Subset, FS_CardinalityType
<1>2. \A s \in SUBSET S : s # {} =>
         /\ s \ {pick[s]} \in SUBSET S
         /\ Cardinality(s \ {pick[s]}) = Cardinality(s) - 1
  BY <1>1, FS_RemoveElement DEF Picks
<1>3. 0 \in Good
  <2>1. \A s \in Small(0) : s = {}
    BY <1>1, FS_EmptySet
  <2>2. [s \in Small(0) |-> base] \in [Small(0) -> V] /\ Upto([s \in Small(0) |-> base], 0)
    BY <2>1
  <2> QED BY <2>2
<1>4. ASSUME NEW n \in Nat, n \in Good PROVE n + 1 \in Good
  <2>1. PICK F \in [Small(n) -> V] : Upto(F, n)
    BY <1>4
  <2> DEFINE G == [s \in Small(n + 1) |-> IF s = {} THEN base
                                          ELSE step[<<pick[s], F[s \ {pick[s]}]>>]]
  <2>2. ASSUME NEW s \in Small(n + 1), s # {}
        PROVE  /\ pick[s] \in S /\ s \ {pick[s]} \in Small(n)
               /\ s \ {pick[s]} \in Small(n + 1)
    BY <1>1, <1>2, <2>2 DEF Picks
  <2>3. \A s \in Small(n) : s \in Small(n + 1) /\ G[s] = F[s]
    <3> HIDE DEF Small
    <3>1. \A s \in Small(n) : s \in Small(n + 1)
      BY <1>1 DEF Small
    <3> QED BY <2>1, <3>1
  <2>4. G \in [Small(n + 1) -> V]
    <3> HIDE DEF Small
    <3> QED BY <2>2
  <2>5. Upto(G, n + 1)
    <3> HIDE DEF Small
    <3> QED BY <2>2, <2>3
  <2> HIDE DEF G, Upto, Small
  <2> QED BY <2>4, <2>5
<1>5. Cardinality(S) \in Good
  <2> HIDE DEF Good
  <2> QED BY <1>3, <1>4, <1>1, NaturalsAreGood
<1>6. Small(Cardinality(S)) = SUBSET S
  BY FS_Subset, <1>1
<1> QED
  BY <1>5, <1>6 DEF IsFold

(* There is one such function. *)
LEMMA FoldUnique ==
  ASSUME NEW S, IsFiniteSet(S), NEW base, NEW step, NEW pick, Picks(pick, S),
         NEW F, NEW G, IsFold(F, S, base, step, pick), IsFold(G, S, base, step, pick)
  PROVE  F = G
<1> DEFINE Good == {s \in SUBSET S : F[s] = G[s]}
<1>1. {} \in Good
  BY DEF IsFold
<1>2. ASSUME NEW s \in SUBSET S, s # {}, \A x \in s : s \ {x} \in Good PROVE s \in Good
  <2>1. F[s \ {pick[s]}] = G[s \ {pick[s]}]
    BY <1>2 DEF Picks
  <2>2. /\ F[s] = step[<<pick[s], F[s \ {pick[s]}]>>]
        /\ G[s] = step[<<pick[s], G[s \ {pick[s]}]>>]
    BY <1>2 DEF IsFold
  <2> QED BY <2>1, <2>2
<1>3. SUBSET S \subseteq Good
  <2> HIDE DEF Good
  <2> QED BY <1>1, <1>2, SubsetsAreGood
<1> QED
  BY <1>3 DEF IsFold

-----------------------------------------------------------------------------
(* Sums.  TotalOver is MapThenSumSet of a function. *)

Pick(s) == CHOOSE x \in s : TRUE

IsSum(F, g, S) ==
    F = [s \in SUBSET S |-> IF s = {} THEN 0 ELSE g[Pick(s)] + F[s \ {Pick(s)}]]

TotalOver(g, S) == (CHOOSE F : IsSum(F, g, S))[S]

LEMMA SumExists ==
  ASSUME NEW S, IsFiniteSet(S), NEW g \in [S -> Int]
  PROVE  \E F \in [SUBSET S -> Int] : IsSum(F, g, S)
<1> DEFINE step == [p \in S \X Int |-> g[p[1]] + p[2]]
           pick == [s \in SUBSET S |-> Pick(s)]
<1>1. Picks(pick, S)
  BY DEF Picks, Pick
<1>2. step \in [S \X Int -> Int]
  OBVIOUS
<1>3. PICK F \in [SUBSET S -> Int] : IsFold(F, S, 0, step, pick)
  <2>1. 0 \in Int
    OBVIOUS
  <2> HIDE DEF step, pick
  <2> QED BY <1>1, <1>2, <2>1, FoldExists, Zenon
<1>4. ASSUME NEW s \in SUBSET S, s # {}
      PROVE  step[<<pick[s], F[s \ {pick[s]}]>>] = g[Pick(s)] + F[s \ {Pick(s)}]
  BY <1>1, <1>4 DEF Picks
<1> HIDE DEF step
<1>5. IsSum(F, g, S)
  BY <1>3, <1>4 DEF IsFold, IsSum
<1> QED
  BY <1>5

LEMMA SumUnique ==
  ASSUME NEW S, IsFiniteSet(S), NEW g, NEW F, NEW G, IsSum(F, g, S), IsSum(G, g, S)
  PROVE  F = G
<1> DEFINE Good == {s \in SUBSET S : F[s] = G[s]}
<1>1. {} \in Good
  BY DEF IsSum
<1>2. ASSUME NEW s \in SUBSET S, s # {}, \A x \in s : s \ {x} \in Good PROVE s \in Good
  <2>1. F[s \ {Pick(s)}] = G[s \ {Pick(s)}]
    BY <1>2 DEF Pick
  <2> QED BY <1>2, <2>1, ZenonT(60) DEF IsSum
<1>3. SUBSET S \subseteq Good
  <2> HIDE DEF Good
  <2> QED BY <1>1, <1>2, SubsetsAreGood
<1> QED
  BY <1>3 DEF IsSum

(* Any element may be taken out of a sum first. *)
TakesOut(F, g, S) == \A s \in SUBSET S : \A x \in s : F[s] = g[x] + F[s \ {x}]

LEMMA SumTakesOut ==
  ASSUME NEW S, IsFiniteSet(S), NEW g \in [S -> Int],
         NEW F \in [SUBSET S -> Int], IsSum(F, g, S)
  PROVE  TakesOut(F, g, S)
<1> DEFINE Good == {s \in SUBSET S : \A x \in s : F[s] = g[x] + F[s \ {x}]}
<1>1. {} \in Good
  OBVIOUS
<1>2. ASSUME NEW s \in SUBSET S, s # {}, \A x \in s : s \ {x} \in Good PROVE s \in Good
  <2> SUFFICES ASSUME NEW x \in s PROVE F[s] = g[x] + F[s \ {x}]
    OBVIOUS
  <2> DEFINE p == Pick(s)
  <2>1. p \in s /\ F[s] = g[p] + F[s \ {p}]
    BY <1>2 DEF IsSum, Pick
  <2> HIDE DEF p
  <2>2. CASE x = p
    BY <2>1, <2>2
  <2>3. CASE x # p
    <3>1. F[s \ {p}] = g[x] + F[(s \ {p}) \ {x}]
      BY <1>2, <2>1, <2>3
    <3>2. F[s \ {x}] = g[p] + F[(s \ {x}) \ {p}]
      BY <1>2, <2>1, <2>3
    <3>3. (s \ {p}) \ {x} = (s \ {x}) \ {p}
      OBVIOUS
    <3> DEFINE without == (s \ {x}) \ {p}
    <3>4. F[without] \in Int /\ g[x] \in Int /\ g[p] \in Int
      BY <2>1
    <3>5. F[s \ {p}] = g[x] + F[without] /\ F[s \ {x}] = g[p] + F[without]
      BY <3>1, <3>2, <3>3
    <3> HIDE DEF without
    <3> QED BY <2>1, <3>4, <3>5
  <2> QED BY <2>2, <2>3
<1>3. SUBSET S \subseteq Good
  <2> HIDE DEF Good
  <2> QED BY <1>1, <1>2, SubsetsAreGood
<1> QED
  BY <1>3 DEF TakesOut

IsTotal(F, g, S) == F[S] = TotalOver(g, S) /\ F[{}] = 0 /\ TakesOut(F, g, S)

(* What the sum of a function is, on every part of its domain. *)
LEMMA TotalOfParts ==
  ASSUME NEW S, IsFiniteSet(S), NEW g \in [S -> Int]
  PROVE  \E F \in [SUBSET S -> Int] : IsTotal(F, g, S)
<1>1. \E F \in [SUBSET S -> Int] : IsSum(F, g, S)
  BY SumExists
<1>2. ASSUME NEW F \in [SUBSET S -> Int], IsSum(F, g, S)
      PROVE  IsTotal(F, g, S)
  <2>1. F[S] = TotalOver(g, S)
    BY <1>2, SumUnique DEF TotalOver
  <2>2. F[{}] = 0
    BY <1>2 DEF IsSum
  <2>3. TakesOut(F, g, S)
    BY <1>2, SumTakesOut
  <2> QED BY <2>1, <2>2, <2>3 DEF IsTotal
<1> QED
  BY <1>1, <1>2

LEMMA TotalType ==
  ASSUME NEW S, IsFiniteSet(S), NEW g \in [S -> Int]
  PROVE  TotalOver(g, S) \in Int
<1>1. PICK F \in [SUBSET S -> Int] : F[S] = TotalOver(g, S)
  BY TotalOfParts DEF IsTotal
<1> QED
  BY <1>1

(* Sums of terms that do not exceed each other do not exceed each other. *)
LEMMA TotalIsMonotone ==
  ASSUME NEW S, IsFiniteSet(S), NEW g \in [S -> Int], NEW h \in [S -> Int],
         \A x \in S : g[x] <= h[x]
  PROVE  TotalOver(g, S) <= TotalOver(h, S)
<1>1. PICK F \in [SUBSET S -> Int] : IsTotal(F, g, S)
  BY TotalOfParts
<1>2. PICK H \in [SUBSET S -> Int] : IsTotal(H, h, S)
  BY TotalOfParts
<1> DEFINE Good == {s \in SUBSET S : F[s] <= H[s]}
<1>3. {} \in Good
  BY <1>1, <1>2 DEF IsTotal
<1>4. ASSUME NEW s \in SUBSET S, s # {}, \A x \in s : s \ {x} \in Good PROVE s \in Good
  <2>1. PICK x : x \in s
    BY <1>4
  <2>2. F[s] = g[x] + F[s \ {x}] /\ H[s] = h[x] + H[s \ {x}]
    BY <1>1, <1>2, <2>1 DEF IsTotal, TakesOut
  <2>3. F[s \ {x}] <= H[s \ {x}] /\ g[x] <= h[x]
    BY <1>4, <2>1
  <2>4. /\ F[s \ {x}] \in Int /\ H[s \ {x}] \in Int
        /\ g[x] \in Int /\ h[x] \in Int
    BY <2>1
  <2> QED BY <2>2, <2>3, <2>4
<1>5. SUBSET S \subseteq Good
  <2> HIDE DEF Good
  <2> QED BY <1>3, <1>4, SubsetsAreGood
<1> QED
  BY <1>1, <1>2, <1>5 DEF IsTotal

(* Equal terms have equal sums. *)
LEMMA TotalOfEquals ==
  ASSUME NEW S, IsFiniteSet(S), NEW g \in [S -> Int], NEW h \in [S -> Int],
         \A x \in S : g[x] = h[x]
  PROVE  TotalOver(g, S) = TotalOver(h, S)
  OBVIOUS

(* Where one term changes, the sum changes by the difference. *)
LEMMA TotalOfOneChange ==
  ASSUME NEW S, IsFiniteSet(S), NEW g \in [S -> Int], NEW h \in [S -> Int],
         NEW x \in S, \A y \in S \ {x} : g[y] = h[y]
  PROVE  TotalOver(h, S) = TotalOver(g, S) + (h[x] - g[x])
<1>1. PICK F \in [SUBSET S -> Int] : IsTotal(F, g, S)
  BY TotalOfParts
<1>2. PICK H \in [SUBSET S -> Int] : IsTotal(H, h, S)
  BY TotalOfParts
<1> DEFINE Good == {s \in SUBSET S : x \notin s => F[s] = H[s]}
<1>3. {} \in Good
  BY <1>1, <1>2 DEF IsTotal
<1>4. ASSUME NEW s \in SUBSET S, s # {}, \A y \in s : s \ {y} \in Good PROVE s \in Good
  <2> SUFFICES ASSUME x \notin s PROVE F[s] = H[s]
    OBVIOUS
  <2>1. PICK y : y \in s
    BY <1>4
  <2>2. F[s] = g[y] + F[s \ {y}] /\ H[s] = h[y] + H[s \ {y}]
    BY <1>1, <1>2, <2>1 DEF IsTotal, TakesOut
  <2>3. F[s \ {y}] = H[s \ {y}] /\ g[y] = h[y]
    BY <1>4, <2>1
  <2> QED BY <2>2, <2>3
<1>5. SUBSET S \subseteq Good
  <2> HIDE DEF Good
  <2> QED BY <1>3, <1>4, SubsetsAreGood
<1>6. F[S] = g[x] + F[S \ {x}] /\ H[S] = h[x] + H[S \ {x}]
  BY <1>1, <1>2 DEF IsTotal, TakesOut
<1>7. F[S \ {x}] = H[S \ {x}]
  BY <1>5
<1>8. F[S \ {x}] \in Int /\ H[S \ {x}] \in Int /\ g[x] \in Int /\ h[x] \in Int
  OBVIOUS
<1> QED
  BY <1>1, <1>2, <1>6, <1>7, <1>8 DEF IsTotal

(* A sum of nothing is nothing. *)
LEMMA TotalOfZeros ==
  ASSUME NEW S, IsFiniteSet(S), NEW g \in [S -> Int], \A x \in S : g[x] = 0
  PROVE  TotalOver(g, S) = 0
<1>1. PICK F \in [SUBSET S -> Int] : IsTotal(F, g, S)
  BY TotalOfParts
<1> DEFINE Good == {s \in SUBSET S : F[s] = 0}
<1>2. {} \in Good
  BY <1>1 DEF IsTotal
<1>3. ASSUME NEW s \in SUBSET S, s # {}, \A x \in s : s \ {x} \in Good PROVE s \in Good
  <2>1. PICK x : x \in s
    BY <1>3
  <2>2. F[s] = g[x] + F[s \ {x}]
    BY <1>1, <2>1 DEF IsTotal, TakesOut
  <2>3. F[s \ {x}] = 0 /\ g[x] = 0
    BY <1>3, <2>1
  <2> QED BY <2>2, <2>3
<1>4. SUBSET S \subseteq Good
  <2> HIDE DEF Good
  <2> QED BY <1>2, <1>3, SubsetsAreGood
<1> QED
  BY <1>1, <1>4 DEF IsTotal

(* MapThenSumSet of the community modules adds up a function. *)
LEMMA MapThenSumIsTotal ==
  ASSUME NEW S, NEW g
  PROVE  MapThenSumSet(LAMBDA x : g[x], S) = TotalOver(g, S)
  BY DEF MapThenSumSet, MapThenFoldSet, TotalOver, IsSum, Pick

(* So does FoldSet. *)
LEMMA FoldIsTotal ==
  ASSUME NEW S, NEW g
  PROVE  FoldSet(LAMBDA c, n : g[c] + n, 0, S) = TotalOver(g, S)
  BY DEF FoldSet, MapThenFoldSet, TotalOver, IsSum, Pick

(* The terms of a sum over part of a function are those of the part. *)
LEMMA TotalOfPart ==
  ASSUME NEW S, IsFiniteSet(S), NEW g, \A x \in S : g[x] \in Int
  PROVE  TotalOver(g, S) = TotalOver([x \in S |-> g[x]], S)
<1> DEFINE h == [x \in S |-> g[x]]
<1>1. h \in [S -> Int] /\ \A x \in S : h[x] = g[x]
  OBVIOUS
<1> HIDE DEF h
<1>2. \A s \in SUBSET S : s # {} => h[Pick(s)] = g[Pick(s)]
  BY <1>1 DEF Pick
<1>3. \E F : IsSum(F, h, S)
  BY <1>1, SumExists
<1>4. \A F : IsSum(F, h, S) => IsSum(F, g, S)
  <2> SUFFICES ASSUME NEW F, IsSum(F, h, S) PROVE IsSum(F, g, S)
    OBVIOUS
  <2>1. \A s \in SUBSET S : (IF s = {} THEN 0 ELSE h[Pick(s)] + F[s \ {Pick(s)}])
                              = (IF s = {} THEN 0 ELSE g[Pick(s)] + F[s \ {Pick(s)}])
    BY <1>2
  <2> QED BY <2>1 DEF IsSum
<1> DEFINE H == CHOOSE F : IsSum(F, h, S)
           G == CHOOSE F : IsSum(F, g, S)
<1>5. IsSum(H, h, S)
  BY <1>3
<1>6. IsSum(G, g, S)
  BY <1>3, <1>4
<1> HIDE DEF H, G
<1>7. IsSum(H, g, S)
  BY <1>4, <1>5
<1>8. H = G
  BY <1>6, <1>7, SumUnique
<1> QED
  BY <1>8 DEF TotalOver, H, G, h

(* A sum of terms none of which exceeds a bound ... *)
LEMMA TotalIsBounded ==
  ASSUME NEW S, IsFiniteSet(S), NEW g \in [S -> Int], NEW b \in Nat, \A x \in S : g[x] <= b
  PROVE  TotalOver(g, S) <= Cardinality(S) * b
<1>1. PICK F \in [SUBSET S -> Int] : IsTotal(F, g, S)
  BY TotalOfParts
<1> DEFINE Good == {s \in SUBSET S : F[s] <= Cardinality(s) * b}
<1>2. {} \in Good
  BY <1>1, FS_EmptySet DEF IsTotal
<1>3. ASSUME NEW s \in SUBSET S, s # {}, \A x \in s : s \ {x} \in Good PROVE s \in Good
  <2>1. PICK x : x \in s
    BY <1>3
  <2>2. F[s] = g[x] + F[s \ {x}]
    BY <1>1, <2>1 DEF IsTotal, TakesOut
  <2>3. IsFiniteSet(s) /\ Cardinality(s) \in Nat
    BY FS_Subset, FS_CardinalityType
  <2>4. Cardinality(s \ {x}) = Cardinality(s) - 1 /\ Cardinality(s \ {x}) \in Nat
    BY <2>1, <2>3, FS_RemoveElement, FS_CardinalityType
  <2>5. F[s \ {x}] <= Cardinality(s \ {x}) * b
    BY <1>3, <2>1
  <2>6. F[s] \in Int /\ F[s \ {x}] \in Int /\ g[x] \in Int /\ g[x] <= b
    BY <2>1
  <2>7. (Cardinality(s) - 1) * b + b = Cardinality(s) * b
    BY <2>3
  <2>8. F[s] <= Cardinality(s) * b
    BY <2>2, <2>3, <2>4, <2>5, <2>6, <2>7
  <2> QED BY <2>8
<1>4. SUBSET S \subseteq Good
  <2> HIDE DEF Good
  <2> QED BY <1>2, <1>3, SubsetsAreGood
<1>5. F[S] <= Cardinality(S) * b
  BY <1>4
<1> QED
  BY <1>1, <1>5 DEF IsTotal

(* ... and one of which is nothing. *)
LEMMA TotalOfTheOthers ==
  ASSUME NEW S, IsFiniteSet(S), NEW g \in [S -> Int], NEW b \in Nat, \A x \in S : g[x] <= b,
         NEW z \in S, g[z] = 0
  PROVE  TotalOver(g, S) <= (Cardinality(S) - 1) * b
<1> DEFINE h == [x \in S |-> IF x = z THEN b ELSE g[x]]
<1>1. h \in [S -> Int] /\ h[z] = b /\ (\A x \in S : h[x] <= b) /\ \A y \in S \ {z} : g[y] = h[y]
  OBVIOUS
<1> HIDE DEF h
<1>2. TotalOver(h, S) <= Cardinality(S) * b
  BY <1>1, TotalIsBounded
<1>3. TotalOver(h, S) = TotalOver(g, S) + (h[z] - g[z])
  BY <1>1, TotalOfOneChange
<1>4. TotalOver(g, S) \in Int /\ Cardinality(S) \in Nat
  BY TotalType, FS_CardinalityType
<1>5. (Cardinality(S) - 1) * b = Cardinality(S) * b - b
  BY <1>4
<1> QED
  BY <1>1, <1>2, <1>3, <1>4, <1>5

(* The lesser and the greater of two. *)
LEMMA LesserOfTwo ==
  ASSUME NEW m \in Nat, NEW n \in Nat
  PROVE  Min({m, n}) = IF m < n THEN m ELSE n
<1> DEFINE two == {m, n}
<1>1. two \subseteq Nat /\ two # {} /\ m \in two /\ n \in two /\ \A x \in two : x = m \/ x = n
  OBVIOUS
<1> HIDE DEF two
<1>2. Min(two) \in two /\ \A x \in two : Min(two) <= x
  BY <1>1, MinIsLeast
<1>3. (Min(two) = m \/ Min(two) = n) /\ Min(two) <= m /\ Min(two) <= n
  BY <1>1, <1>2
<1>4. CASE m < n
  BY <1>3, <1>4 DEF two
<1>5. CASE ~ (m < n)
  BY <1>3, <1>5 DEF two
<1> QED
  BY <1>4, <1>5

LEMMA GreaterOfTwo ==
  ASSUME NEW m \in Int, NEW n \in Int
  PROVE  Max({m, n}) = IF m < n THEN n ELSE m
<1> DEFINE two == {m, n}
<1>1. two \subseteq Int /\ two # {} /\ m \in two /\ n \in two /\ \A x \in two : x = m \/ x = n
  OBVIOUS
<1>2. IsFiniteSet(two)
  <2>1. IsFiniteSet({m})
    BY FS_Singleton
  <2> QED BY <2>1, FS_AddElement
<1> HIDE DEF two
<1>3. Max(two) \in two /\ \A x \in two : x <= Max(two)
  BY <1>1, <1>2, MaxIsGreatest
<1>4. (Max(two) = m \/ Max(two) = n) /\ m <= Max(two) /\ n <= Max(two)
  BY <1>1, <1>3
<1>5. CASE m < n
  BY <1>4, <1>5 DEF two
<1>6. CASE ~ (m < n)
  BY <1>4, <1>6 DEF two
<1> QED
  BY <1>5, <1>6


(* A sequence without one of its places. *)
LEMMA RemovedAt ==
  ASSUME NEW S, NEW s \in Seq(S), NEW i \in DOMAIN s
  PROVE  /\ RemoveAt(s, i) \in Seq(S) /\ Len(RemoveAt(s, i)) = Len(s) - 1
         /\ DOMAIN RemoveAt(s, i) = 1..(Len(s) - 1)
         /\ \A j \in 1..(Len(s) - 1) : RemoveAt(s, i)[j] = IF j < i THEN s[j] ELSE s[j + 1]
<1>1. Len(s) \in Nat /\ DOMAIN s = 1..Len(s) /\ i \in 1..Len(s)
  OBVIOUS
<1> DEFINE front == SubSeq(s, 1, i - 1)
           back == SubSeq(s, i + 1, Len(s))
<1>2. front \in Seq(S) /\ Len(front) = i - 1 /\ \A j \in 1..(i - 1) : front[j] = s[j]
  BY <1>1, SubSeqProperties
<1>3. back \in Seq(S) /\ Len(back) = Len(s) - i /\ \A j \in 1..(Len(s) - i) : back[j] = s[i + j]
  BY <1>1, SubSeqProperties, SMTT(30)
<1>4. RemoveAt(s, i) = front \o back
  BY DEF RemoveAt
<1> HIDE DEF front, back
<1>5. /\ front \o back \in Seq(S) /\ Len(front \o back) = Len(s) - 1
      /\ \A j \in 1..(Len(s) - 1) : (front \o back)[j] = IF j <= i - 1 THEN front[j] ELSE back[j - (i - 1)]
  <2>1. front \in Seq(S) /\ back \in Seq(S)
    BY <1>2, <1>3
  <2>2. /\ front \o back \in Seq(S) /\ Len(front \o back) = Len(front) + Len(back)
        /\ \A j \in 1..(Len(front) + Len(back)) :
             (front \o back)[j] = IF j <= Len(front) THEN front[j] ELSE back[j - Len(front)]
    BY <2>1, ConcatProperties
  <2>3. Len(front) = i - 1 /\ Len(front) + Len(back) = Len(s) - 1
    BY <1>1, <1>2, <1>3
  <2> QED BY <2>2, <2>3
<1>6. \A j \in 1..(Len(s) - 1) : (front \o back)[j] = IF j < i THEN s[j] ELSE s[j + 1]
  <2> SUFFICES ASSUME NEW j \in 1..(Len(s) - 1) PROVE (front \o back)[j] = IF j < i THEN s[j] ELSE s[j + 1]
    OBVIOUS
  <2>1. CASE j < i
    BY <1>1, <1>2, <1>5, <2>1
  <2>2. CASE ~ (j < i)
    <3>1. j - (i - 1) \in 1..(Len(s) - i) /\ i + (j - (i - 1)) = j + 1 /\ ~ (j <= i - 1)
      BY <1>1, <2>2
    <3>2. (front \o back)[j] = back[j - (i - 1)]
      BY <1>5, <3>1
    <3> QED BY <1>3, <2>2, <3>1, <3>2
  <2> QED BY <2>1, <2>2
<1>7. DOMAIN (front \o back) = 1..(Len(s) - 1)
  BY <1>5
<1> QED
  BY <1>4, <1>5, <1>6, <1>7

(* What was there before an element was appended, and the element. *)
LEMMA FrontOfAppend ==
  ASSUME NEW S, NEW s \in Seq(S), NEW e \in S
  PROVE  Len(Append(s, e)) = Len(s) + 1 /\ Front(Append(s, e)) = s /\ Last(Append(s, e)) = e
<1> DEFINE t == Append(s, e)
<1>1. /\ t \in Seq(S) /\ Len(t) = Len(s) + 1 /\ Len(s) \in Nat /\ t[Len(s) + 1] = e
      /\ \A i \in 1..Len(s) : t[i] = s[i] /\ s[i] \in S
  OBVIOUS
<1> HIDE DEF t
<1> DEFINE u == SubSeq(t, 1, Len(s))
<1>2. /\ u \in Seq(S) /\ Len(u) = Len(s) /\ \A i \in 1..Len(s) : u[i] = t[i]
  BY <1>1, SubSeqProperties
<1> HIDE DEF u
<1>3. u = s
  BY <1>1, <1>2, SeqEqual
<1>4. Front(t) = u
  <2>1. Len(t) - 1 = Len(s)
    BY <1>1
  <2> QED BY <2>1 DEF Front, u
<1> QED
  BY <1>1, <1>3, <1>4 DEF Last, t
(* A sum of sums. *)
LEMMA TotalOfTwo ==
  ASSUME NEW S, IsFiniteSet(S), NEW g \in [S -> Int], NEW h \in [S -> Int], NEW k \in [S -> Int],
         \A x \in S : k[x] = g[x] + h[x]
  PROVE  TotalOver(k, S) = TotalOver(g, S) + TotalOver(h, S)
<1>1. PICK F \in [SUBSET S -> Int] : IsTotal(F, g, S)
  BY TotalOfParts
<1>2. PICK G \in [SUBSET S -> Int] : IsTotal(G, h, S)
  BY TotalOfParts
<1>3. PICK K \in [SUBSET S -> Int] : IsTotal(K, k, S)
  BY TotalOfParts
<1> DEFINE Good == {s \in SUBSET S : K[s] = F[s] + G[s]}
<1>4. {} \in Good
  BY <1>1, <1>2, <1>3 DEF IsTotal
<1>5. ASSUME NEW s \in SUBSET S, s # {}, \A x \in s : s \ {x} \in Good PROVE s \in Good
  <2>1. PICK x : x \in s
    BY <1>5
  <2>2. F[s] = g[x] + F[s \ {x}] /\ G[s] = h[x] + G[s \ {x}] /\ K[s] = k[x] + K[s \ {x}]
    BY <1>1, <1>2, <1>3, <2>1 DEF IsTotal, TakesOut
  <2>3. K[s \ {x}] = F[s \ {x}] + G[s \ {x}] /\ k[x] = g[x] + h[x]
    BY <1>5, <2>1
  <2>4. F[s \ {x}] \in Int /\ G[s \ {x}] \in Int /\ g[x] \in Int /\ h[x] \in Int
    BY <2>1
  <2> QED BY <2>2, <2>3, <2>4
<1>6. SUBSET S \subseteq Good
  <2> HIDE DEF Good
  <2> QED BY <1>4, <1>5, SubsetsAreGood
<1>7. K[S] = F[S] + G[S]
  BY <1>6
<1> QED
  BY <1>1, <1>2, <1>3, <1>7 DEF IsTotal

(* A sum of equal terms. *)
LEMMA TotalOfConstant ==
  ASSUME NEW S, IsFiniteSet(S), NEW b \in Int, NEW g \in [S -> Int], \A x \in S : g[x] = b
  PROVE  TotalOver(g, S) = Cardinality(S) * b
<1>1. PICK F \in [SUBSET S -> Int] : IsTotal(F, g, S)
  BY TotalOfParts
<1> DEFINE Good == {s \in SUBSET S : F[s] = Cardinality(s) * b}
<1>2. {} \in Good
  BY <1>1, FS_EmptySet DEF IsTotal
<1>3. ASSUME NEW s \in SUBSET S, s # {}, \A x \in s : s \ {x} \in Good PROVE s \in Good
  <2>1. PICK x : x \in s
    BY <1>3
  <2>2. F[s] = b + F[s \ {x}]
    BY <1>1, <2>1 DEF IsTotal, TakesOut
  <2>3. IsFiniteSet(s) /\ Cardinality(s) \in Nat
    BY FS_Subset, FS_CardinalityType
  <2>4. Cardinality(s \ {x}) = Cardinality(s) - 1
    BY <2>1, <2>3, FS_RemoveElement
  <2>5. F[s \ {x}] = (Cardinality(s) - 1) * b
    BY <1>3, <2>1, <2>4
  <2>6. (Cardinality(s) - 1) * b + b = Cardinality(s) * b
    BY <2>3
  <2> QED BY <2>2, <2>3, <2>5, <2>6
<1>4. SUBSET S \subseteq Good
  <2> HIDE DEF Good
  <2> QED BY <1>2, <1>3, SubsetsAreGood
<1>5. F[S] = Cardinality(S) * b
  BY <1>4
<1> QED
  BY <1>1, <1>5 DEF IsTotal

(* What MapThenSumSet makes of a difference of two functions. *)
LeftOver(a, u, S) ==
    (CHOOSE F : F = [s \in SUBSET S |-> IF s = {} THEN 0
                                        ELSE (a[Pick(s)] - u[Pick(s)]) + F[s \ {Pick(s)}]])[S]

LEMMA LeftOverIsTotal ==
  ASSUME NEW S, IsFiniteSet(S), NEW a, NEW u, NEW g \in [S -> Int], \A x \in S : g[x] = a[x] - u[x]
  PROVE  LeftOver(a, u, S) = TotalOver(g, S)
<1> DEFINE Is(F) == F = [s \in SUBSET S |-> IF s = {} THEN 0
                                            ELSE (a[Pick(s)] - u[Pick(s)]) + F[s \ {Pick(s)}]]
<1>1. \A F : IsSum(F, g, S) <=> Is(F)
  <2> SUFFICES ASSUME NEW F PROVE IsSum(F, g, S) <=> Is(F)
    OBVIOUS
  <2>1. \A s \in SUBSET S : s # {} => g[Pick(s)] = a[Pick(s)] - u[Pick(s)]
    BY DEF Pick
  <2>2. \A s \in SUBSET S : (IF s = {} THEN 0 ELSE g[Pick(s)] + F[s \ {Pick(s)}])
                              = (IF s = {} THEN 0 ELSE (a[Pick(s)] - u[Pick(s)]) + F[s \ {Pick(s)}])
    BY <2>1
  <2> QED BY <2>2 DEF IsSum
<1> DEFINE H == CHOOSE F : Is(F)
           G == CHOOSE F : IsSum(F, g, S)
<1>2. \E F : IsSum(F, g, S)
  BY SumExists
<1> HIDE DEF Is
<1>3. IsSum(H, g, S)
  BY <1>1, <1>2
<1>4. IsSum(G, g, S)
  BY <1>2
<1> HIDE DEF H, G
<1>5. H = G
  BY <1>3, <1>4, SumUnique
<1> QED
  BY <1>5 DEF LeftOver, TotalOver, H, G, Is

-----------------------------------------------------------------------------
(* A sum with one term. *)
LEMMA TotalOfOneTerm ==
  ASSUME NEW S, IsFiniteSet(S), NEW g \in [S -> Int], NEW x \in S, \A y \in S \ {x} : g[y] = 0
  PROVE  TotalOver(g, S) = g[x]
<1> DEFINE z == [y \in S |-> 0]
<1>1. z \in [S -> Int] /\ \A y \in S : z[y] = 0
  OBVIOUS
<1> HIDE DEF z
<1>2. TotalOver(z, S) = 0
  BY <1>1, TotalOfZeros
<1>3. \A y \in S \ {x} : z[y] = g[y]
  BY <1>1
<1>4. TotalOver(g, S) = TotalOver(z, S) + (g[x] - z[x])
  BY <1>1, <1>3, TotalOfOneChange
<1>5. z[x] = 0 /\ g[x] \in Int
  BY <1>1
<1> QED
  BY <1>2, <1>4, <1>5

(* A sum without negative terms is not negative, and no less than any of them. *)
LEMMA TermIsWithin ==
  ASSUME NEW S, IsFiniteSet(S), NEW g \in [S -> Int], \A y \in S : 0 <= g[y]
  PROVE  0 <= TotalOver(g, S) /\ \A x \in S : g[x] <= TotalOver(g, S)
<1>1. 0 <= TotalOver(g, S)
  <2> DEFINE z == [y \in S |-> 0]
  <2>1. z \in [S -> Int] /\ \A y \in S : z[y] = 0
    OBVIOUS
  <2> HIDE DEF z
  <2>2. TotalOver(z, S) = 0
    BY <2>1, TotalOfZeros
  <2>3. \A y \in S : z[y] <= g[y]
    BY <2>1
  <2>4. TotalOver(z, S) <= TotalOver(g, S)
    BY <2>1, <2>3, TotalIsMonotone
  <2> QED BY <2>2, <2>4
<1>2. ASSUME NEW x \in S PROVE g[x] <= TotalOver(g, S)
  <2> DEFINE one == [y \in S |-> IF y = x THEN g[x] ELSE 0]
  <2>1. one \in [S -> Int] /\ one[x] = g[x] /\ \A y \in S \ {x} : one[y] = 0
    OBVIOUS
  <2> HIDE DEF one
  <2>2. TotalOver(one, S) = one[x]
    BY <2>1, TotalOfOneTerm
  <2>3. \A y \in S : one[y] <= g[y]
    BY <2>1
  <2>4. TotalOver(one, S) <= TotalOver(g, S)
    BY <2>1, <2>3, TotalIsMonotone
  <2> QED BY <2>1, <2>2, <2>4
<1> QED
  BY <1>1, <1>2

(* The sum over a part is the sum of the terms in it. *)
LEMMA TotalOfSome ==
  ASSUME NEW S, IsFiniteSet(S), NEW T \in SUBSET S, NEW k \in [T -> Int], NEW h \in [S -> Int],
         \A x \in T : h[x] = k[x], \A x \in S \ T : h[x] = 0
  PROVE  TotalOver(h, S) = TotalOver(k, T)
<1>0. IsFiniteSet(T)
  BY FS_Subset
<1>1. PICK F \in [SUBSET S -> Int] : IsTotal(F, h, S)
  BY TotalOfParts
<1>2. PICK K \in [SUBSET T -> Int] : IsTotal(K, k, T)
  BY <1>0, TotalOfParts
<1> DEFINE Good == {s \in SUBSET S : F[s] = K[s \cap T]}
<1>3. {} \in Good
  BY <1>1, <1>2 DEF IsTotal
<1>4. ASSUME NEW s \in SUBSET S, s # {}, \A x \in s : s \ {x} \in Good PROVE s \in Good
  <2>1. PICK x : x \in s
    BY <1>4
  <2>2. F[s] = h[x] + F[s \ {x}]
    BY <1>1, <2>1 DEF IsTotal, TakesOut
  <2>3. F[s \ {x}] = K[(s \ {x}) \cap T]
    BY <1>4, <2>1
  <2>4. CASE x \in T
    <3>1. (s \ {x}) \cap T = (s \cap T) \ {x} /\ x \in s \cap T /\ s \cap T \in SUBSET T
      BY <2>1, <2>4
    <3>2. K[s \cap T] = k[x] + K[(s \cap T) \ {x}]
      BY <1>2, <3>1 DEF IsTotal, TakesOut
    <3>3. h[x] = k[x]
      BY <2>4
    <3> QED BY <2>2, <2>3, <3>1, <3>2, <3>3
  <2>5. CASE x \notin T
    <3>1. (s \ {x}) \cap T = s \cap T /\ s \cap T \in SUBSET T
      BY <2>5
    <3>2. h[x] = 0
      BY <2>1, <2>5
    <3>3. K[s \cap T] \in Int /\ F[s \ {x}] = K[s \cap T]
      BY <1>2, <2>3, <3>1
    <3>4. F[s] = K[s \cap T]
      BY <2>2, <3>2, <3>3
    <3> QED BY <3>4
  <2> QED BY <2>4, <2>5
<1>5. SUBSET S \subseteq Good
  <2>1. PICK G : G = Good
    OBVIOUS
  <2>2. \A s \in SUBSET S : s # {} /\ (\A x \in s : s \ {x} \in Good) => s \in Good
    <3> HIDE DEF Good
    <3> QED BY <1>4
  <2>3. {} \in G
    BY <1>3, <2>1
  <2>4. \A s \in SUBSET S : s # {} /\ (\A x \in s : s \ {x} \in G) => s \in G
    <3> HIDE DEF Good
    <3> QED BY <2>1, <2>2
  <2>5. SUBSET S \subseteq G
    BY <2>3, <2>4, SubsetsAreGood
  <2> QED BY <2>1, <2>5
<1>6. F[S] = K[S \cap T] /\ S \cap T = T
  BY <1>5
<1> QED
  BY <1>1, <1>2, <1>6 DEF IsTotal

(* A sum of so many equal terms. *)
LEMMA TotalOfSoMany ==
  ASSUME NEW S, IsFiniteSet(S), NEW T \in SUBSET S, NEW b \in Int, NEW h \in [S -> Int],
         \A x \in S : h[x] = IF x \in T THEN b ELSE 0
  PROVE  TotalOver(h, S) = Cardinality(T) * b
<1> DEFINE k == [x \in T |-> b]
<1>1. k \in [T -> Int] /\ \A x \in T : k[x] = b
  OBVIOUS
<1> HIDE DEF k
<1>2. IsFiniteSet(T)
  BY FS_Subset
<1>3. TotalOver(k, T) = Cardinality(T) * b
  BY <1>1, <1>2, TotalOfConstant
<1>4. TotalOver(h, S) = TotalOver(k, T)
  BY <1>1, TotalOfSome
<1> QED
  BY <1>3, <1>4
=============================================================================
