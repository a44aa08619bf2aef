--------------------------- MODULE CountingProofs ---------------------------
(***************************************************************************)
(* Facts about sums and orders that the proofs of several components need: *)
(* the sum of a function with a finite domain, SumFunction, does not       *)
(* depend on the order in which its values are added, so it follows a      *)
(* change of one value or of one element of the domain; and a strict order *)
(* of a finite set numbers its elements.                                   *)
(*                                                                         *)
(* The library's induction theorems cannot be used for this; a smallest    *)
(* set for which a fact fails takes their place.                           *)
(***************************************************************************)
EXTENDS Integers, FiniteSets, Functions, FiniteSetTheorems,
        WellFoundedInduction, TLAPS

(* A set of naturals that is not empty has a least element.                *)
LEMMA LeastNatural ==
  ASSUME NEW T \in SUBSET Nat, T # {}
  PROVE  \E m \in T : \A k \in T : m <= k
<1>1. PICK m \in T : \A k \in T : ~ (<<k, m>> \in OpToRel(<, Nat))
  BY WFMin, NatLessThanWellFounded
<1>2. \A k \in T : ~ (k < m)
  BY <1>1 DEF OpToRel
<1>3. QED
  BY <1>2

(* Of some subsets of a finite set, one is smallest.                       *)
LEMMA SmallestSet ==
  ASSUME NEW S, IsFiniteSet(S), NEW C \in SUBSET SUBSET S, C # {}
  PROVE  \E U \in C : \A V \in C : ~ (V \subseteq U /\ V # U)
<1>1. \A U \in C : IsFiniteSet(U) /\ Cardinality(U) \in Nat
  BY FS_Subset, FS_CardinalityType
<1> DEFINE sizes == {Cardinality(U) : U \in C}
<1>2. sizes \in SUBSET Nat /\ sizes # {}
  BY <1>1
<1>3. PICK m \in sizes : \A k \in sizes : m <= k
  <2> HIDE DEF sizes
  <2> QED
    BY <1>2, LeastNatural
<1>4. PICK U \in C : m = Cardinality(U)
  OBVIOUS
<1>5. ASSUME NEW V \in C, V \subseteq U, V # U PROVE FALSE
  <2>1. Cardinality(V) <= Cardinality(U) /\ Cardinality(V) # Cardinality(U)
    BY <1>1, <1>5, FS_Subset
  <2>2. Cardinality(U) <= Cardinality(V)
    BY <1>3, <1>4
  <2>3. Cardinality(U) \in Int /\ Cardinality(V) \in Int
    BY <1>1
  <2> QED
    BY <2>1, <2>2, <2>3
<1> QED
  BY <1>5
-----------------------------------------------------------------------------
(* The function SumFunction is defined by: the sums over all subsets of S. *)
Chosen(s) == CHOOSE x \in s : TRUE

Totals(f, S, g) ==
  g = [s \in SUBSET S |->
         IF s = {} THEN 0 ELSE f[Chosen(s)] + g[s \ {Chosen(s)}]]

LEMMA TotalsEmpty ==
  ASSUME NEW S, NEW f, NEW g, Totals(f, S, g)
  PROVE  g[{}] = 0
BY DEF Totals

LEMMA TotalsUnfold ==
  ASSUME NEW S, NEW f, NEW g, Totals(f, S, g),
         NEW s \in SUBSET S, s # {}, NEW w, w = s \ {Chosen(s)}
  PROVE  Chosen(s) \in s /\ g[s] = f[Chosen(s)] + g[w]
<1>1. Chosen(s) \in s
  BY DEF Chosen
<1>2. g[s] = f[Chosen(s)] + g[w]
  <2> HIDE DEF Chosen
  <2> QED
    BY DEF Totals
<1> QED
  BY <1>1, <1>2

LEMMA TotalsAreIntegers ==
  ASSUME NEW S, IsFiniteSet(S), NEW f \in [S -> Int], NEW g, Totals(f, S, g)
  PROVE  g \in [SUBSET S -> Int]
<1> DEFINE C == {s \in SUBSET S : g[s] \notin Int}
<1>1. SUFFICES C = {}
  BY DEF Totals
<1>2. SUFFICES ASSUME C # {} PROVE FALSE
  OBVIOUS
<1>3. PICK U \in C : \A V \in C : ~ (V \subseteq U /\ V # U)
  <2>1. C \in SUBSET SUBSET S
    OBVIOUS
  <2> HIDE DEF C
  <2> QED
    BY <1>2, <2>1, SmallestSet
<1>4. U \in SUBSET S /\ g[U] \notin Int
  OBVIOUS
<1>5. U # {}
  BY <1>4, TotalsEmpty
<1>6. PICK W : W = U \ {Chosen(U)}
  OBVIOUS
<1> HIDE DEF C
<1>7. Chosen(U) \in U /\ g[U] = f[Chosen(U)] + g[W]
  BY <1>4, <1>5, <1>6, TotalsUnfold
<1>8. W \in SUBSET S /\ W \subseteq U /\ W # U
  BY <1>4, <1>6, <1>7
<1>9. W \notin C
  BY <1>3, <1>8
<1>10. g[W] \in Int
  BY <1>8, <1>9 DEF C
<1>11. f[Chosen(U)] \in Int
  BY <1>4, <1>7
<1> QED
  BY <1>4, <1>7, <1>10, <1>11

(***************************************************************************)
(* Such a function exists: take one that is right for the sets of up to n  *)
(* elements, and correct it for those of n + 1.                            *)
(***************************************************************************)
LEMMA TotalsExist ==
  ASSUME NEW S, IsFiniteSet(S), NEW f \in [S -> Int]
  PROVE  \E g : Totals(f, S, g)
<1> DEFINE Next(g, s) == IF s = {} THEN 0
                         ELSE f[Chosen(s)] + g[s \ {Chosen(s)}]
           Upto(g, n) == \A s \in SUBSET S : Cardinality(s) <= n => g[s] = Next(g, s)
           Bad == {n \in Nat : ~ \E g : g = [s \in SUBSET S |-> g[s]] /\ Upto(g, n)}
<1>1. \A s \in SUBSET S : IsFiniteSet(s) /\ Cardinality(s) \in Nat
  BY FS_Subset, FS_CardinalityType
<1>2. 0 \notin Bad
  <2> DEFINE g == [s \in SUBSET S |-> 0]
  <2>1. \A s \in SUBSET S : Cardinality(s) <= 0 => s = {}
    BY <1>1, FS_EmptySet
  <2>2. Upto(g, 0) /\ g = [s \in SUBSET S |-> g[s]]
    BY <2>1
  <2> QED
    BY <2>2
<1>3. ASSUME NEW n \in Nat, n \notin Bad PROVE n + 1 \notin Bad
  <2>1. PICK g : g = [s \in SUBSET S |-> g[s]] /\ Upto(g, n)
    BY <1>3
  <2> DEFINE h == [s \in SUBSET S |-> Next(g, s)]
  <2>2. \A s \in SUBSET S : Cardinality(s) <= n => h[s] = g[s]
    BY <2>1
  <2>3. ASSUME NEW s \in SUBSET S, Cardinality(s) <= n + 1
        PROVE  h[s] = Next(h, s)
    <3>1. CASE s = {}
      BY <3>1
    <3>2. CASE s # {}
      <4>1. Chosen(s) \in s
        BY <3>2 DEF Chosen
      <4>2. s \ {Chosen(s)} \in SUBSET S
            /\ Cardinality(s \ {Chosen(s)}) = Cardinality(s) - 1
        BY <1>1, <4>1, FS_RemoveElement
      <4>3. Cardinality(s \ {Chosen(s)}) <= n
        BY <1>1, <2>3, <4>2
      <4>4. h[s \ {Chosen(s)}] = g[s \ {Chosen(s)}]
        BY <2>2, <4>2, <4>3
      <4>5. h[s] = f[Chosen(s)] + g[s \ {Chosen(s)}]
        BY <3>2
      <4> HIDE DEF h
      <4> QED
        BY <3>2, <4>4, <4>5
    <3> QED
      BY <3>1, <3>2
  <2>4. h = [s \in SUBSET S |-> h[s]]
    OBVIOUS
  <2> HIDE DEF h, Next
  <2> QED
    BY <2>3, <2>4
<1>4. Bad = {}
  <2>1. SUFFICES ASSUME Bad # {} PROVE FALSE
    OBVIOUS
  <2>2. PICK m \in Bad : \A k \in Bad : m <= k
    <3>1. Bad \in SUBSET Nat
      OBVIOUS
    <3> HIDE DEF Bad
    <3> QED
      BY <2>1, <3>1, LeastNatural
  <2>3. m \in Nat /\ m # 0
    BY <1>2
  <2>4. m - 1 \in Nat /\ m - 1 \notin Bad
    <3> HIDE DEF Bad
    <3> QED
      BY <2>2, <2>3
  <2>5. (m - 1) + 1 \notin Bad
    <3> HIDE DEF Bad
    <3> QED
      BY <1>3, <2>4
  <2> HIDE DEF Bad
  <2> QED
    BY <2>2, <2>3, <2>5
<1>5. Cardinality(S) \in Nat
  BY FS_CardinalityType
<1>6. PICK g : g = [s \in SUBSET S |-> g[s]] /\ Upto(g, Cardinality(S))
  BY <1>4, <1>5
<1>7. \A s \in SUBSET S : g[s] = Next(g, s)
  <2>1. \A s \in SUBSET S : Cardinality(s) <= Cardinality(S)
    BY FS_Subset
  <2> HIDE DEF Next
  <2> QED
    BY <1>6, <2>1
<1>8. g = [s \in SUBSET S |-> Next(g, s)]
  <2> HIDE DEF Next
  <2> QED
    BY <1>6, <1>7
<1> QED
  BY <1>8 DEF Totals

(* Where two functions agree, so do their sums, whatever the domains.      *)
LEMMA TotalsAgree ==
  ASSUME NEW S, IsFiniteSet(S), NEW T \in SUBSET S,
         NEW f \in [S -> Int], NEW h \in [T -> Int], \A x \in T : f[x] = h[x],
         NEW g, Totals(f, S, g), NEW k, Totals(h, T, k)
  PROVE  \A U \in SUBSET T : g[U] = k[U]
<1> DEFINE C == {U \in SUBSET T : g[U] # k[U]}
<1>1. SUFFICES ASSUME C # {} PROVE FALSE
  OBVIOUS
<1>2. IsFiniteSet(T) /\ C \in SUBSET SUBSET T
  BY FS_Subset
<1>3. PICK U \in C : \A V \in C : ~ (V \subseteq U /\ V # U)
  <2> HIDE DEF C
  <2> QED
    BY <1>1, <1>2, SmallestSet
<1>4. U \in SUBSET T /\ U \in SUBSET S /\ g[U] # k[U]
  OBVIOUS
<1>5. U # {}
  <2>1. g[{}] = 0 /\ k[{}] = 0
    BY TotalsEmpty
  <2> QED
    BY <1>4, <2>1
<1> HIDE DEF C
<1>6. PICK W : W = U \ {Chosen(U)}
  OBVIOUS
<1>7. Chosen(U) \in U /\ g[U] = f[Chosen(U)] + g[W]
  BY <1>4, <1>5, <1>6, TotalsUnfold
<1>8. k[U] = h[Chosen(U)] + k[W]
  BY <1>4, <1>5, <1>6, TotalsUnfold
<1>9. W \in SUBSET T /\ W \subseteq U /\ W # U
  BY <1>4, <1>6, <1>7
<1>10. W \notin C
  BY <1>3, <1>9
<1>11. g[W] = k[W] /\ f[Chosen(U)] = h[Chosen(U)]
  BY <1>4, <1>7, <1>9, <1>10 DEF C
<1> QED
  BY <1>4, <1>7, <1>8, <1>11

(* The element that is added last does not matter.                         *)
LEMMA TotalsRemove ==
  ASSUME NEW S, IsFiniteSet(S), NEW f \in [S -> Int], NEW g, Totals(f, S, g),
         NEW U \in SUBSET S, NEW x \in U, NEW w, w = U \ {x}
  PROVE  g[U] = f[x] + g[w]
<1> DEFINE Right(V) == \A y \in V, t \in SUBSET S :
                          t = V \ {y} => g[V] = f[y] + g[t]
           C == {V \in SUBSET S : ~ Right(V)}
<1>1. SUFFICES C = {}
  OBVIOUS
<1>2. SUFFICES ASSUME C # {} PROVE FALSE
  OBVIOUS
<1>3. PICK V \in C : \A W \in C : ~ (W \subseteq V /\ W # V)
  <2>1. C \in SUBSET SUBSET S
    OBVIOUS
  <2> HIDE DEF C
  <2> QED
    BY <1>2, <2>1, SmallestSet
<1>4. PICK y \in V, t \in SUBSET S :
        V \in SUBSET S /\ t = V \ {y} /\ g[V] # f[y] + g[t]
  OBVIOUS
<1>5. \A W \in SUBSET S : W \subseteq V /\ W # V => Right(W)
  <2> HIDE DEF Right
  <2> QED
    BY <1>3
<1> HIDE DEF C
<1>6. PICK c : c = Chosen(V)
  OBVIOUS
<1>7. PICK u : u = V \ {c}
  OBVIOUS
<1>8. c \in V /\ g[V] = f[c] + g[u]
  BY <1>4, <1>6, <1>7, TotalsUnfold
<1>9. c # y
  BY <1>4, <1>7, <1>8
<1>10. PICK r : r = u \ {y}
  OBVIOUS
<1>11. /\ u \in SUBSET S /\ u \subseteq V /\ u # V /\ y \in u
       /\ t \subseteq V /\ t # V /\ c \in t
       /\ r \in SUBSET S /\ r = t \ {c}
  BY <1>4, <1>7, <1>8, <1>9, <1>10
<1>12. g[u] = f[y] + g[r]
  BY <1>5, <1>10, <1>11
<1>13. g[t] = f[c] + g[r]
  BY <1>5, <1>11
<1>14. /\ f[c] \in Int /\ f[y] \in Int
       /\ g[r] \in Int
  <2>1. g \in [SUBSET S -> Int]
    BY TotalsAreIntegers
  <2> QED
    BY <1>4, <1>8, <1>11, <2>1
<1> QED
  BY <1>4, <1>8, <1>12, <1>13, <1>14
-----------------------------------------------------------------------------
LEMMA SumIsTotal ==
  ASSUME NEW S, IsFiniteSet(S), NEW f \in [S -> Int]
  PROVE  \E g : Totals(f, S, g) /\ SumFunction(f) = g[S]
<1> DEFINE g == CHOOSE iter : Totals(f, S, iter)
<1>1. Totals(f, S, g)
  BY TotalsExist
<1>2. SumFunction(f) = g[S]
  BY DEF SumFunction, SumFunctionOnSet, FoldFunctionOnSet, MapThenFoldSet,
     Totals, Chosen
<1> QED
  BY <1>1, <1>2

(* The sum of no values, and the sum of integers.                          *)
LEMMA SumEmpty ==
  ASSUME NEW f \in [{} -> Int]
  PROVE  SumFunction(f) = 0
<1>1. PICK g : Totals(f, {}, g) /\ SumFunction(f) = g[{}]
  BY SumIsTotal, FS_EmptySet
<1> QED
  BY <1>1, TotalsEmpty

LEMMA SumType ==
  ASSUME NEW S, IsFiniteSet(S), NEW f \in [S -> Int]
  PROVE  SumFunction(f) \in Int
<1>1. PICK g : Totals(f, S, g) /\ SumFunction(f) = g[S]
  BY SumIsTotal
<1>2. g \in [SUBSET S -> Int]
  BY <1>1, TotalsAreIntegers
<1>3. S \in SUBSET S
  OBVIOUS
<1> QED
  BY <1>1, <1>2, <1>3

(* Any element can be taken out of the domain, with its value.             *)
LEMMA SumRemove ==
  ASSUME NEW S, IsFiniteSet(S), NEW f \in [S -> Int], NEW x \in S,
         NEW T, T = S \ {x}, NEW h \in [T -> Int], \A y \in T : h[y] = f[y]
  PROVE  SumFunction(f) = f[x] + SumFunction(h)
<1>1. IsFiniteSet(T) /\ T \in SUBSET S
  BY FS_Subset
<1>2. PICK g : Totals(f, S, g) /\ SumFunction(f) = g[S]
  BY SumIsTotal
<1>3. PICK k : Totals(h, T, k) /\ SumFunction(h) = k[T]
  BY <1>1, SumIsTotal
<1>4. g[T] = k[T]
  BY <1>1, <1>2, <1>3, TotalsAgree
<1>5. g[S] = f[x] + g[T]
  BY <1>2, TotalsRemove
<1> QED
  BY <1>2, <1>3, <1>4, <1>5

(* One value changes: so does the sum, by as much.                         *)
LEMMA SumChange ==
  ASSUME NEW S, IsFiniteSet(S), NEW f \in [S -> Int], NEW h \in [S -> Int],
         NEW x \in S, \A y \in S : y # x => h[y] = f[y]
  PROVE  SumFunction(h) = SumFunction(f) - f[x] + h[x]
<1>1. PICK T : T = S \ {x}
  OBVIOUS
<1>2. PICK k : k = [y \in T |-> f[y]]
  OBVIOUS
<1>3. k \in [T -> Int] /\ (\A y \in T : k[y] = f[y]) /\ (\A y \in T : k[y] = h[y])
  BY <1>1, <1>2
<1>4. SumFunction(f) = f[x] + SumFunction(k)
  BY <1>1, <1>3, SumRemove
<1>5. SumFunction(h) = h[x] + SumFunction(k)
  BY <1>1, <1>3, SumRemove
<1>6. SumFunction(k) \in Int /\ f[x] \in Int /\ h[x] \in Int
  BY <1>1, <1>3, SumType, FS_Subset
<1> QED
  BY <1>4, <1>5, <1>6

(* Values that are all 0 add up to 0.                                      *)
LEMMA SumZero ==
  ASSUME NEW S, IsFiniteSet(S), NEW f \in [S -> Int], \A x \in S : f[x] = 0
  PROVE  SumFunction(f) = 0
<1>1. PICK g : Totals(f, S, g) /\ SumFunction(f) = g[S]
  BY SumIsTotal
<1> DEFINE C == {U \in SUBSET S : g[U] # 0}
<1>2. SUFFICES ASSUME C # {} PROVE FALSE
  BY <1>1
<1>3. PICK U \in C : \A V \in C : ~ (V \subseteq U /\ V # U)
  <2>1. C \in SUBSET SUBSET S
    OBVIOUS
  <2> HIDE DEF C
  <2> QED
    BY <1>2, <2>1, SmallestSet
<1>4. U \in SUBSET S /\ g[U] # 0
  OBVIOUS
<1>5. U # {}
  BY <1>1, <1>4, TotalsEmpty
<1> HIDE DEF C
<1>6. PICK x : x \in U
  BY <1>5
<1>7. PICK W : W = U \ {x}
  OBVIOUS
<1>8. g[U] = f[x] + g[W]
  BY <1>1, <1>4, <1>6, <1>7, TotalsRemove
<1>9. W \in SUBSET S /\ W \subseteq U /\ W # U
  BY <1>4, <1>6, <1>7
<1>10. g[W] = 0
  BY <1>3, <1>9 DEF C
<1> QED
  BY <1>4, <1>6, <1>8, <1>10

(* What a function with a finite domain maps to is a finite set.           *)
LEMMA ImageIsFinite ==
  ASSUME NEW S, IsFiniteSet(S), NEW T, NEW f \in [S -> T],
         NEW R, \A y \in R : \E x \in S : y = f[x]
  PROVE  IsFiniteSet(R)
<1> DEFINE I == {f[x] : x \in S}
<1>1. f \in Surjection(S, I) /\ R \subseteq I
  BY DEF Surjection
<1> HIDE DEF I
<1>2. IsFiniteSet(I)
  BY <1>1, FS_Surjection
<1> QED
  BY <1>1, <1>2, FS_Subset

(* Naturals add up to a natural.                                           *)
LEMMA SumNatural ==
  ASSUME NEW S, IsFiniteSet(S), NEW f \in [S -> Nat]
  PROVE  SumFunction(f) \in Nat
<1>0. f \in [S -> Int]
  OBVIOUS
<1>1. PICK g : Totals(f, S, g) /\ SumFunction(f) = g[S]
  BY <1>0, SumIsTotal
<1>2. g \in [SUBSET S -> Int]
  BY <1>0, <1>1, TotalsAreIntegers
<1> DEFINE C == {U \in SUBSET S : ~ (g[U] >= 0)}
<1>3. SUFFICES ASSUME C # {} PROVE FALSE
  BY <1>1, <1>2
<1>4. PICK U \in C : \A V \in C : ~ (V \subseteq U /\ V # U)
  <2>1. C \in SUBSET SUBSET S
    OBVIOUS
  <2> HIDE DEF C
  <2> QED
    BY <1>3, <2>1, SmallestSet
<1>5. U \in SUBSET S /\ ~ (g[U] >= 0)
  OBVIOUS
<1>6. U # {}
  BY <1>1, <1>5, TotalsEmpty
<1> HIDE DEF C
<1>7. PICK x : x \in U
  BY <1>6
<1>8. PICK W : W = U \ {x}
  OBVIOUS
<1>9. g[U] = f[x] + g[W]
  BY <1>0, <1>1, <1>5, <1>7, <1>8, TotalsRemove
<1>10. W \in SUBSET S /\ W \subseteq U /\ W # U
  BY <1>5, <1>7, <1>8
<1>11. W \notin C
  BY <1>4, <1>10
<1>12. g[W] >= 0
  BY <1>10, <1>11 DEF C
<1>13. f[x] \in Nat /\ g[W] \in Int
  BY <1>2, <1>5, <1>7, <1>10
<1> QED
  BY <1>5, <1>9, <1>12, <1>13

-----------------------------------------------------------------------------
(* R orders the elements of S strictly, and any two of them.               *)
IsOrder(R, S) ==
  /\ \A c \in S : <<c, c>> \notin R
  /\ \A c, d, e \in S : <<c, d>> \in R /\ <<d, e>> \in R => <<c, e>> \in R
  /\ \A c, d \in S : c = d \/ <<c, d>> \in R \/ <<d, c>> \in R

(* The number of elements of S that R has before each of them.             *)
Earlier(S, R) == [c \in S |-> Cardinality({d \in S : <<d, c>> \in R})]

(***************************************************************************)
(* The numbers of elements before the elements of an order run through     *)
(* 0 .. n - 1, one for each of them.                                       *)
(***************************************************************************)
LEMMA BeforeIsOneToOne ==
  ASSUME NEW S, IsFiniteSet(S), NEW R, IsOrder(R, S),
         NEW n, n = Cardinality(S), NEW b, b = Earlier(S, R)
  PROVE  /\ n \in Nat
         /\ \A c \in S : b[c] \in 0..(n - 1)
         /\ \A c, d \in S : <<c, d>> \in R <=> b[c] < b[d]
         /\ \A c, d \in S : b[c] = b[d] => c = d
         /\ \A i \in 1..n : \E c \in S : b[c] = i - 1
<1> DEFINE before(c) == {d \in S : <<d, c>> \in R}
<1>1. n \in Nat
  BY FS_CardinalityType
<1>2. /\ \A c \in S : b[c] = Cardinality(before(c))
      /\ b = [c \in S |-> b[c]]
  BY DEF Earlier
<1>a. \A c \in S : before(c) \in SUBSET S /\ c \notin before(c)
  BY DEF IsOrder
<1>b. \A c, d \in S : <<c, d>> \in R =>
                         before(c) \in SUBSET before(d) /\ c \in before(d)
  BY DEF IsOrder
<1> HIDE DEF before
<1>3. ASSUME NEW c \in S
      PROVE  IsFiniteSet(before(c)) /\ b[c] \in 0..(n - 1)
  <2>1. before(c) \in SUBSET S /\ before(c) # S
    BY <1>a
  <2>2. /\ IsFiniteSet(before(c)) /\ Cardinality(before(c)) <= n
        /\ (n = Cardinality(before(c)) => S = before(c))
    BY <2>1, FS_Subset
  <2>3. Cardinality(before(c)) \in Nat
    BY <2>2, FS_CardinalityType
  <2> QED
    BY <1>1, <1>2, <2>1, <2>2, <2>3
<1>4. ASSUME NEW c \in S, NEW d \in S, <<c, d>> \in R PROVE b[c] < b[d]
  <2>1. before(c) \in SUBSET before(d) /\ before(c) # before(d)
    BY <1>4, <1>a, <1>b
  <2>2. IsFiniteSet(before(d)) /\ b[c] \in Int /\ b[d] \in Int
    BY <1>1, <1>3
  <2>3. /\ Cardinality(before(c)) <= Cardinality(before(d))
        /\ (Cardinality(before(d)) = Cardinality(before(c))
              => before(d) = before(c))
    BY <2>1, <2>2, FS_Subset
  <2> QED
    BY <1>2, <2>1, <2>2, <2>3
<1>c. \A c, d \in S : c = d \/ <<c, d>> \in R \/ <<d, c>> \in R
  BY DEF IsOrder
<1>5. ASSUME NEW c \in S, NEW d \in S
      PROVE  /\ b[c] = b[d] => c = d
             /\ <<c, d>> \in R <=> b[c] < b[d]
  <2>1. b[c] \in Int /\ b[d] \in Int
    BY <1>1, <1>3
  <2>2. (<<c, d>> \in R => b[c] < b[d]) /\ (<<d, c>> \in R => b[d] < b[c])
    BY <1>4
  <2> QED
    BY <1>c, <2>1, <2>2
<1>6. \A c, d \in S : b[c] = b[d] => c = d
  BY <1>5
<1>7. \A c, d \in S : <<c, d>> \in R <=> b[c] < b[d]
  BY <1>5
<1>8. \A i \in 1..n : \E c \in S : b[c] = i - 1
  <2>1. IsFiniteSet(0..(n - 1)) /\ Cardinality(0..(n - 1)) = n
    <3>1. \A m \in Nat : /\ IsFiniteSet(0..(m - 1))
                         /\ Cardinality(0..(m - 1)) = m
      BY FS_Interval
    <3> QED
      BY <1>1, <3>1
  <2>2. b \in Injection(S, 0..(n - 1))
    BY <1>2, <1>3, <1>6 DEF Injection, IsInjective
  <2>3. b \in Surjection(S, 0..(n - 1))
    BY <2>1, <2>2, FS_Injection
  <2>4. \A i \in 1..n : i - 1 \in 0..(n - 1)
    BY <1>1
  <2> QED
    BY <2>3, <2>4 DEF Surjection
<1> QED
  BY <1>1, <1>3, <1>6, <1>7, <1>8
=============================================================================
