-------------------------- MODULE RetrievalProofs --------------------------
(***************************************************************************)
(* Proofs about Retrieval, for any number of chunks, tenants, requests and *)
(* permissions: what ordering, cutting and fusing lists of chunks does,    *)
(* and from it which chunks an answer holds and in which order.            *)
(***************************************************************************)
EXTENDS Retrieval, FiniteSetTheorems, CountingProofs, TLAPS

(* Ranked lists every element of S once, in the order.                     *)
LEMMA RankedBy ==
  ASSUME NEW S, IsFiniteSet(S), NEW R, IsOrder(R, S),
         NEW r, r = Ranked(S, R)
  PROVE  /\ Cardinality(S) \in Nat
         /\ r \in Seq(S) /\ Len(r) = Cardinality(S)
         /\ Range(r) = S /\ IsInjective(r)
         /\ \A i, j \in 1..Len(r) : <<r[i], r[j]>> \in R <=> i < j
<1>1. PICK n, b : n = Cardinality(S) /\ b = Earlier(S, R)
  OBVIOUS
<1>2. /\ n \in Nat
      /\ \A c \in S : b[c] \in 0..(n - 1)
      /\ \A c, d \in S : <<c, d>> \in R <=> b[c] < b[d]
      /\ \A c, d \in S : b[c] = b[d] => c = d
      /\ \A i \in 1..n : \E c \in S : b[c] = i - 1
  BY <1>1, BeforeIsOneToOne
<1> DEFINE at(i) ==
             CHOOSE c \in S : Cardinality({d \in S : <<d, c>> \in R}) = i - 1
<1>3. r = [i \in 1..n |-> at(i)]
  BY <1>1 DEF Ranked
<1>a. \A c \in S : b[c] = Cardinality({d \in S : <<d, c>> \in R})
  BY <1>1 DEF Earlier
<1>b. ASSUME NEW i \in 1..n PROVE at(i) \in S /\ b[at(i)] = i - 1
  <2>1. \E c \in S : Cardinality({d \in S : <<d, c>> \in R}) = i - 1
    BY <1>2, <1>a
  <2>2. /\ at(i) \in S
        /\ Cardinality({d \in S : <<d, at(i)>> \in R}) = i - 1
    BY <2>1
  <2> QED
    BY <1>a, <2>2
<1> HIDE DEF at
<1>4. DOMAIN r = 1..n /\ \A i \in 1..n : r[i] \in S /\ b[r[i]] = i - 1
  BY <1>3, <1>b
<1>5. r \in Seq(S) /\ Len(r) = n
  BY <1>2, <1>3, <1>4
<1>6. Range(r) = S
  <2>1. ASSUME NEW c \in S PROVE c \in Range(r)
    <3>1. b[c] + 1 \in 1..n
      BY <1>2
    <3>2. r[b[c] + 1] \in S /\ b[r[b[c] + 1]] = b[c]
      BY <1>2, <1>4, <3>1
    <3>3. r[b[c] + 1] = c
      BY <1>2, <3>2
    <3> QED
      BY <1>4, <3>1, <3>3 DEF Range
  <2> QED
    BY <1>4, <2>1 DEF Range
<1>7. IsInjective(r)
  <2>1. \A i, j \in 1..n : r[i] = r[j] => i = j
    BY <1>2, <1>4
  <2> QED
    BY <1>4, <2>1 DEF IsInjective
<1>8. \A i, j \in 1..n : <<r[i], r[j]>> \in R <=> i < j
  BY <1>2, <1>4
<1> QED
  BY <1>1, <1>2, <1>5, <1>6, <1>7, <1>8

-----------------------------------------------------------------------------
(* The place of an element of a list without repetitions.                  *)
LEMMA PlaceOf ==
  ASSUME NEW S, NEW s \in Seq(S), IsInjective(s)
  PROVE  /\ \A i \in 1..Len(s) : s[i] \in Range(s) /\ Place(s, s[i]) = i
         /\ \A c \in Range(s) : /\ Place(s, c) \in 1..Len(s)
                                /\ s[Place(s, c)] = c
<1>1. DOMAIN s = 1..Len(s)
  OBVIOUS
<1>2. ASSUME NEW c \in Range(s)
      PROVE  Place(s, c) \in 1..Len(s) /\ s[Place(s, c)] = c
  <2>1. \E i \in DOMAIN s : s[i] = c
    BY DEF Range
  <2> QED
    BY <1>1, <2>1 DEF Place
<1>3. ASSUME NEW i \in 1..Len(s)
      PROVE  s[i] \in Range(s) /\ Place(s, s[i]) = i
  <2>1. s[i] \in Range(s)
    BY <1>1 DEF Range
  <2>2. Place(s, s[i]) \in DOMAIN s /\ s[Place(s, s[i])] = s[i]
    BY <1>1, <1>2, <2>1
  <2> QED
    BY <1>1, <2>1, <2>2 DEF IsInjective
<1> QED
  BY <1>2, <1>3

(* Ranked places an element before another when the order does.            *)
LEMMA RankedPlaces ==
  ASSUME NEW S, IsFiniteSet(S), NEW R, IsOrder(R, S),
         NEW r, r = Ranked(S, R)
  PROVE  /\ r \in Seq(S) /\ Len(r) = Cardinality(S)
         /\ Range(r) = S /\ IsInjective(r)
         /\ \A c, d \in S : <<c, d>> \in R <=> Place(r, c) < Place(r, d)
<1>1. /\ r \in Seq(S) /\ Len(r) = Cardinality(S)
      /\ Range(r) = S /\ IsInjective(r)
      /\ \A i, j \in 1..Len(r) : <<r[i], r[j]>> \in R <=> i < j
  BY RankedBy
<1>2. \A c \in S : Place(r, c) \in 1..Len(r) /\ r[Place(r, c)] = c
  BY <1>1, PlaceOf
<1>3. ASSUME NEW c \in S, NEW d \in S
      PROVE  <<c, d>> \in R <=> Place(r, c) < Place(r, d)
  <2>1. /\ Place(r, c) \in 1..Len(r) /\ r[Place(r, c)] = c
        /\ Place(r, d) \in 1..Len(r) /\ r[Place(r, d)] = d
    BY <1>2
  <2>2. <<r[Place(r, c)], r[Place(r, d)]>> \in R <=> Place(r, c) < Place(r, d)
    BY <1>1, <2>1
  <2> QED
    BY <2>1, <2>2
<1> QED
  BY <1>1, <1>3

(* A list without repetitions orders its elements.                         *)
LEMMA AlongPlaces ==
  ASSUME NEW X, NEW s \in Seq(X), IsInjective(s),
         NEW S \in SUBSET Range(s), NEW r, r = Along(s, S)
  PROVE  /\ r \in Seq(S) /\ Len(r) \in Nat /\ Len(r) <= Len(s)
         /\ Range(r) = S /\ IsInjective(r)
         /\ \A c, d \in S : Place(s, c) < Place(s, d)
                              <=> Place(r, c) < Place(r, d)
<1>1. \A c \in Range(s) : Place(s, c) \in 1..Len(s) /\ s[Place(s, c)] = c
  BY PlaceOf
<1>2. PICK R : R = {p \in S \X S : Place(s, p[1]) < Place(s, p[2])}
  OBVIOUS
<1>3. \A c, d \in S : <<c, d>> \in R <=> Place(s, c) < Place(s, d)
  BY <1>2
<1>4. /\ Len(s) \in Nat
      /\ \A c \in S : Place(s, c) \in 1..Len(s) /\ s[Place(s, c)] = c
  BY <1>1
<1>5. IsOrder(R, S)
  <2>1. \A c \in S : <<c, c>> \notin R
    BY <1>3, <1>4
  <2>2. ASSUME NEW c \in S, NEW d \in S, NEW e \in S,
               <<c, d>> \in R, <<d, e>> \in R
        PROVE  <<c, e>> \in R
    BY <1>3, <1>4, <2>2
  <2>3. ASSUME NEW c \in S, NEW d \in S, c # d
        PROVE  <<c, d>> \in R \/ <<d, c>> \in R
    <3>1. /\ Place(s, c) \in 1..Len(s) /\ s[Place(s, c)] = c
          /\ Place(s, d) \in 1..Len(s) /\ s[Place(s, d)] = d
      BY <1>4
    <3>2. Place(s, c) # Place(s, d)
      BY <2>3, <3>1
    <3>3. Place(s, c) < Place(s, d) \/ Place(s, d) < Place(s, c)
      BY <1>4, <3>1, <3>2
    <3> QED
      BY <1>3, <3>3
  <2> QED
    BY <2>1, <2>2, <2>3 DEF IsOrder
<1>6. IsFiniteSet(S) /\ Cardinality(S) <= Len(s)
  <2>1. IsFiniteSet(1..Len(s)) /\ Cardinality(1..Len(s)) = Len(s)
    <3>1. \A n \in Nat : IsFiniteSet(1..n) /\ Cardinality(1..n) = n
      BY FS_Interval
    <3> QED
      BY <1>4, <3>1
  <2>2. PICK g : g = [c \in S |-> Place(s, c)]
    OBVIOUS
  <2>3. g \in Injection(S, 1..Len(s))
    BY <1>4, <2>2 DEF Injection, IsInjective
  <2> QED
    BY <2>1, <2>3, FS_Injection
<1>7. r = Ranked(S, R)
  BY <1>2 DEF Along
<1>8. /\ r \in Seq(S) /\ Len(r) = Cardinality(S)
      /\ Range(r) = S /\ IsInjective(r)
      /\ \A c, d \in S : <<c, d>> \in R <=> Place(r, c) < Place(r, d)
  BY <1>5, <1>6, <1>7, RankedPlaces
<1>9. Len(r) \in Nat /\ Len(r) <= Len(s)
  BY <1>6, <1>8
<1>10. ASSUME NEW c \in S, NEW d \in S
       PROVE  Place(s, c) < Place(s, d) <=> Place(r, c) < Place(r, d)
  BY <1>3, <1>8
<1> QED
  BY <1>8, <1>9, <1>10

(* Take keeps the first k elements of a list, at their places.             *)
LEMMA TakePlaces ==
  ASSUME NEW X, NEW s \in Seq(X), IsInjective(s), NEW k \in Nat,
         NEW t, t = Take(k, s)
  PROVE  /\ t \in Seq(X) /\ Len(t) \in Nat /\ Len(t) <= k /\ IsInjective(t)
         /\ Range(t) \subseteq Range(s)
         /\ \A c \in Range(s) : c \in Range(t) <=> Place(s, c) <= k
         /\ \A c \in Range(t) : Place(t, c) = Place(s, c)
         /\ Range(t) # Range(s) => Len(t) = k
<1>1. PICK n : n = IF k < Len(s) THEN k ELSE Len(s)
  OBVIOUS
<1>2. n \in Nat /\ n <= k /\ n <= Len(s) /\ (n = k \/ n = Len(s))
      /\ Len(s) \in Nat
  BY <1>1
<1>3. t \in Seq(X) /\ Len(t) = n /\ \A i \in 1..n : t[i] = s[i]
  BY <1>1, <1>2 DEF Take
<1>4. DOMAIN s = 1..Len(s) /\ DOMAIN t = 1..n
  BY <1>3
<1>5. IsInjective(t)
  <2>1. \A i, j \in 1..n : t[i] = t[j] => i = j
    <3>1. \A i, j \in 1..Len(s) : s[i] = s[j] => i = j
      BY <1>4 DEF IsInjective
    <3>2. \A i \in 1..n : i \in 1..Len(s)
      BY <1>2
    <3> QED
      BY <1>3, <3>1, <3>2
  <2> QED
    BY <1>4, <2>1 DEF IsInjective
<1>6. \A c \in Range(s) : Place(s, c) \in 1..Len(s) /\ s[Place(s, c)] = c
  BY PlaceOf
<1>7. \A i \in 1..Len(s) : s[i] \in Range(s) /\ Place(s, s[i]) = i
  BY PlaceOf
<1>8. \A c \in Range(t) : Place(t, c) \in 1..n /\ t[Place(t, c)] = c
  BY <1>3, <1>5, PlaceOf
<1>9. ASSUME NEW c \in Range(t)
      PROVE  /\ c \in Range(s) /\ Place(s, c) = Place(t, c)
             /\ Place(s, c) <= k
  <2>1. /\ Place(t, c) \in 1..n /\ t[Place(t, c)] = c
        /\ Place(t, c) \in 1..Len(s)
    BY <1>2, <1>8
  <2>2. s[Place(t, c)] = c
    BY <1>3, <2>1
  <2> QED
    BY <1>2, <1>7, <2>1, <2>2
<1>10. ASSUME NEW c \in Range(s), Place(s, c) <= k PROVE c \in Range(t)
  <2>1. Place(s, c) \in 1..n /\ s[Place(s, c)] = c
    BY <1>2, <1>6, <1>10
  <2>2. t[Place(s, c)] = c
    BY <1>3, <2>1
  <2> QED
    BY <1>4, <2>1, <2>2 DEF Range
<1>11. ASSUME n # k PROVE Range(s) \subseteq Range(t)
  BY <1>2, <1>6, <1>10, <1>11
<1> QED
  BY <1>2, <1>3, <1>5, <1>9, <1>10, <1>11

-----------------------------------------------------------------------------
(* Inequalities can be multiplied with positive numbers and divided by     *)
(* them.                                                                   *)
LEMMA Scaling ==
  ASSUME NEW a \in Int, NEW b \in Int, NEW k \in Nat \ {0}
  PROVE  a * k > b * k <=> a > b
<1>1. a > b => a * k > b * k
  <2> SUFFICES ASSUME a > b PROVE a * k > b * k
    OBVIOUS
  <2>1. (a - b) * k > 0
    OBVIOUS
  <2>2. (a - b) * k = a * k - b * k
    OBVIOUS
  <2>3. a * k \in Int /\ b * k \in Int
    OBVIOUS
  <2> QED
    BY <2>1, <2>2, <2>3
<1>2. ~ (a > b) => ~ (a * k > b * k)
  <2> SUFFICES ASSUME b >= a PROVE b * k >= a * k
    <3>1. a * k \in Int /\ b * k \in Int
      OBVIOUS
    <3> QED
      BY <3>1
  <2>1. (b - a) * k >= 0
    OBVIOUS
  <2>2. (b - a) * k = b * k - a * k
    OBVIOUS
  <2>3. a * k \in Int /\ b * k \in Int
    OBVIOUS
  <2> QED
    BY <2>1, <2>2, <2>3
<1> QED
  BY <1>1, <1>2

(* Comparing fractions by cross-multiplication is transitive.              *)
LEMMA CrossMultiplying ==
  ASSUME NEW n1 \in Nat \ {0}, NEW n2 \in Nat \ {0}, NEW n3 \in Nat \ {0},
         NEW d1 \in Nat \ {0}, NEW d2 \in Nat \ {0}, NEW d3 \in Nat \ {0},
         n1 * d2 >= n2 * d1, n2 * d3 >= n3 * d2
  PROVE  /\ n1 * d3 >= n3 * d1
         /\ n1 * d3 = n3 * d1 => n1 * d2 = n2 * d1 /\ n2 * d3 = n3 * d2
<1>1. /\ n1 * d2 \in Int /\ n2 * d1 \in Int /\ n2 * d3 \in Int
      /\ n3 * d2 \in Int /\ n1 * d3 \in Int /\ n3 * d1 \in Int
  OBVIOUS
<1>2. /\ (n1 * d2) * d3 = (n1 * d3) * d2
      /\ (n2 * d1) * d3 = (n2 * d3) * d1
      /\ (n3 * d2) * d1 = (n3 * d1) * d2
  OBVIOUS
<1>3. PICK p, q, u, v, w, z :
        /\ p = n1 * d2 /\ q = n2 * d1 /\ u = n2 * d3 /\ v = n3 * d2
        /\ w = n1 * d3 /\ z = n3 * d1
  OBVIOUS
<1>4. /\ p \in Int /\ q \in Int /\ u \in Int /\ v \in Int /\ w \in Int
      /\ z \in Int /\ p >= q /\ u >= v
      /\ p * d3 = w * d2 /\ q * d3 = u * d1 /\ v * d1 = z * d2
  BY <1>1, <1>2, <1>3
<1>5. /\ p * d3 > q * d3 <=> p > q
      /\ u * d1 > v * d1 <=> u > v
      /\ w * d2 > z * d2 <=> w > z
      /\ z * d2 > w * d2 <=> z > w
      /\ q * d3 > p * d3 <=> q > p
      /\ v * d1 > u * d1 <=> v > u
  BY <1>4, Scaling
<1>6. /\ p * d3 \in Int /\ q * d3 \in Int /\ v * d1 \in Int
  BY <1>4
<1>7. w >= z /\ (w = z => p = q /\ u = v)
  <2>1. PICK P, Q, V : P = p * d3 /\ Q = q * d3 /\ V = v * d1
    OBVIOUS
  <2>2. /\ P \in Int /\ Q \in Int /\ V \in Int
        /\ (P > Q <=> p > q) /\ (Q > V <=> u > v) /\ (P > V <=> w > z)
        /\ (V > P <=> z > w) /\ (Q > P <=> q > p) /\ (V > Q <=> v > u)
    BY <1>4, <1>5, <1>6, <2>1
  <2> QED
    BY <1>4, <2>2
<1> QED
  BY <1>3, <1>7

(* R compares the fractions n[x] / d[x], and the keys k[x] of equal ones.   *)
ByFraction(R, S, n, d, k) ==
  \A x, y \in S : <<x, y>> \in R <=>
    \/ n[x] * d[y] > n[y] * d[x]
    \/ n[x] * d[y] = n[y] * d[x] /\ k[x] < k[y]

(***************************************************************************)
(* Positive fractions, compared by cross-multiplication and, when equal,   *)
(* by keys that are all different, are strictly ordered.                   *)
(***************************************************************************)
LEMMA FractionsAreOrdered ==
  ASSUME NEW S, NEW n \in [S -> Nat \ {0}], NEW d \in [S -> Nat \ {0}],
         NEW k \in [S -> Int], \A x, y \in S : k[x] = k[y] => x = y,
         NEW R, ByFraction(R, S, n, d, k)
  PROVE  IsOrder(R, S)
<1>1. \A x, y \in S : n[x] * d[y] \in Int
  OBVIOUS
<1>2. ASSUME NEW x \in S PROVE <<x, x>> \notin R
  <2>1. n[x] * d[x] \in Int /\ k[x] \in Int
    BY <1>1
  <2> QED
    BY <2>1 DEF ByFraction
<1>3. ASSUME NEW x \in S, NEW y \in S, NEW z \in S,
             <<x, y>> \in R, <<y, z>> \in R
      PROVE  <<x, z>> \in R
  <2>1. /\ n[x] * d[y] \in Int /\ n[y] * d[x] \in Int
        /\ n[y] * d[z] \in Int /\ n[z] * d[y] \in Int
        /\ n[x] * d[z] \in Int /\ n[z] * d[x] \in Int
        /\ k[x] \in Int /\ k[y] \in Int /\ k[z] \in Int
    BY <1>1
  <2>2. /\ \/ n[x] * d[y] > n[y] * d[x]
           \/ n[x] * d[y] = n[y] * d[x] /\ k[x] < k[y]
        /\ \/ n[y] * d[z] > n[z] * d[y]
           \/ n[y] * d[z] = n[z] * d[y] /\ k[y] < k[z]
    BY <1>3 DEF ByFraction
  <2>3. n[x] * d[y] >= n[y] * d[x] /\ n[y] * d[z] >= n[z] * d[y]
    BY <2>1, <2>2
  <2>4. /\ n[x] \in Nat \ {0} /\ n[y] \in Nat \ {0} /\ n[z] \in Nat \ {0}
        /\ d[x] \in Nat \ {0} /\ d[y] \in Nat \ {0} /\ d[z] \in Nat \ {0}
    OBVIOUS
  <2>5. /\ n[x] * d[z] >= n[z] * d[x]
        /\ n[x] * d[z] = n[z] * d[x] =>
             n[x] * d[y] = n[y] * d[x] /\ n[y] * d[z] = n[z] * d[y]
    BY <2>3, <2>4, CrossMultiplying
  <2>6. \/ n[x] * d[z] > n[z] * d[x]
        \/ n[x] * d[z] = n[z] * d[x] /\ k[x] < k[z]
    BY <2>1, <2>2, <2>5
  <2> QED
    BY <2>6 DEF ByFraction
<1>4. ASSUME NEW x \in S, NEW y \in S, x # y
      PROVE  <<x, y>> \in R \/ <<y, x>> \in R
  <2>1. /\ n[x] * d[y] \in Int /\ n[y] * d[x] \in Int
        /\ k[x] \in Int /\ k[y] \in Int /\ k[x] # k[y]
    BY <1>1, <1>4
  <2>2. \/ n[x] * d[y] > n[y] * d[x]
        \/ n[y] * d[x] > n[x] * d[y]
        \/ n[x] * d[y] = n[y] * d[x] /\ k[x] < k[y]
        \/ n[y] * d[x] = n[x] * d[y] /\ k[y] < k[x]
    BY <2>1
  <2> QED
    BY <2>2 DEF ByFraction
<1> QED
  BY <1>2, <1>3, <1>4 DEF IsOrder

(* 1/x + 1/y > 1/z when x and y are less than twice z.                     *)
LEMMA TwoShares ==
  ASSUME NEW x \in Nat \ {0}, NEW y \in Nat \ {0}, NEW z \in Nat \ {0},
         2 * z > x, 2 * z > y
  PROVE  (x + y) * z > x * y
<1>1. (2 * z) * x > y * x /\ (2 * z) * y > x * y
  <2>1. 2 * z \in Int
    OBVIOUS
  <2> QED
    BY <2>1, Scaling
<1>2. /\ (2 * z) * x + (2 * z) * y = 2 * ((x + y) * z) /\ y * x = x * y
      /\ (2 * z) * x \in Int /\ (2 * z) * y \in Int /\ x * y \in Int
      /\ (x + y) * z \in Int
  OBVIOUS
<1> QED
  BY <1>1, <1>2

(* 1/a + 1/b > 1/x + 1/y when a < x and b < y.                             *)
LEMMA SmallerShares ==
  ASSUME NEW a \in Nat \ {0}, NEW b \in Nat \ {0},
         NEW x \in Nat \ {0}, NEW y \in Nat \ {0}, a < x, b < y
  PROVE  (a + b) * (x * y) > (x + y) * (a * b)
<1>1. a * x \in Nat \ {0} /\ b * y \in Nat \ {0}
  OBVIOUS
<1>2. y * (a * x) > b * (a * x) /\ x * (b * y) > a * (b * y)
  BY <1>1, Scaling
<1>3. /\ y * (a * x) = a * (x * y) /\ x * (b * y) = b * (x * y)
      /\ b * (a * x) = x * (a * b) /\ a * (b * y) = y * (a * b)
  OBVIOUS
<1>4. /\ (a + b) * (x * y) = a * (x * y) + b * (x * y)
      /\ (x + y) * (a * b) = x * (a * b) + y * (a * b)
  OBVIOUS
<1>5. /\ a * (x * y) \in Int /\ b * (x * y) \in Int
      /\ x * (a * b) \in Int /\ y * (a * b) \in Int
  OBVIOUS
<1> QED
  BY <1>2, <1>3, <1>4, <1>5

-----------------------------------------------------------------------------
(* What a store, a leg or a retriever returns: at most k different chunks. *)
IsList(s, k) ==
  /\ s \in Seq(Chunks) /\ Len(s) \in Nat /\ Len(s) <= k /\ IsInjective(s)

(* The scores and keys of the chunks of two lists are as an order needs.   *)
LEMMA ScoreTypes ==
  ASSUME NEW vec \in Seq(Chunks), IsInjective(vec),
         NEW kw \in Seq(Chunks), IsInjective(kw),
         NEW S, S = Range(vec) \cup Range(kw)
  PROVE  /\ \A c \in S : /\ Numerator(vec, kw, c) \in Nat \ {0}
                         /\ Denominator(vec, kw, c) \in Nat \ {0}
                         /\ Key(vec, kw, c) \in Int
         /\ \A c, d \in S : Key(vec, kw, c) = Key(vec, kw, d) => c = d
<1>1. /\ \A c \in Range(vec) : /\ Place(vec, c) \in 1..Len(vec)
                               /\ vec[Place(vec, c)] = c
      /\ \A c \in Range(kw) : /\ Place(kw, c) \in 1..Len(kw)
                              /\ kw[Place(kw, c)] = c
      /\ Len(vec) \in Nat /\ Len(kw) \in Nat /\ RrfK \in Nat
  BY PlaceOf, RetrievalAssumption
<1>2. ASSUME NEW c \in S
      PROVE  /\ Numerator(vec, kw, c) \in Nat \ {0}
             /\ Denominator(vec, kw, c) \in Nat \ {0}
             /\ Key(vec, kw, c) \in Int
  <2>1. c \in Range(vec) => RrfK + Place(vec, c) \in Nat \ {0}
    BY <1>1
  <2>2. c \in Range(kw) => RrfK + Place(kw, c) \in Nat \ {0}
    BY <1>1
  <2>3. Numerator(vec, kw, c) \in Nat \ {0}
    <3>1. CASE c \notin Range(kw)
      BY <3>1 DEF Numerator
    <3>2. CASE c \in Range(kw) /\ c \notin Range(vec)
      BY <3>2 DEF Numerator
    <3>3. CASE c \in Range(kw) /\ c \in Range(vec)
      <4>1. Numerator(vec, kw, c) = 2 * RrfK + Place(vec, c) + Place(kw, c)
        BY <3>3 DEF Numerator
      <4>2. Place(vec, c) \in Nat \ {0} /\ Place(kw, c) \in Nat \ {0}
        BY <1>1, <3>3
      <4> QED
        BY <1>1, <4>1, <4>2
    <3> QED
      BY <3>1, <3>2, <3>3
  <2>4. Denominator(vec, kw, c) \in Nat \ {0}
    <3>1. PICK x, y :
            /\ x = IF c \in Range(vec) THEN RrfK + Place(vec, c) ELSE 1
            /\ y = IF c \in Range(kw) THEN RrfK + Place(kw, c) ELSE 1
      OBVIOUS
    <3>2. x \in Nat \ {0} /\ y \in Nat \ {0}
      BY <2>1, <2>2, <3>1
    <3>3. Denominator(vec, kw, c) = x * y
      BY <3>1 DEF Denominator
    <3> QED
      BY <3>2, <3>3
  <2>5. Key(vec, kw, c) \in Int
    BY <1>1 DEF Key
  <2> QED
    BY <2>3, <2>4, <2>5
<1>3. ASSUME NEW c \in S, NEW d \in S, Key(vec, kw, c) = Key(vec, kw, d)
      PROVE  c = d
  <2>1. CASE c \in Range(vec) /\ d \in Range(vec)
    BY <1>1, <1>3, <2>1 DEF Key
  <2>2. CASE c \in Range(vec) /\ d \notin Range(vec)
    <3>1. Place(vec, c) = Len(vec) + Place(kw, d)
      BY <1>3, <2>2 DEF Key
    <3>2. Place(vec, c) \in 1..Len(vec) /\ Place(kw, d) \in 1..Len(kw)
      BY <1>1, <2>2
    <3> QED
      BY <1>1, <3>1, <3>2
  <2>3. CASE c \notin Range(vec) /\ d \in Range(vec)
    <3>1. Place(vec, d) = Len(vec) + Place(kw, c)
      BY <1>3, <2>3 DEF Key
    <3>2. Place(vec, d) \in 1..Len(vec) /\ Place(kw, c) \in 1..Len(kw)
      BY <1>1, <2>3
    <3> QED
      BY <1>1, <3>1, <3>2
  <2>4. CASE c \notin Range(vec) /\ d \notin Range(vec)
    <3>1. Len(vec) + Place(kw, c) = Len(vec) + Place(kw, d)
      BY <1>3, <2>4 DEF Key
    <3>2. /\ Place(kw, c) \in Int /\ kw[Place(kw, c)] = c
          /\ Place(kw, d) \in Int /\ kw[Place(kw, d)] = d
      BY <1>1, <2>4
    <3>3. Place(kw, c) = Place(kw, d)
      BY <1>1, <3>1, <3>2
    <3> QED
      BY <3>2, <3>3
  <2> QED
    BY <2>1, <2>2, <2>3, <2>4
<1> QED
  BY <1>2, <1>3

(* Fusion lists the chunks of both legs once, those ahead first.           *)
LEMMA FusedPlaces ==
  ASSUME NEW vec \in Seq(Chunks), IsInjective(vec),
         NEW kw \in Seq(Chunks), IsInjective(kw),
         NEW r, r = Fused(vec, kw)
  PROVE  /\ r \in Seq(Chunks) /\ IsInjective(r)
         /\ Range(r) = Range(vec) \cup Range(kw)
         /\ \A c, d \in Range(r) :
              Ahead(vec, kw, c, d) <=> Place(r, c) < Place(r, d)
<1>0. PICK S : S = Range(vec) \cup Range(kw)
  OBVIOUS
<1>1. PICK n, d, k : /\ n = [c \in S |-> Numerator(vec, kw, c)]
                     /\ d = [c \in S |-> Denominator(vec, kw, c)]
                     /\ k = [c \in S |-> Key(vec, kw, c)]
  OBVIOUS
<1>2. /\ n \in [S -> Nat \ {0}] /\ d \in [S -> Nat \ {0}] /\ k \in [S -> Int]
      /\ \A x, y \in S : k[x] = k[y] => x = y
  BY <1>0, <1>1, ScoreTypes
<1>3. PICK R : R = {p \in S \X S : Ahead(vec, kw, p[1], p[2])}
  OBVIOUS
<1>4. \A x, y \in S : <<x, y>> \in R <=> Ahead(vec, kw, x, y)
  BY <1>3
<1>5. \A x, y \in S : Ahead(vec, kw, x, y) <=>
           \/ n[x] * d[y] > n[y] * d[x]
           \/ n[x] * d[y] = n[y] * d[x] /\ k[x] < k[y]
  BY <1>1 DEF Ahead
<1>6. IsOrder(R, S)
  <2>1. ByFraction(R, S, n, d, k)
    BY <1>4, <1>5 DEF ByFraction
  <2> QED
    BY <1>2, <2>1, FractionsAreOrdered
<1>7. IsFiniteSet(S) /\ S \subseteq Chunks
  <2>1. /\ DOMAIN vec = 1..Len(vec) /\ Len(vec) \in Nat
        /\ DOMAIN kw = 1..Len(kw) /\ Len(kw) \in Nat
    OBVIOUS
  <2>2. \A m \in Nat : IsFiniteSet(1..m)
    BY FS_Interval
  <2>3. IsFiniteSet(Range(vec)) /\ IsFiniteSet(Range(kw))
    <3>1. vec \in Surjection(DOMAIN vec, Range(vec))
          /\ kw \in Surjection(DOMAIN kw, Range(kw))
      BY DEF Surjection, Range
    <3>2. IsFiniteSet(DOMAIN vec) /\ IsFiniteSet(DOMAIN kw)
      BY <2>1, <2>2
    <3> QED
      BY <3>1, <3>2, FS_Surjection
  <2>4. IsFiniteSet(S)
    BY <1>0, <2>3, FS_Union
  <2>5. Range(vec) \subseteq Chunks /\ Range(kw) \subseteq Chunks
    BY DEF Range
  <2> QED
    BY <1>0, <2>4, <2>5
<1>8. r = Ranked(S, R)
  BY <1>0, <1>3 DEF Fused
<1>9. /\ r \in Seq(S) /\ Range(r) = S /\ IsInjective(r)
      /\ \A x, y \in S : <<x, y>> \in R <=> Place(r, x) < Place(r, y)
  BY <1>6, <1>7, <1>8, RankedPlaces
<1>10. r \in Seq(Chunks)
  <2>1. Len(r) \in Nat /\ r \in [1..Len(r) -> S]
    BY <1>9
  <2>2. r \in [1..Len(r) -> Chunks]
    BY <1>7, <2>1
  <2> QED
    BY <2>1, <2>2
<1> QED
  BY <1>0, <1>4, <1>9, <1>10

(* A chunk of both legs is ahead of a chunk of one, if the legs are short. *)
LEMMA AgreementIsAhead ==
  ASSUME NEW k \in Nat, k <= RrfK + 1,
         NEW vec, IsList(vec, k), NEW kw, IsList(kw, k),
         NEW c \in Range(vec) \cap Range(kw),
         NEW d \in Range(vec) \cup Range(kw),
         d \notin Range(vec) \cap Range(kw)
  PROVE  Ahead(vec, kw, c, d)
<1>1. /\ RrfK \in Nat
      /\ \A e \in Range(vec) : Place(vec, e) \in 1..Len(vec)
      /\ \A e \in Range(kw) : Place(kw, e) \in 1..Len(kw)
      /\ Len(vec) \in Nat /\ Len(vec) <= k /\ Len(kw) \in Nat /\ Len(kw) <= k
  BY PlaceOf, RetrievalAssumption DEF IsList
<1>2. PICK x, y, z : /\ x = RrfK + Place(vec, c) /\ y = RrfK + Place(kw, c)
                     /\ z = IF d \in Range(vec) THEN RrfK + Place(vec, d)
                                                ELSE RrfK + Place(kw, d)
  OBVIOUS
<1>3. ASSUME NEW p \in 1..k
      PROVE  /\ RrfK + p \in Nat \ {0}
             /\ RrfK + p <= 2 * RrfK + 1 /\ RrfK + p >= RrfK + 1
  BY <1>1
<1>4. /\ Place(vec, c) \in 1..k /\ Place(kw, c) \in 1..k
      /\ d \in Range(vec) => Place(vec, d) \in 1..k
      /\ d \in Range(kw) => Place(kw, d) \in 1..k
  BY <1>1
<1>5. /\ x \in Nat \ {0} /\ y \in Nat \ {0} /\ z \in Nat \ {0}
      /\ 2 * z > x /\ 2 * z > y
  <2>1. x \in Nat \ {0} /\ x <= 2 * RrfK + 1
    BY <1>2, <1>3, <1>4
  <2>2. y \in Nat \ {0} /\ y <= 2 * RrfK + 1
    BY <1>2, <1>3, <1>4
  <2>3. z \in Nat \ {0} /\ z >= RrfK + 1
    BY <1>2, <1>3, <1>4
  <2> QED
    BY <1>1, <2>1, <2>2, <2>3
<1>6. (x + y) * z > x * y
  BY <1>5, TwoShares
<1>7. Numerator(vec, kw, c) = x + y /\ Denominator(vec, kw, c) = x * y
  <2>1. Numerator(vec, kw, c) = 2 * RrfK + Place(vec, c) + Place(kw, c)
    BY DEF Numerator
  <2>2. Denominator(vec, kw, c) = x * y
    BY <1>2 DEF Denominator
  <2> QED
    BY <1>1, <1>2, <1>4, <2>1, <2>2
<1>8. Numerator(vec, kw, d) = 1 /\ Denominator(vec, kw, d) = z
  <2>1. CASE d \in Range(vec) /\ d \notin Range(kw)
    <3>1. Numerator(vec, kw, d) = 1
      BY <2>1 DEF Numerator
    <3>2. Denominator(vec, kw, d) = z * 1
      BY <1>2, <2>1 DEF Denominator
    <3> QED
      BY <1>5, <3>1, <3>2
  <2>2. CASE d \notin Range(vec) /\ d \in Range(kw)
    <3>1. Numerator(vec, kw, d) = 1
      BY <2>2 DEF Numerator
    <3>2. Denominator(vec, kw, d) = 1 * z
      BY <1>2, <2>2 DEF Denominator
    <3> QED
      BY <1>5, <3>1, <3>2
  <2> QED
    BY <2>1, <2>2
<1>9. 1 * (x * y) = x * y
  BY <1>5
<1> QED
  BY <1>6, <1>7, <1>8, <1>9 DEF Ahead

(* Of two chunks of both legs, one that is first in both is ahead.         *)
LEMMA FirstInBothIsAhead ==
  ASSUME NEW k \in Nat, NEW vec, IsList(vec, k), NEW kw, IsList(kw, k),
         NEW c \in Range(vec) \cap Range(kw),
         NEW d \in Range(vec) \cap Range(kw),
         Place(vec, c) < Place(vec, d), Place(kw, c) < Place(kw, d)
  PROVE  Ahead(vec, kw, c, d)
<1>1. /\ RrfK \in Nat
      /\ Place(vec, c) \in Nat \ {0} /\ Place(kw, c) \in Nat \ {0}
      /\ Place(vec, d) \in Nat \ {0} /\ Place(kw, d) \in Nat \ {0}
  <2>1. /\ \A e \in Range(vec) : Place(vec, e) \in 1..Len(vec)
        /\ \A e \in Range(kw) : Place(kw, e) \in 1..Len(kw)
        /\ Len(vec) \in Nat /\ Len(kw) \in Nat
    BY PlaceOf DEF IsList
  <2> QED
    BY <2>1, RetrievalAssumption
<1>2. PICK a, b, x, y :
        /\ a = RrfK + Place(vec, c) /\ b = RrfK + Place(kw, c)
        /\ x = RrfK + Place(vec, d) /\ y = RrfK + Place(kw, d)
  OBVIOUS
<1>3. /\ a \in Nat \ {0} /\ b \in Nat \ {0} /\ x \in Nat \ {0}
      /\ y \in Nat \ {0} /\ a < x /\ b < y
  BY <1>1, <1>2
<1>4. (a + b) * (x * y) > (x + y) * (a * b)
  BY <1>3, SmallerShares
<1>5. Numerator(vec, kw, c) = a + b /\ Denominator(vec, kw, c) = a * b
  <2>1. Numerator(vec, kw, c) = 2 * RrfK + Place(vec, c) + Place(kw, c)
    BY DEF Numerator
  <2>2. Denominator(vec, kw, c) = a * b
    BY <1>2 DEF Denominator
  <2> QED
    BY <1>1, <1>2, <2>1, <2>2
<1>6. Numerator(vec, kw, d) = x + y /\ Denominator(vec, kw, d) = x * y
  <2>1. Numerator(vec, kw, d) = 2 * RrfK + Place(vec, d) + Place(kw, d)
    BY DEF Numerator
  <2>2. Denominator(vec, kw, d) = x * y
    BY <1>2 DEF Denominator
  <2> QED
    BY <1>1, <1>2, <2>1, <2>2
<1> QED
  BY <1>4, <1>5, <1>6 DEF Ahead
-----------------------------------------------------------------------------
(* A store's nearest chunks: the filter is applied before the limit.       *)
LEMMA NearestFound ==
  ASSUME NEW in \in Inputs, stored \subseteq Chunks, NEW filter,
         NEW v, v = Nearest(in, filter)
  PROVE  /\ IsList(v, in.topK)
         /\ Range(v) \subseteq Matching(stored, filter)
         /\ \A c \in Matching(stored, filter) : c \notin Range(v) =>
              /\ Len(v) = in.topK
              /\ \A d \in Range(v) : Place(in.nearest, d) < Place(in.nearest, c)
<1>1. /\ in.topK \in Nat /\ in.nearest \in Seq(Chunks)
      /\ IsInjective(in.nearest) /\ Range(in.nearest) = Chunks
  BY RetrievalAssumption
<1>2. PICK S, s, a : /\ S = Matching(stored, filter) /\ s = in.nearest
                     /\ a = Along(s, S)
  OBVIOUS
<1>3. S \subseteq Chunks
  BY <1>2 DEF Matching
<1>4. /\ a \in Seq(S) /\ Len(a) \in Nat /\ Range(a) = S /\ IsInjective(a)
      /\ \A c, d \in S : Place(s, c) < Place(s, d) <=> Place(a, c) < Place(a, d)
  <2>1. s \in Seq(Chunks) /\ IsInjective(s) /\ S \in SUBSET Range(s)
    BY <1>1, <1>2, <1>3
  <2> QED
    BY <1>2, <2>1, AlongPlaces
<1>5. PICK k : k = in.topK
  OBVIOUS
<1>6. v = Take(k, a) /\ k \in Nat
  BY <1>1, <1>2, <1>5 DEF Nearest
<1>7. /\ v \in Seq(S) /\ Len(v) \in Nat /\ Len(v) <= k /\ IsInjective(v)
      /\ Range(v) \subseteq Range(a)
      /\ \A c \in Range(a) : c \in Range(v) <=> Place(a, c) <= k
      /\ Range(v) # Range(a) => Len(v) = k
  BY <1>4, <1>6, TakePlaces
<1>8. v \in Seq(Chunks)
  <2>1. v \in [1..Len(v) -> S]
    BY <1>7
  <2>2. v \in [1..Len(v) -> Chunks]
    BY <1>3, <2>1
  <2> QED
    BY <1>7, <2>2
<1>9. ASSUME NEW c \in S, c \notin Range(v)
      PROVE  /\ Len(v) = k
             /\ \A d \in Range(v) : Place(s, d) < Place(s, c)
  <2>1. Len(v) = k
    BY <1>4, <1>7, <1>9
  <2>2. ~ (Place(a, c) <= k) /\ Place(a, c) \in Int
    <3>1. Place(a, c) \in 1..Len(a)
      BY <1>4, PlaceOf
    <3> QED
      BY <1>4, <1>7, <1>9, <3>1
  <2>3. ASSUME NEW d \in Range(v) PROVE Place(s, d) < Place(s, c)
    <3>1. d \in S /\ Place(a, d) <= k
      BY <1>4, <1>7
    <3>2. Place(a, d) \in 1..Len(a)
      BY <1>4, <3>1, PlaceOf
    <3>3. Place(a, d) < Place(a, c)
      BY <1>6, <2>2, <3>1, <3>2
    <3> QED
      BY <1>4, <3>1, <3>3
  <2> QED
    BY <2>1, <2>3
<1> QED
  BY <1>2, <1>4, <1>5, <1>7, <1>8, <1>9 DEF IsList

(* The keyword leg finds chunks of the tenant it was given.                *)
LEMMA KeywordFound ==
  ASSUME NEW in \in Inputs, NEW w, w = BestByKeyword(in)
  PROVE  /\ IsList(w, in.topK)
         /\ \A c \in Range(w) : KeywordTenant(in) \in {None, TenantOf[c]}
<1>1. /\ in.topK \in Nat /\ in.relevant \in Seq(Chunks)
      /\ IsInjective(in.relevant)
  BY RetrievalAssumption
<1>2. PICK S, s, a, k :
        /\ S = {c \in indexed \cap Range(in.relevant) :
                  KeywordTenant(in) \in {None, TenantOf[c]}}
        /\ s = in.relevant /\ a = Along(s, S) /\ k = in.topK
  OBVIOUS
<1>3. S \subseteq Range(s) /\ Range(s) \subseteq Chunks
  BY <1>1, <1>2 DEF Range
<1>4. a \in Seq(S) /\ Range(a) = S /\ IsInjective(a)
  <2>1. s \in Seq(Chunks) /\ IsInjective(s) /\ S \in SUBSET Range(s)
    BY <1>1, <1>2, <1>3
  <2> QED
    BY <1>2, <2>1, AlongPlaces
<1>5. w = Take(k, a) /\ k \in Nat
  BY <1>1, <1>2 DEF BestByKeyword
<1>6. /\ w \in Seq(S) /\ Len(w) \in Nat /\ Len(w) <= k /\ IsInjective(w)
      /\ Range(w) \subseteq Range(a)
  BY <1>4, <1>5, TakePlaces
<1>7. w \in Seq(Chunks)
  <2>1. w \in [1..Len(w) -> S]
    BY <1>6
  <2>2. w \in [1..Len(w) -> Chunks]
    BY <1>3, <2>1
  <2> QED
    BY <1>6, <2>2
<1>8. IsList(w, in.topK)
  BY <1>2, <1>6, <1>7 DEF IsList
<1>9. \A c \in Range(w) : KeywordTenant(in) \in {None, TenantOf[c]}
  BY <1>2, <1>4, <1>6
<1> QED
  BY <1>8, <1>9

-----------------------------------------------------------------------------
(* What a filter with the tenant lets through is the tenant's.             *)
LEMMA FilteredIsOwn ==
  ASSUME NEW in, NEW filter,
         \/ filter = Merged(in)
         \/ filter = TenantFilter(in) /\ in.api = "query",
         NEW c \in Matching(stored, filter)
  PROVE  /\ TenantFilter(in) # <<>> /\ in.api = "query" =>
              TenantOf[c] = in.user.tenant
         /\ KeywordTenant(in) \in {None, TenantOf[c]}
<1>1. \A f \in DOMAIN filter : Payload(c)[f] = filter[f]
  BY DEF Matching
<1>2. /\ Payload(c)["metadata.tenantId"] = TenantOf[c]
      /\ Payload(c)["tenantId"] = TenantOf[c]
  BY DEF Payload
<1>3. \A f \in DOMAIN Options(in) : f \in DOMAIN filter
                                    /\ filter[f] = Options(in)[f]
  <2>1. CASE filter = Merged(in)
    BY <2>1 DEF Merged, Over
  <2>2. CASE filter = TenantFilter(in) /\ in.api = "query"
    BY <2>2 DEF Options
  <2> QED
    BY <2>1, <2>2
<1>4. ASSUME TenantFilter(in) # <<>>, in.api = "query"
      PROVE  TenantOf[c] = in.user.tenant
  <2>1. TenantFilter(in) = [f \in {"metadata.tenantId"} |-> in.user.tenant]
    BY <1>4 DEF TenantFilter
  <2>2. Options(in) = TenantFilter(in)
    BY <1>4 DEF Options
  <2>3. /\ "metadata.tenantId" \in DOMAIN Options(in)
        /\ Options(in)["metadata.tenantId"] = in.user.tenant
    BY <2>1, <2>2
  <2> QED
    BY <1>1, <1>2, <1>3, <2>3
<1>5. ASSUME "tenantId" \in DOMAIN Options(in)
      PROVE  Options(in)["tenantId"] = TenantOf[c]
  BY <1>1, <1>2, <1>3, <1>5
<1> QED
  BY <1>4, <1>5 DEF KeywordTenant

(* The empty list.                                                         *)
LEMMA EmptyList ==
  /\ \A k \in Nat : IsList(<<>>, k)
  /\ Range(<<>>) = {}
BY DEF IsList, IsInjective, Range

(* A prefix of the fused legs is a list of chunks of the legs.             *)
LEMMA FusedIsList ==
  ASSUME NEW k \in Nat, NEW vec, IsList(vec, k), NEW kw, IsList(kw, k),
         NEW s, s = Take(k, Fused(vec, kw))
  PROVE  IsList(s, k) /\ Range(s) \subseteq Range(vec) \cup Range(kw)
<1>1. PICK r : r = Fused(vec, kw)
  OBVIOUS
<1>2. /\ r \in Seq(Chunks) /\ IsInjective(r)
      /\ Range(r) = Range(vec) \cup Range(kw)
  BY <1>1, FusedPlaces DEF IsList
<1>3. s = Take(k, r)
  BY <1>1
<1> QED
  BY <1>2, <1>3, TakePlaces DEF IsList

(* The chunks ahead come first in a prefix of the fused legs.              *)
LEMMA AheadIsFirst ==
  ASSUME NEW k \in Nat, NEW vec, IsList(vec, k), NEW kw, IsList(kw, k),
         NEW r, r = Fused(vec, kw), NEW s, s = Take(k, r),
         NEW c \in Range(vec) \cup Range(kw), NEW d \in Range(s),
         Ahead(vec, kw, c, d)
  PROVE  c \in Range(s) /\ Place(s, c) < Place(s, d)
<1>2. /\ r \in Seq(Chunks) /\ IsInjective(r)
      /\ Range(r) = Range(vec) \cup Range(kw)
      /\ \A x, y \in Range(r) :
           Ahead(vec, kw, x, y) <=> Place(r, x) < Place(r, y)
  BY FusedPlaces DEF IsList
<1>a. Range(s) \subseteq Range(r)
  BY <1>2, TakePlaces
<1>b. \A x \in Range(r) : x \in Range(s) <=> Place(r, x) <= k
  BY <1>2, TakePlaces
<1>c. \A x \in Range(s) : Place(s, x) = Place(r, x)
  BY <1>2, TakePlaces
<1>4. /\ Range(s) \subseteq Range(r)
      /\ \A x \in Range(r) : x \in Range(s) <=> Place(r, x) <= k
      /\ \A x \in Range(s) : Place(s, x) = Place(r, x)
  BY <1>a, <1>b, <1>c
<1>5. \A x \in Range(r) : Place(r, x) \in 1..Len(r)
  BY <1>2, PlaceOf
<1>6. c \in Range(r) /\ d \in Range(r) /\ Place(r, c) < Place(r, d)
  BY <1>2, <1>4
<1>7. Place(r, c) \in Int /\ Place(r, d) \in Int /\ Place(r, d) <= k
  BY <1>4, <1>5, <1>6
<1> QED
  BY <1>4, <1>6, <1>7

-----------------------------------------------------------------------------
(* Chunk c may be among the hits of a request.                             *)
Own(in, c) ==
  /\ TenantFilter(in) # <<>> /\ in.api = "query" /\ ~ in.hybrid =>
       TenantOf[c] = in.user.tenant
  /\ KeywordTenant(in) \in {None, TenantOf[c]}

(***************************************************************************)
(* The inductive invariant.  Lists: every stage holds a list.  Stages: who *)
(* asks at the places where the answer depends on it.  Owned: the hits are *)
(* from the right tenant before the permissions are applied.  Ordered: the *)
(* hits are what fusion, or the walk, makes of what was found.             *)
(***************************************************************************)
Lists ==
  /\ indexed \subseteq stored /\ stored \subseteq Chunks
  /\ rows \subseteq Permissions /\ lately \subseteq Permissions
  /\ pc \in {"idle", "direct", "vector", "permissions", "filter", "walk",
            "done", "failed"}
  /\ input \in Inputs
  /\ IsList(keyword, input.topK) /\ IsList(vector, input.topK)
  /\ IsList(hits, input.topK) /\ IsList(answer, input.topK)
  /\ chosen \subseteq Matched
  /\ allowed \subseteq {row.doc : row \in Permissions}

Stages ==
  /\ pc \in {"direct", "vector", "permissions", "filter"} => input.api # "kg"
  /\ pc = "direct" => input.api = "query" /\ ~ input.hybrid
  /\ pc = "walk" => input.api = "kg"
  /\ pc \in {"permissions", "filter"} =>
       input.api = "query" /\ input.user # None /\ ~ input.user.admin

Owned ==
  /\ \A c \in Range(keyword) : KeywordTenant(input) \in {None, TenantOf[c]}
  /\ \A c \in Range(hits) : Own(input, c)
  /\ \A c \in Range(answer) : Own(input, c)
  /\ pc = "done" /\ TenantFilter(input) # <<>> /\ input.api = "query"
       /\ ~ input.user.admin =>
       \A c \in Range(answer) : TenantOf[c] \in {None, input.user.tenant}

Ordered ==
  /\ pc \in {"permissions", "filter", "done"} /\ input.hybrid =>
       hits = Take(input.topK, Fused(vector, keyword))
  /\ pc = "done" /\ input.api = "kg" =>
       answer = Take(input.topK, ByScore(chosen))

Sound == Lists /\ Stages /\ Owned /\ Ordered

-----------------------------------------------------------------------------
(* The initial state is sound.                                             *)
LEMMA InitSound == Init => Sound
<1> SUFFICES ASSUME Init PROVE Sound
  OBVIOUS
<1>1. input \in Inputs /\ input.topK \in Nat
  BY RetrievalAssumption DEF Init
<1>2. /\ keyword = <<>> /\ vector = <<>> /\ hits = <<>> /\ answer = <<>>
      /\ pc = "idle" /\ stored = {} /\ indexed = {} /\ rows = {}
      /\ chosen = {} /\ allowed = {} /\ lately = {}
  BY DEF Init
<1>3. IsList(<<>>, input.topK) /\ Range(<<>>) = {}
  BY <1>1, EmptyList
<1>4. Lists
  BY <1>1, <1>2, <1>3 DEF Lists
<1>5. Stages /\ Owned /\ Ordered
  BY <1>2, <1>3 DEF Stages, Owned, Ordered
<1> QED
  BY <1>4, <1>5 DEF Sound

(* The legs start.                                                         *)
LEMMA StartSound == Sound /\ Start => Sound'
<1> SUFFICES ASSUME Sound, Start PROVE Sound'
  OBVIOUS
<1>1. Lists /\ Stages /\ Owned /\ Ordered
  BY DEF Sound
<1>2. /\ pc = "idle"
      /\ UNCHANGED <<stored, indexed, rows, input, vector, hits, chosen, allowed,
                     answer, lately>>
  BY DEF Start, stores
<1>3. input \in Inputs /\ input.topK \in Nat
  BY <1>1, RetrievalAssumption DEF Lists
<1>4. /\ IsList(keyword', input.topK)
      /\ \A c \in Range(keyword') : KeywordTenant(input) \in {None, TenantOf[c]}
  <2>1. CASE keyword' = <<>>
    BY <1>3, <2>1, EmptyList
  <2>2. CASE keyword' = BestByKeyword(input)
    BY <1>3, <2>2, KeywordFound
  <2> QED
    BY <2>1, <2>2 DEF Start
<1>5. /\ pc' \in {"walk", "direct", "failed", "vector"}
      /\ pc' = "walk" => input.api = "kg"
      /\ pc' \in {"direct", "vector"} => input.api # "kg"
      /\ pc' = "direct" => input.api = "query" /\ ~ input.hybrid
  <2>1. CASE input.api = "kg"
    <3>1. ~ Direct(input) /\ ~ input.hybrid
      BY <1>3, <2>1, RetrievalAssumption DEF Direct
    <3> QED
      BY <2>1, <3>1 DEF Start
  <2>2. CASE input.api # "kg" /\ Direct(input)
    <3>1. input.api = "query" /\ ~ input.hybrid
      BY <2>2 DEF Direct
    <3> QED
      BY <2>2, <3>1 DEF Start
  <2>3. CASE input.api # "kg" /\ ~ Direct(input)
    BY <2>3 DEF Start
  <2> QED
    BY <2>1, <2>2, <2>3
<1>6. Lists'
  BY <1>1, <1>2, <1>4, <1>5 DEF Lists
<1>7. Stages'
  BY <1>2, <1>5 DEF Stages
<1>8. Owned'
  BY <1>1, <1>2, <1>4, <1>5 DEF Owned
<1>9. Ordered'
  BY <1>5 DEF Ordered
<1> QED
  BY <1>6, <1>7, <1>8, <1>9 DEF Sound

(* What the retriever returns becomes the hits, and perhaps the answer.    *)
LEMMA RetrievedSound ==
  ASSUME NEW chunks, Lists, Owned, input.api # "kg",
         IsList(chunks, input.topK),
         \A c \in Range(chunks) : Own(input, c),
         Retrieved(chunks)
  PROVE  /\ hits' = chunks /\ lately' \in {rows, lately}
         /\ pc' \in {"permissions", "done"}
         /\ pc' = "permissions" =>
              input.api = "query" /\ input.user # None /\ ~ input.user.admin
         /\ pc' = "done" /\ TenantFilter(input) # <<>> /\ input.api = "query" =>
              input.user.admin
         /\ IsList(answer', input.topK)
         /\ \A c \in Range(answer') : Own(input, c)
<1>1. input.topK \in Nat
  BY RetrievalAssumption DEF Lists
<1>2. hits' = chunks /\ lately' \in {rows, lately}
  BY DEF Retrieved
<1>3. CASE input.api = "query" /\ input.user # None /\ ~ input.user.admin
  <2>1. answer' = answer /\ pc' = "permissions"
    BY <1>3 DEF Retrieved
  <2> QED
    BY <1>2, <1>3, <2>1 DEF Lists, Owned
<1>4. CASE ~ (input.api = "query" /\ input.user # None /\ ~ input.user.admin)
  <2>1. pc' = "done" /\ answer' \in {<<>>, chunks}
    BY <1>4 DEF Retrieved
  <2>2. IsList(answer', input.topK) /\ \A c \in Range(answer') : Own(input, c)
    BY <1>1, <2>1, EmptyList
  <2>3. TenantFilter(input) # <<>> => input.user # None
    BY DEF TenantFilter
  <2> QED
    BY <1>2, <1>4, <2>1, <2>2, <2>3
<1> QED
  BY <1>3, <1>4

(* A direct search.                                                        *)
LEMMA SearchDirectlySound == Sound /\ SearchDirectly => Sound'
<1> SUFFICES ASSUME Sound, SearchDirectly PROVE Sound'
  OBVIOUS
<1>1. Lists /\ Stages /\ Owned /\ Ordered
  BY DEF Sound
<1>2. /\ pc = "direct"
      /\ UNCHANGED <<stored, indexed, rows, input, keyword, chosen, allowed>>
  BY DEF SearchDirectly, stores
<1>3. /\ input \in Inputs /\ input.topK \in Nat
      /\ input.api = "query" /\ ~ input.hybrid
  BY <1>1, <1>2, RetrievalAssumption DEF Lists, Stages
<1>4. CASE vector' = Nearest(input, TenantFilter(input)) /\ Retrieved(vector')
  <2>1. /\ IsList(vector', input.topK)
        /\ Range(vector') \subseteq Matching(stored, TenantFilter(input))
    BY <1>1, <1>3, <1>4, NearestFound DEF Lists
  <2>2. \A c \in Range(vector') : Own(input, c)
    BY <1>3, <2>1, FilteredIsOwn DEF Own
  <2>3. PICK chunks : chunks = vector'
    OBVIOUS
  <2>4. /\ IsList(chunks, input.topK) /\ Retrieved(chunks)
        /\ \A c \in Range(chunks) : Own(input, c)
    BY <1>4, <2>1, <2>2, <2>3
  <2>5. /\ hits' = chunks /\ lately' \in {rows, lately}
        /\ pc' \in {"permissions", "done"}
        /\ pc' = "permissions" =>
             input.api = "query" /\ input.user # None /\ ~ input.user.admin
        /\ pc' = "done" /\ TenantFilter(input) # <<>> /\ input.api = "query" =>
             input.user.admin
        /\ IsList(answer', input.topK)
        /\ \A c \in Range(answer') : Own(input, c)
    BY <1>1, <1>3, <2>4, RetrievedSound
  <2>6. Lists'
    BY <1>1, <1>2, <2>1, <2>4, <2>5 DEF Lists
  <2>7. Stages'
    BY <1>2, <1>3, <2>5 DEF Stages
  <2>8. Owned'
    BY <1>1, <1>2, <2>4, <2>5 DEF Owned
  <2>9. Ordered'
    BY <1>2, <1>3, <2>5 DEF Ordered
  <2> QED
    BY <2>6, <2>7, <2>8, <2>9 DEF Sound
<1>5. CASE pc' = "vector" /\ UNCHANGED <<vector, hits, answer, lately>>
  <2>1. Lists'
    BY <1>1, <1>2, <1>5 DEF Lists
  <2>2. Stages'
    BY <1>2, <1>3, <1>5 DEF Stages
  <2>3. Owned'
    BY <1>1, <1>2, <1>5 DEF Owned
  <2>4. Ordered'
    BY <1>5 DEF Ordered
  <2> QED
    BY <2>1, <2>2, <2>3, <2>4 DEF Sound
<1> QED
  BY <1>4, <1>5 DEF SearchDirectly

(* The search of the vector leg, and the fusion of the two.                *)
LEMMA SearchVectorsSound == Sound /\ SearchVectors => Sound'
<1> SUFFICES ASSUME Sound, SearchVectors PROVE Sound'
  OBVIOUS
<1>1. Lists /\ Stages /\ Owned /\ Ordered
  BY DEF Sound
<1>2. /\ pc = "vector"
      /\ UNCHANGED <<stored, indexed, rows, input, keyword, chosen, allowed>>
      /\ vector' = Nearest(input, Merged(input))
  BY DEF SearchVectors, stores
<1>3. input \in Inputs /\ input.topK \in Nat /\ input.api # "kg"
  BY <1>1, <1>2, RetrievalAssumption DEF Lists, Stages
<1>4. /\ IsList(vector', input.topK)
      /\ Range(vector') \subseteq Matching(stored, Merged(input))
  BY <1>1, <1>2, <1>3, NearestFound DEF Lists
<1>5. \A c \in Range(vector') :
        /\ TenantFilter(input) # <<>> /\ input.api = "query" =>
             TenantOf[c] = input.user.tenant
        /\ KeywordTenant(input) \in {None, TenantOf[c]}
  BY <1>4, FilteredIsOwn
<1>6. PICK chunks : chunks = IF input.hybrid
                               THEN Take(input.topK, Fused(vector', keyword))
                               ELSE vector'
  OBVIOUS
<1>7. Retrieved(chunks)
  BY <1>6 DEF SearchVectors
<1>8. /\ IsList(chunks, input.topK)
      /\ \A c \in Range(chunks) : Own(input, c)
  <2>1. CASE input.hybrid
    <3>1. chunks = Take(input.topK, Fused(vector', keyword))
      BY <1>6, <2>1
    <3>2. IsList(keyword, input.topK)
      BY <1>1 DEF Lists
    <3>3. /\ IsList(chunks, input.topK)
          /\ Range(chunks) \subseteq Range(vector') \cup Range(keyword)
      BY <1>3, <1>4, <3>1, <3>2, FusedIsList
    <3>4. \A c \in Range(chunks) : KeywordTenant(input) \in {None, TenantOf[c]}
      BY <1>1, <1>5, <3>3 DEF Owned
    <3> QED
      BY <2>1, <3>3, <3>4 DEF Own
  <2>2. CASE ~ input.hybrid
    BY <1>4, <1>5, <1>6, <2>2 DEF Own
  <2> QED
    BY <2>1, <2>2
<1>9. /\ hits' = chunks /\ lately' \in {rows, lately}
      /\ pc' \in {"permissions", "done"}
      /\ pc' = "permissions" =>
           input.api = "query" /\ input.user # None /\ ~ input.user.admin
      /\ pc' = "done" /\ TenantFilter(input) # <<>> /\ input.api = "query" =>
           input.user.admin
      /\ IsList(answer', input.topK)
      /\ \A c \in Range(answer') : Own(input, c)
  BY <1>1, <1>3, <1>7, <1>8, RetrievedSound
<1>10. Lists'
  BY <1>1, <1>2, <1>4, <1>8, <1>9 DEF Lists
<1>11. Stages'
  BY <1>2, <1>3, <1>9 DEF Stages
<1>12. Owned'
  BY <1>1, <1>2, <1>8, <1>9 DEF Owned
<1>13. Ordered'
  BY <1>2, <1>3, <1>6, <1>9 DEF Ordered
<1> QED
  BY <1>10, <1>11, <1>12, <1>13 DEF Sound

(* The rows of the user are read.                                          *)
LEMMA ReadPermissionsSound == Sound /\ ReadPermissions => Sound'
<1> SUFFICES ASSUME Sound, ReadPermissions PROVE Sound'
  OBVIOUS
<1>1. Lists /\ Stages /\ Owned /\ Ordered
  BY DEF Sound
<1>2. /\ pc = "permissions" /\ pc' = "filter"
      /\ UNCHANGED <<stored, indexed, rows, input, keyword, vector, hits, chosen,
                     answer, lately>>
  BY DEF ReadPermissions, stores
<1>3. allowed' \subseteq {row.doc : row \in Permissions}
  <2>1. Allowed(input.user) \subseteq {row.doc : row \in Permissions}
    BY <1>1 DEF Lists, Allowed
  <2> QED
    BY <2>1 DEF ReadPermissions
<1>4. Lists'
  BY <1>1, <1>2, <1>3 DEF Lists
<1>5. Stages' /\ Ordered'
  BY <1>1, <1>2 DEF Stages, Ordered
<1>6. Owned'
  BY <1>1, <1>2 DEF Owned
<1> QED
  BY <1>4, <1>5, <1>6 DEF Sound

(* The filter by document permissions keeps a part of the hits.            *)
LEMMA FilterSound == Sound /\ Filter => Sound'
<1> SUFFICES ASSUME Sound, Filter PROVE Sound'
  OBVIOUS
<1>1. Lists /\ Stages /\ Owned /\ Ordered
  BY DEF Sound
<1>2. /\ pc = "filter" /\ pc' = "done" /\ allowed' = {}
      /\ UNCHANGED <<stored, indexed, rows, input, keyword, vector, hits, chosen,
                     lately>>
  BY DEF Filter, stores
<1>3. /\ input \in Inputs /\ input.topK \in Nat
      /\ input.api = "query" /\ input.user # None
  BY <1>1, <1>2, RetrievalAssumption DEF Lists, Stages
<1>4. answer' = Along(hits, Visible(input.user, allowed))
  BY DEF Filter
<1>5. PICK S : S = Visible(input.user, allowed)
  OBVIOUS
<1>6. /\ S \in SUBSET Range(hits)
      /\ \A c \in S : input.user.tenant = None
                        \/ TenantOf[c] \in {None, input.user.tenant}
  BY <1>5 DEF Visible
<1>7. /\ hits \in Seq(Chunks) /\ IsInjective(hits)
      /\ Len(hits) \in Nat /\ Len(hits) <= input.topK
  BY <1>1 DEF Lists, IsList
<1>8. PICK r : r = Along(hits, S)
  OBVIOUS
<1>9. /\ r \in Seq(S) /\ Len(r) \in Nat /\ Len(r) <= Len(hits)
      /\ Range(r) = S /\ IsInjective(r)
  BY <1>6, <1>7, <1>8, AlongPlaces
<1>10. answer' = r
  BY <1>4, <1>5, <1>8
<1>11. r \in Seq(Chunks)
  <2>1. S \subseteq Chunks
    BY <1>6, <1>7 DEF Range
  <2>2. r \in [1..Len(r) -> S]
    BY <1>9
  <2>3. r \in [1..Len(r) -> Chunks]
    BY <2>1, <2>2
  <2> QED
    BY <1>9, <2>3
<1>12. IsList(r, input.topK)
  BY <1>3, <1>7, <1>9, <1>11 DEF IsList
<1>13. Lists'
  BY <1>1, <1>2, <1>10, <1>12 DEF Lists
<1>14. Stages'
  BY <1>2 DEF Stages
<1>15. TenantFilter(input) # <<>> => input.user.tenant # None
  BY DEF TenantFilter
<1>16. Owned'
  BY <1>1, <1>2, <1>6, <1>9, <1>10, <1>15 DEF Owned
<1>17. Ordered'
  BY <1>1, <1>2, <1>3 DEF Ordered
<1> QED
  BY <1>13, <1>14, <1>16, <1>17 DEF Sound

(* A request that fails, and a step of the stores, keep it.                *)
LEMMA FailsSound == Sound /\ (SearchFails \/ WalkFails) => Sound'
<1> SUFFICES ASSUME Sound, SearchFails \/ WalkFails PROVE Sound'
  OBVIOUS
<1>1. Lists /\ Stages /\ Owned /\ Ordered
  BY DEF Sound
<1>2. /\ pc' = "failed"
      /\ UNCHANGED <<stored, indexed, rows, input, keyword, vector, hits, chosen,
                     allowed, answer, lately>>
  BY DEF SearchFails, WalkFails, stores
<1>3. Lists'
  BY <1>1, <1>2 DEF Lists
<1>4. Stages' /\ Ordered'
  BY <1>2 DEF Stages, Ordered
<1>5. Owned'
  BY <1>1, <1>2 DEF Owned
<1> QED
  BY <1>3, <1>4, <1>5 DEF Sound

StoreStep ==
  \/ \E c \in Chunks : Upsert(c) \/ Index(c)
  \/ \E row \in Permissions : Grant(row) \/ Revoke(row)
  \/ UNCHANGED vars

LEMMA StoreSound == Sound /\ StoreStep => Sound'
<1> SUFFICES ASSUME Sound, StoreStep PROVE Sound'
  OBVIOUS
<1>1. Lists /\ Stages /\ Owned /\ Ordered
  BY DEF Sound
<1>2. UNCHANGED <<pc, input, keyword, vector, hits, chosen, allowed, answer>>
  BY DEF StoreStep, Upsert, Index, Grant, Revoke, search, vars
<1>3. /\ indexed' \subseteq stored' /\ stored' \subseteq Chunks
      /\ rows' \subseteq Permissions /\ lately' \subseteq Permissions
  <2>1. CASE \E c \in Chunks : Upsert(c)
    BY <1>1, <2>1 DEF Upsert, Lists
  <2>2. CASE \E c \in Chunks : Index(c)
    BY <1>1, <2>2 DEF Index, Lists
  <2>3. CASE \E row \in Permissions : Grant(row) \/ Revoke(row)
    BY <1>1, <2>3 DEF Grant, Revoke, Lists
  <2>4. CASE UNCHANGED vars
    BY <1>1, <2>4 DEF vars, stores, Lists
  <2> QED
    BY <2>1, <2>2, <2>3, <2>4 DEF StoreStep
<1>4. Lists'
  BY <1>1, <1>2, <1>3 DEF Lists
<1>5. Stages' /\ Ordered'
  BY <1>1, <1>2 DEF Stages, Ordered
<1>6. Owned'
  BY <1>1, <1>2 DEF Owned
<1> QED
  BY <1>4, <1>5, <1>6 DEF Sound

-----------------------------------------------------------------------------
(* The rows of the mentions: as many as entities, for every chunk, and the *)
(* first of them tells the chunks apart.                                   *)
LEMMA MentionRows ==
  ASSUME NEW T, NEW c
  PROVE  /\ IsFiniteSet(Entities(T, c))
         /\ Cardinality({i \in Of(T) : Mentions[i][2] = c})
              = Cardinality(Entities(T, c))
         /\ Cardinality(Entities(T, c)) \in Nat
<1>1. PICK I, E : /\ I = {i \in Of(T) : Mentions[i][2] = c}
                  /\ E = Entities(T, c)
  OBVIOUS
<1>2. Len(Mentions) \in Nat /\ DOMAIN Mentions = 1..Len(Mentions)
  BY MentionsAssumption
<1>3. I \subseteq 1..Len(Mentions)
  BY <1>1, <1>2 DEF Of
<1>4. IsFiniteSet(I)
  <2>1. \A m \in Nat : IsFiniteSet(1..m)
    BY FS_Interval
  <2> QED
    BY <1>2, <1>3, <2>1, FS_Subset
<1>5. E = {Mentions[i][1] : i \in I}
  BY <1>1 DEF Entities
<1>6. \A i \in I : /\ i \in DOMAIN Mentions /\ Mentions[i][2] = c
                   /\ Mentions[i] \in (DOMAIN EntityTenant) \X Chunks
  BY <1>1, <1>2, <1>3, MentionsAssumption
<1>7. ASSUME NEW i \in I, NEW j \in I, Mentions[i][1] = Mentions[j][1]
      PROVE  i = j
  <2>1. Mentions[i] = Mentions[j]
    BY <1>6, <1>7
  <2> QED
    BY <1>6, <2>1, MentionsAssumption DEF IsInjective
<1>8. PICK f : f = [i \in I |-> Mentions[i][1]]
  OBVIOUS
<1>9. f \in Injection(I, E) /\ f \in Surjection(I, E)
  BY <1>5, <1>7, <1>8 DEF Injection, Surjection, IsInjective
<1>10. IsFiniteSet(E)
  BY <1>4, <1>9, FS_Surjection
<1>11. Cardinality(I) = Cardinality(E)
  BY <1>9, <1>10, FS_Injection
<1>12. Cardinality(E) \in Nat
  BY <1>10, FS_CardinalityType
<1> QED
  BY <1>1, <1>10, <1>11, <1>12

LEMMA FirstMentions ==
  ASSUME NEW T, NEW c \in Mentioning(T)
  PROVE  /\ FirstMention(T, c) \in Of(T) /\ FirstMention(T, c) \in Nat
         /\ Mentions[FirstMention(T, c)][2] = c
<1>1. PICK I : I = {i \in Of(T) : Mentions[i][2] = c}
  OBVIOUS
<1>2. I # {} /\ I \in SUBSET Nat
  <2>1. DOMAIN Mentions = 1..Len(Mentions) /\ Len(Mentions) \in Nat
    BY MentionsAssumption
  <2> QED
    BY <1>1, <2>1 DEF Mentioning, Of
<1>3. PICK m \in I : \A j \in I : m <= j
  BY <1>2, LeastNatural
<1>4. \E i \in Of(T) : /\ Mentions[i][2] = c
                       /\ \A j \in Of(T) : Mentions[j][2] = c => i <= j
  BY <1>1, <1>3
<1>5. FirstMention(T, c) \in Of(T) /\ Mentions[FirstMention(T, c)][2] = c
  BY <1>4 DEF FirstMention
<1> QED
  BY <1>1, <1>2, <1>5

(* The walk lists the mentioned chunks once, highest score first.          *)
LEMMA WalkPlaces ==
  ASSUME NEW T, NEW r, r = ByScore(T)
  PROVE  /\ r \in Seq(Chunks) /\ IsInjective(r) /\ Range(r) = Mentioning(T)
         /\ \A c, d \in Range(r) :
              Cardinality(Entities(T, c)) > Cardinality(Entities(T, d)) =>
                Place(r, c) < Place(r, d)
<1>1. PICK S, score, first :
        /\ S = Mentioning(T)
        /\ score = [c \in S |-> Score(T, c)]
        /\ first = [c \in S |-> FirstMention(T, c)]
  OBVIOUS
<1>2. \A c \in S : /\ score[c] = 3 * Cardinality(Entities(T, c))
                   /\ Cardinality(Entities(T, c)) \in Nat
  BY <1>1, MentionRows DEF Score
<1>3. /\ \A c \in S : score[c] \in Int /\ first[c] \in Int
      /\ \A c, d \in S : first[c] = first[d] => c = d
  <2>1. \A c \in S : first[c] \in Nat /\ Mentions[first[c]][2] = c
    BY <1>1, FirstMentions
  <2> QED
    BY <1>2, <2>1
<1>4. PICK R : R = {p \in S \X S :
                      \/ score[p[1]] > score[p[2]]
                      \/ /\ score[p[1]] = score[p[2]]
                         /\ first[p[1]] < first[p[2]]}
  OBVIOUS
<1>5. \A c, d \in S : <<c, d>> \in R <=>
        \/ score[c] > score[d]
        \/ score[c] = score[d] /\ first[c] < first[d]
  BY <1>4
<1>6. IsOrder(R, S)
  <2>1. \A c \in S : <<c, c>> \notin R
    BY <1>3, <1>5
  <2>2. ASSUME NEW c \in S, NEW d \in S, NEW e \in S,
               <<c, d>> \in R, <<d, e>> \in R
        PROVE  <<c, e>> \in R
    <3>1. /\ score[c] \in Int /\ score[d] \in Int /\ score[e] \in Int
          /\ first[c] \in Int /\ first[d] \in Int /\ first[e] \in Int
      BY <1>3
    <3>2. /\ \/ score[c] > score[d]
             \/ score[c] = score[d] /\ first[c] < first[d]
          /\ \/ score[d] > score[e]
             \/ score[d] = score[e] /\ first[d] < first[e]
      BY <1>5, <2>2
    <3>3. \/ score[c] > score[e]
          \/ score[c] = score[e] /\ first[c] < first[e]
      BY <3>1, <3>2
    <3> QED
      BY <1>5, <3>3
  <2>3. ASSUME NEW c \in S, NEW d \in S, c # d
        PROVE  <<c, d>> \in R \/ <<d, c>> \in R
    <3>1. /\ score[c] \in Int /\ score[d] \in Int
          /\ first[c] \in Int /\ first[d] \in Int /\ first[c] # first[d]
      BY <1>3, <2>3
    <3>2. \/ score[c] > score[d]
          \/ score[d] > score[c]
          \/ score[c] = score[d] /\ first[c] < first[d]
          \/ score[d] = score[c] /\ first[d] < first[c]
      BY <3>1
    <3> QED
      BY <1>5, <3>2
  <2> QED
    BY <2>1, <2>2, <2>3 DEF IsOrder
<1>7. IsFiniteSet(S) /\ S \subseteq Chunks
  <2>1. Len(Mentions) \in Nat /\ DOMAIN Mentions = 1..Len(Mentions)
    BY MentionsAssumption
  <2>2. /\ \A i \in Of(T) : /\ Mentions[i] \in (DOMAIN EntityTenant) \X Chunks
                            /\ i \in 1..Len(Mentions)
        /\ S = {Mentions[i][2] : i \in Of(T)}
    BY <1>1, <2>1, MentionsAssumption DEF Mentioning, Of
  <2>3. IsFiniteSet(Of(T))
    <3>1. \A m \in Nat : IsFiniteSet(1..m)
      BY FS_Interval
    <3>2. Of(T) \in SUBSET (1..Len(Mentions))
      BY <2>2
    <3> QED
      BY <2>1, <3>1, <3>2, FS_Subset
  <2>4. PICK f : f = [i \in Of(T) |-> Mentions[i][2]]
    OBVIOUS
  <2>5. f \in [Of(T) -> S] /\ \A c \in S : \E i \in Of(T) : c = f[i]
    BY <2>2, <2>4
  <2>6. f \in Surjection(Of(T), S)
    BY <2>5 DEF Surjection
  <2> QED
    BY <2>2, <2>3, <2>6, FS_Surjection
<1>8. r = Ranked(S, R)
  <2>1. {p \in S \X S : \/ Score(T, p[1]) > Score(T, p[2])
                        \/ /\ Score(T, p[1]) = Score(T, p[2])
                           /\ FirstMention(T, p[1]) < FirstMention(T, p[2])} = R
    <3>1. \A p \in S \X S :
            /\ score[p[1]] = Score(T, p[1]) /\ score[p[2]] = Score(T, p[2])
            /\ first[p[1]] = FirstMention(T, p[1])
            /\ first[p[2]] = FirstMention(T, p[2])
      BY <1>1
    <3> QED
      BY <1>4, <3>1
  <2> QED
    BY <1>1, <2>1 DEF ByScore
<1>9. /\ r \in Seq(S) /\ Range(r) = S /\ IsInjective(r)
      /\ \A c, d \in S : <<c, d>> \in R <=> Place(r, c) < Place(r, d)
  BY <1>6, <1>7, <1>8, RankedPlaces
<1>10. r \in Seq(Chunks)
  <2>1. Len(r) \in Nat /\ r \in [1..Len(r) -> S]
    BY <1>9
  <2>2. r \in [1..Len(r) -> Chunks]
    BY <1>7, <2>1
  <2> QED
    BY <2>1, <2>2
<1>11. ASSUME NEW c \in S, NEW d \in S,
              Cardinality(Entities(T, c)) > Cardinality(Entities(T, d))
       PROVE  Place(r, c) < Place(r, d)
  <2>1. score[c] > score[d]
    BY <1>2, <1>11
  <2> QED
    BY <1>5, <1>9, <2>1
<1> QED
  BY <1>1, <1>9, <1>10, <1>11

(* The walk's answer is a list of chunks of the tenant it names.           *)
LEMMA WalkSound == Sound /\ Walk => Sound'
<1> SUFFICES ASSUME Sound, Walk PROVE Sound'
  OBVIOUS
<1>1. Lists /\ Stages /\ Owned /\ Ordered
  BY DEF Sound
<1>2. /\ pc = "walk" /\ pc' = "done"
      /\ UNCHANGED <<stored, indexed, rows, input, keyword, vector, allowed,
                     lately>>
      /\ chosen' \in TopEntities(Candidates(input))
      /\ hits' = Take(input.topK, ByScore(chosen')) /\ answer' = hits'
  BY DEF Walk, stores
<1>3. /\ input \in Inputs /\ input.topK \in Nat
      /\ input.api = "kg" /\ ~ input.hybrid
  BY <1>1, <1>2, RetrievalAssumption DEF Lists, Stages
<1>4. PICK T : T = chosen'
  OBVIOUS
<1>5. T \subseteq Candidates(input)
  BY <1>2, <1>4 DEF TopEntities
<1>6. PICK r : r = ByScore(T)
  OBVIOUS
<1>7. r \in Seq(Chunks) /\ IsInjective(r) /\ Range(r) = Mentioning(T)
  BY <1>6, WalkPlaces
<1>8. PICK s, k : s = Take(k, r) /\ k = input.topK
  OBVIOUS
<1>9. IsList(s, k) /\ Range(s) \subseteq Range(r)
  BY <1>3, <1>7, <1>8, TakePlaces DEF IsList
<1>10. hits' = s /\ answer' = s
  BY <1>2, <1>4, <1>6, <1>8
<1>11. ASSUME NEW c \in Range(s) PROVE Own(input, c)
  <2>1. PICK i \in Of(T) : c = Mentions[i][2]
    BY <1>7, <1>9 DEF Mentioning
  <2>2. /\ EntityTenant[Mentions[i][1]] = TenantOf[c]
        /\ Mentions[i][1] \in Candidates(input)
    BY <1>5, <2>1, MentionsAssumption DEF Of
  <2> QED
    BY <1>3, <2>2 DEF Candidates, Own
<1>12. T \subseteq Matched
  BY <1>5 DEF Candidates
<1>13. Lists'
  BY <1>1, <1>2, <1>4, <1>8, <1>9, <1>10, <1>12 DEF Lists
<1>14. Stages'
  BY <1>2 DEF Stages
<1>15. Owned'
  BY <1>1, <1>2, <1>3, <1>10, <1>11 DEF Owned
<1>16. Ordered'
  BY <1>2, <1>3 DEF Ordered
<1> QED
  BY <1>13, <1>14, <1>15, <1>16 DEF Sound

(***************************************************************************)
(* The inductive invariant: lists hold no chunk twice and have at most     *)
(* topK; each stage of a request runs for the requests it is meant for     *)
(* only; what a leg found and what the retriever kept is the tenant's own  *)
(* wherever a tenant filter applies; and what was fused or walked is the   *)
(* front of the ranking (hybrid.ts, vector.ts, knowledgeGraph.ts,          *)
(* retrieve.ts).                                                           *)
(***************************************************************************)
THEOREM Soundness == Spec => []Sound
<1>1. Init => Sound
  BY InitSound
<1>2. Sound /\ [Next]_vars => Sound'
  BY StartSound, SearchDirectlySound, SearchVectorsSound,
     ReadPermissionsSound, FilterSound, FailsSound, WalkSound, StoreSound DEF Next, StoreStep
<1> QED
  BY <1>1, <1>2, PTL DEF Spec

-----------------------------------------------------------------------------
(***************************************************************************)
(* What the retrievers, the permission filter and the answer hand on is    *)
(* at most topK different chunks, for any request and any stores.          *)
(***************************************************************************)
THEOREM RetrievalTypes == Spec => []TypeOK
<1>1. ASSUME NEW s, NEW k, IsList(s, k)
      PROVE  s \in [1..Len(s) -> Chunks] /\ Len(s) <= k /\ IsInjective(s)
  BY <1>1 DEF IsList
<1>2. Sound => TypeOK
  BY <1>1 DEF Sound, Lists, TypeOK, IsResult
<1> QED
  BY <1>2, Soundness, PTL

(***************************************************************************)
(* Rank fusion rewards agreement, whatever the legs find: the exact        *)
(* fractions are compared, and the cut to topK keeps their order.          *)
(***************************************************************************)
THEOREM FusionRewardsAgreement == Spec => []AgreementWins
<1>1. ASSUME Sound PROVE AgreementWins
  <2> SUFFICES ASSUME pc \in {"permissions", "filter", "done"}, input.hybrid,
                      input.topK <= RrfK + 1
               PROVE  AgreementWins
    BY DEF AgreementWins
  <2>1. /\ Lists /\ hits = Take(input.topK, Fused(vector, keyword))
        /\ input \in Inputs
    BY <1>1 DEF Sound, Ordered, Lists
  <2>2. PICK k, vec, kw, r, s :
          /\ k = input.topK /\ vec = vector /\ kw = keyword
          /\ r = Fused(vec, kw) /\ s = Take(k, r)
    OBVIOUS
  <2>3. k \in Nat /\ IsList(vec, k) /\ IsList(kw, k) /\ k <= RrfK + 1
    BY <2>1, <2>2, RetrievalAssumption DEF Lists
  <2>4. hits = s
    BY <2>1, <2>2
  <2>5. ASSUME NEW c \in Range(vec) \cup Range(kw), NEW d \in Range(s),
               Ahead(vec, kw, c, d)
        PROVE  c \in Range(s) /\ Place(s, c) < Place(s, d)
    BY <2>2, <2>3, <2>5, AheadIsFirst
  <2>6. Range(s) \subseteq Range(vec) \cup Range(kw)
    <3>1. s = Take(k, Fused(vec, kw))
      BY <2>2
    <3> QED
      BY <2>3, <3>1, FusedIsList
  <2> DEFINE both == Range(vec) \cap Range(kw)
  <2>7. ASSUME NEW c \in both, NEW d \in Range(s) \ both
        PROVE  c \in Range(s) /\ Place(s, c) < Place(s, d)
    <3>1. Ahead(vec, kw, c, d)
      BY <2>3, <2>6, AgreementIsAhead
    <3> QED
      BY <2>5, <3>1
  <2>8. ASSUME NEW c \in both, NEW d \in both, d \in Range(s),
               Place(vec, c) < Place(vec, d), Place(kw, c) < Place(kw, d)
        PROVE  c \in Range(s) /\ Place(s, c) < Place(s, d)
    <3>1. Ahead(vec, kw, c, d)
      BY <2>3, <2>8, FirstInBothIsAhead
    <3> QED
      BY <2>5, <2>8, <3>1
  <2> QED
    BY <2>2, <2>4, <2>7, <2>8 DEF AgreementWins
<1> QED
  BY <1>1, Soundness, PTL

(***************************************************************************)
(* What is asked of one tenant is answered from it, whichever retriever    *)
(* answers, whatever the understanding of the query says and whatever is   *)
(* stored, granted or revoked meanwhile.                                   *)
(***************************************************************************)
THEOREM AnswersAreScoped == Spec => []ScopedAnswersAreOwn
<1>1. ASSUME Sound PROVE ScopedAnswersAreOwn
  BY <1>1 DEF Sound, Owned, Own, ScopedAnswersAreOwn
<1> QED
  BY <1>1, Soundness, PTL

(***************************************************************************)
(* The walk over the knowledge graph ranks by the number of entities: each *)
(* entity mentions a chunk at most once, so the score is three times it.   *)
(***************************************************************************)
THEOREM WalkRanks == Spec => []WalkRanksByEntities
<1>1. ASSUME Sound PROVE WalkRanksByEntities
  <2> SUFFICES ASSUME pc = "done", input.api = "kg",
                      NEW d \in Range(answer), NEW c \in Mentioning(chosen),
                      Cardinality(Entities(chosen, c))
                        > Cardinality(Entities(chosen, d))
               PROVE  c \in Range(answer) /\ Place(answer, c) < Place(answer, d)
    BY DEF WalkRanksByEntities
  <2>1. PICK k, r, s : /\ k = input.topK /\ r = ByScore(chosen)
                       /\ s = Take(k, r)
    OBVIOUS
  <2>2. answer = s /\ k \in Nat
    BY <1>1, <2>1, RetrievalAssumption DEF Sound, Ordered, Lists
  <2>3. /\ r \in Seq(Chunks) /\ IsInjective(r) /\ Range(r) = Mentioning(chosen)
        /\ \A x, y \in Range(r) :
             Cardinality(Entities(chosen, x)) > Cardinality(Entities(chosen, y))
               => Place(r, x) < Place(r, y)
    BY <2>1, WalkPlaces
  <2>a. r \in Seq(Chunks) /\ IsInjective(r) /\ k \in Nat /\ s = Take(k, r)
    BY <2>1, <2>2, <2>3
  <2>4. Range(s) \subseteq Range(r)
    BY <2>a, TakePlaces
  <2>5. \A x \in Range(r) : x \in Range(s) <=> Place(r, x) <= k
    BY <2>a, TakePlaces
  <2>6. \A x \in Range(s) : Place(s, x) = Place(r, x)
    BY <2>a, TakePlaces
  <2>7. /\ c \in Range(r) /\ d \in Range(r) /\ d \in Range(s)
        /\ Place(r, c) < Place(r, d)
    BY <2>2, <2>3, <2>4
  <2>8. Place(r, c) \in 1..Len(r) /\ Place(r, d) \in 1..Len(r)
    BY <2>3, <2>7, PlaceOf
  <2>9. Place(r, c) <= k
    BY <2>2, <2>5, <2>7, <2>8
  <2> QED
    BY <2>2, <2>5, <2>6, <2>7, <2>9
<1> QED
  BY <1>1, Soundness, PTL

(***************************************************************************)
(* The store applies the filter before the limit: a chunk that matches is  *)
(* found unless topK nearer ones match too.                                *)
(***************************************************************************)
THEOREM NoneDisplaced == Spec => NothingDisplaced
<1> DEFINE found == (pc \in {"direct", "vector"}
                       /\ pc' \in {"permissions", "done"}) =>
       LET filter == IF pc = "direct" THEN TenantFilter(input) ELSE Merged(input)
       IN  \A c \in Matching(stored, filter) :
             c \in Range(vector') \/ NearerOnly(c)
<1>1. ASSUME Sound, Next PROVE found
  <2> SUFFICES ASSUME pc \in {"direct", "vector"},
                      pc' \in {"permissions", "done"}
               PROVE  found
    OBVIOUS
  <2>1. PICK filter : filter = IF pc = "direct" THEN TenantFilter(input)
                                                ELSE Merged(input)
    OBVIOUS
  <2>2. vector' = Nearest(input, filter)
    <3>1. CASE SearchDirectly
      BY <2>1, <3>1 DEF SearchDirectly
    <3>2. CASE SearchVectors
      BY <2>1, <3>2 DEF SearchVectors
    <3>3. CASE \/ Start \/ SearchFails \/ ReadPermissions \/ Filter
               \/ Walk \/ WalkFails
      BY <3>3 DEF Start, SearchFails, ReadPermissions, Filter, Walk, WalkFails
    <3>4. CASE \/ \E c \in Chunks : Upsert(c) \/ Index(c)
               \/ \E row \in Permissions : Grant(row) \/ Revoke(row)
      BY <3>4 DEF Upsert, Index, Grant, Revoke, search
    <3> QED
      BY <1>1, <3>1, <3>2, <3>3, <3>4 DEF Next
  <2>3. input \in Inputs /\ stored \subseteq Chunks
    BY <1>1 DEF Sound, Lists
  <2>4. PICK v : v = vector'
    OBVIOUS
  <2>5. \A c \in Matching(stored, filter) : c \notin Range(v) =>
          /\ Len(v) = input.topK
          /\ \A d \in Range(v) : Place(input.nearest, d) < Place(input.nearest, c)
    BY <2>2, <2>3, <2>4, NearestFound
  <2>6. \A c \in Matching(stored, filter) :
          c \in Range(vector') \/ NearerOnly(c)
    BY <2>4, <2>5 DEF NearerOnly
  <2> QED
    BY <2>1, <2>6
<1>2. Sound /\ [Next]_vars => [found]_vars
  BY <1>1
<1> QED
  BY <1>2, Soundness, PTL DEF Spec, NothingDisplaced

(***************************************************************************)
(* What makes the permissions that were read good enough: from the moment  *)
(* the hits are there, every row that holds is remembered, and whatever    *)
(* the node takes the user to be allowed rests on a remembered row.        *)
(***************************************************************************)
Remembered ==
  /\ pc \in {"permissions", "filter"} => rows \subseteq lately
  /\ pc = "filter" => \A doc \in allowed : MayHaveRead(input.user, doc)
  /\ AnswersAreReadable

LEMMA RetrievedRemembers ==
  ASSUME NEW chunks, Retrieved(chunks), input' = input, rows' = rows
  PROVE  Remembered'
<1>1. CASE input.api = "query" /\ input.user # None /\ ~ input.user.admin
  <2>1. lately' = rows /\ pc' = "permissions"
    BY <1>1 DEF Retrieved
  <2> QED
    BY <2>1 DEF Remembered, AnswersAreReadable
<1>2. CASE ~ (input.api = "query" /\ input.user # None /\ ~ input.user.admin)
  <2>1. /\ pc' = "done"
        /\ input.api = "query" /\ input.user = None => answer' = <<>>
    BY <1>2 DEF Retrieved
  <2>2. AnswersAreReadable'
    BY <1>2, <2>1 DEF AnswersAreReadable
  <2> QED
    BY <2>1, <2>2 DEF Remembered
<1> QED
  BY <1>1, <1>2

LEMMA FilterRemembers == Sound /\ Remembered /\ Filter => Remembered'
<1> SUFFICES ASSUME Sound, Remembered, Filter PROVE Remembered'
  OBVIOUS
<1>1. /\ pc = "filter" /\ pc' = "done"
      /\ input' = input /\ lately' = lately /\ hits' = hits
      /\ answer' = Along(hits, Visible(input.user, allowed))
  BY DEF Filter
<1>2. PICK S : S = Visible(input.user, allowed)
  OBVIOUS
<1>3. /\ hits \in Seq(Chunks) /\ IsInjective(hits)
      /\ S \in SUBSET Range(hits)
  BY <1>2 DEF Sound, Lists, IsList, Visible
<1>4. PICK r : r = Along(hits, S)
  OBVIOUS
<1>5. Range(r) = S
  BY <1>3, <1>4, AlongPlaces
<1>6. answer' = r
  BY <1>1, <1>2, <1>4
<1>7. \A c \in S : MayHaveRead(input.user, DocOf[c])
  BY <1>1, <1>2 DEF Remembered, Visible
<1>8. \A c \in S : MayHaveRead(input.user, DocOf[c])'
  BY <1>1, <1>7 DEF MayHaveRead
<1>9. input.user # None
  BY <1>1 DEF Sound, Stages
<1>10. AnswersAreReadable'
  BY <1>1, <1>5, <1>6, <1>8, <1>9 DEF AnswersAreReadable
<1> QED
  BY <1>1, <1>10 DEF Remembered

LEMMA StoreRemembers == Sound /\ Remembered /\ StoreStep => Remembered'
<1> SUFFICES ASSUME Sound, Remembered, StoreStep PROVE Remembered'
  OBVIOUS
<1>1. UNCHANGED <<pc, input, allowed, answer>>
  BY DEF StoreStep, Upsert, Index, Grant, Revoke, search, vars
<1>2. /\ lately \subseteq lately'
      /\ pc \in {"permissions", "filter"} => rows' \subseteq rows \cup lately'
  <2>1. CASE \E c \in Chunks : Upsert(c) \/ Index(c)
    BY <2>1 DEF Upsert, Index
  <2>2. CASE \E row \in Permissions : Grant(row)
    BY <2>2 DEF Grant
  <2>3. CASE \E row \in Permissions : Revoke(row)
    BY <2>3 DEF Revoke
  <2>4. CASE UNCHANGED vars
    BY <2>4 DEF vars, stores
  <2> QED
    BY <2>1, <2>2, <2>3, <2>4 DEF StoreStep
<1>3. ASSUME NEW user, NEW doc, MayHaveRead(user, doc)
      PROVE  MayHaveRead(user, doc)'
  BY <1>2, <1>3 DEF MayHaveRead
<1>4. pc' \in {"permissions", "filter"} => rows' \subseteq lately'
  BY <1>1, <1>2 DEF Remembered
<1>5. pc' = "filter" => \A doc \in allowed' : MayHaveRead(input.user, doc)'
  BY <1>1, <1>3 DEF Remembered
<1>6. pc = "done" /\ input.api = "query" /\ input.user # None
        /\ ~ input.user.admin =>
        \A c \in Range(answer) : MayHaveRead(input.user, DocOf[c])'
  <2>1. \A c \in Range(answer) : MayHaveRead(input.user, DocOf[c])
          => MayHaveRead(input.user, DocOf[c])'
    BY <1>1, <1>3
  <2> QED
    BY <2>1 DEF Remembered, AnswersAreReadable
<1>7. pc = "done" /\ input.api = "query" /\ input.user = None => answer = <<>>
  BY DEF Remembered, AnswersAreReadable
<1>8. AnswersAreReadable'
  BY <1>1, <1>6, <1>7 DEF AnswersAreReadable
<1> QED
  BY <1>1, <1>4, <1>5, <1>8 DEF Remembered

(***************************************************************************)
(* No answer of the query graph holds a chunk of a document that its user  *)
(* could at no moment read since the stores were searched, whatever is     *)
(* granted and revoked between the read of the permissions and the answer, *)
(* and although a database that is down allows nothing.                    *)
(***************************************************************************)
THEOREM AnswersReadable == Spec => []AnswersAreReadable
<1>1. Init => Remembered
  BY DEF Init, Remembered, AnswersAreReadable
<1>2. ASSUME Sound, Remembered, [Next]_vars PROVE Remembered'
  <2>1. CASE SearchDirectly
    <3>1. input' = input /\ rows' = rows
      BY <2>1 DEF SearchDirectly, stores
    <3>2. CASE Retrieved(vector')
      BY <3>1, <3>2, RetrievedRemembers
    <3>3. CASE pc' = "vector"
      BY <3>3 DEF Remembered, AnswersAreReadable
    <3> QED
      BY <2>1, <3>2, <3>3 DEF SearchDirectly
  <2>2. CASE SearchVectors
    <3>1. input' = input /\ rows' = rows
      BY <2>2 DEF SearchVectors, stores
    <3>2. PICK chunks : Retrieved(chunks)
      BY <2>2 DEF SearchVectors
    <3> QED
      BY <3>1, <3>2, RetrievedRemembers
  <2>3. CASE ReadPermissions
    <3>1. /\ pc = "permissions" /\ pc' = "filter"
          /\ input' = input /\ rows' = rows /\ lately' = lately
          /\ allowed' \in {Allowed(input.user), {}}
      BY <2>3 DEF ReadPermissions, stores
    <3>2. rows \subseteq lately
      BY <1>2, <3>1 DEF Remembered
    <3>3. \A doc \in allowed' : MayHaveRead(input.user, doc)
      BY <3>1, <3>2 DEF Allowed, MayHaveRead
    <3>4. \A doc \in allowed' : MayHaveRead(input.user, doc)'
      BY <3>1, <3>3 DEF MayHaveRead
    <3>5. AnswersAreReadable'
      BY <3>1 DEF AnswersAreReadable
    <3> QED
      BY <3>1, <3>2, <3>4, <3>5 DEF Remembered
  <2>4. CASE Filter
    BY <1>2, <2>4, FilterRemembers
  <2>5. CASE Walk
    <3>1. input' = input /\ pc = "walk" /\ pc' = "done"
      BY <2>5 DEF Walk
    <3>2. input.api = "kg"
      BY <1>2, <3>1 DEF Sound, Stages
    <3> QED
      BY <3>1, <3>2 DEF Remembered, AnswersAreReadable
  <2>6. CASE Start \/ SearchFails \/ WalkFails
    <3>1. pc' \in {"walk", "direct", "failed", "vector"}
      BY <2>6 DEF Start, SearchFails, WalkFails
    <3> QED
      BY <3>1 DEF Remembered, AnswersAreReadable
  <2>7. CASE StoreStep
    BY <1>2, <2>7, StoreRemembers
  <2> QED
    BY <1>2, <2>1, <2>2, <2>3, <2>4, <2>5, <2>6, <2>7 DEF Next, StoreStep
<1>3. Remembered => AnswersAreReadable
  BY DEF Remembered
<1> QED
  BY <1>1, <1>2, <1>3, Soundness, PTL DEF Spec
=============================================================================
