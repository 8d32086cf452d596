---------------------------- MODULE RequestsProofs ---------------------------
(***************************************************************************)
(* Proofs about the requests of one host (Requests), for every table, any  *)
(* rules, weights and clients, and any number of requests at a time.       *)
(*                                                                         *)
(* The sums of the round robin and of the limiter are recursive functions; *)
(* what is proved of them by induction takes the form of a set of numbers  *)
(* that 0 is in and that is closed under successor (lemma Induct).         *)
(***************************************************************************)
EXTENDS Requests, FiniteSetTheorems, WellFoundedInduction, TLAPS

-------------------------------------------------------------------------------
(* Sums.                                                                    *)

\* Every set of numbers that is not empty has a least one.
LEMMA Least ==
  ASSUME NEW T \in SUBSET Nat, T # {}
  PROVE  \E x \in T : \A y \in T : x <= y
<1>1. \E x \in T : \A y \in T : ~ (<<y, x>> \in OpToRel(<, Nat))
  BY NatLessThanWellFounded, WFMin
<1>2. PICK x \in T : \A y \in T : ~ (<<y, x>> \in OpToRel(<, Nat))
  BY <1>1
<1>3. ASSUME NEW y \in T PROVE x <= y
  <2>1. ~(<<y, x>> \in OpToRel(<, Nat))
    BY <1>2
  <2>2. ~(y < x)
    BY <2>1 DEF OpToRel
  <2>. QED  BY <2>2
<1>. QED  BY <1>3

\* Induction, for a set of numbers: the theorems of the library that take a
\* predicate cannot be instantiated.
LEMMA Induct ==
  ASSUME NEW S, 0 \in S, \A n \in Nat : n \in S => n + 1 \in S
  PROVE  Nat \subseteq S
<1>. DEFINE T == Nat \ S
<1>. SUFFICES ASSUME T # {} PROVE FALSE
  OBVIOUS
<1>1. PICK x \in T : \A y \in T : x <= y
  BY Least
<1>2. x # 0 /\ x - 1 \in Nat /\ x - 1 \notin T
  BY <1>1
<1>. QED  BY <1>2

\* The sum as its recursion says it, for every function.
LEMMA SumDef ==
  ASSUME NEW f, NEW n \in Nat
  PROVE  /\ Sum(f, 0) = 0
         /\ Sum(f, n + 1) = Sum(f, n) + f[n + 1]
<1>. DEFINE Is(m, g) == g = [i \in 0 .. m |-> IF i = 0 THEN 0 ELSE g[i - 1] + f[i]]
            The(m)   == CHOOSE g : Is(m, g)
            S == {m \in Nat : \E g : Is(m, g)}
<1>1. 0 \in S
  <2>1. Is(0, [i \in 0 .. 0 |-> 0])
    OBVIOUS
  <2>. QED  BY <2>1
<1>2. ASSUME NEW m \in Nat, m \in S
      PROVE  m + 1 \in S
  <2>1. PICK g : Is(m, g)
    BY <1>2
  <2>. DEFINE h == [i \in 0 .. m + 1 |-> IF i <= m THEN g[i] ELSE g[m] + f[m + 1]]
  <2>2. ASSUME NEW i \in 0 .. m + 1
        PROVE  h[i] = IF i = 0 THEN 0 ELSE h[i - 1] + f[i]
    <3>1. CASE i = 0
      BY <2>1, <3>1
    <3>2. CASE i = m + 1
      BY <2>1, <3>2
    <3>3. CASE i \in 1 .. m
      <4>1. g[i] = g[i - 1] + f[i]
        BY <2>1, <3>3
      <4>. QED  BY <3>3, <4>1
    <3>. QED  BY <3>1, <3>2, <3>3
  <2>3. Is(m + 1, h)
    <3>. DEFINE k == [i \in 0 .. m + 1 |-> IF i = 0 THEN 0 ELSE h[i - 1] + f[i]]
    <3>. HIDE DEF h
    <3>1. h = [i \in 0 .. m + 1 |-> h[i]]
      BY DEF h
    <3>. QED  BY <2>2, <3>1
  <2>. HIDE DEF h
  <2>. QED  BY <2>3
<1>3. Nat \subseteq S
  <2>. HIDE DEF S
  <2>. QED  BY <1>1, <1>2, Induct
<1>4. ASSUME NEW m \in Nat
      PROVE  Sum(f, m) = The(m)[m] /\ Is(m, The(m))
  BY <1>3 DEF Sum
<1>5. \A m \in Nat : \A i \in 0 .. m : The(m)[i] = IF i = 0 THEN 0 ELSE The(m)[i - 1] + f[i]
  <2>. SUFFICES ASSUME NEW m \in Nat, NEW i \in 0 .. m
                PROVE  The(m)[i] = IF i = 0 THEN 0 ELSE The(m)[i - 1] + f[i]
    OBVIOUS
  <2>. HIDE DEF The
  <2>. QED  BY <1>4
<1>6. \A i \in Nat : i <= n => The(n + 1)[i] = The(n)[i]
  <2>. DEFINE R == {i \in Nat : i <= n => The(n + 1)[i] = The(n)[i]}
  <2>. HIDE DEF The
  <2>1. 0 \in R
    BY <1>5
  <2>2. ASSUME NEW i \in Nat, i \in R
        PROVE  i + 1 \in R
    <3>. SUFFICES ASSUME i + 1 <= n PROVE The(n + 1)[i + 1] = The(n)[i + 1]
      OBVIOUS
    <3>1. The(n + 1)[i + 1] = The(n + 1)[i + 1 - 1] + f[i + 1]
      BY <1>5
    <3>2. The(n)[i + 1] = The(n)[i + 1 - 1] + f[i + 1]
      BY <1>5
    <3>. QED  BY <2>2, <3>1, <3>2
  <2>3. Nat \subseteq R
    <3>. HIDE DEF R
    <3>. QED  BY <2>1, <2>2, Induct
  <2>. QED  BY <2>3
<1>. HIDE DEF The
<1>7. Sum(f, 0) = 0
  BY <1>4, <1>5
<1>8. Sum(f, n + 1) = The(n + 1)[n + 1 - 1] + f[n + 1]
  BY <1>4, <1>5
<1>9. Sum(f, n) = The(n)[n] /\ The(n + 1)[n] = The(n)[n]
  BY <1>4, <1>6
<1>. QED  BY <1>7, <1>8, <1>9

\* A sum of integers is one.
LEMMA SumType ==
  ASSUME NEW f, NEW n \in Nat, \A i \in 1 .. n : f[i] \in Int
  PROVE  Sum(f, n) \in Int
<1>. DEFINE S == {m \in Nat : m <= n => Sum(f, m) \in Int}
<1>1. 0 \in S
  BY SumDef
<1>2. ASSUME NEW m \in Nat, m \in S
      PROVE  m + 1 \in S
  BY <1>2, SumDef
<1>3. Nat \subseteq S
  <2>. HIDE DEF S
  <2>. QED  BY <1>1, <1>2, Induct
<1>. QED  BY <1>3

\* Functions that agree have the same sum.
LEMMA SumSame ==
  ASSUME NEW f, NEW g, NEW n \in Nat, \A i \in 1 .. n : f[i] = g[i]
  PROVE  Sum(f, n) = Sum(g, n)
<1>. DEFINE S == {m \in Nat : m <= n => Sum(f, m) = Sum(g, m)}
<1>1. 0 \in S
  BY SumDef
<1>2. ASSUME NEW m \in Nat, m \in S
      PROVE  m + 1 \in S
  <2>1. Sum(f, m + 1) = Sum(f, m) + f[m + 1] /\ Sum(g, m + 1) = Sum(g, m) + g[m + 1]
    BY SumDef
  <2>. QED  BY <1>2, <2>1
<1>3. Nat \subseteq S
  <2>. HIDE DEF S
  <2>. QED  BY <1>1, <1>2, Induct
<1>. QED  BY <1>3

\* A product the provers do not look into.
Product(a, b) == a * b

\* The sum of multiples is the multiple of the sum.
LEMMA SumLinear ==
  ASSUME NEW f, NEW g, NEW h, NEW a \in Int, NEW b \in Int, NEW n \in Nat,
         \A i \in 1 .. n : f[i] \in Int /\ g[i] \in Int /\ h[i] = Product(a, f[i]) + Product(b, g[i])
  PROVE  Sum(h, n) = Product(a, Sum(f, n)) + Product(b, Sum(g, n))
<1>. DEFINE S == {m \in Nat : m <= n => Sum(h, m) = a * Sum(f, m) + b * Sum(g, m)}
<1>1. 0 \in S
  BY SumDef
<1>2. ASSUME NEW m \in Nat, m \in S
      PROVE  m + 1 \in S
  <2>. SUFFICES ASSUME m + 1 <= n
                PROVE  Sum(h, m + 1) = a * Sum(f, m + 1) + b * Sum(g, m + 1)
    OBVIOUS
  <2>1. /\ Sum(f, m + 1) = Sum(f, m) + f[m + 1]
        /\ Sum(g, m + 1) = Sum(g, m) + g[m + 1]
        /\ Sum(h, m + 1) = Sum(h, m) + h[m + 1]
    BY SumDef
  <2>2. Sum(f, m) \in Int /\ Sum(g, m) \in Int /\ f[m + 1] \in Int /\ g[m + 1] \in Int
    BY SumType
  <2>3. Sum(h, m) = a * Sum(f, m) + b * Sum(g, m)
    BY <1>2
  <2>4. \A x, y \in Int : a * (x + y) = a * x + a * y /\ b * (x + y) = b * x + b * y
    OBVIOUS
  <2>. QED  BY <2>1, <2>2, <2>3, <2>4 DEF Product
<1>3. Nat \subseteq S
  <2>. HIDE DEF S
  <2>. QED  BY <1>1, <1>2, Induct
<1>. QED  BY <1>3 DEF Product

\* Raising one of the summands by d raises the sum by d.
LEMMA SumBump ==
  ASSUME NEW f, NEW g, NEW n \in Nat, NEW j \in 1 .. n, NEW d \in Int,
         \A i \in 1 .. n : f[i] \in Int /\ g[i] = IF i = j THEN f[i] + d ELSE f[i]
  PROVE  Sum(g, n) = Sum(f, n) + d
<1>. DEFINE S == {m \in Nat : m <= n => Sum(g, m) = Sum(f, m) + (IF j <= m THEN d ELSE 0)}
<1>1. 0 \in S
  BY SumDef
<1>2. ASSUME NEW m \in Nat, m \in S
      PROVE  m + 1 \in S
  <2>. SUFFICES ASSUME m + 1 <= n
                PROVE  Sum(g, m + 1) = Sum(f, m + 1) + (IF j <= m + 1 THEN d ELSE 0)
    OBVIOUS
  <2>1. Sum(f, m + 1) = Sum(f, m) + f[m + 1] /\ Sum(g, m + 1) = Sum(g, m) + g[m + 1]
    BY SumDef
  <2>2. Sum(f, m) \in Int /\ f[m + 1] \in Int
    BY SumType
  <2>3. Sum(g, m) = Sum(f, m) + (IF j <= m THEN d ELSE 0)
    BY <1>2
  <2>. QED  BY <2>1, <2>2, <2>3
<1>3. Nat \subseteq S
  <2>. HIDE DEF S
  <2>. QED  BY <1>1, <1>2, Induct
<1>. QED  BY <1>3

\* A positive sum has a positive summand.
LEMMA SumPositive ==
  ASSUME NEW f, NEW n \in Nat, \A i \in 1 .. n : f[i] \in Int, Sum(f, n) > 0
  PROVE  \E i \in 1 .. n : f[i] > 0
<1>. SUFFICES ASSUME \A i \in 1 .. n : f[i] <= 0
              PROVE  FALSE
  OBVIOUS
<1>. DEFINE S == {m \in Nat : m <= n => Sum(f, m) <= 0}
<1>1. 0 \in S
  BY SumDef
<1>2. ASSUME NEW m \in Nat, m \in S
      PROVE  m + 1 \in S
  <2>. SUFFICES ASSUME m + 1 <= n PROVE Sum(f, m + 1) <= 0
    OBVIOUS
  <2>1. Sum(f, m + 1) = Sum(f, m) + f[m + 1]
    BY SumDef
  <2>2. Sum(f, m) \in Int /\ f[m + 1] \in Int /\ f[m + 1] <= 0
    BY SumType
  <2>. QED  BY <1>2, <2>1, <2>2
<1>3. Nat \subseteq S
  <2>. HIDE DEF S
  <2>. QED  BY <1>1, <1>2, Induct
<1>. QED  BY <1>3, SumType

\* When none is below -c, the sum is not below one of them less c for each other.
LEMMA SumLeast ==
  ASSUME NEW f, NEW n \in Nat, NEW j \in 1 .. n, NEW c \in Int,
         \A i \in 1 .. n : f[i] \in Int /\ f[i] >= -c
  PROVE  Sum(f, n) >= f[j] - (n - 1) * c
<1>. DEFINE S == {m \in Nat : m <= n => Sum(f, m) >= IF j <= m THEN f[j] - (m - 1) * c ELSE -(m * c)}
<1>1. 0 \in S
  BY SumDef
<1>2. ASSUME NEW m \in Nat, m \in S
      PROVE  m + 1 \in S
  <2>. SUFFICES ASSUME m + 1 <= n
                PROVE  Sum(f, m + 1) >= IF j <= m + 1 THEN f[j] - m * c ELSE -((m + 1) * c)
    OBVIOUS
  <2>1. Sum(f, m + 1) = Sum(f, m) + f[m + 1]
    BY SumDef
  <2>2. Sum(f, m) \in Int /\ f[m + 1] \in Int /\ f[j] \in Int /\ f[m + 1] >= -c
    BY SumType
  <2>3. Sum(f, m) >= IF j <= m THEN f[j] - (m - 1) * c ELSE -(m * c)
    BY <1>2
  <2>4. (m - 1) * c = m * c - c /\ (m + 1) * c = m * c + c /\ m * c \in Int
    OBVIOUS
  <2>. DEFINE mc == m * c
  <2>5. CASE j <= m
    <3>1. Sum(f, m) >= f[j] - (mc - c)
      BY <2>3, <2>4, <2>5
    <3>. HIDE DEF mc
    <3>2. Sum(f, m + 1) >= f[j] - mc
      BY <2>1, <2>2, <2>4, <3>1 DEF mc
    <3>. QED  BY <2>5, <3>2 DEF mc
  <2>6. CASE j = m + 1
    BY <2>1, <2>2, <2>3, <2>4, <2>6
  <2>7. CASE j > m + 1
    BY <2>1, <2>2, <2>3, <2>4, <2>7
  <2>. QED  BY <2>5, <2>6, <2>7
<1>3. Nat \subseteq S
  <2>. HIDE DEF S
  <2>. QED  BY <1>1, <1>2, Induct
<1>. QED  BY <1>3

\* The sum of naturals grows with their number.
LEMMA SumMonotone ==
  ASSUME NEW f, NEW n \in Nat, NEW m \in 0 .. n, \A i \in 1 .. n : f[i] \in Nat
  PROVE  Sum(f, m) <= Sum(f, n)
<1>. DEFINE S == {k \in Nat : m <= k /\ k <= n => Sum(f, m) <= Sum(f, k)}
<1>1. 0 \in S
  BY SumDef
<1>2. ASSUME NEW k \in Nat, k \in S
      PROVE  k + 1 \in S
  <2>. SUFFICES ASSUME m <= k + 1, k + 1 <= n PROVE Sum(f, m) <= Sum(f, k + 1)
    OBVIOUS
  <2>1. Sum(f, k + 1) = Sum(f, k) + f[k + 1]
    BY SumDef
  <2>2. Sum(f, m) \in Int /\ Sum(f, k) \in Int /\ f[k + 1] \in Nat
    BY SumType
  <2>. QED  BY <1>2, <2>1, <2>2
<1>3. Nat \subseteq S
  <2>. HIDE DEF S
  <2>. QED  BY <1>1, <1>2, Induct
<1>. QED  BY <1>3

\* The sum of naturals is one.
LEMMA SumNat ==
  ASSUME NEW f, NEW n \in Nat, \A i \in 1 .. n : f[i] \in Nat
  PROVE  Sum(f, n) \in Nat
BY SumType, SumMonotone, SumDef

\* Putting a 0 before the summands leaves the sum.
LEMMA SumShift ==
  ASSUME NEW f, NEW g, NEW n \in Nat, g[1] = 0,
         \A i \in 1 .. n : f[i] \in Int /\ g[i + 1] = f[i]
  PROVE  Sum(g, n + 1) = Sum(f, n)
<1>. DEFINE S == {m \in Nat : m <= n => Sum(g, m + 1) = Sum(f, m)}
<1>1. 0 \in S
  BY SumDef
<1>2. ASSUME NEW m \in Nat, m \in S
      PROVE  m + 1 \in S
  <2>1. Sum(f, m + 1) = Sum(f, m) + f[m + 1] /\ Sum(g, m + 1 + 1) = Sum(g, m + 1) + g[m + 1 + 1]
    BY SumDef
  <2>. QED  BY <1>2, <2>1
<1>3. Nat \subseteq S
  <2>. HIDE DEF S
  <2>. QED  BY <1>1, <1>2, Induct
<1>. QED  BY <1>3

\* There is a first of the greatest: the round robin always has a choice.
LEMMA FirstGreatest ==
  ASSUME NEW f, NEW n \in Nat \ {0}, \A i \in 1 .. n : f[i] \in Int
  PROVE  \E i \in 1 .. n : \A j \in 1 .. n : f[j] < f[i] \/ (f[j] = f[i] /\ i <= j)
<1>. DEFINE Is(i, m) == \A j \in 1 .. m : f[j] < f[i] \/ (f[j] = f[i] /\ i <= j)
            S == {m \in Nat : 1 <= m /\ m <= n => \E i \in 1 .. m : Is(i, m)}
<1>1. 0 \in S
  OBVIOUS
<1>2. ASSUME NEW m \in Nat, m \in S
      PROVE  m + 1 \in S
  <2>. SUFFICES ASSUME m + 1 <= n PROVE \E i \in 1 .. m + 1 : Is(i, m + 1)
    OBVIOUS
  <2>1. CASE m = 0
    <3>1. 1 \in 1 .. m + 1 /\ Is(1, m + 1)
      BY <2>1
    <3>. QED  BY <3>1
  <2>2. CASE m > 0
    <3>1. PICK i \in 1 .. m : Is(i, m)
      BY <1>2, <2>2
    <3>2. CASE f[m + 1] > f[i]
      <4>1. Is(m + 1, m + 1)
        BY <3>1, <3>2
      <4>. QED  BY <4>1
    <3>3. CASE ~(f[m + 1] > f[i])
      <4>1. f[m + 1] \in Int /\ f[i] \in Int
        OBVIOUS
      <4>2. Is(i, m + 1)
        BY <3>1, <3>3, <4>1
      <4>. QED  BY <4>2
    <3>. QED  BY <3>2, <3>3
  <2>. QED  BY <2>1, <2>2
<1>3. Nat \subseteq S
  <2>. HIDE DEF S
  <2>. QED  BY <1>1, <1>2, Induct
<1>. QED  BY <1>3

-------------------------------------------------------------------------------
(* The turns of the round robin.                                            *)

\* A function from 1 .. n is a list of length n.
LEMMA ListOf ==
  ASSUME NEW S, NEW n \in Nat, NEW f \in [1 .. n -> S]
  PROVE  f \in Seq(S) /\ Len(f) = n /\ DOMAIN f = 1 .. n
OBVIOUS

\* And a list is one.
LEMMA ListIs ==
  ASSUME NEW S, NEW f \in Seq(S)
  PROVE  f \in [1 .. Len(f) -> S] /\ Len(f) \in Nat /\ DOMAIN f = 1 .. Len(f)
OBVIOUS

\* The products the proofs use.
LEMMA Times ==
  \A x, y \in Int : /\ x * y \in Int
                    /\ (x + 1) * y = x * y + y
                    /\ (-x) * y = -(y * x)
                    /\ x * y + (-y) * x = 0
                    /\ 1 * x = x
                    /\ (-1) * x = -x
                    /\ x * 0 = 0
OBVIOUS

\* Who is less than a whole turn ahead when all turns are taken, is not ahead.
LEMMA NoneOver ==
  \A x, y, z \in Int : z > 0 /\ z * x - y * z > -z => y <= x
<1>. SUFFICES ASSUME NEW x \in Int, NEW y \in Int, NEW z \in Int, z > 0, z * x - y * z > -z, y >= x + 1
              PROVE  FALSE
  OBVIOUS
<1>1. PICK d \in Nat : y = x + 1 + d
  <2>1. y - x - 1 \in Nat /\ y = x + 1 + (y - x - 1)
    OBVIOUS
  <2>. QED  BY <2>1
<1>2. y * z = z * x + z + d * z
  BY <1>1
<1>3. d * z >= 0
  OBVIOUS
<1>. QED  BY <1>2, <1>3

\* One turn, in numbers: of n with weights w, after g[j] turns of each j, the
\* i-th is owed most; c is what is owed, W and T are the sums.
TurnFrom(n, w, g, h, c, W, T, i) ==
  /\ w \in [1 .. n -> Nat \ {0}] /\ g \in [1 .. n -> Nat] /\ h = [g EXCEPT ![i] = @ + 1]
  /\ W = Sum(w, n) /\ T = Sum(g, n) /\ T < W
  /\ c = [j \in 1 .. n |-> T * w[j] - g[j] * W]
  /\ \A j \in 1 .. n : c[j] > -W /\ c[j] + w[j] <= c[i] + w[i]

\* It ends.
TurnTo(n, w, g, h, c, W, T, i) ==
  /\ h \in [1 .. n -> Nat] /\ Sum(h, n) = T + 1
  /\ \A j \in 1 .. n : (T + 1) * w[j] - h[j] * W = IF j = i THEN c[j] + w[j] - W ELSE c[j] + w[j]
  /\ \A j \in 1 .. n : (T + 1) * w[j] - h[j] * W > -W
  /\ T + 1 = W => \A j \in 1 .. n : h[j] = w[j]

\* One turn of the smooth weighted round robin: it goes to the one that is owed
\* most, whom it costs the sum of the weights, and nobody is owed less than
\* minus that; when as many were taken as the weights add up to, all are even.
LEMMA OneTurn ==
  ASSUME NEW n \in Nat \ {0}, NEW w, NEW g, NEW h, NEW c, NEW W, NEW T, NEW i \in 1 .. n,
         TurnFrom(n, w, g, h, c, W, T, i)
  PROVE  TurnTo(n, w, g, h, c, W, T, i)
<1>1. /\ w \in [1 .. n -> Nat \ {0}] /\ g \in [1 .. n -> Nat] /\ h = [g EXCEPT ![i] = @ + 1]
      /\ W = Sum(w, n) /\ T = Sum(g, n) /\ T < W
      /\ c = [j \in 1 .. n |-> T * w[j] - g[j] * W]
      /\ \A j \in 1 .. n : c[j] > -W /\ c[j] + w[j] <= c[i] + w[i]
  BY DEF TurnFrom
<1>2. \A j \in 1 .. n : /\ g[j] \in Nat /\ g[j] \in Int
                        /\ w[j] \in Nat /\ w[j] \in Int /\ w[j] > 0
                        /\ h[j] \in Nat /\ h[j] \in Int
                        /\ h[j] = IF j = i THEN g[j] + 1 ELSE g[j]
  BY <1>1
<1>3. W \in Int /\ T \in Int /\ T >= 0 /\ W > 0 /\ W = Sum(w, n) /\ T = Sum(g, n) /\ -W \in Int
  <2>1. Sum(w, n) \in Nat /\ Sum(g, n) \in Nat
    BY <1>2, SumNat
  <2>2. W = Sum(w, n) /\ T = Sum(g, n) /\ T < W
    BY <1>1
  <2>. QED  BY <2>1, <2>2
<1>4. h \in [1 .. n -> Nat]
  BY <1>1
<1>5. Sum(h, n) = T + 1
  <2>1. \A j \in 1 .. n : g[j] \in Int /\ h[j] = IF j = i THEN g[j] + 1 ELSE g[j]
    BY <1>2
  <2>2. Sum(h, n) = Sum(g, n) + 1
    BY <2>1, SumBump
  <2>. QED  BY <1>3, <2>2
<1>6. \A j \in 1 .. n : c[j] = T * w[j] - g[j] * W
  BY <1>1
<1>7. \A j \in 1 .. n : c[j] \in Int /\ c[j] = T * w[j] + (-W) * g[j]
  <2>1. \A j \in 1 .. n : T * w[j] \in Int /\ g[j] * W \in Int
    BY <1>2, <1>3, Times
  <2>2. \A j \in 1 .. n : (-W) * g[j] = -(g[j] * W)
    BY <1>2, <1>3, Times
  <2>. QED  BY <1>6, <2>1, <2>2
<1>8. \A j \in 1 .. n : c[j] > -W /\ c[j] + w[j] <= c[i] + w[i]
  BY <1>1
<1>9. \A j \in 1 .. n : (T + 1) * w[j] - h[j] * W = IF j = i THEN c[j] + w[j] - W ELSE c[j] + w[j]
  <2>1. \A j \in 1 .. n : (T + 1) * w[j] = T * w[j] + w[j] /\ (g[j] + 1) * W = g[j] * W + W
    BY <1>2, <1>3, Times
  <2>2. \A j \in 1 .. n : T * w[j] \in Int /\ g[j] * W \in Int
    BY <1>2, <1>3, Times
  <2>. QED  BY <1>2, <1>3, <1>6, <2>1, <2>2
<1>10. Sum(c, n) = 0
  <2>1. Sum(c, n) = T * Sum(w, n) + (-W) * Sum(g, n)
    <3>1. \A j \in 1 .. n : w[j] \in Int /\ g[j] \in Int /\ c[j] = Product(T, w[j]) + Product(-W, g[j])
      BY <1>2, <1>7 DEF Product
    <3>2. Sum(c, n) = Product(T, Sum(w, n)) + Product(-W, Sum(g, n))
      BY <1>3, <3>1, SumLinear
    <3>. QED  BY <3>2 DEF Product
  <2>. QED  BY <1>3, <2>1, Times
<1>. DEFINE u == [j \in 1 .. n |-> c[j] + w[j]]
<1>11. \A j \in 1 .. n : u[j] = c[j] + w[j] /\ u[j] \in Int
  BY <1>2, <1>7
<1>. HIDE DEF u
<1>12. Sum(u, n) = W
  <2>1. \A j \in 1 .. n : c[j] \in Int /\ w[j] \in Int /\ u[j] = Product(1, c[j]) + Product(1, w[j])
    BY <1>2, <1>7, <1>11 DEF Product
  <2>2. Sum(u, n) = Product(1, Sum(c, n)) + Product(1, Sum(w, n))
    BY <2>1, SumLinear
  <2>. QED  BY <1>3, <1>10, <2>2 DEF Product
<1>13. c[i] + w[i] > 0
  <2>1. PICK j \in 1 .. n : u[j] > 0
    BY <1>3, <1>11, <1>12, SumPositive
  <2>. QED  BY <1>2, <1>7, <1>8, <1>11, <2>1
<1>14. \A j \in 1 .. n : (T + 1) * w[j] - h[j] * W > -W
  BY <1>2, <1>3, <1>7, <1>8, <1>9, <1>13
<1>15. ASSUME T + 1 = W
       PROVE  \A j \in 1 .. n : h[j] = w[j]
  <2>1. \A j \in 1 .. n : h[j] <= w[j]
    BY <1>2, <1>3, <1>14, <1>15, NoneOver
  <2>. DEFINE e == [j \in 1 .. n |-> w[j] - h[j]]
  <2>2. \A j \in 1 .. n : e[j] = w[j] - h[j] /\ e[j] \in Nat
    BY <1>2, <2>1
  <2>. HIDE DEF e
  <2>3. Sum(e, n) = Product(1, Sum(w, n)) + Product(-1, Sum(h, n))
    <3>1. \A j \in 1 .. n : w[j] \in Int /\ h[j] \in Int /\ e[j] = Product(1, w[j]) + Product(-1, h[j])
      BY <1>2, <2>2 DEF Product
    <3>. QED  BY <3>1, SumLinear
  <2>4. Sum(e, n) = 0
    BY <1>3, <1>5, <1>15, <2>3 DEF Product
  <2>5. ASSUME NEW j \in 1 .. n
        PROVE  h[j] = w[j]
    <3>1. \A l \in 1 .. n : e[l] \in Int /\ e[l] >= -0
      BY <2>2
    <3>2. Sum(e, n) >= e[j] - (n - 1) * 0
      BY <3>1, SumLeast
    <3>3. e[j] \in Nat /\ e[j] <= 0
      BY <2>2, <2>4, <3>2
    <3>. QED  BY <1>2, <2>2, <3>3
  <2>. QED  BY <2>5
<1>. QED  BY <1>4, <1>5, <1>9, <1>14, <1>15 DEF TurnTo

\* A sum of naturals is at least each of them.
LEMMA SumPart ==
  ASSUME NEW f, NEW n \in Nat, NEW j \in 1 .. n, \A i \in 1 .. n : f[i] \in Nat
  PROVE  Sum(f, n) >= f[j]
<1>1. \A i \in 1 .. n : f[i] \in Int /\ f[i] >= -0
  OBVIOUS
<1>2. Sum(f, n) >= f[j] - (n - 1) * 0
  BY <1>1, SumLeast
<1>. QED  BY <1>2

\* A sum of zeros is 0.
LEMMA SumZero ==
  ASSUME NEW f, NEW n \in Nat, \A i \in 1 .. n : f[i] = 0
  PROVE  Sum(f, n) = 0
<1>1. \A i \in 1 .. n : f[i] \in Int /\ f[i] = Product(0, f[i]) + Product(0, f[i])
  BY DEF Product
<1>2. Sum(f, n) = Product(0, Sum(f, n)) + Product(0, Sum(f, n))
  BY <1>1, SumLinear
<1>3. Sum(f, n) \in Int
  BY <1>1, SumType
<1>. QED  BY <1>2, <1>3 DEF Product

\* What a pool's print tells of its members.
LEMMA PrintOf ==
  ASSUME NEW k, NEW S, NEW ms \in Seq(S), ms # <<>>,
         \A i \in DOMAIN ms : ms[i].weight \in Int
  PROVE  /\ Len(ms) \in Nat \ {0} /\ DOMAIN ms = 1 .. Len(ms)
         /\ [i \in DOMAIN ms |-> Weight(ms[i])] \in [1 .. Len(ms) -> Nat \ {0}]
         /\ PoolPrint(k, ms) # <<>> /\ DOMAIN PoolPrint(k, ms) = 1 .. Len(ms) /\ Len(PoolPrint(k, ms)) = Len(ms)
         /\ \A i \in 1 .. Len(ms) : Last(PoolPrint(k, ms)[i]) = Weight(ms[i])
<1>1. Len(ms) \in Nat \ {0} /\ DOMAIN ms = 1 .. Len(ms)
  OBVIOUS
<1>2. [i \in DOMAIN ms |-> Weight(ms[i])] \in [1 .. Len(ms) -> Nat \ {0}]
  BY <1>1 DEF Weight
<1>. DEFINE p == PoolPrint(k, ms)
<1>3. p = [i \in 1 .. Len(ms) |-> p[i]] /\ DOMAIN p = 1 .. Len(ms)
  BY <1>1 DEF PoolPrint
<1>4. \A i \in 1 .. Len(ms) : p[i] = <<Weight(ms[i])>> \/ p[i] = <<ms[i].id, Weight(ms[i])>>
  BY <1>1 DEF PoolPrint
<1>5. \A i \in 1 .. Len(ms) : Last(p[i]) = Weight(ms[i])
  <2>1. \A x, y : Last(<<x>>) = x /\ Last(<<y, x>>) = x
    BY DEF Last
  <2>. HIDE DEF p
  <2>. QED  BY <1>4, <2>1
<1>. HIDE DEF p
<1>6. Len(p) = Len(ms)
  <2>1. p \in [1 .. Len(ms) -> {p[i] : i \in 1 .. Len(ms)}]
    BY <1>3
  <2>. QED  BY <1>1, <2>1, ListOf
<1>7. p # <<>>
  BY <1>1, <1>3
<1>. QED  BY <1>1, <1>2, <1>3, <1>5, <1>6, <1>7 DEF p

\* The turns taken when ms is asked for, and what is owed then.
Before(k, ms) ==
  [of |-> PoolPrint(k, ms), weight |-> [i \in DOMAIN ms |-> Weight(ms[i])],
   got |-> IF shares[k].of = PoolPrint(k, ms) THEN shares[k].got ELSE [i \in DOMAIN ms |-> 0]]

\* wrrState, as a request finds or resets it, is what is owed to each.
LEMMA StateIsOwed ==
  ASSUME TurnsAreOwed, NEW k \in Turns, NEW S, NEW ms \in Seq(S), ms # <<>>,
         \A i \in DOMAIN ms : ms[i].weight \in Int
  PROVE  LET s == Before(k, ms)
             n == Len(ms)
         IN /\ s.got \in [1 .. n -> Nat] /\ Total(s.got) = Sum(s.got, n) /\ Total(s.weight) = Sum(s.weight, n)
            /\ Total(s.got) < Total(s.weight)
            /\ \A i \in 1 .. n : Owed(s, i) > -Total(s.weight)
            /\ State(k, ms) = [of |-> s.of, weight |-> s.weight, current |-> [i \in 1 .. n |-> Owed(s, i)]]
<1>. DEFINE n  == Len(ms)
            of == PoolPrint(k, ms)
            ws == [i \in DOMAIN ms |-> Weight(ms[i])]
            s  == Before(k, ms)
            Goal == /\ s.got \in [1 .. n -> Nat]
                    /\ Total(s.got) = Sum(s.got, n) /\ Total(s.weight) = Sum(s.weight, n)
                    /\ Total(s.got) < Total(s.weight)
                    /\ \A i \in 1 .. n : Owed(s, i) > -Total(s.weight)
                    /\ State(k, ms) = [of |-> s.of, weight |-> s.weight, current |-> [i \in 1 .. n |-> Owed(s, i)]]
<1>1. /\ n \in Nat \ {0} /\ DOMAIN ms = 1 .. n
      /\ ws \in [1 .. n -> Nat \ {0}]
      /\ of # <<>> /\ DOMAIN of = 1 .. n /\ Len(of) = n
      /\ \A i \in 1 .. n : Last(of[i]) = Weight(ms[i])
  BY PrintOf
<1>2. Len(ws) = n /\ \A i \in 1 .. n : ws[i] = Weight(ms[i])
  BY <1>1, ListOf
<1>3. s.of = of /\ s.weight = ws
  BY DEF Before
<1>. HIDE DEF n, of, ws, s
<1>4. ASSUME shares[k].of = of PROVE Goal
  <2>1. shares[k] # NoShare
    BY <1>1, <1>4 DEF NoShare
  <2>. DEFINE w == shares[k].weight
              g == shares[k].got
  <2>2. /\ wrr[k] = [of |-> of, weight |-> w, current |-> [i \in DOMAIN g |-> Owed(shares[k], i)]]
        /\ w \in Seq(Nat \ {0}) /\ g \in Seq(Nat) /\ Len(g) = Len(w) /\ n = Len(g)
        /\ \A i \in DOMAIN g : Last(of[i]) = w[i]
        /\ Total(g) < Total(w) /\ \A i \in DOMAIN g : Owed(shares[k], i) > -Total(w)
    BY <1>1, <1>4, <2>1 DEF TurnsAreOwed
  <2>3. w = ws
    <3>1. DOMAIN g = 1 .. n /\ w \in [1 .. n -> Nat \ {0}]
      BY <2>2, ListIs
    <3>. HIDE DEF w, g
    <3>2. \A i \in 1 .. n : w[i] = ws[i]
      BY <1>1, <1>2, <2>2, <3>1
    <3>. QED  BY <1>1, <3>1, <3>2
  <2>4. s.got = g
    BY <1>4 DEF s, of, Before
  <2>5. g \in [1 .. n -> Nat] /\ DOMAIN g = 1 .. n
    BY <2>2, ListIs
  <2>6. \A i : Owed(s, i) = Owed(shares[k], i)
    BY <1>3, <2>3, <2>4 DEF Owed
  <2>7. State(k, ms) = wrr[k]
    BY <2>2 DEF State, of
  <2>8. Total(g) = Sum(g, n) /\ Total(ws) = Sum(ws, n)
    BY <1>2, <2>2 DEF Total
  <2>. HIDE DEF w, g
  <2>. QED  BY <1>3, <2>2, <2>3, <2>4, <2>5, <2>6, <2>7, <2>8
<1>5. ASSUME shares[k].of # of PROVE Goal
  <2>1. wrr[k].of # of
    <3>1. wrr[k] = [of |-> shares[k].of, weight |-> shares[k].weight,
                    current |-> [i \in DOMAIN shares[k].got |-> Owed(shares[k], i)]]
      BY DEF TurnsAreOwed
    <3>. QED  BY <1>5, <3>1
  <2>2. State(k, ms) = [of |-> of, weight |-> ws, current |-> [i \in 1 .. n |-> 0]]
    BY <1>1, <2>1 DEF State, of, ws
  <2>3. s.got = [i \in 1 .. n |-> 0]
    BY <1>1, <1>5 DEF s, of, Before
  <2>4. s.got \in [1 .. n -> Nat] /\ Len(s.got) = n
    BY <1>1, <2>3, ListOf
  <2>5. Total(s.got) = 0 /\ Total(s.got) = Sum(s.got, n)
    BY <1>1, <2>3, <2>4, SumZero DEF Total
  <2>6. Total(ws) = Sum(ws, n) /\ Total(ws) \in Nat /\ Total(ws) > 0
    <3>1. Total(ws) = Sum(ws, n)
      BY <1>2 DEF Total
    <3>2. \A i \in 1 .. n : ws[i] \in Nat /\ ws[i] > 0
      BY <1>1
    <3>3. Sum(ws, n) >= ws[1]
      BY <1>1, <3>2, SumPart
    <3>4. Sum(ws, n) \in Nat
      BY <1>1, <3>2, SumNat
    <3>. QED  BY <1>1, <3>1, <3>2, <3>3, <3>4
  <2>7. \A i \in 1 .. n : Owed(s, i) = 0
    <3>1. \A i \in 1 .. n : Owed(s, i) = 0 * ws[i] - 0 * Total(ws)
      BY <1>3, <2>3, <2>5 DEF Owed
    <3>2. \A i \in 1 .. n : ws[i] \in Int
      BY <1>1
    <3>. QED  BY <2>6, <3>1, <3>2
  <2>8. [i \in 1 .. n |-> 0] = [i \in 1 .. n |-> Owed(s, i)]
    BY <2>7
  <2>9. State(k, ms) = [of |-> s.of, weight |-> s.weight, current |-> [i \in 1 .. n |-> Owed(s, i)]]
    BY <1>3, <2>2, <2>8
  <2>10. /\ Total(s.weight) = Sum(s.weight, n) /\ Total(s.got) < Total(s.weight)
         /\ \A i \in 1 .. n : Owed(s, i) > -Total(s.weight)
    BY <1>3, <2>5, <2>6, <2>7
  <2>. QED  BY <2>4, <2>5, <2>9, <2>10
<1>. QED  BY <1>4, <1>5 DEF s, n

\* A turn that is taken keeps the books.
LEMMA TurnTaken ==
  ASSUME TurnsAreOwed, DOMAIN wrr = Turns, DOMAIN shares = Turns,
         NEW k \in Turns, NEW S, NEW ms \in Seq(S), NEW i \in DOMAIN ms, Takes(k, ms, i),
         \A j \in DOMAIN ms : ms[j].weight \in Int
  PROVE  TurnsAreOwed' /\ DOMAIN wrr' = Turns /\ DOMAIN shares' = Turns
<1>. DEFINE n == Len(ms)
            b == Before(k, ms)
            w == b.weight
            g == b.got
            h == [g EXCEPT ![i] = @ + 1]
            W == Sum(w, n)
            T == Sum(g, n)
            c == [j \in 1 .. n |-> Owed(b, j)]
            st == State(k, ms)
            even == \A j \in 1 .. n : h[j] * W = w[j] * (T + 1)
            next == [of |-> b.of, weight |-> w, got |-> IF even THEN [j \in 1 .. n |-> 0] ELSE h]
<1>1. ms # <<>> /\ n \in Nat \ {0} /\ DOMAIN ms = 1 .. n /\ i \in 1 .. n
  OBVIOUS
<1>2. /\ g \in [1 .. n -> Nat] /\ Total(g) = T /\ Total(w) = W
      /\ T < W /\ \A j \in 1 .. n : Owed(b, j) > -W
      /\ st = [of |-> b.of, weight |-> w, current |-> c]
  BY <1>1, StateIsOwed
<1>3. /\ w \in [1 .. n -> Nat \ {0}] /\ b.of # <<>> /\ Len(b.of) = n
      /\ \A j \in 1 .. n : Last(b.of[j]) = w[j]
  BY <1>1, PrintOf DEF Before
<1>4. c = [j \in 1 .. n |-> T * w[j] - g[j] * W] /\ \A j \in 1 .. n : c[j] = Owed(b, j)
  BY <1>2 DEF Owed
<1>. HIDE DEF b, c, st, n
<1>5. W \in Int /\ T \in Int /\ T >= 0 /\ W > 0 /\ \A j \in 1 .. n : c[j] \in Int /\ w[j] \in Int /\ g[j] \in Nat
  <2>1. \A j \in 1 .. n : w[j] \in Nat /\ w[j] \in Int /\ g[j] \in Nat /\ g[j] \in Int
    BY <1>2, <1>3
  <2>2. W \in Nat /\ T \in Nat
    BY <1>1, <2>1, SumNat
  <2>3. W \in Int /\ T \in Int /\ T >= 0 /\ W > 0
    BY <1>2, <2>2
  <2>4. \A j \in 1 .. n : T * w[j] \in Int /\ g[j] * W \in Int
    BY <2>1, <2>3, Times
  <2>5. \A j \in 1 .. n : c[j] = T * w[j] - g[j] * W
    BY <1>4
  <2>6. \A j \in 1 .. n : c[j] \in Int
    BY <2>4, <2>5
  <2>. QED  BY <2>1, <2>3, <2>6
<1>6. Raised(st) = [j \in 1 .. n |-> c[j] + w[j]]
  BY <1>2, <1>4 DEF Raised
<1>7. i = Turn(st) /\ wrr' = [wrr EXCEPT ![k] = [st EXCEPT !.current = Lowered(st, i)]]
      /\ shares' = [shares EXCEPT ![k] = Share(k, ms, i)]
  BY DEF Takes, st
<1>8. \A j \in 1 .. n : c[j] + w[j] <= c[i] + w[i]
  <2>. DEFINE u == [j \in 1 .. n |-> c[j] + w[j]]
              First1(m) == \A j \in 1 .. n : u[j] < u[m] \/ (u[j] = u[m] /\ m <= j)
  <2>1. \A j \in 1 .. n : u[j] \in Int
    BY <1>5
  <2>2. \E m \in 1 .. n : First1(m)
    <3>. HIDE DEF u
    <3>. QED  BY <1>1, <2>1, FirstGreatest
  <2>3. DOMAIN st.current = 1 .. n
    BY <1>2, <1>4
  <2>4. Turn(st) = CHOOSE m \in 1 .. n : First1(m)
    BY <1>6, <2>3 DEF Turn
  <2>5. First1(i)
    <3>. HIDE DEF First1
    <3>. QED  BY <1>7, <2>2, <2>4
  <2>. QED  BY <1>1, <2>1, <2>5
<1>9. Lowered(st, i) = [j \in 1 .. n |-> IF j = i THEN c[j] + w[j] - W ELSE c[j] + w[j]]
  <2>1. Lowered(st, i) = [Raised(st) EXCEPT ![i] = @ - W]
    BY <1>2 DEF Lowered
  <2>. HIDE DEF W, w
  <2>2. [Raised(st) EXCEPT ![i] = @ - W]
          = [j \in 1 .. n |-> IF j = i THEN Raised(st)[i] - W ELSE Raised(st)[j]]
    BY <1>1, <1>6
  <2>3. \A j \in 1 .. n : Raised(st)[j] = c[j] + w[j]
    BY <1>6
  <2>4. \A j \in 1 .. n : (IF j = i THEN Raised(st)[i] - W ELSE Raised(st)[j])
                            = IF j = i THEN c[j] + w[j] - W ELSE c[j] + w[j]
    <3>. SUFFICES ASSUME NEW j \in 1 .. n
                  PROVE  (IF j = i THEN Raised(st)[i] - W ELSE Raised(st)[j])
                            = IF j = i THEN c[j] + w[j] - W ELSE c[j] + w[j]
      OBVIOUS
    <3>1. Raised(st)[i] = c[i] + w[i] /\ Raised(st)[j] = c[j] + w[j]
      BY <1>1, <2>3
    <3>2. CASE j = i
      BY <1>1, <1>5, <3>1, <3>2
    <3>3. CASE j # i
      BY <3>1, <3>3
    <3>. QED  BY <3>2, <3>3
  <2>. QED  BY <2>1, <2>2, <2>4
<1>10. /\ h \in [1 .. n -> Nat] /\ Sum(h, n) = T + 1
       /\ \A j \in 1 .. n : (T + 1) * w[j] - h[j] * W = IF j = i THEN c[j] + w[j] - W ELSE c[j] + w[j]
       /\ \A j \in 1 .. n : (T + 1) * w[j] - h[j] * W > -W
       /\ T + 1 = W => \A j \in 1 .. n : h[j] = w[j]
  <2>1. \A j \in 1 .. n : c[j] > -W
    BY <1>2, <1>4
  <2>2. TurnFrom(n, w, g, h, c, W, T, i)
    BY <1>2, <1>3, <1>4, <1>8, <2>1 DEF TurnFrom
  <2>. HIDE DEF h, W, T, w, g
  <2>3. TurnTo(n, w, g, h, c, W, T, i)
    BY <1>1, <2>2, OneTurn
  <2>. QED  BY <2>3 DEF TurnTo
<1>11. Len(h) = n /\ Total(h) = T + 1 /\ DOMAIN h = 1 .. n /\ Len(w) = n
  <2>. HIDE DEF h
  <2>1. Len(h) = n /\ DOMAIN h = 1 .. n /\ Len(w) = n
    BY <1>1, <1>3, <1>10, ListOf
  <2>. QED  BY <1>10, <2>1 DEF Total
<1>12. Share(k, ms, i) = next
  BY <1>1, <1>2, <1>11 DEF Share, Before, b
<1>13. /\ next.got \in [1 .. n -> Nat] /\ Len(next.got) = n /\ DOMAIN next.got = 1 .. n
       /\ Total(next.got) < W
       /\ \A j \in 1 .. n : Owed(next, j) = Lowered(st, i)[j] /\ Owed(next, j) > -W
  <2>1. CASE even
    <3>1. next.got = [j \in 1 .. n |-> 0]
      BY <2>1
    <3>2. next.got \in [1 .. n -> Nat] /\ Len(next.got) = n /\ DOMAIN next.got = 1 .. n
      <4>. HIDE DEF next
      <4>1. next.got \in [1 .. n -> Nat]
        BY <3>1
      <4>. QED  BY <1>1, <4>1, ListOf
    <3>3. Total(next.got) = 0
      BY <1>1, <3>1, <3>2, SumZero DEF Total
    <3>4. \A j \in 1 .. n : Owed(next, j) = 0
      <4>1. \A j \in 1 .. n : Owed(next, j) = 0 * w[j] - 0 * W
        BY <1>2, <3>1, <3>3 DEF Owed
      <4>. HIDE DEF W, T, w
      <4>. QED  BY <1>5, <4>1
    <3>5. \A j \in 1 .. n : Lowered(st, i)[j] = 0
      <4>1. \A j \in 1 .. n : (T + 1) * w[j] = w[j] * (T + 1)
        BY <1>5
      <4>2. \A j \in 1 .. n : w[j] * (T + 1) \in Int
        BY <1>5, Times
      <4>3. \A j \in 1 .. n : (T + 1) * w[j] - h[j] * W = 0
        BY <2>1, <4>1, <4>2
      <4>. QED  BY <1>9, <1>10, <4>3
    <3>. HIDE DEF next, W, T, w
    <3>6. \A j \in 1 .. n : Owed(next, j) = Lowered(st, i)[j] /\ Owed(next, j) > -W
      BY <1>5, <3>4, <3>5
    <3>7. Total(next.got) < W
      BY <1>5, <3>3
    <3>. QED  BY <3>2, <3>6, <3>7
  <2>2. CASE ~even
    <3>1. next.got = h
      BY <2>2
    <3>2. Total(next.got) < W
      <4>1. T + 1 # W
        <5>. SUFFICES ASSUME T + 1 = W PROVE even
          BY <2>2
        <5>. QED  BY <1>10
      <4>2. T + 1 < W
        BY <1>2, <1>5, <4>1
      <4>. QED  BY <1>11, <3>1, <4>2
    <3>3. \A j \in 1 .. n : Owed(next, j) = (T + 1) * w[j] - h[j] * W
      BY <1>2, <1>11, <3>1 DEF Owed
    <3>. HIDE DEF next, W, T, w, h, even
    <3>4. \A j \in 1 .. n : Owed(next, j) = Lowered(st, i)[j] /\ Owed(next, j) > -W
      BY <1>9, <1>10, <3>3
    <3>. QED  BY <1>10, <1>11, <3>1, <3>2, <3>4
  <2>. QED  BY <2>1, <2>2
<1>14. next.of = b.of /\ next.weight = w
  OBVIOUS
<1>. HIDE DEF next, even, h, w, g
<1>15. DOMAIN wrr' = Turns /\ DOMAIN shares' = Turns /\ shares'[k] = next
       /\ wrr'[k] = [of |-> b.of, weight |-> w, current |-> Lowered(st, i)]
       /\ \A l \in Turns : l # k => wrr'[l] = wrr[l] /\ shares'[l] = shares[l]
  BY <1>2, <1>7, <1>12
<1>16. wrr'[k] = [of |-> next.of, weight |-> next.weight, current |-> [j \in DOMAIN next.got |-> Owed(next, j)]]
  <2>1. Lowered(st, i) = [j \in 1 .. n |-> Lowered(st, i)[j]]
    BY <1>9
  <2>. QED  BY <1>13, <1>14, <1>15, <2>1
<1>17. /\ next.weight \in Seq(Nat \ {0}) /\ next.got \in Seq(Nat)
       /\ next.got # <<>> /\ Len(next.got) = Len(next.weight)
       /\ Len(next.of) = Len(next.got) /\ \A j \in DOMAIN next.got : Last(next.of[j]) = next.weight[j]
       /\ Total(next.got) < Total(next.weight)
       /\ \A j \in DOMAIN next.got : Owed(next, j) > -Total(next.weight)
  <2>1. next.weight \in Seq(Nat \ {0}) /\ next.got \in Seq(Nat)
    BY <1>1, <1>3, <1>13, <1>14, ListOf
  <2>2. next.got # <<>> /\ Len(next.got) = Len(next.weight)
    BY <1>1, <1>11, <1>13, <1>14
  <2>. QED  BY <1>2, <1>3, <1>13, <1>14, <2>1, <2>2
<1>18. TurnsAreOwed'
  <2>. SUFFICES ASSUME NEW l \in Turns
                PROVE  LET s == shares'[l]
                       IN /\ wrr'[l] = [of |-> s.of, weight |-> s.weight, current |-> [j \in DOMAIN s.got |-> Owed(s, j)]]
                          /\ s # NoShare =>
                               /\ s.weight \in Seq(Nat \ {0}) /\ s.got \in Seq(Nat)
                               /\ s.got # <<>> /\ Len(s.got) = Len(s.weight)
                               /\ Len(s.of) = Len(s.got) /\ \A j \in DOMAIN s.got : Last(s.of[j]) = s.weight[j]
                               /\ Total(s.got) < Total(s.weight)
                               /\ \A j \in DOMAIN s.got : Owed(s, j) > -Total(s.weight)
    BY DEF TurnsAreOwed
  <2>1. CASE l = k
    BY <1>15, <1>16, <1>17, <2>1
  <2>2. CASE l # k
    BY <1>15, <2>2 DEF TurnsAreOwed
  <2>. QED  BY <2>1, <2>2
<1>. QED  BY <1>15, <1>18

-------------------------------------------------------------------------------
(* What buckets remember.                                                   *)

\* The greater and the smaller of two numbers.
LEMMA TwoNumbers ==
  ASSUME NEW a \in Int, NEW b \in Int
  PROVE  /\ Max({a, b}) = IF a >= b THEN a ELSE b
         /\ Min({a, b}) = IF a <= b THEN a ELSE b
<1>1. \A m \in {a, b} : (\A y \in {a, b} : m >= y) <=> m = IF a >= b THEN a ELSE b
  OBVIOUS
<1>2. \A m \in {a, b} : (\A y \in {a, b} : m <= y) <=> m = IF a <= b THEN a ELSE b
  OBVIOUS
<1>. QED  BY <1>1, <1>2 DEF Max, Min

\* Raising one of the summands by 1 raises the sum by 1.
LEMMA SumOneMore ==
  ASSUME NEW f, NEW g, NEW n \in Nat, NEW j \in 1 .. n,
         \A i \in 1 .. n : f[i] \in Int /\ g[i] = IF i = j THEN f[i] + 1 ELSE f[i]
  PROVE  Sum(g, n) = Sum(f, n) + 1
<1>. DEFINE d == 1
<1>1. d \in Int /\ \A i \in 1 .. n : f[i] \in Int /\ g[i] = IF i = j THEN f[i] + d ELSE f[i]
  OBVIOUS
<1>. HIDE DEF d
<1>2. Sum(g, n) = Sum(f, n) + d
  BY <1>1, SumBump
<1>. QED  BY <1>2 DEF d

\* The horizon is as long as every window.
LEMMA HorizonIs ==
  /\ Horizon \in Nat /\ Horizon >= 2 * Cleanup + 1
  /\ \A l \in Rules : l.window <= Horizon
<1>0. PICK n \in Nat : ExistsSurjection(1 .. n, Rules)
  BY RequestsAssumption, FS_NatSurjection
<1>1. PICK f \in Surjection(1 .. n, Rules) : TRUE
  BY <1>0 DEF ExistsSurjection
<1>2. f \in [1 .. n -> Rules] /\ \A l \in Rules : \E i \in 1 .. n : f[i] = l
  BY <1>1 DEF Surjection
<1>3. \A i \in 1 .. n : f[i].window \in Nat
  BY <1>2, RequestsAssumption
<1>. DEFINE g == [i \in 1 .. n + 1 |-> IF i = n + 1 THEN 2 * Cleanup + 1 ELSE f[i].window]
            H == {2 * Cleanup + 1} \cup {l.window : l \in Rules}
<1>4. \A i \in 1 .. n + 1 : g[i] \in Nat /\ g[i] \in H
  BY <1>2, <1>3, RequestsAssumption
<1>5. \A h \in H : \E i \in 1 .. n + 1 : g[i] = h
  <2>. SUFFICES ASSUME NEW h \in H PROVE \E i \in 1 .. n + 1 : g[i] = h
    OBVIOUS
  <2>1. CASE h = 2 * Cleanup + 1
    <3>1. n + 1 \in 1 .. n + 1 /\ g[n + 1] = h
      BY <2>1
    <3>. QED  BY <3>1
  <2>2. CASE \E l \in Rules : h = l.window
    <3>1. PICK i \in 1 .. n : h = f[i].window
      BY <1>2, <2>2
    <3>2. i \in 1 .. n + 1 /\ g[i] = h
      BY <3>1
    <3>. QED  BY <3>2
  <2>. QED  BY <2>1, <2>2
<1>6. PICK m \in 1 .. n + 1 : \A j \in 1 .. n + 1 : g[j] <= g[m]
  <2>. HIDE DEF g, H
  <2>. DEFINE p == n + 1
  <2>1. p \in Nat \ {0} /\ \A j \in 1 .. p : g[j] \in Int
    BY <1>4
  <2>. HIDE DEF p
  <2>2. PICK m \in 1 .. p : \A j \in 1 .. p : g[j] < g[m] \/ (g[j] = g[m] /\ m <= j)
    BY <2>1, FirstGreatest
  <2>3. \A j \in 1 .. p : g[j] <= g[m]
    BY <2>1, <2>2
  <2>. QED  BY <2>3 DEF p
<1>. HIDE DEF g
<1>7. g[m] \in H /\ \A h \in H : h \in Nat /\ g[m] >= h
  <2>. HIDE DEF H
  <2>. QED  BY <1>4, <1>5, <1>6
<1>8. Horizon \in H /\ \A h \in H : Horizon >= h
  <2>1. Horizon = CHOOSE x \in H : \A y \in H : x >= y
    BY DEF Horizon, Max
  <2>. HIDE DEF H
  <2>. QED  BY <1>7, <2>1
<1>9. Horizon \in Nat
  <2>. HIDE DEF H
  <2>. QED  BY <1>7, <1>8
<1>. QED  BY <1>8, <1>9

\* A rule has a quota, and a span no longer than its window, the time the sweep
\* leaves a bucket, and the horizon.
LEMMA QuotaIs ==
  ASSUME NEW l \in Rules
  PROVE  /\ Hard(l) \in Nat
         /\ Span(l) \in Nat /\ Span(l) >= 1 /\ Span(l) <= l.window /\ Span(l) <= 2 * Cleanup + 1
         /\ Span(l) <= Horizon
         /\ Fresh(l) \in Buckets /\ Fresh(l) # None
         /\ Fresh(l).age = 0 /\ Fresh(l).count = 0
<1>1. l.limit \in Nat /\ l.window \in Nat /\ l.window > 0 /\ l.burst \in Nat /\ Cleanup \in Nat /\ None \notin Buckets
  BY RequestsAssumption
<1>2. Burst(l) \in Nat
  BY <1>1 DEF Burst
<1>3. Hard(l) \in Nat
  BY <1>1, <1>2, TwoNumbers DEF Hard
<1>4. Span(l) = IF l.window <= 2 * Cleanup + 1 THEN l.window ELSE 2 * Cleanup + 1
  <2>1. l.window \in Int /\ 2 * Cleanup + 1 \in Int
    BY <1>1
  <2>. QED  BY <2>1, TwoNumbers DEF Span
<1>5. Fresh(l) \in Buckets /\ Fresh(l).age = 0 /\ Fresh(l).count = 0
  BY <1>1, <1>2 DEF Fresh, Buckets
<1>. QED  BY <1>1, <1>3, <1>4, <1>5, HorizonIs

\* What was let through is a number, and a sum up to the horizon.
LEMMA ThroughIs ==
  ASSUME NEW f \in [1 .. Horizon -> Nat], NEW n \in Nat
  PROVE  /\ Through(f, n) \in Nat
         /\ n <= Horizon => Through(f, n) = Sum(f, n)
         /\ n >= Horizon => Through(f, n) = Sum(f, Horizon)
<1>1. Min({n, Horizon}) = IF n <= Horizon THEN n ELSE Horizon
  <2>1. n \in Int /\ Horizon \in Int
    BY HorizonIs
  <2>. QED  BY <2>1, TwoNumbers
<1>2. \A m \in Nat : m <= Horizon => Sum(f, m) \in Nat
  <2>. SUFFICES ASSUME NEW m \in Nat, m <= Horizon PROVE Sum(f, m) \in Nat
    OBVIOUS
  <2>1. \A i \in 1 .. m : f[i] \in Nat
    BY HorizonIs
  <2>. QED  BY <2>1, SumNat
<1>. QED  BY <1>1, <1>2, HorizonIs DEF Through

\* More is let through in a longer time.
LEMMA ThroughMonotone ==
  ASSUME NEW f \in [1 .. Horizon -> Nat], NEW m \in Nat, NEW n \in Nat, m <= n
  PROVE  Through(f, m) <= Through(f, n)
<1>1. \A i, j \in Nat : i <= j /\ j <= Horizon => Sum(f, i) <= Sum(f, j)
  <2>. SUFFICES ASSUME NEW i \in Nat, NEW j \in Nat, i <= j, j <= Horizon
                PROVE  Sum(f, i) <= Sum(f, j)
    OBVIOUS
  <2>1. i \in 0 .. j /\ \A a \in 1 .. j : f[a] \in Nat
    BY HorizonIs
  <2>. QED  BY <2>1, SumMonotone
<1>2. CASE n <= Horizon
  <2>1. m <= Horizon
    BY <1>2, HorizonIs
  <2>. QED  BY <1>1, <1>2, <2>1, ThroughIs
<1>3. CASE n >= Horizon /\ m <= Horizon
  BY <1>1, <1>3, ThroughIs, HorizonIs
<1>4. CASE m >= Horizon
  <2>1. n >= Horizon
    BY <1>4, HorizonIs
  <2>2. Through(f, m) = Sum(f, Horizon) /\ Through(f, n) = Sum(f, Horizon) /\ Through(f, m) \in Nat
    BY <1>4, <2>1, ThroughIs
  <2>. QED  BY <2>2
<1>. QED  BY <1>2, <1>3, <1>4, HorizonIs

\* A time unit later.
Later(f) == [a \in 1 .. Horizon |-> IF a = 1 THEN 0 ELSE f[a - 1]]

\* Time moves what was let through.
LEMMA ThroughLater ==
  ASSUME NEW f \in [1 .. Horizon -> Nat], NEW n \in Nat
  PROVE  /\ Later(f) \in [1 .. Horizon -> Nat] /\ Later(f)[1] = 0
         /\ Through(Later(f), n + 1) <= Through(f, n)
         /\ n < Horizon => Through(Later(f), n + 1) = Through(f, n)
<1>1. Horizon \in Nat /\ Horizon >= 1
  BY HorizonIs, RequestsAssumption
<1>2. Later(f) \in [1 .. Horizon -> Nat] /\ Later(f)[1] = 0
  BY <1>1 DEF Later
<1>3. \A m \in Nat : m < Horizon => Sum(Later(f), m + 1) = Sum(f, m)
  <2>. SUFFICES ASSUME NEW m \in Nat, m < Horizon PROVE Sum(Later(f), m + 1) = Sum(f, m)
    OBVIOUS
  <2>1. \A i \in 1 .. m : f[i] \in Int /\ Later(f)[i + 1] = f[i]
    BY <1>1 DEF Later
  <2>. QED  BY <1>2, <2>1, SumShift
<1>4. ASSUME n < Horizon PROVE Through(Later(f), n + 1) = Through(f, n)
  <2>1. n + 1 \in Nat /\ n + 1 <= Horizon
    BY <1>1, <1>4
  <2>2. Through(f, n) = Sum(f, n)
    BY <1>1, <1>4, ThroughIs
  <2>3. Through(Later(f), n + 1) = Sum(Later(f), n + 1)
    <3>. DEFINE m == n + 1
    <3>1. m \in Nat /\ m <= Horizon
      BY <2>1
    <3>. HIDE DEF m
    <3>2. Through(Later(f), m) = Sum(Later(f), m)
      BY <1>2, <3>1, ThroughIs
    <3>. QED  BY <3>2 DEF m
  <2>. QED  BY <1>3, <1>4, <2>2, <2>3
<1>5. ASSUME n >= Horizon PROVE Through(Later(f), n + 1) <= Through(f, n)
  <2>1. Through(Later(f), n + 1) = Sum(Later(f), Horizon)
    <3>1. n + 1 \in Nat /\ n + 1 >= Horizon
      BY <1>1, <1>5
    <3>. QED  BY <1>2, <3>1, ThroughIs
  <2>2. Sum(Later(f), Horizon - 1 + 1) = Sum(f, Horizon - 1) /\ Horizon - 1 \in Nat
    BY <1>1, <1>3
  <2>3. Through(f, Horizon - 1) = Sum(f, Horizon - 1)
    BY <1>1, ThroughIs
  <2>4. Through(f, Horizon - 1) <= Through(f, n)
    BY <1>1, <1>5, ThroughMonotone
  <2>. QED  BY <1>1, <2>1, <2>2, <2>3, <2>4
<1>6. Through(f, n) \in Nat
  BY ThroughIs
<1>. QED  BY <1>1, <1>2, <1>4, <1>5, <1>6

\* One more is let through.
More(f) == [f EXCEPT ![1] = @ + 1]

\* One more is one more in every stretch.
LEMMA ThroughMore ==
  ASSUME NEW f \in [1 .. Horizon -> Nat], NEW n \in Nat \ {0}
  PROVE  More(f) \in [1 .. Horizon -> Nat] /\ Through(More(f), n) = Through(f, n) + 1
<1>1. Horizon \in Nat /\ Horizon >= 1
  BY HorizonIs, RequestsAssumption
<1>2. More(f) \in [1 .. Horizon -> Nat] /\ \A i \in 1 .. Horizon : More(f)[i] = IF i = 1 THEN f[i] + 1 ELSE f[i]
  BY <1>1 DEF More
<1>3. \A m \in 1 .. Horizon : Sum(More(f), m) = Sum(f, m) + 1
  <2>. SUFFICES ASSUME NEW m \in 1 .. Horizon PROVE Sum(More(f), m) = Sum(f, m) + 1
    OBVIOUS
  <2>1. 1 \in 1 .. m /\ \A i \in 1 .. m : f[i] \in Int /\ More(f)[i] = IF i = 1 THEN f[i] + 1 ELSE f[i]
    BY <1>1, <1>2
  <2>. DEFINE g == More(f)
  <2>0. PICK j \in 1 .. m : j = 1
    BY <2>1
  <2>2. \A i \in 1 .. m : f[i] \in Int /\ g[i] = IF i = j THEN f[i] + 1 ELSE f[i]
    BY <2>0, <2>1
  <2>3. m \in Nat /\ j \in 1 .. m
    BY <1>1, <2>0
  <2>. HIDE DEF g
  <2>4. Sum(g, m) = Sum(f, m) + 1
    BY <2>2, <2>3, SumOneMore
  <2>. QED  BY <2>4 DEF g
<1>4. CASE n <= Horizon
  <2>1. Through(More(f), n) = Sum(More(f), n) /\ Through(f, n) = Sum(f, n)
    BY <1>2, <1>4, ThroughIs
  <2>. QED  BY <1>1, <1>2, <1>3, <1>4, <2>1
<1>5. CASE n >= Horizon
  <2>1. Through(More(f), n) = Sum(More(f), Horizon) /\ Through(f, n) = Sum(f, Horizon)
    BY <1>2, <1>5, ThroughIs
  <2>. QED  BY <1>1, <1>2, <1>3, <1>5, <2>1
<1>. QED  BY <1>1, <1>2, <1>4, <1>5

\* In this time unit.
LEMMA ThroughNow ==
  ASSUME NEW f \in [1 .. Horizon -> Nat]
  PROVE  Through(f, 1) = f[1]
<1>1. Horizon \in Nat /\ Horizon >= 1 /\ f[1] \in Nat
  BY HorizonIs, RequestsAssumption
<1>2. Sum(f, 0 + 1) = Sum(f, 0) + f[0 + 1] /\ Sum(f, 0) = 0
  BY SumDef
<1>. QED  BY <1>1, <1>2, ThroughIs

\* A bucket tells how many were let through since it began: no more than the quota.
LEMMA RemembersOld ==
  ASSUME NEW l \in Rules, NEW b \in Buckets, NEW f \in [1 .. Horizon -> Nat], Remembers(b, l, f),
         NEW n \in Nat, n <= b.age + 1
  PROVE  Through(f, n) <= Hard(l)
<1>1. b # None /\ b.age \in Nat /\ b.count \in Nat
  BY RequestsAssumption DEF Buckets
<1>2. b.count <= Hard(l) /\ Through(f, b.age + 1) <= b.count
  BY <1>1 DEF Remembers
<1>3. Through(f, n) <= Through(f, b.age + 1)
  BY <1>1, ThroughMonotone
<1>4. Through(f, n) \in Nat /\ Through(f, b.age + 1) \in Nat /\ Hard(l) \in Nat
  <2>1. b.age + 1 \in Nat
    BY <1>1
  <2>. QED  BY <2>1, ThroughIs, QuotaIs
<1>. QED  BY <1>1, <1>2, <1>3, <1>4

\* A bucket whose span is over can be forgotten, before anything is let through.
LEMMA RemembersForgotten ==
  ASSUME NEW l \in Rules, NEW b \in Buckets, NEW f \in [1 .. Horizon -> Nat], Remembers(b, l, f),
         b.age >= Span(l), f[1] = 0
  PROVE  Remembers(None, l, f)
<1>1. b.age \in Nat /\ Span(l) \in Nat
  BY QuotaIs DEF Buckets
<1>2. Through(f, 1 + Span(l)) <= Hard(l)
  BY <1>1, RemembersOld
<1>. QED  BY <1>2 DEF Remembers

\* And where there is none, a new one can be made.
LEMMA RemembersFresh ==
  ASSUME NEW l \in Rules, NEW f \in [1 .. Horizon -> Nat], Remembers(None, l, f)
  PROVE  Remembers(Fresh(l), l, f)
<1>1. f[1] = 0 /\ Through(f, 1 + Span(l)) <= Hard(l)
  BY DEF Remembers
<1>2. /\ Hard(l) \in Nat /\ Span(l) \in Nat /\ l.window > 0 /\ l.window \in Nat
      /\ Fresh(l) # None /\ Fresh(l).age = 0 /\ Fresh(l).count = 0
  BY QuotaIs, RequestsAssumption
<1>3. Through(f, 1) = 0 /\ Through(f, 1 + Span(l)) \in Nat
  <2>1. 1 + Span(l) \in Nat
    BY <1>2
  <2>. QED  BY <1>1, <2>1, ThroughNow, ThroughIs
<1>. HIDE DEF Fresh
<1>4. Through(f, Fresh(l).age + 1) = 0 /\ Through(f, Fresh(l).age + 1 + Span(l)) = Through(f, 1 + Span(l))
  BY <1>2, <1>3
<1>. QED  BY <1>1, <1>2, <1>3, <1>4 DEF Remembers

\* A bucket gets older.
LEMMA RemembersLater ==
  ASSUME NEW l \in Rules, NEW b \in Buckets \cup {None}, NEW f \in [1 .. Horizon -> Nat], Remembers(b, l, f)
  PROVE  Remembers(IF b = None THEN None ELSE [b EXCEPT !.age = IF @ < Horizon THEN @ + 1 ELSE @], l, Later(f))
<1>. DEFINE g == Later(f)
<1>0. Horizon \in Nat /\ Hard(l) \in Nat /\ Span(l) \in Nat /\ None \notin Buckets /\ Span(l) >= 1
  BY HorizonIs, QuotaIs, RequestsAssumption
<1>1. g[1] = 0 /\ g \in [1 .. Horizon -> Nat]
  BY ThroughLater
<1>2. CASE b = None
  <2>1. Through(f, 1 + Span(l)) <= Hard(l) /\ Through(f, Span(l)) \in Nat /\ Through(f, 1 + Span(l)) \in Nat
        /\ Through(g, 1 + Span(l)) \in Nat
    <3>1. 1 + Span(l) \in Nat /\ Span(l) \in Nat
      BY <1>0
    <3>2. Through(f, 1 + Span(l)) <= Hard(l)
      BY <1>2 DEF Remembers
    <3>. HIDE DEF g
    <3>. QED  BY <1>1, <3>1, <3>2, ThroughIs
  <2>2. Through(g, Span(l) + 1) <= Through(f, Span(l)) /\ Through(f, Span(l)) <= Through(f, 1 + Span(l))
    BY <1>0, ThroughLater, ThroughMonotone
  <2>3. Span(l) + 1 = 1 + Span(l)
    BY <1>0
  <2>4. Through(g, 1 + Span(l)) <= Hard(l)
    BY <1>0, <2>1, <2>2, <2>3
  <2>. QED  BY <1>1, <1>2, <2>4 DEF Remembers
<1>3. CASE b # None
  <2>. DEFINE A == b.age
              B == IF A < Horizon THEN A + 1 ELSE A
              c == [b EXCEPT !.age = B]
              s == Span(l)
  <2>1. b \in Buckets /\ A \in Nat /\ B \in Nat /\ c \in Buckets /\ c # None
        /\ c.rule = b.rule /\ c.count = b.count /\ c.age = B /\ b.count \in Nat
    BY <1>0, <1>3 DEF Buckets
  <2>2. /\ b.rule = Fresh(l).rule /\ b.count <= Hard(l)
        /\ Through(f, A + 1) <= b.count
        /\ Through(f, A + 1 + s) - Through(f, A + 1) <= Hard(l)
    BY <1>3 DEF Remembers
  <2>. HIDE DEF A, B, c, g, s
  <2>3. B = (IF A < Horizon THEN A + 1 ELSE A) /\ s \in Nat
    BY <1>0 DEF B, s
  <2>4. \A n \in Nat : Through(g, n) \in Nat /\ Through(f, n) \in Nat
    BY <1>1, ThroughIs
  <2>5. Through(g, B + 1) <= Through(f, A + 1) /\ Through(g, B + 1 + s) - Through(g, B + 1) <= Hard(l)
    <3>1. CASE A + 1 < Horizon
      <4>1. Through(g, A + 1 + 1) = Through(f, A + 1)
        BY <2>1, <3>1, ThroughLater DEF g
      <4>2. A + 1 + s \in Nat
        BY <2>1, <2>3
      <4>3. Through(g, A + 1 + s + 1) <= Through(f, A + 1 + s)
        BY <4>2, ThroughLater DEF g
      <4>4. B + 1 = A + 1 + 1 /\ B + 1 + s = A + 1 + s + 1
        BY <1>0, <2>1, <2>3, <3>1
      <4>5. Through(g, A + 1 + s + 1) \in Nat /\ Through(f, A + 1 + s) \in Nat /\ Through(f, A + 1) \in Nat
        <5>1. A + 1 + s + 1 \in Nat /\ A + 1 \in Nat
          BY <2>1, <4>2
        <5>. QED  BY <2>4, <4>2, <5>1
      <4>. QED  BY <1>0, <2>2, <4>1, <4>3, <4>4, <4>5
    <3>2. CASE A + 1 >= Horizon
      <4>1. B + 1 >= Horizon /\ B + 1 + s >= Horizon /\ B + 1 \in Nat /\ B + 1 + s \in Nat
        BY <1>0, <2>1, <2>3, <3>2
      <4>2. Through(g, B + 1) = Through(g, B + 1 + s)
        BY <1>1, <4>1, ThroughIs
      <4>3. Through(g, B + 1) <= Through(f, B)
        BY <2>1, ThroughLater DEF g
      <4>4. Through(f, B) <= Through(f, A + 1)
        BY <1>0, <2>1, <2>3, ThroughMonotone
      <4>5. Through(g, B + 1) \in Nat /\ Through(f, B) \in Nat /\ Through(f, A + 1) \in Nat
        <5>1. A + 1 \in Nat
          BY <2>1
        <5>. QED  BY <2>1, <2>4, <4>1, <5>1
      <4>. QED  BY <1>0, <4>2, <4>3, <4>4, <4>5
    <3>. QED  BY <1>0, <2>1, <3>1, <3>2
  <2>6. Through(g, B + 1) <= b.count
    <3>1. A + 1 \in Nat /\ B + 1 \in Nat
      BY <2>1
    <3>2. Through(g, B + 1) \in Nat /\ Through(f, A + 1) \in Nat
      BY <2>4, <3>1
    <3>. QED  BY <2>1, <2>2, <2>5, <3>2
  <2>7. Remembers(c, l, g)
    BY <1>1, <2>1, <2>2, <2>5, <2>6 DEF Remembers, s
  <2>8. c = [b EXCEPT !.age = IF @ < Horizon THEN @ + 1 ELSE @]
    BY DEF c, A, B
  <2>. QED  BY <1>3, <2>7, <2>8 DEF g
<1>. QED  BY <1>2, <1>3

\* A bucket counts one more.
LEMMA RemembersMore ==
  ASSUME NEW l \in Rules, NEW b \in Buckets, NEW f \in [1 .. Horizon -> Nat], Remembers(b, l, f),
         b.age < l.window, b.count < Hard(l)
  PROVE  /\ Remembers([b EXCEPT !.count = @ + 1], l, More(f))
         /\ [b EXCEPT !.count = @ + 1] \in Buckets
<1>. DEFINE c == [b EXCEPT !.count = @ + 1]
            g == More(f)
<1>1. /\ b.age \in Nat /\ b.count \in Nat /\ c \in Buckets
      /\ c.rule = b.rule /\ c.age = b.age /\ c.count = b.count + 1
  BY DEF Buckets
<1>2. b # None /\ c # None /\ Hard(l) \in Nat /\ Span(l) \in Nat /\ l.window \in Nat
  BY <1>1, QuotaIs, RequestsAssumption
<1>3. /\ b.rule = Fresh(l).rule /\ Through(f, b.age + 1) <= b.count
      /\ Through(f, b.age + 1 + Span(l)) - Through(f, b.age + 1) <= Hard(l)
  BY <1>2 DEF Remembers
<1>. HIDE DEF c, g
<1>4. /\ Through(g, b.age + 1) = Through(f, b.age + 1) + 1
      /\ Through(g, b.age + 1 + Span(l)) = Through(f, b.age + 1 + Span(l)) + 1
  <2>1. b.age + 1 \in Nat \ {0} /\ b.age + 1 + Span(l) \in Nat \ {0}
    BY <1>1, <1>2
  <2>. QED  BY <2>1, ThroughMore DEF g
<1>5. Through(f, b.age + 1) \in Nat /\ Through(f, b.age + 1 + Span(l)) \in Nat
  <2>1. b.age + 1 \in Nat /\ b.age + 1 + Span(l) \in Nat
    BY <1>1, <1>2
  <2>. QED  BY <2>1, ThroughIs
<1>6. /\ c.count <= Hard(l) /\ Through(g, c.age + 1) <= c.count
      /\ Through(g, c.age + 1 + Span(l)) - Through(g, c.age + 1) <= Hard(l)
      /\ ~(c.age >= l.window)
  BY <1>1, <1>2, <1>3, <1>4, <1>5
<1>7. Remembers(c, l, g)
  BY <1>1, <1>2, <1>3, <1>6 DEF Remembers
<1>. QED  BY <1>1, <1>7 DEF c, g

-------------------------------------------------------------------------------
(* Versions, policies and pools.                                            *)

\* What is left of the versions of an entry.
LEMMA CandidatesAre ==
  ASSUME NEW e \in Entries, NEW skip
  PROVE  /\ Candidates(e, skip) \in Seq(Versions)
         /\ \A i \in DOMAIN Candidates(e, skip) :
              /\ Candidates(e, skip)[i] \in ToSet(e.versions) /\ Candidates(e, skip)[i].weight > 0
              /\ Candidates(e, skip)[i].id # skip
<1>. DEFINE vs       == e.versions
            Good(v)  == v.weight > 0 /\ v.id # skip
            K        == {v \in ToSet(vs) : Good(v)}
            Is(m, g) == g = [i \in 0 .. m |-> IF i = 0 THEN <<>>
                                              ELSE IF Good(vs[i]) THEN Append(g[i - 1], vs[i]) ELSE g[i - 1]]
            S        == {m \in Nat : \E g : Is(m, g)}
            n        == Len(vs)
            The      == CHOOSE g : Is(n, g)
<1>1. vs \in Seq(Versions) /\ n \in Nat /\ DOMAIN vs = 1 .. n
  BY RequestsAssumption
<1>2. 0 \in S
  <2>1. Is(0, [i \in 0 .. 0 |-> <<>>])
    OBVIOUS
  <2>. QED  BY <2>1
<1>3. ASSUME NEW m \in Nat, m \in S
      PROVE  m + 1 \in S
  <2>1. PICK g : Is(m, g)
    BY <1>3
  <2>. DEFINE last == IF Good(vs[m + 1]) THEN Append(g[m], vs[m + 1]) ELSE g[m]
              h    == [i \in 0 .. m + 1 |-> IF i <= m THEN g[i] ELSE last]
              k    == [i \in 0 .. m + 1 |-> IF i = 0 THEN <<>>
                                            ELSE IF Good(vs[i]) THEN Append(h[i - 1], vs[i]) ELSE h[i - 1]]
  <2>. HIDE DEF Good, vs
  <2>2. ASSUME NEW i \in 0 .. m + 1
        PROVE  h[i] = k[i]
    <3>1. CASE i = 0
      BY <2>1, <3>1
    <3>2. CASE i = m + 1
      BY <2>1, <3>2
    <3>3. CASE i \in 1 .. m
      <4>1. g[i] = IF Good(vs[i]) THEN Append(g[i - 1], vs[i]) ELSE g[i - 1]
        <5>. DEFINE f == [j \in 0 .. m |-> IF j = 0 THEN <<>>
                           ELSE IF Good(vs[j]) THEN Append(g[j - 1], vs[j]) ELSE g[j - 1]]
        <5>1. g = f
          BY <2>1
        <5>2. f[i] = IF Good(vs[i]) THEN Append(g[i - 1], vs[i]) ELSE g[i - 1]
          BY <3>3
        <5>. HIDE DEF f
        <5>. QED  BY <5>1, <5>2
      <4>. QED  BY <3>3, <4>1
    <3>. QED  BY <3>1, <3>2, <3>3
  <2>3. h = k
    <3>1. h = [i \in 0 .. m + 1 |-> h[i]] /\ k = [i \in 0 .. m + 1 |-> k[i]]
      OBVIOUS
    <3>. HIDE DEF h, k
    <3>. QED  BY <2>2, <3>1
  <2>4. Is(m + 1, h)
    BY <2>3
  <2>. HIDE DEF h
  <2>. QED  BY <2>4
<1>4. Nat \subseteq S
  <2>. HIDE DEF S
  <2>. QED  BY <1>2, <1>3, Induct
<1>5. Candidates(e, skip) = The[n] /\ Is(n, The)
  BY <1>1, <1>4 DEF Candidates
<1>6. \A i \in 0 .. n : The[i] = IF i = 0 THEN <<>>
                                  ELSE IF Good(vs[i]) THEN Append(The[i - 1], vs[i]) ELSE The[i - 1]
  <2>. HIDE DEF The, Good, vs
  <2>. QED  BY <1>5
<1>. DEFINE R == {i \in Nat : i <= n => The[i] \in Seq(K)}
<1>. HIDE DEF The, n
<1>7. 0 \in R
  <2>1. The[0] = <<>>
    <3>. HIDE DEF Good, vs
    <3>. QED  BY <1>1, <1>6
  <2>. HIDE DEF K
  <2>2. The[0] \in Seq(K)
    BY <2>1
  <2>. QED  BY <2>2
<1>8. ASSUME NEW i \in Nat, i \in R
      PROVE  i + 1 \in R
  <2>. SUFFICES ASSUME i + 1 <= n PROVE The[i + 1] \in Seq(K)
    OBVIOUS
  <2>1. The[i + 1] = IF Good(vs[i + 1]) THEN Append(The[i], vs[i + 1]) ELSE The[i]
    <3>. HIDE DEF Good, vs
    <3>. QED  BY <1>1, <1>6
  <2>2. The[i] \in Seq(K)
    BY <1>1, <1>8
  <2>3. vs[i + 1] \in ToSet(vs)
    BY <1>1 DEF ToSet
  <2>4. Good(vs[i + 1]) => vs[i + 1] \in K
    <3>. HIDE DEF Good, vs
    <3>. QED  BY <2>3
  <2>. HIDE DEF Good, K
  <2>. QED  BY <2>1, <2>2, <2>4
<1>9. Nat \subseteq R
  <2>. HIDE DEF R
  <2>. QED  BY <1>7, <1>8, Induct
<1>10. Candidates(e, skip) \in Seq(K)
  BY <1>1, <1>5, <1>9
<1>11. K \subseteq ToSet(vs) /\ ToSet(vs) \subseteq Versions
  <2>1. ToSet(vs) \subseteq Versions
    BY DEF Versions
  <2>. QED  BY <2>1
<1>12. Candidates(e, skip) \in Seq(Versions)
  <2>. HIDE DEF K
  <2>. QED  BY <1>10, <1>11
<1>13. \A i \in DOMAIN Candidates(e, skip) : Candidates(e, skip)[i] \in K
  <2>. HIDE DEF K
  <2>. QED  BY <1>10
<1>. QED  BY <1>12, <1>13

\* One policy decides at most.
LEMMA DecidingIs ==
  ASSUME NEW e, NEW c, NEW p \in Directed(e, c), NEW q \in Directed(e, c)
  PROVE  p = q /\ p \in e.policies
<1>. DEFINE x == First(Explicit(e, c))
            y == First(Percent(e))
<1>1. CASE Explicit(e, c) # {}
  <2>1. p \in Explicit(e, c) /\ p = x /\ q = x
    BY <1>1 DEF Directed, Deciding
  <2>. QED  BY <2>1 DEF Explicit
<1>2. CASE Explicit(e, c) = {}
  <2>1. p \in Percent(e) /\ p = y /\ q = y
    BY <1>2 DEF Directed, Deciding
  <2>. QED  BY <2>1 DEF Percent
<1>. QED  BY <1>1, <1>2

\* The pool of a version of an entry, or of the entry, has members that count.
LEMMA PoolIs ==
  ASSUME NEW e \in Entries, NEW v,
         v = None \/ \E w \in ToSet(e.versions) : w.id = v
  PROVE  /\ PoolOf(e, v) \in Pools
         /\ PoolOf(e, v) \in Seq(ToSet(PoolOf(e, v)))
         /\ \A i \in DOMAIN PoolOf(e, v) : /\ PoolOf(e, v)[i] \in ToSet(PoolOf(e, v))
                                          /\ PoolOf(e, v)[i].weight \in Int
         /\ \A m \in ToSet(PoolOf(e, v)) : m.id \in Instances /\ m \in Members
         /\ v = None \/ v \in {w.id : w \in Versions}
         /\ TurnOf(v) \in Turns
<1>1. ToSet(e.versions) \subseteq Versions
  BY DEF Versions
<1>. DEFINE p == PoolOf(e, v)
<1>2. p \in Pools
  <2>1. CASE v = None
    BY <2>1 DEF PoolOf, Pools
  <2>2. CASE v # None
    <3>. DEFINE w == CHOOSE w \in ToSet(e.versions) : w.id = v
    <3>1. w \in ToSet(e.versions)
      BY <2>2
    <3>2. p = w.pool
      BY <2>2 DEF PoolOf
    <3>. HIDE DEF w, p
    <3>. QED  BY <1>1, <3>1, <3>2 DEF Pools
  <2>. QED  BY <2>1, <2>2
<1>. HIDE DEF p
<1>3. p \in Seq(ToSet(p)) /\ \A m \in ToSet(p) : m.weight \in Int
  BY <1>2, RequestsAssumption
<1>4. \A i \in DOMAIN p : p[i] \in ToSet(p)
  BY DEF ToSet
<1>5. \A m \in ToSet(p) : m.id \in Instances /\ m \in Members
  BY <1>2 DEF Instances, Members
<1>6. v = None \/ v \in {w.id : w \in Versions}
  BY <1>1
<1>7. TurnOf(v) \in Turns
  BY <1>6 DEF TurnOf, Turns
<1>. QED  BY <1>2, <1>3, <1>4, <1>5, <1>6, <1>7 DEF p

-------------------------------------------------------------------------------
(* The limiter.                                                             *)

\* What the steps of a request leave alone.
LEMMA UnchangedByServe ==
  ASSUME NEW r \in Requests, Serve(r)
  PROVE  /\ entry' = entry
         /\ Limit(r) \/ UNCHANGED limiter
         /\ Forward(r) \/ Finish(r) \/ UNCHANGED conn
         /\ \/ UNCHANGED turns
            \/ ChooseByWeight(r) \/ ChooseFallback(r) \/ SelectByTurn(r)
<1>1. CASE Arrive(r)
  BY <1>1 DEF Arrive
<1>2. CASE Limit(r)
  BY <1>2 DEF Limit
<1>3. CASE Within(r)
  BY <1>3 DEF Within
<1>4. CASE ChooseByWeight(r)
  BY <1>4 DEF ChooseByWeight
<1>5. CASE ChooseFallback(r)
  BY <1>5 DEF ChooseFallback
<1>6. CASE ChooseDirected(r)
  BY <1>6 DEF ChooseDirected
<1>7. CASE SelectByTurn(r)
  BY <1>7 DEF SelectByTurn
<1>8. CASE SelectByKey(r)
  BY <1>8 DEF SelectByKey
<1>9. CASE Scan(r)
  BY <1>9 DEF Scan
<1>10. CASE SelectLeast(r)
  BY <1>10 DEF SelectLeast
<1>11. CASE NoHealthy(r)
  BY <1>11 DEF NoHealthy
<1>12. CASE Forward(r)
  BY <1>12 DEF Forward
<1>13. CASE Finish(r)
  BY <1>13 DEF Finish
<1>. QED  BY <1>1, <1>2, <1>3, <1>4, <1>5, <1>6, <1>7, <1>8, <1>9, <1>10, <1>11, <1>12, <1>13 DEF Serve

\* The types of what the limiter keeps.
LimiterTypes ==
  /\ buckets \in [LimitKeys -> Buckets \cup {None}]
  /\ \A k \in LimitKeys : buckets[k] # None => buckets[k].age <= Horizon
  /\ gcAge \in 0 .. Cleanup
  /\ passed \in [Counted -> [1 .. Horizon -> Nat]]

\* What is counted: a key and a rule that uses it.
LEMMA CountedIs ==
  ASSUME NEW x \in Counted
  PROVE  x = <<x[1], x[2]>> /\ x[1] \in LimitKeys /\ x[2] \in Rules /\ x[1][1] = x[2].scope
<1>1. PICK l \in Rules, c \in Clients : x = <<LimitKey(l, c), l>>
  BY DEF Counted
<1>2. LimitKey(l, c)[1] = l.scope
  BY DEF LimitKey
<1>3. LimitKey(l, c) \in LimitKeys
  BY DEF LimitKeys
<1>. QED  BY <1>1, <1>2, <1>3

\* The sweep forgets only buckets whose span is over.
LEMMA KeptIs ==
  ASSUME LimiterTypes, BucketsRemember, SweepIsFirst
  PROVE  /\ Kept \in [LimitKeys -> Buckets \cup {None}]
         /\ \A k \in LimitKeys : Kept[k] # None => Kept[k].age <= Horizon
         /\ \A x \in Counted : Alone(x) => Remembers(Kept[x[1]], x[2], passed[x])
<1>1. Cleanup \in Nat /\ gcAge \in Int /\ gcAge <= Cleanup
  BY RequestsAssumption DEF LimiterTypes
<1>2. CASE gcAge < Cleanup
  BY <1>2 DEF Kept, LimiterTypes, BucketsRemember
<1>3. CASE ~(gcAge < Cleanup)
  <2>1. gcAge = Cleanup
    BY <1>1, <1>3
  <2>2. Kept = [k \in LimitKeys |-> IF buckets[k] # None /\ Stale(buckets[k]) THEN None ELSE buckets[k]]
    BY <1>3 DEF Kept
  <2>3. \A k \in LimitKeys : \/ Kept[k] = buckets[k]
                             \/ Kept[k] = None /\ buckets[k] \in Buckets /\ buckets[k].age > 2 * Cleanup
    BY <2>2 DEF LimiterTypes, Stale
  <2>4. ASSUME NEW x \in Counted, Alone(x)
        PROVE  Remembers(Kept[x[1]], x[2], passed[x])
    <3>1. /\ Remembers(buckets[x[1]], x[2], passed[x]) /\ passed[x][1] = 0
          /\ x[1] \in LimitKeys /\ x[2] \in Rules /\ passed[x] \in [1 .. Horizon -> Nat]
      BY <2>1, <2>4, CountedIs DEF BucketsRemember, SweepIsFirst, LimiterTypes
    <3>2. CASE Kept[x[1]] = buckets[x[1]]
      BY <3>1, <3>2
    <3>3. CASE Kept[x[1]] = None /\ buckets[x[1]] \in Buckets /\ buckets[x[1]].age > 2 * Cleanup
      <4>. DEFINE b == buckets[x[1]]
                  l == x[2]
      <4>1. b \in Buckets /\ b.age \in Nat /\ b.age > 2 * Cleanup
        BY <3>3 DEF Buckets
      <4>2. l \in Rules /\ Span(l) \in Nat /\ Span(l) <= 2 * Cleanup + 1
        BY <3>1, QuotaIs
      <4>3. b.age >= Span(l)
        BY <1>1, <4>1, <4>2
      <4>4. Remembers(b, l, passed[x])
        BY <3>1
      <4>. HIDE DEF b, l
      <4>5. Remembers(None, l, passed[x])
        BY <3>1, <4>1, <4>2, <4>3, <4>4, RemembersForgotten
      <4>. QED  BY <3>3, <4>5 DEF l
    <3>. QED  BY <2>3, <3>1, <3>2, <3>3
  <2>5. Kept \in [LimitKeys -> Buckets \cup {None}] /\ \A k \in LimitKeys : Kept[k] # None => Kept[k].age <= Horizon
    BY <2>2, <2>3 DEF LimiterTypes
  <2>. QED  BY <2>4, <2>5
<1>. QED  BY <1>2, <1>3

\* The bucket a request is counted in.
LEMMA BucketIs ==
  ASSUME LimiterTypes, BucketsRemember, SweepIsFirst, NEW k \in LimitKeys, NEW l \in Rules
  PROVE  /\ Bucket(l, k) \in Buckets /\ Bucket(l, k).age <= Horizon /\ Bucket(l, k).age < l.window
         /\ <<k, l>> \in Counted /\ Alone(<<k, l>>) => Remembers(Bucket(l, k), l, passed[<<k, l>>])
<1>. DEFINE b == Bucket(l, k)
            K == Kept[k]
<1>1. K \in Buckets \cup {None} /\ (K # None => K.age <= Horizon)
  BY KeptIs
<1>2. /\ Fresh(l) \in Buckets /\ Fresh(l).age = 0 /\ Horizon \in Nat /\ l.window \in Nat /\ l.window > 0
      /\ Span(l) \in Nat /\ Span(l) <= l.window
  BY QuotaIs, HorizonIs, RequestsAssumption
<1>3. b = IF K = None \/ (K.rule # Fresh(l).rule \/ K.age >= l.window) THEN Fresh(l) ELSE K
  BY DEF Bucket
<1>. HIDE DEF b, K
<1>4. b \in Buckets /\ b.age <= Horizon /\ b.age < l.window
  <2>1. CASE b = Fresh(l)
    <3>. HIDE DEF Fresh
    <3>. QED  BY <1>2, <2>1
  <2>2. CASE K # None /\ ~(K.age >= l.window) /\ b = K
    <3>1. K \in Buckets /\ K.age \in Nat
      BY <1>1, <2>2 DEF Buckets
    <3>. QED  BY <1>1, <1>2, <2>2, <3>1
  <2>. QED  BY <1>3, <2>1, <2>2
<1>5. ASSUME <<k, l>> \in Counted, Alone(<<k, l>>)
      PROVE  Remembers(b, l, passed[<<k, l>>])
  <2>. DEFINE f == passed[<<k, l>>]
  <2>1. f \in [1 .. Horizon -> Nat] /\ Remembers(K, l, f)
    <3>1. <<k, l>>[1] = k /\ <<k, l>>[2] = l
      OBVIOUS
    <3>. QED  BY <1>5, <3>1, KeptIs DEF LimiterTypes, K
  <2>. HIDE DEF f
  <2>2. CASE K = None
    <3>1. Remembers(Fresh(l), l, f)
      BY <2>1, <2>2, RemembersFresh
    <3>. QED  BY <1>3, <2>2, <3>1 DEF f
  <2>3. CASE K # None /\ ~(K.age >= l.window)
    <3>1. K.rule = Fresh(l).rule
      BY <2>1, <2>3 DEF Remembers
    <3>. QED  BY <1>3, <2>1, <2>3, <3>1 DEF f
  <2>4. CASE K # None /\ K.age >= l.window
    <3>1. K \in Buckets /\ K.age \in Nat
      BY <1>1, <2>4 DEF Buckets
    <3>2. f[1] = 0
      BY <2>1, <2>4 DEF Remembers
    <3>3. K.age >= Span(l)
      BY <1>2, <2>4, <3>1
    <3>4. Remembers(None, l, f)
      BY <2>1, <3>1, <3>2, <3>3, RemembersForgotten
    <3>5. Remembers(Fresh(l), l, f)
      BY <2>1, <3>4, RemembersFresh
    <3>. QED  BY <1>3, <2>4, <3>5 DEF f
  <2>. QED  BY <2>2, <2>3, <2>4
<1>. QED  BY <1>4, <1>5 DEF b

\* A request that is judged by a rule keeps what the buckets remember.
LEMMA LimitKeeps ==
  ASSUME LimiterTypes, BucketsRemember, SweepIsFirst, NEW l \in Rules, NEW c \in Clients,
         Judged(l, LimitKey(l, c), Bucket(l, LimitKey(l, c)))
  PROVE  LimiterTypes' /\ BucketsRemember' /\ SweepIsFirst'
<1>. DEFINE k == LimitKey(l, c)
            b == Bucket(l, k)
            n == [b EXCEPT !.count = @ + 1]
            y == <<k, l>>
<1>1. k \in LimitKeys /\ y \in Counted /\ k[1] = l.scope
  BY DEF LimitKeys, LimitKey, Counted
<1>2. /\ b \in Buckets /\ b.age <= Horizon /\ b.age < l.window /\ b.count \in Nat
      /\ Alone(y) => Remembers(b, l, passed[y])
  <2>1. b \in Buckets /\ b.age <= Horizon /\ b.age < l.window /\ (Alone(y) => Remembers(b, l, passed[y]))
    BY <1>1, BucketIs
  <2>. QED  BY <2>1 DEF Buckets
<1>3. n \in Buckets /\ n.age = b.age
  BY <1>2 DEF Buckets
<1>4. /\ buckets' = [Kept EXCEPT ![k] = IF b.count < Hard(l) THEN n ELSE b]
      /\ gcAge' = IF gcAge < Cleanup THEN gcAge ELSE 0
      /\ passed' = IF b.count < Hard(l) THEN [passed EXCEPT ![y][1] = @ + 1] ELSE passed
  BY DEF Judged
<1>. HIDE DEF k, b, n
<1>5. Cleanup \in Nat /\ Cleanup > 0 /\ gcAge \in 0 .. Cleanup
  BY RequestsAssumption DEF LimiterTypes
<1>6. gcAge' \in 0 .. Cleanup /\ gcAge' < Cleanup
  BY <1>4, <1>5
<1>7. SweepIsFirst'
  BY <1>5, <1>6 DEF SweepIsFirst
<1>8. /\ Kept \in [LimitKeys -> Buckets \cup {None}]
      /\ \A j \in LimitKeys : Kept[j] # None => Kept[j].age <= Horizon
      /\ \A x \in Counted : Alone(x) => Remembers(Kept[x[1]], x[2], passed[x])
      /\ passed \in [Counted -> [1 .. Horizon -> Nat]]
  BY KeptIs DEF LimiterTypes
<1>9. /\ \A j \in LimitKeys : buckets'[j] = IF j = k THEN (IF b.count < Hard(l) THEN n ELSE b) ELSE Kept[j]
      /\ buckets' \in [LimitKeys -> Buckets \cup {None}]
  BY <1>1, <1>2, <1>3, <1>4, <1>8
<1>10. \A j \in LimitKeys : buckets'[j] # None => buckets'[j].age <= Horizon
  BY <1>2, <1>3, <1>8, <1>9
<1>. HIDE DEF y
<1>11. /\ More(passed[y]) \in [1 .. Horizon -> Nat]
       /\ \A x \in Counted : passed'[x] = IF x = y /\ b.count < Hard(l) THEN More(passed[x]) ELSE passed[x]
       /\ passed' \in [Counted -> [1 .. Horizon -> Nat]]
  <2>1. passed[y] \in [1 .. Horizon -> Nat] /\ 1 \in Nat \ {0}
    BY <1>1, <1>8
  <2>2. More(passed[y]) \in [1 .. Horizon -> Nat]
    BY <2>1, ThroughMore
  <2>3. passed' = IF b.count < Hard(l) THEN [passed EXCEPT ![y] = More(passed[y])] ELSE passed
    BY <1>4 DEF More
  <2>. HIDE DEF More
  <2>. QED  BY <1>1, <1>8, <2>2, <2>3
<1>12. LimiterTypes'
  BY <1>6, <1>9, <1>10, <1>11 DEF LimiterTypes
<1>13. ASSUME NEW x \in Counted, Alone(x)
       PROVE  Remembers(buckets'[x[1]], x[2], passed'[x])
  <2>1. x = <<x[1], x[2]>> /\ x[1] \in LimitKeys /\ x[2] \in Rules /\ x[1][1] = x[2].scope
    BY CountedIs
  <2>2. CASE x[1] = k
    <3>1. x[2] = l
      BY <1>1, <1>13, <2>1, <2>2 DEF Alone
    <3>2. x = y
      BY <2>1, <2>2, <3>1 DEF y
    <3>3. Remembers(b, l, passed[y]) /\ passed[y] \in [1 .. Horizon -> Nat]
      BY <1>1, <1>2, <1>8, <1>13, <3>2
    <3>4. CASE b.count < Hard(l)
      <4>1. Remembers(n, l, More(passed[y]))
        BY <1>2, <3>3, <3>4, RemembersMore DEF n
      <4>. QED  BY <1>1, <1>9, <1>11, <2>2, <3>1, <3>2, <3>4, <4>1
    <3>5. CASE ~(b.count < Hard(l))
      BY <1>1, <1>9, <1>11, <2>2, <3>1, <3>2, <3>3, <3>5
    <3>. QED  BY <3>4, <3>5
  <2>3. CASE x[1] # k
    <3>1. x # y
      BY <2>1, <2>3 DEF y
    <3>2. buckets'[x[1]] = Kept[x[1]] /\ passed'[x] = passed[x]
      BY <1>9, <1>11, <2>1, <2>3, <3>1
    <3>. QED  BY <1>8, <1>13, <3>2
  <2>. QED  BY <2>2, <2>3
<1>14. BucketsRemember'
  BY <1>13 DEF BucketsRemember
<1>. QED  BY <1>7, <1>12, <1>14

\* Time does.
LEMMA TickKeeps ==
  ASSUME LimiterTypes, BucketsRemember, SweepIsFirst, Tick
  PROVE  LimiterTypes' /\ BucketsRemember' /\ SweepIsFirst'
<1>1. Horizon \in Nat /\ Cleanup \in Nat /\ Cleanup > 0 /\ None \notin Buckets
  BY HorizonIs, RequestsAssumption
<1>2. passed' = [x \in Counted |-> Later(passed[x])]
  BY DEF Tick, Later
<1>3. \A x \in Counted : Later(passed[x]) \in [1 .. Horizon -> Nat] /\ Later(passed[x])[1] = 0
  <2>. SUFFICES ASSUME NEW x \in Counted
                PROVE  Later(passed[x]) \in [1 .. Horizon -> Nat] /\ Later(passed[x])[1] = 0
    OBVIOUS
  <2>1. passed[x] \in [1 .. Horizon -> Nat] /\ 0 \in Nat
    BY DEF LimiterTypes
  <2>. QED  BY <2>1, ThroughLater
<1>4. passed' \in [Counted -> [1 .. Horizon -> Nat]] /\ \A x \in Counted : passed'[x][1] = 0
  <2>. HIDE DEF Later
  <2>. QED  BY <1>2, <1>3
<1>5. gcAge' \in 0 .. Cleanup
  BY <1>1 DEF Tick, LimiterTypes
<1>. DEFINE Aged(b) == IF b = None THEN None ELSE [b EXCEPT !.age = IF @ < Horizon THEN @ + 1 ELSE @]
<1>6. buckets' = [k \in LimitKeys |-> Aged(buckets[k])]
  BY DEF Tick
<1>7. ASSUME NEW k \in LimitKeys
      PROVE  Aged(buckets[k]) \in Buckets \cup {None} /\ (Aged(buckets[k]) # None => Aged(buckets[k]).age <= Horizon)
  <2>1. CASE buckets[k] = None
    BY <2>1
  <2>2. CASE buckets[k] \in Buckets
    <3>1. buckets[k] # None /\ buckets[k].age \in Nat /\ buckets[k].age <= Horizon
      BY <1>1, <2>2 DEF LimiterTypes, Buckets
    <3>2. (IF buckets[k].age < Horizon THEN buckets[k].age + 1 ELSE buckets[k].age) \in Nat
      BY <1>1, <3>1
    <3>3. Aged(buckets[k]) \in Buckets
      BY <2>2, <3>1, <3>2 DEF Buckets
    <3>4. Aged(buckets[k]).age = IF buckets[k].age < Horizon THEN buckets[k].age + 1 ELSE buckets[k].age
      BY <2>2, <3>1 DEF Buckets
    <3>. HIDE DEF Aged
    <3>. QED  BY <1>1, <3>1, <3>3, <3>4
  <2>. QED  BY <2>1, <2>2 DEF LimiterTypes
<1>8. /\ buckets' \in [LimitKeys -> Buckets \cup {None}]
      /\ \A k \in LimitKeys : buckets'[k] # None => buckets'[k].age <= Horizon
  <2>. HIDE DEF Aged
  <2>. QED  BY <1>6, <1>7
<1>9. ASSUME NEW x \in Counted, Alone(x)
      PROVE  Remembers(buckets'[x[1]], x[2], passed'[x])
  <2>1. x[1] \in LimitKeys /\ x[2] \in Rules
    BY CountedIs
  <2>2. /\ Remembers(buckets[x[1]], x[2], passed[x])
        /\ passed[x] \in [1 .. Horizon -> Nat] /\ buckets[x[1]] \in Buckets \cup {None}
    BY <1>9, <2>1 DEF BucketsRemember, LimiterTypes
  <2>3. Remembers(Aged(buckets[x[1]]), x[2], Later(passed[x]))
    BY <2>1, <2>2, RemembersLater
  <2>. HIDE DEF Aged
  <2>4. buckets'[x[1]] = Aged(buckets[x[1]]) /\ passed'[x] = Later(passed[x])
    BY <1>2, <1>6, <2>1
  <2>. QED  BY <2>3, <2>4
<1>10. BucketsRemember'
  BY <1>9 DEF BucketsRemember
<1>11. SweepIsFirst'
  BY <1>4 DEF SweepIsFirst
<1>. QED  BY <1>4, <1>5, <1>8, <1>10, <1>11 DEF LimiterTypes

-------------------------------------------------------------------------------
(* The steps of the requests, as the round robin and the limiter see them.  *)

\* The types of what the balancer keeps.
TurnsTypes == DOMAIN wrr = Turns /\ DOMAIN shares = Turns

\* Choosing a version by weight keeps what the round robin owes.
LEMMA ByWeightKeeps ==
  ASSUME TurnsTypes, TurnsAreOwed, NEW r, req[r].entry \in Entries,
         NEW k \in {<<"versions">>, <<"fallback">>}, NEW skip, ByWeight(r, k, skip)
  PROVE  TurnsTypes' /\ TurnsAreOwed'
<1>. DEFINE vs == Candidates(req[r].entry, skip)
<1>1. vs \in Seq(Versions) /\ \A i \in DOMAIN vs : vs[i].weight \in Int
  <2>1. vs \in Seq(Versions)
    BY CandidatesAre
  <2>. HIDE DEF vs
  <2>. QED  BY <2>1, RequestsAssumption
<1>2. k \in Turns
  BY DEF Turns
<1>3. UNCHANGED turns \/ \E i \in DOMAIN vs : Takes(k, vs, i)
  BY DEF ByWeight
<1>4. CASE UNCHANGED turns
  BY <1>4 DEF turns, TurnsTypes, TurnsAreOwed, Owed
<1>5. CASE \E i \in DOMAIN vs : Takes(k, vs, i)
  <2>. HIDE DEF vs
  <2>. PICK i \in DOMAIN vs : Takes(k, vs, i)
    BY <1>5
  <2>. QED  BY <1>1, <1>2, TurnTaken DEF TurnsTypes
<1>. QED  BY <1>3, <1>4, <1>5

\* The versions of q's pool.
LEMMA PlacedIs ==
  ASSUME NEW q, InOrder(q), q.at \in {"select", "forward", "served"}
  PROVE  /\ q.entry \in Entries
         /\ q.version = None \/ \E w \in ToSet(q.entry.versions) : w.id = q.version
<1>1. q.entry \in Entries
  BY DEF InOrder
<1>2. IF q.entry.versioned THEN VersionAsAsked(q) ELSE q.version = None
  BY DEF InOrder
<1>3. CASE ~q.entry.versioned
  BY <1>1, <1>2, <1>3
<1>4. CASE q.entry.versioned
  <2>1. VersionAsAsked(q)
    BY <1>2, <1>4
  <2>. DEFINE D == Directed(q.entry, q.client)
  <2>2. CASE {p.target : p \in D} \cap Offered(q.entry) # {}
    <3>1. PICK a \in D : a.target \in Offered(q.entry)
      BY <2>2
    <3>2. PICK p \in D : q.version = p.target
      BY <2>1, <2>2 DEF VersionAsAsked
    <3>3. p = a
      BY DecidingIs
    <3>4. q.version \in Offered(q.entry)
      BY <3>1, <3>2, <3>3
    <3>. QED  BY <1>1, <3>4 DEF Offered
  <2>3. CASE {p.target : p \in D} \cap Offered(q.entry) = {}
    BY <1>1, <2>1, <2>3 DEF VersionAsAsked
  <2>. QED  BY <2>2, <2>3
<1>. QED  BY <1>3, <1>4

\* So does choosing an instance in turn.
LEMMA SelectByTurnKeeps ==
  ASSUME TurnsTypes, TurnsAreOwed, NEW r, InOrder(req[r]), SelectByTurn(r)
  PROVE  TurnsTypes' /\ TurnsAreOwed'
<1>. DEFINE v == req[r].version
            p == Pool(r)
<1>1. /\ req[r].entry \in Entries
      /\ v = None \/ \E w \in ToSet(req[r].entry.versions) : w.id = v
  BY PlacedIs DEF SelectByTurn
<1>2. TurnOf(v) \in Turns /\ p \in Seq(ToSet(p)) /\ \A i \in DOMAIN p : p[i].weight \in Int
  BY <1>1, PoolIs DEF Pool
<1>3. PICK i \in DOMAIN p : Takes(TurnOf(v), p, i)
  BY DEF SelectByTurn
<1>. HIDE DEF p, v
<1>. QED  BY <1>2, <1>3, TurnTaken DEF TurnsTypes

\* So does every step.
LEMMA TurnsKeep ==
  ASSUME TurnsTypes, TurnsAreOwed, RequestsInOrder, [Next]_vars
  PROVE  TurnsTypes' /\ TurnsAreOwed'
<1>1. CASE UNCHANGED turns
  BY <1>1 DEF turns, TurnsTypes, TurnsAreOwed, Owed
<1>2. ASSUME NEW r \in Requests, ChooseByWeight(r) \/ ChooseFallback(r)
      PROVE  TurnsTypes' /\ TurnsAreOwed'
  <2>1. req[r].entry \in Entries
    BY <1>2 DEF ChooseByWeight, ChooseFallback, RequestsInOrder, InOrder
  <2>2. \E k \in {<<"versions">>, <<"fallback">>} : \E skip : ByWeight(r, k, skip)
    BY <1>2 DEF ChooseByWeight, ChooseFallback
  <2>. QED  BY <2>1, <2>2, ByWeightKeeps
<1>3. ASSUME NEW r \in Requests, SelectByTurn(r)
      PROVE  TurnsTypes' /\ TurnsAreOwed'
  BY <1>3, SelectByTurnKeeps DEF RequestsInOrder
<1>4. ASSUME Install \/ Tick \/ UNCHANGED vars
      PROVE  UNCHANGED turns
  BY <1>4 DEF Install, Tick, vars, turns
<1>. QED  BY <1>1, <1>2, <1>3, <1>4, UnchangedByServe DEF Next

\* Every step keeps what the buckets remember.
LEMMA LimiterKeeps ==
  ASSUME LimiterTypes, BucketsRemember, SweepIsFirst, RequestsInOrder, [Next]_vars
  PROVE  LimiterTypes' /\ BucketsRemember' /\ SweepIsFirst'
<1>1. CASE UNCHANGED limiter
  BY <1>1 DEF limiter, LimiterTypes, BucketsRemember, SweepIsFirst
<1>2. CASE Tick
  BY <1>2, TickKeeps
<1>3. ASSUME NEW r \in Requests, Limit(r)
      PROVE  LimiterTypes' /\ BucketsRemember' /\ SweepIsFirst'
  <2>. DEFINE l == req[r].entry.limits[req[r].rule]
              c == req[r].client
  <2>1. req[r].entry \in Entries /\ c \in Clients
    BY <1>3 DEF Limit, RequestsInOrder, InOrder
  <2>2. l \in Rules
    BY <1>3, <2>1 DEF Limit, Rules, ToSet
  <2>3. Judged(l, LimitKey(l, c), Bucket(l, LimitKey(l, c)))
    BY <1>3 DEF Limit
  <2>. HIDE DEF l, c
  <2>. QED  BY <2>1, <2>2, <2>3, LimitKeeps
<1>4. ASSUME Install \/ UNCHANGED vars
      PROVE  UNCHANGED limiter
  BY <1>4 DEF Install, vars, limiter
<1>. QED  BY <1>1, <1>2, <1>3, <1>4, UnchangedByServe DEF Next

-------------------------------------------------------------------------------
(* Where each step of a request leads.                                      *)

\* A request that goes on to something in order leaves all in order.
LEMMA GoesKeeps ==
  ASSUME req \in [Requests -> Progress], RequestsInOrder, NEW r \in Requests, NEW next,
         Goes(r, next), next \in Progress, InOrder(next)
  PROVE  /\ req' \in [Requests -> Progress] /\ RequestsInOrder'
         /\ \A s \in Requests : req'[s] = IF s = r THEN next ELSE req[s]
<1>1. req' \in [Requests -> Progress] /\ \A s \in Requests : req'[s] = IF s = r THEN next ELSE req[s]
  BY DEF Goes
<1>2. RequestsInOrder'
  <2>. SUFFICES ASSUME NEW s \in Requests PROVE InOrder(req'[s])
    BY DEF RequestsInOrder
  <2>1. CASE s = r
    BY <1>1, <2>1
  <2>2. CASE s # r
    BY <1>1, <2>2 DEF RequestsInOrder
  <2>. QED  BY <2>1, <2>2
<1>. QED  BY <1>1, <1>2

\* A request that is over is in order.
LEMMA IdleIs == Idle \in Progress /\ InOrder(Idle)
<1>1. Idle \in Progress
  BY DEF Idle, Progress, Stages, Hows
<1>2. InOrder(Idle)
  BY DEF Idle, InOrder
<1>. QED  BY <1>1, <1>2

\* Request r goes on to stage a.
Onward(r, a) == \E next \in Progress : Goes(r, next) /\ InOrder(next) /\ next.at = a

\* Where each step of a request leads.  Arriving: to the limits.
LEMMA ArriveOn ==
  ASSUME entry \in Entries, NEW r \in Requests, Arrive(r)
  PROVE  Onward(r, "limits")
<1>1. PICK c \in Clients : Goes(r, [Idle EXCEPT !.at = "limits", !.client = c, !.entry = entry, !.rule = 1])
  BY DEF Arrive
<1>. DEFINE n == [Idle EXCEPT !.at = "limits", !.client = c, !.entry = entry, !.rule = 1]
<1>2. n \in Progress
  BY IdleIs DEF Idle, Progress, Stages
<1>3. InOrder(n) /\ n.at = "limits"
  BY DEF InOrder, Idle
<1>. HIDE DEF n
<1>. QED  BY <1>1, <1>2, <1>3 DEF n, Onward

\* A rule: to the next, or away.
LEMMA LimitOn ==
  ASSUME NEW r \in Requests, req[r] \in Progress, InOrder(req[r]), Limit(r)
  PROVE  Onward(r, "limits") \/ Onward(r, "idle")
<1>. DEFINE q == req[r]
            n == [q EXCEPT !.rule = @ + 1]
<1>1. Goes(r, n) \/ Goes(r, Idle)
  BY DEF Limit
<1>2. q.at = "limits" /\ q \in Progress /\ InOrder(q)
  BY DEF Limit
<1>. HIDE DEF q
<1>3. n \in Progress
  BY <1>2 DEF Progress
<1>4. /\ n.at = "limits" /\ n.version = q.version /\ n.seen = q.seen /\ n.entry = q.entry
      /\ n.client = q.client /\ n.inst = q.inst /\ n.best = q.best
  BY <1>2 DEF Progress
<1>. HIDE DEF n
<1>5. InOrder(n)
  BY <1>2, <1>4 DEF InOrder
<1>6. Idle.at = "idle"
  BY DEF Idle
<1>. QED  BY <1>1, <1>3, <1>4, <1>5, <1>6, IdleIs DEF Onward

\* All rules passed: to the choice of a version, or of an instance.
LEMMA WithinOn ==
  ASSUME NEW r \in Requests, req[r] \in Progress, InOrder(req[r]), Within(r)
  PROVE  Onward(r, "choose") \/ Onward(r, "select")
<1>. DEFINE q == req[r]
            a == IF q.entry.versioned THEN "choose" ELSE "select"
            n == [q EXCEPT !.at = a, !.rule = 0]
<1>1. Goes(r, n) /\ q.at = "limits" /\ q \in Progress /\ InOrder(q)
  BY DEF Within
<1>2. a \in {"choose", "select"} /\ (a = "choose" <=> q.entry.versioned)
  OBVIOUS
<1>. HIDE DEF q, a
<1>3. n \in Progress
  BY <1>1, <1>2 DEF Progress, Stages
<1>4. /\ n.at = a /\ n.version = q.version /\ n.seen = q.seen /\ n.entry = q.entry
      /\ n.client = q.client /\ n.inst = q.inst /\ n.best = q.best
  BY <1>1 DEF Progress
<1>. HIDE DEF n
<1>5. InOrder(n)
  BY <1>1, <1>2, <1>4 DEF InOrder
<1>. QED  BY <1>1, <1>2, <1>3, <1>4, <1>5 DEF Onward

\* A version is chosen.
LEMMA ChosenVersion ==
  ASSUME NEW r, NEW q \in Progress, InOrder(q), q.at = "choose", NEW v, NEW h \in Hows,
         v \in {w.id : w \in Versions}, Goes(r, [q EXCEPT !.at = "select", !.version = v, !.how = h]),
         VersionAsAsked([q EXCEPT !.at = "select", !.version = v, !.how = h])
  PROVE  Onward(r, "select")
<1>. DEFINE n == [q EXCEPT !.at = "select", !.version = v, !.how = h]
<1>1. n \in Progress
  BY DEF Progress, Stages
<1>2. /\ n.at = "select" /\ n.version = v /\ n.seen = q.seen /\ n.entry = q.entry
      /\ n.client = q.client /\ n.inst = q.inst /\ n.best = q.best
  BY DEF Progress
<1>3. /\ q.seen = 0 /\ q.inst = None /\ q.entry \in Entries /\ q.client \in Clients
      /\ q.entry.versioned /\ q.best = None
  BY DEF InOrder
<1>. HIDE DEF n
<1>4. VersionAsAsked(n) /\ Goes(r, n)
  BY DEF n
<1>5. InOrder(n)
  BY <1>2, <1>3, <1>4 DEF InOrder
<1>. QED  BY <1>1, <1>2, <1>4, <1>5 DEF Onward

\* What VersionAsAsked asks when a policy directs the request to the version v
\* that is offered, and when none does.
LEMMA AsAsked ==
  ASSUME NEW q, NEW v,
         \/ \E p \in Directed(q.entry, q.client) : p.target = v /\ v \in Offered(q.entry)
         \/ /\ \A p \in Directed(q.entry, q.client) : p.target \notin Offered(q.entry)
            /\ \E w \in ToSet(q.entry.versions) : w.id = v /\ w.weight > 0,
         q.version = v
  PROVE  VersionAsAsked(q)
<1>1. CASE \E p \in Directed(q.entry, q.client) : p.target = v /\ v \in Offered(q.entry)
  BY <1>1 DEF VersionAsAsked
<1>2. CASE /\ \A p \in Directed(q.entry, q.client) : p.target \notin Offered(q.entry)
           /\ \E w \in ToSet(q.entry.versions) : w.id = v /\ w.weight > 0
  BY <1>2 DEF VersionAsAsked
<1>. QED  BY <1>1, <1>2

\* A version by weight, when no policy directs the request to one that is there.
LEMMA ByWeightOn ==
  ASSUME NEW r \in Requests, req[r] \in Progress, InOrder(req[r]), req[r].at = "choose",
         \A p \in Directed(req[r].entry, req[r].client) : p.target \notin Offered(req[r].entry),
         NEW k, NEW skip, ByWeight(r, k, skip)
  PROVE  Onward(r, "select") \/ Onward(r, "idle")
<1>. DEFINE q  == req[r]
            vs == Candidates(q.entry, skip)
            n(i) == [q EXCEPT !.at = "select", !.version = vs[i].id]
<1>1. Goes(r, Idle) \/ \E i \in DOMAIN vs : Goes(r, n(i))
  BY DEF ByWeight
<1>2. CASE Goes(r, Idle)
  <2>1. Idle.at = "idle"
    BY DEF Idle
  <2>. QED  BY <1>2, <2>1, IdleIs DEF Onward
<1>3. CASE \E i \in DOMAIN vs : Goes(r, n(i))
  <2>1. PICK i \in DOMAIN vs : Goes(r, n(i))
    BY <1>3
  <2>2. q.entry \in Entries
    BY DEF InOrder
  <2>. DEFINE v == vs[i].id
  <2>3. vs[i] \in ToSet(q.entry.versions) /\ vs[i].weight > 0
    <3>. HIDE DEF q
    <3>. QED  BY <2>2, CandidatesAre
  <2>4. v \in {w.id : w \in Versions} /\ \E w \in ToSet(q.entry.versions) : w.id = v /\ w.weight > 0
    BY <2>2, <2>3 DEF Versions
  <2>5. q.how \in Hows
    BY DEF Progress
  <2>. HIDE DEF vs, v
  <2>. DEFINE m == [q EXCEPT !.at = "select", !.version = v, !.how = q.how]
  <2>6. m = n(i) /\ m.entry = q.entry /\ m.client = q.client /\ m.version = v
    BY DEF Progress, v
  <2>7. VersionAsAsked(m)
    <3>. HIDE DEF m
    <3>. QED  BY <2>4, <2>6, AsAsked
  <2>8. Goes(r, m)
    BY <2>1, <2>6
  <2>. QED  BY <2>4, <2>5, <2>7, <2>8, ChosenVersion
<1>. QED  BY <1>1, <1>2, <1>3

\* A version, in each of the three ways: to the choice of an instance.
LEMMA ChooseOn ==
  ASSUME NEW r \in Requests, req[r] \in Progress, InOrder(req[r]),
         ChooseByWeight(r) \/ ChooseFallback(r) \/ ChooseDirected(r)
  PROVE  Onward(r, "select") \/ Onward(r, "idle")
<1>. DEFINE q == req[r]
            D == Directed(q.entry, q.client)
<1>1. q.at = "choose" /\ q.entry \in Entries
  BY DEF ChooseByWeight, ChooseFallback, ChooseDirected, InOrder
<1>2. CASE ChooseByWeight(r)
  <2>1. D = {} /\ ByWeight(r, <<"versions">>, None)
    BY <1>2 DEF ChooseByWeight
  <2>. QED  BY <1>1, <2>1, ByWeightOn
<1>3. CASE ChooseFallback(r)
  <2>1. PICK p \in D : p.target \notin Offered(q.entry) /\ ByWeight(r, <<"fallback">>, p.target)
    BY <1>3 DEF ChooseFallback
  <2>2. \A d \in D : d.target \notin Offered(q.entry)
    BY <2>1, DecidingIs
  <2>. QED  BY <1>1, <2>1, <2>2, ByWeightOn
<1>4. CASE ChooseDirected(r)
  <2>. DEFINE how(p) == IF p.explicit /\ p.sticky THEN "sticky" ELSE p.balance
  <2>1. PICK p \in D : /\ p.target \in Offered(q.entry)
                        /\ Goes(r, [q EXCEPT !.at = "select", !.version = p.target, !.how = how(p)])
    BY <1>4 DEF ChooseDirected
  <2>2. p \in q.entry.policies
    BY DecidingIs
  <2>. DEFINE v == p.target
              h == how(p)
  <2>3. h \in Hows
    BY <1>1, <2>2 DEF Hows
  <2>4. v \in {w.id : w \in Versions}
    BY <1>1, <2>1 DEF Offered, Versions
  <2>. DEFINE m == [q EXCEPT !.at = "select", !.version = v, !.how = h]
  <2>. HIDE DEF h
  <2>5. m.entry = q.entry /\ m.client = q.client /\ m.version = v
    BY DEF Progress
  <2>6. Goes(r, m)
    BY <2>1 DEF h
  <2>7. VersionAsAsked(m)
    <3>. HIDE DEF m
    <3>. QED  BY <2>1, <2>5, AsAsked
  <2>. HIDE DEF v
  <2>. QED  BY <1>1, <2>3, <2>4, <2>6, <2>7, ChosenVersion
<1>. QED  BY <1>2, <1>3, <1>4

\* An instance is chosen.
LEMMA ChosenOn ==
  ASSUME NEW r \in Requests, req[r] \in Progress, InOrder(req[r]), req[r].at = "select",
         NEW m \in ToSet(Pool(r)), Chosen(r, m.id)
  PROVE  Onward(r, "forward")
<1>. DEFINE q == req[r]
            n == [q EXCEPT !.at = "forward", !.inst = m.id, !.how = Idle.how, !.best = None, !.seen = 0]
<1>1. m.id \in Instances
  BY PlacedIs, PoolIs DEF Pool
<1>2. Idle.how \in Hows
  BY DEF Idle, Hows
<1>3. n \in Progress
  BY <1>1, <1>2 DEF Progress, Stages
<1>4. /\ n.at = "forward" /\ n.version = q.version /\ n.seen = 0 /\ n.entry = q.entry
      /\ n.client = q.client /\ n.inst = m.id /\ n.best = None
  BY DEF Progress
<1>5. m \in ToSet(PoolOf(q.entry, q.version))
  BY DEF Pool
<1>6. VersionAsAsked(n) <=> VersionAsAsked(q)
  <2>. HIDE DEF n
  <2>. QED  BY <1>4 DEF VersionAsAsked
<1>7. Goes(r, n)
  BY DEF Chosen
<1>. HIDE DEF n
<1>8. InOrder(n)
  BY <1>4, <1>5, <1>6 DEF InOrder
<1>. QED  BY <1>3, <1>4, <1>7, <1>8 DEF Onward

\* An instance in turn, by key or with the least connections: to be forwarded.
LEMMA SelectOn ==
  ASSUME NEW r \in Requests, req[r] \in Progress, InOrder(req[r]),
         SelectByTurn(r) \/ SelectByKey(r) \/ SelectLeast(r)
  PROVE  Onward(r, "forward")
<1>. DEFINE q == req[r]
            p == Pool(r)
<1>1. q.at = "select"
  BY DEF SelectByTurn, SelectByKey, SelectLeast
<1>2. p \in Seq(ToSet(p)) /\ \A i \in DOMAIN p : p[i] \in ToSet(p)
  BY <1>1, PlacedIs, PoolIs DEF Pool
<1>3. CASE SelectByTurn(r)
  <2>1. PICK i \in DOMAIN p : Chosen(r, p[i].id)
    BY <1>3 DEF SelectByTurn
  <2>2. p[i] \in ToSet(p)
    BY <1>2
  <2>. QED  BY <1>1, <2>1, <2>2, ChosenOn
<1>4. CASE SelectByKey(r)
  <2>1. PICK m \in ToSet(p) : Chosen(r, m.id)
    BY <1>4 DEF SelectByKey
  <2>. QED  BY <1>1, <2>1, ChosenOn
<1>5. CASE SelectLeast(r)
  <2>1. p # <<>> /\ q.seen = Len(p) /\ Chosen(r, q.best.member.id)
    BY <1>5 DEF SelectLeast
  <2>2. q.seen > 0
    <3>. HIDE DEF p
    <3>. QED  BY <1>2, <2>1
  <2>3. q.best \in [member : ToSet(p), conn : Nat]
    BY <1>1, <2>2 DEF InOrder, Pool
  <2>4. q.best.member \in ToSet(p)
    <3>. HIDE DEF p
    <3>. QED  BY <2>3
  <2>. QED  BY <1>1, <2>1, <2>4, ChosenOn
<1>. QED  BY <1>3, <1>4, <1>5

\* One more instance has been compared.
LEMMA ScanOn ==
  ASSUME NEW r \in Requests, req[r] \in Progress, InOrder(req[r]), Scan(r),
         \A i \in Instances : conn[i] \in Nat
  PROVE  Onward(r, "select")
<1>. DEFINE q == req[r]
            p == Pool(r)
            m == p[q.seen + 1]
            B == [member : ToSet(p), conn : Nat]
            x == [member |-> m, conn |-> conn[m.id]]
<1>1. q.at = "select" /\ q.seen < Len(p) /\ q.seen \in Nat
  BY DEF Scan, Progress
<1>2. p \in Seq(ToSet(p)) /\ \A i \in DOMAIN p : p[i] \in ToSet(p)
  BY <1>1, PlacedIs, PoolIs DEF Pool
<1>3. \A w \in ToSet(p) : w.id \in Instances /\ w \in Members
  BY <1>1, PlacedIs, PoolIs DEF Pool
<1>4. m \in ToSet(p)
  <2>1. q.seen + 1 \in DOMAIN p
    <3>. HIDE DEF p, q
    <3>. QED  BY <1>1, <1>2
  <2>. QED  BY <1>2, <2>1
<1>5. x \in B
  <2>. HIDE DEF p, m
  <2>. QED  BY <1>3, <1>4
<1>6. B \subseteq [member : Members, conn : Nat]
  <2>. HIDE DEF p
  <2>. QED  BY <1>3
<1>7. q.best \in B \/ q.best = None
  BY <1>1 DEF InOrder, Pool
<1>8. q.seen > 0 => q.best \in B
  BY <1>1 DEF InOrder, Pool
<1>9. q.seen = 0 => q.best = None
  BY <1>1 DEF InOrder, Pool
<1>. DEFINE y == IF \/ q.best = None
                    \/ conn[m.id] < q.best.conn
                    \/ conn[m.id] = q.best.conn /\ m.weight > q.best.member.weight
                 THEN x ELSE q.best
            n == [q EXCEPT !.seen = @ + 1, !.best = y]
<1>10. Goes(r, n)
  BY DEF Scan
<1>11. y \in B
  <2>. HIDE DEF x, q, m, B
  <2>. QED  BY <1>5, <1>7
<1>12. q \in Progress
  OBVIOUS
<1>. HIDE DEF y, B
<1>13. n \in Progress
  <2>1. y \in [member : Members, conn : Nat] \cup {None} /\ q.seen + 1 \in Nat
    BY <1>1, <1>6, <1>11
  <2>. HIDE DEF q, p, m, x
  <2>. QED  BY <1>12, <2>1 DEF Progress
<1>14. /\ n.at = "select" /\ n.version = q.version /\ n.seen = q.seen + 1 /\ n.entry = q.entry
       /\ n.client = q.client /\ n.inst = q.inst /\ n.best = y
  <2>. HIDE DEF q
  <2>. QED  BY <1>1, <1>12 DEF Progress
<1>15. VersionAsAsked(n) <=> VersionAsAsked(q)
  <2>. HIDE DEF n
  <2>. QED  BY <1>14 DEF VersionAsAsked
<1>. HIDE DEF n
<1>16. InOrder(n)
  BY <1>1, <1>11, <1>14, <1>15 DEF InOrder, B, Pool
<1>. QED  BY <1>10, <1>13, <1>14, <1>16 DEF Onward

\* None is healthy: away.
LEMMA NoHealthyOn ==
  ASSUME NEW r \in Requests, NoHealthy(r)
  PROVE  Onward(r, "idle")
<1>1. Goes(r, Idle) /\ Idle.at = "idle"
  BY DEF NoHealthy, Idle
<1>. QED  BY <1>1, IdleIs DEF Onward

\* Forwarding: to be served by the instance that was chosen.
LEMMA ForwardIs ==
  ASSUME NEW r \in Requests, req[r] \in Progress, InOrder(req[r]), Forward(r)
  PROVE  /\ req[r].inst \in Instances
         /\ \E next \in Progress : /\ Goes(r, next) /\ InOrder(next)
                                  /\ next.at = "served" /\ next.inst = req[r].inst
<1>. DEFINE q == req[r]
            n == [q EXCEPT !.at = "served"]
<1>1. q.at = "forward" /\ Goes(r, n) /\ q \in Progress /\ InOrder(q)
  BY DEF Forward
<1>. HIDE DEF q
<1>2. q.inst \in Instances
  <2>1. \E m \in ToSet(PoolOf(q.entry, q.version)) : m.id = q.inst
    BY <1>1 DEF InOrder
  <2>. QED  BY <1>1, <2>1, PlacedIs, PoolIs
<1>3. n \in Progress
  BY <1>1 DEF Progress, Stages
<1>4. /\ n.at = "served" /\ n.version = q.version /\ n.seen = q.seen /\ n.entry = q.entry
      /\ n.client = q.client /\ n.inst = q.inst /\ n.best = q.best
  BY <1>1 DEF Progress
<1>5. VersionAsAsked(n) <=> VersionAsAsked(q)
  <2>. HIDE DEF n
  <2>. QED  BY <1>4 DEF VersionAsAsked
<1>. HIDE DEF n
<1>6. InOrder(n)
  BY <1>1, <1>4, <1>5 DEF InOrder
<1>. QED  BY <1>1, <1>2, <1>3, <1>4, <1>6 DEF q

\* Finishing: away from that instance.
LEMMA FinishIs ==
  ASSUME NEW r \in Requests, req[r] \in Progress, InOrder(req[r]), Finish(r)
  PROVE  req[r].inst \in Instances /\ Goes(r, Idle) /\ Idle.at = "idle"
<1>. DEFINE q == req[r]
<1>1. q.at = "served" /\ q \in Progress /\ InOrder(q)
  BY DEF Finish
<1>2. q.inst \in Instances
  <2>. HIDE DEF q
  <2>1. \E m \in ToSet(PoolOf(q.entry, q.version)) : m.id = q.inst
    BY <1>1 DEF InOrder
  <2>. QED  BY <1>1, <2>1, PlacedIs, PoolIs
<1>. QED  BY <1>2 DEF Finish, Idle

-------------------------------------------------------------------------------
(* Every step keeps the invariant.                                          *)

\* What a step of a request other than Forward and Finish does to the requests.
Passes(r) ==
  /\ req[r].at # "served"
  /\ \E a \in Stages \ {"served"} : Onward(r, a)

\* Every step of a request is Forward, Finish or one that leaves it not served.
LEMMA ServePasses ==
  ASSUME TypeOK, RequestsInOrder, NEW r \in Requests, Serve(r)
  PROVE  Forward(r) \/ Finish(r) \/ Passes(r)
<1>1. req[r] \in Progress /\ InOrder(req[r]) /\ entry \in Entries /\ \A i \in Instances : conn[i] \in Nat
  BY DEF TypeOK, RequestsInOrder
<1>2. CASE Arrive(r)
  <2>1. req[r].at # "served"
    BY <1>2 DEF Arrive
  <2>. QED  BY <1>1, <1>2, <2>1, ArriveOn DEF Passes, Stages
<1>3. CASE Limit(r)
  <2>1. req[r].at # "served"
    BY <1>3 DEF Limit
  <2>. QED  BY <1>1, <1>3, <2>1, LimitOn DEF Passes, Stages
<1>4. CASE Within(r)
  <2>1. req[r].at # "served"
    BY <1>4 DEF Within
  <2>. QED  BY <1>1, <1>4, <2>1, WithinOn DEF Passes, Stages
<1>5. CASE ChooseByWeight(r) \/ ChooseFallback(r) \/ ChooseDirected(r)
  <2>1. req[r].at # "served"
    BY <1>5 DEF ChooseByWeight, ChooseFallback, ChooseDirected
  <2>. QED  BY <1>1, <1>5, <2>1, ChooseOn DEF Passes, Stages
<1>6. CASE SelectByTurn(r) \/ SelectByKey(r) \/ SelectLeast(r)
  <2>1. req[r].at # "served"
    BY <1>6 DEF SelectByTurn, SelectByKey, SelectLeast
  <2>. QED  BY <1>1, <1>6, <2>1, SelectOn DEF Passes, Stages
<1>7. CASE Scan(r)
  <2>1. req[r].at # "served"
    BY <1>7 DEF Scan
  <2>. QED  BY <1>1, <1>7, <2>1, ScanOn DEF Passes, Stages
<1>8. CASE NoHealthy(r)
  <2>1. req[r].at # "served"
    BY <1>8 DEF NoHealthy
  <2>. QED  BY <1>1, <1>8, <2>1, NoHealthyOn DEF Passes, Stages
<1>. QED  BY <1>2, <1>3, <1>4, <1>5, <1>6, <1>7, <1>8 DEF Serve

\* The types of the counts.
ConnTypes == conn \in [Instances -> 0 .. Cardinality(Requests)]

\* The live requests are some of all.
LEMMA LiveIs ==
  ASSUME NEW i
  PROVE  /\ IsFiniteSet(Live(i)) /\ Cardinality(Live(i)) \in 0 .. Cardinality(Requests)
         /\ IsFiniteSet(Live(i)') /\ Cardinality(Live(i)') \in 0 .. Cardinality(Requests)
<1>1. IsFiniteSet(Requests) /\ Live(i) \subseteq Requests /\ Live(i)' \subseteq Requests
  BY RequestsAssumption DEF Live
<1>2. \A S \in SUBSET Requests : IsFiniteSet(S) /\ Cardinality(S) \in Nat /\ Cardinality(S) <= Cardinality(Requests)
  BY <1>1, FS_Subset, FS_CardinalityType
<1>3. Cardinality(Requests) \in Nat
  BY <1>1, FS_CardinalityType
<1>. HIDE DEF Live
<1>4. \A S \in SUBSET Requests : Cardinality(S) \in 0 .. Cardinality(Requests)
  BY <1>2, <1>3
<1>. QED  BY <1>1, <1>2, <1>4

\* Steps of requests that are not served keep order and counts.
LEMMA PassesKeeps ==
  ASSUME TypeOK, RequestsInOrder, CountsAreLive, NEW r \in Requests, Passes(r), UNCHANGED conn
  PROVE  req' \in [Requests -> Progress] /\ RequestsInOrder' /\ ConnTypes' /\ CountsAreLive'
<1>1. PICK a \in Stages \ {"served"}, next \in Progress : Goes(r, next) /\ InOrder(next) /\ next.at = a
  BY DEF Passes, Onward
<1>2. /\ req' \in [Requests -> Progress] /\ RequestsInOrder'
      /\ \A s \in Requests : req'[s] = IF s = r THEN next ELSE req[s]
  BY <1>1, GoesKeeps DEF TypeOK
<1>3. \A i : Live(i)' = Live(i)
  BY <1>1, <1>2 DEF Live, Passes
<1>4. CountsAreLive' /\ ConnTypes'
  BY <1>3 DEF CountsAreLive, ConnTypes, TypeOK
<1>. QED  BY <1>2, <1>4

\* A request that is forwarded is counted.
LEMMA ForwardKeeps ==
  ASSUME TypeOK, RequestsInOrder, CountsAreLive, NEW r \in Requests, Forward(r)
  PROVE  req' \in [Requests -> Progress] /\ RequestsInOrder' /\ ConnTypes' /\ CountsAreLive'
<1>0. /\ req[r].inst \in Instances
      /\ \E next \in Progress : /\ Goes(r, next) /\ InOrder(next)
                               /\ next.at = "served" /\ next.inst = req[r].inst
  BY ForwardIs DEF TypeOK, RequestsInOrder
<1>1. PICK i \in Instances : i = req[r].inst
  BY <1>0
<1>2. PICK next \in Progress : Goes(r, next) /\ InOrder(next) /\ next.at = "served" /\ next.inst = i
  BY <1>0, <1>1
<1>3. /\ req' \in [Requests -> Progress] /\ RequestsInOrder'
      /\ \A s \in Requests : req'[s] = IF s = r THEN next ELSE req[s]
  BY <1>2, GoesKeeps DEF TypeOK
<1>4. /\ req[r].at = "forward" /\ conn' = [conn EXCEPT ![i] = @ + 1]
      /\ conn \in [Instances -> 0 .. Cardinality(Requests)]
  BY <1>1 DEF Forward, TypeOK
<1>5. r \notin Live(i) /\ Live(i)' = Live(i) \cup {r}
  <2>1. r \notin Live(i) /\ Live(i) \subseteq Requests /\ Live(i)' \subseteq Requests
    BY <1>4 DEF Live
  <2>2. ASSUME NEW s \in Requests PROVE s \in Live(i)' <=> s \in Live(i) \/ s = r
    BY <1>2, <1>3 DEF Live
  <2>. HIDE DEF Live
  <2>. QED  BY <2>1, <2>2
<1>6. ASSUME NEW j \in Instances, j # i PROVE Live(j)' = Live(j)
  BY <1>2, <1>3, <1>4, <1>6 DEF Live
<1>7. Cardinality(Live(i)') = Cardinality(Live(i)) + 1
  BY <1>5, LiveIs, FS_AddElement
<1>8. conn'[i] = conn[i] + 1 /\ DOMAIN conn' = Instances /\ \A j \in Instances : j # i => conn'[j] = conn[j]
  BY <1>1, <1>4
<1>9. ASSUME NEW j \in Instances PROVE conn'[j] = Cardinality(Live(j)')
  <2>1. CASE j = i
    BY <1>7, <1>8, <2>1 DEF CountsAreLive
  <2>2. CASE j # i
    <3>1. Live(j)' = Live(j) /\ conn'[j] = conn[j]
      BY <1>6, <1>8, <2>2
    <3>. QED  BY <3>1 DEF CountsAreLive
  <2>. QED  BY <2>1, <2>2
<1>10. \A j \in Instances : conn'[j] \in 0 .. Cardinality(Requests)
  BY <1>9, LiveIs
<1>11. conn' \in [Instances -> 0 .. Cardinality(Requests)]
  BY <1>4, <1>10
<1>12. CountsAreLive'
  BY <1>9 DEF CountsAreLive
<1>. QED  BY <1>3, <1>11, <1>12 DEF ConnTypes

\* A request that is finished is not counted any more, and it was.
LEMMA FinishKeeps ==
  ASSUME TypeOK, RequestsInOrder, CountsAreLive, NEW r \in Requests, Finish(r)
  PROVE  req' \in [Requests -> Progress] /\ RequestsInOrder' /\ ConnTypes' /\ CountsAreLive'
<1>0. req[r].inst \in Instances /\ Goes(r, Idle) /\ Idle.at = "idle"
  BY FinishIs DEF TypeOK, RequestsInOrder
<1>1. PICK i \in Instances : i = req[r].inst
  BY <1>0
<1>2. /\ req' \in [Requests -> Progress] /\ RequestsInOrder'
      /\ \A s \in Requests : req'[s] = IF s = r THEN Idle ELSE req[s]
  BY <1>0, IdleIs, GoesKeeps DEF TypeOK
<1>3. /\ req[r].at = "served" /\ conn' = [conn EXCEPT ![i] = IF @ > 0 THEN @ - 1 ELSE @]
      /\ conn \in [Instances -> 0 .. Cardinality(Requests)]
  BY <1>1 DEF Finish, TypeOK
<1>4. r \in Live(i)
  BY <1>1, <1>3 DEF Live
<1>5. Live(i)' = Live(i) \ {r}
  <2>1. Live(i) \subseteq Requests /\ Live(i)' \subseteq Requests
    BY DEF Live
  <2>2. ASSUME NEW s \in Requests PROVE s \in Live(i)' <=> s \in Live(i) /\ s # r
    BY <1>0, <1>1, <1>2 DEF Live
  <2>. HIDE DEF Live
  <2>. QED  BY <2>1, <2>2
<1>6. ASSUME NEW j \in Instances, j # i PROVE Live(j)' = Live(j)
  <2>1. r \notin Live(j)
    BY <1>1, <1>6 DEF Live
  <2>. QED  BY <1>0, <1>2, <2>1 DEF Live
<1>7. Cardinality(Live(i)') = Cardinality(Live(i)) - 1
  BY <1>4, <1>5, LiveIs, FS_RemoveElement
<1>8. conn[i] = Cardinality(Live(i)) /\ Cardinality(Live(i)') \in Nat /\ Cardinality(Live(i)) \in Nat
  <2>1. Cardinality(Live(i)') \in Nat /\ Cardinality(Live(i)) \in Nat
    BY LiveIs, FS_CardinalityType
  <2>. QED  BY <1>1, <2>1 DEF CountsAreLive
<1>9. conn'[i] = Cardinality(Live(i)') /\ \A j \in Instances : j # i => conn'[j] = conn[j]
  BY <1>1, <1>3, <1>7, <1>8
<1>10. ASSUME NEW j \in Instances PROVE conn'[j] = Cardinality(Live(j)')
  <2>1. CASE j = i
    BY <1>9, <2>1
  <2>2. CASE j # i
    <3>1. Live(j)' = Live(j) /\ conn'[j] = conn[j]
      BY <1>6, <1>9, <2>2
    <3>. QED  BY <3>1 DEF CountsAreLive
  <2>. QED  BY <2>1, <2>2
<1>11. \A j \in Instances : conn'[j] \in 0 .. Cardinality(Requests)
  BY <1>10, LiveIs
<1>12. conn' \in [Instances -> 0 .. Cardinality(Requests)]
  BY <1>3, <1>11
<1>13. CountsAreLive'
  BY <1>10 DEF CountsAreLive
<1>. QED  BY <1>2, <1>12, <1>13 DEF ConnTypes

\* Every step keeps order and counts.
LEMMA RequestsKeep ==
  ASSUME TypeOK, RequestsInOrder, CountsAreLive, [Next]_vars
  PROVE  /\ entry' \in Entries /\ req' \in [Requests -> Progress] /\ RequestsInOrder'
         /\ ConnTypes' /\ CountsAreLive'
<1>1. ASSUME NEW r \in Requests, Serve(r)
      PROVE  /\ entry' \in Entries /\ req' \in [Requests -> Progress] /\ RequestsInOrder'
             /\ ConnTypes' /\ CountsAreLive'
  <2>1. entry' = entry /\ entry \in Entries
    BY <1>1, UnchangedByServe DEF TypeOK
  <2>2. CASE Forward(r)
    BY <2>1, <2>2, ForwardKeeps
  <2>3. CASE Finish(r)
    BY <2>1, <2>3, FinishKeeps
  <2>4. CASE ~Forward(r) /\ ~Finish(r)
    <3>1. Passes(r) /\ UNCHANGED conn
      BY <1>1, <2>4, ServePasses, UnchangedByServe
    <3>. QED  BY <2>1, <3>1, PassesKeeps
  <2>. QED  BY <2>2, <2>3, <2>4
<1>2. CASE Install \/ Tick \/ UNCHANGED vars
  <2>1. UNCHANGED <<req, conn>> /\ entry' \in Entries
    BY <1>2 DEF Install, Tick, vars, TypeOK
  <2>2. RequestsInOrder'
    BY <2>1 DEF RequestsInOrder
  <2>3. CountsAreLive' /\ ConnTypes'
    BY <2>1 DEF CountsAreLive, Live, ConnTypes, TypeOK
  <2>. QED  BY <2>1, <2>2, <2>3 DEF TypeOK
<1>. QED  BY <1>1, <1>2 DEF Next

\* TypeOK by its parts.
LEMMA TypesAre ==
  /\ TypeOK <=> /\ entry \in Entries /\ req \in [Requests -> Progress]
                /\ ConnTypes /\ LimiterTypes /\ TurnsTypes
  /\ TypeOK' <=> /\ entry' \in Entries /\ req' \in [Requests -> Progress]
                 /\ ConnTypes' /\ LimiterTypes' /\ TurnsTypes'
BY DEF TypeOK, ConnTypes, LimiterTypes, TurnsTypes

\* Every step keeps the invariant: each part by its own argument, the turns and
\* the buckets with the help of the order of the requests.
LEMMA StepKeeps ==
  ASSUME RequestsInv, [Next]_vars
  PROVE  RequestsInv'
<1>1. /\ TypeOK /\ RequestsInOrder /\ CountsAreLive /\ LimiterTypes /\ TurnsTypes
      /\ TurnsAreOwed /\ BucketsRemember /\ SweepIsFirst
  BY TypesAre DEF RequestsInv
<1>2. /\ entry' \in Entries /\ req' \in [Requests -> Progress] /\ RequestsInOrder'
      /\ ConnTypes' /\ CountsAreLive'
  BY <1>1, RequestsKeep
<1>3. TurnsTypes' /\ TurnsAreOwed'
  BY <1>1, TurnsKeep
<1>4. LimiterTypes' /\ BucketsRemember' /\ SweepIsFirst'
  BY <1>1, LimiterKeeps
<1>5. TypeOK'
  BY <1>2, <1>3, <1>4, TypesAre
<1>. QED  BY <1>2, <1>3, <1>4, <1>5 DEF RequestsInv

\* It holds initially.
LEMMA InitIs ==
  ASSUME Init
  PROVE  RequestsInv
<1>1. Horizon \in Nat /\ Horizon >= 1 /\ Cleanup \in Nat
  BY HorizonIs, RequestsAssumption
<1>. DEFINE z == [a \in 1 .. Horizon |-> 0]
<1>2. z \in [1 .. Horizon -> Nat] /\ z[1] = 0 /\ \A n \in Nat : Through(z, n) = 0
  <2>1. z \in [1 .. Horizon -> Nat] /\ z[1] = 0
    BY <1>1
  <2>2. ASSUME NEW n \in Nat, n <= Horizon PROVE Sum(z, n) = 0
    <3>1. \A i \in 1 .. n : z[i] = 0
      BY <1>1, <2>2
    <3>. HIDE DEF z
    <3>. QED  BY <3>1, SumZero
  <2>. HIDE DEF z
  <2>3. ASSUME NEW n \in Nat PROVE Through(z, n) = 0
    <3>1. CASE n <= Horizon
      BY <2>1, <2>2, <3>1, ThroughIs
    <3>2. CASE n >= Horizon
      BY <1>1, <2>1, <2>2, <3>2, ThroughIs
    <3>. QED  BY <1>1, <3>1, <3>2
  <2>. QED  BY <2>1, <2>3
<1>3. passed = [x \in Counted |-> z] /\ buckets = [k \in LimitKeys |-> None] /\ gcAge = Cleanup
  BY DEF Init
<1>. HIDE DEF z
<1>4. LimiterTypes
  BY <1>1, <1>2, <1>3 DEF LimiterTypes
<1>5. SweepIsFirst
  BY <1>2, <1>3 DEF SweepIsFirst
<1>6. BucketsRemember
  <2>. SUFFICES ASSUME NEW x \in Counted PROVE Remembers(buckets[x[1]], x[2], passed[x])
    BY DEF BucketsRemember
  <2>1. x[1] \in LimitKeys /\ x[2] \in Rules
    BY CountedIs
  <2>2. Hard(x[2]) \in Nat /\ 1 + Span(x[2]) \in Nat
    BY <2>1, QuotaIs
  <2>3. buckets[x[1]] = None /\ passed[x] = z
    BY <1>3, <2>1
  <2>4. Through(z, 1 + Span(x[2])) = 0
    BY <1>2, <2>2
  <2>. QED  BY <1>2, <2>2, <2>3, <2>4 DEF Remembers
<1>7. req = [r \in Requests |-> Idle] /\ entry \in Entries /\ conn = [i \in Instances |-> 0]
  BY DEF Init
<1>8. req \in [Requests -> Progress] /\ RequestsInOrder
  <2>. HIDE DEF Idle, Progress
  <2>. QED  BY <1>7, IdleIs DEF RequestsInOrder
<1>9. CountsAreLive
  <2>1. \A i : Live(i) = {}
    BY <1>7 DEF Live, Idle
  <2>. QED  BY <1>7, <2>1, FS_EmptySet DEF CountsAreLive
<1>10. ConnTypes
  <2>1. Cardinality(Requests) \in Nat
    BY RequestsAssumption, FS_CardinalityType
  <2>. QED  BY <1>7, <2>1 DEF ConnTypes
<1>11. TurnsTypes /\ TurnsAreOwed
  BY DEF Init, TurnsTypes, TurnsAreOwed, NoTurns, NoShare
<1>12. TypeOK
  BY <1>4, <1>7, <1>8, <1>10, <1>11, TypesAre
<1>. QED  BY <1>5, <1>6, <1>8, <1>9, <1>11, <1>12 DEF RequestsInv

-------------------------------------------------------------------------------
(* Theorems.                                                                *)

\* The inductive invariant: what each stage of a request holds, counts that are
\* those of live requests, round robin states that are what is owed to each, and
\* buckets that remember what was let through.
THEOREM RequestsInductive == Spec => []RequestsInv
<1>1. RequestsInv /\ [Next]_vars => RequestsInv'
  BY StepKeeps
<1>. QED  BY InitIs, <1>1, PTL DEF Spec

\* Type correctness: every state has the declared types, and no instance counts
\* more requests than there are.
THEOREM RequestsTypeCorrect == Spec => []TypeOK
<1>1. RequestsInv => TypeOK
  BY DEF RequestsInv
<1>. QED  BY RequestsInductive, <1>1, PTL

\* Requests in order, with counts that are right, are routed as asked.
LEMMA RoutedIs ==
  ASSUME RequestsInv
  PROVE  RoutedAsAsked
<1>1. TypeOK /\ RequestsInOrder /\ CountsAreLive
  BY DEF RequestsInv
<1>2. ASSUME NEW r \in Requests, req[r].inst # None
      PROVE  /\ \E m \in ToSet(Pool(r)) : m.id = req[r].inst
             /\ req[r].entry.versioned => VersionAsAsked(req[r])
  <2>1. InOrder(req[r])
    BY <1>1 DEF RequestsInOrder
  <2>2. req[r].at \in {"forward", "served"}
    BY <1>2, <2>1 DEF InOrder
  <2>. QED  BY <2>1, <2>2 DEF InOrder, Pool
<1>. QED  BY <1>1, <1>2 DEF RoutedAsAsked

\* A request is forwarded to an instance of the entry it has looked up, of the
\* version its policy or the weights ask for, and connections are counted right
\* (resolver.go, leastconn.go), for any table and any number of requests.
THEOREM RoutedHolds == Spec => []RoutedAsAsked
BY RequestsInductive, RoutedIs, PTL

\* What each of n members is owed, f, after g of T turns, w being the weights.
Owing(n, w, g, W, T, f) ==
  /\ w \in [1 .. n -> Nat \ {0}] /\ g \in [1 .. n -> Nat]
  /\ W = Sum(w, n) /\ T = Sum(g, n)
  /\ f = [j \in 1 .. n |-> T * w[j] - g[j] * W]

\* What is owed adds up to nothing.
LEMMA OwedInAll ==
  ASSUME NEW n \in Nat, NEW w, NEW g, NEW W, NEW T, NEW f, Owing(n, w, g, W, T, f)
  PROVE  W \in Nat /\ T \in Nat /\ Sum(f, n) = 0 /\ \A j \in 1 .. n : f[j] \in Int
<1>1. \A j \in 1 .. n : w[j] \in Nat /\ g[j] \in Nat /\ w[j] \in Int /\ g[j] \in Int
  BY DEF Owing
<1>2. W \in Nat /\ T \in Nat /\ W = Sum(w, n) /\ T = Sum(g, n)
  <2>1. W = Sum(w, n) /\ T = Sum(g, n)
    BY DEF Owing
  <2>. QED  BY <1>1, <2>1, SumNat
<1>. DEFINE b == -W
<1>3. b \in Int /\ T \in Int /\ W \in Int
  BY <1>2
<1>4. ASSUME NEW j \in 1 .. n
      PROVE  f[j] = Product(T, w[j]) + Product(b, g[j]) /\ f[j] \in Int
  <2>1. w[j] \in Int /\ g[j] \in Int
    BY <1>1
  <2>2. (-W) * g[j] = -(g[j] * W) /\ T * w[j] \in Int /\ g[j] * W \in Int
    BY <1>3, <2>1, Times
  <2>3. f[j] = T * w[j] - g[j] * W
    BY DEF Owing
  <2>. QED  BY <2>2, <2>3 DEF Product
<1>. HIDE DEF b
<1>5. \A j \in 1 .. n : /\ w[j] \in Int /\ g[j] \in Int
                        /\ f[j] = Product(T, w[j]) + Product(b, g[j])
  BY <1>1, <1>4
<1>6. Sum(f, n) = Product(T, Sum(w, n)) + Product(b, Sum(g, n))
  BY <1>3, <1>5, SumLinear
<1>7. Product(T, W) + Product(b, T) = 0
  <2>1. T * W + (-W) * T = 0
    BY <1>3, Times
  <2>. QED  BY <2>1 DEF Product, b
<1>. QED  BY <1>2, <1>4, <1>6, <1>7

\* So nobody is owed more than a whole turn for each other.
LEMMA OwedIsBounded ==
  ASSUME NEW n \in Nat, NEW w, NEW g, NEW W, NEW T, NEW f, Owing(n, w, g, W, T, f),
         NEW i \in 1 .. n, \A j \in 1 .. n : f[j] > -W
  PROVE  -(n - 1) * W <= g[i] * W - T * w[i] /\ g[i] * W - T * w[i] < W
<1>1. W \in Nat /\ T \in Nat /\ Sum(f, n) = 0 /\ \A j \in 1 .. n : f[j] \in Int
  BY OwedInAll
<1>2. \A j \in 1 .. n : f[j] \in Int /\ f[j] >= -W
  BY <1>1
<1>3. Sum(f, n) >= f[i] - (n - 1) * W
  <2>1. W \in Int
    BY <1>1
  <2>. QED  BY <1>2, <2>1, SumLeast
<1>4. n - 1 \in Int /\ W \in Int /\ g[i] \in Int /\ T \in Int /\ w[i] \in Int
  BY <1>1 DEF Owing
<1>. DEFINE x == (n - 1) * W
            y == T * w[i]
            z == g[i] * W
<1>5. x \in Int /\ y \in Int /\ z \in Int
  BY <1>4, Times
<1>6. f[i] = y - z
  BY DEF Owing
<1>7. 0 >= f[i] - x /\ f[i] > -W /\ f[i] \in Int
  BY <1>1, <1>3
<1>8. -x <= z - y /\ z - y < W
  <2>. HIDE DEF x, y, z
  <2>. QED  BY <1>4, <1>5, <1>6, <1>7
<1>. QED  BY <1>8

\* What the round robin owes bounds how far anybody is ahead or behind.
LEMMA SharesAre ==
  ASSUME TurnsAreOwed
  PROVE  ShareKept
<1>. SUFFICES ASSUME NEW k \in Turns, shares[k] # NoShare, NEW i
              PROVE  LET s == shares[k]
                         ahead == s.got[i] * Total(s.weight) - Total(s.got) * s.weight[i]
                     IN /\ Total(s.got) < Total(s.weight)
                        /\ i \in DOMAIN s.got =>
                             -(Len(s.got) - 1) * Total(s.weight) <= ahead /\ ahead < Total(s.weight)
  BY Zenon DEF ShareKept
<1>. DEFINE s == shares[k]
            n == Len(s.got)
            f == [j \in 1 .. n |-> Total(s.got) * s.weight[j] - s.got[j] * Total(s.weight)]
<1>1. /\ s.weight \in Seq(Nat \ {0}) /\ s.got \in Seq(Nat) /\ Len(s.got) = Len(s.weight)
      /\ Total(s.got) < Total(s.weight)
      /\ \A j \in DOMAIN s.got : Owed(s, j) > -Total(s.weight)
  BY DEF TurnsAreOwed
<1>. HIDE DEF s
<1>2. /\ n \in Nat /\ s.weight \in [1 .. n -> Nat \ {0}] /\ s.got \in [1 .. n -> Nat] /\ DOMAIN s.got = 1 .. n
      /\ Total(s.got) = Sum(s.got, n) /\ Total(s.weight) = Sum(s.weight, n)
  BY <1>1 DEF Total
<1>3. \A j \in 1 .. n : f[j] > -Total(s.weight)
  BY <1>1, <1>2 DEF Owed
<1>4. Owing(n, s.weight, s.got, Total(s.weight), Total(s.got), f)
  BY <1>2 DEF Owing
<1>. HIDE DEF f, n
<1>5. ASSUME i \in 1 .. n
      PROVE  LET ahead == s.got[i] * Total(s.weight) - Total(s.got) * s.weight[i]
             IN  -(n - 1) * Total(s.weight) <= ahead /\ ahead < Total(s.weight)
  BY <1>2, <1>3, <1>4, <1>5, OwedIsBounded
<1>. QED  BY <1>1, <1>2, <1>5 DEF s, n

\* The smooth weighted round robin shares its turns by weight (weighted.go), for
\* any weights, any number of members and any requests that take turns.
THEOREM SharesHold == Spec => []ShareKept
<1>1. RequestsInv => ShareKept
  BY SharesAre DEF RequestsInv
<1>. QED  BY RequestsInductive, <1>1, PTL

\* What the buckets remember bounds what is let through.
LEMMA LimitIs ==
  ASSUME RequestsInv
  PROVE  LimitKept
<1>1. LimiterTypes /\ BucketsRemember
  BY TypesAre DEF RequestsInv
<1>. SUFFICES ASSUME NEW x \in Counted, Alone(x)
              PROVE  Recent(x) <= 2 * Hard(x[2])
  <2>1. ASSUME NEW x \in Counted, ~Alone(x)
        PROVE  \E l \in Rules : l # x[2] /\ l.scope = x[2].scope
    BY <2>1 DEF Alone
  <2>2. \A x \in Counted : Recent(x) \in Int /\ 2 * Hard(x[2]) \in Int
    <3>. SUFFICES ASSUME NEW x \in Counted PROVE Recent(x) \in Int /\ 2 * Hard(x[2]) \in Int
      OBVIOUS
    <3>1. x[2] \in Rules /\ passed[x] \in [1 .. Horizon -> Nat]
      BY <1>1, CountedIs DEF LimiterTypes
    <3>2. Span(x[2]) \in Nat /\ Span(x[2]) <= Horizon /\ Hard(x[2]) \in Nat /\ Horizon \in Nat
      BY <3>1, QuotaIs, HorizonIs
    <3>3. \A i \in 1 .. Span(x[2]) : passed[x][i] \in Int
      BY <3>1, <3>2
    <3>. QED  BY <3>2, <3>3, SumType DEF Recent
  <2>. QED  BY <2>1, <2>2 DEF LimitKept
<1>. DEFINE l == x[2]
            f == passed[x]
            b == buckets[x[1]]
            S == Span(l)
            H == Hard(l)
<1>2. /\ l \in Rules /\ f \in [1 .. Horizon -> Nat] /\ b \in Buckets \cup {None} /\ Remembers(b, l, f)
  BY <1>1, CountedIs DEF LimiterTypes, BucketsRemember
<1>. HIDE DEF l, f, b
<1>3. S \in Nat /\ S <= Horizon /\ H \in Nat /\ None \notin Buckets
  BY <1>2, QuotaIs, RequestsAssumption
<1>. HIDE DEF S, H
<1>4. Recent(x) = Through(f, S)
  BY <1>2, <1>3, ThroughIs DEF Recent, l, f, S
<1>5. CASE b = None
  <2>1. 1 + S \in Nat /\ S <= 1 + S
    BY <1>3
  <2>2. Through(f, 1 + S) <= H
    BY <1>5, <1>2 DEF Remembers, S, H
  <2>3. Through(f, S) <= Through(f, 1 + S) /\ Through(f, S) \in Nat /\ Through(f, 1 + S) \in Nat
    BY <1>2, <1>3, <2>1, ThroughMonotone, ThroughIs
  <2>. QED  BY <1>3, <1>4, <2>2, <2>3 DEF H, l
<1>6. CASE b # None
  <2>1. b.age \in Nat /\ b \in Buckets
    BY <1>2, <1>6 DEF Buckets
  <2>. DEFINE a == b.age + 1
  <2>2. Through(f, a) <= H
    <3>1. a \in Nat /\ a <= b.age + 1
      BY <2>1
    <3>. HIDE DEF a
    <3>. QED  BY <1>2, <2>1, <3>1, RemembersOld DEF H
  <2>3. Through(f, a + S) - Through(f, a) <= H
    BY <1>2, <1>6 DEF Remembers, S, H
  <2>4. a \in Nat /\ a + S \in Nat /\ S <= a + S
    BY <1>3, <2>1
  <2>. HIDE DEF a
  <2>5. /\ Through(f, S) <= Through(f, a + S)
        /\ Through(f, S) \in Nat /\ Through(f, a + S) \in Nat /\ Through(f, a) \in Nat
    BY <1>2, <1>3, <2>4, ThroughMonotone, ThroughIs
  <2>. QED  BY <1>3, <1>4, <2>2, <2>3, <2>5 DEF H, l
<1>. QED  BY <1>5, <1>6

\* A rule that is alone of its scope lets through at most twice its quota in any
\* stretch of its window, as long as the sweep remembers it (limiter.go), for any
\* rules, any clients and any interval of the sweep.
THEOREM LimitHolds == Spec => []LimitKept
BY RequestsInductive, LimitIs, PTL
===============================================================================
