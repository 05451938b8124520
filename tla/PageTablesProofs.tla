--------------------------- MODULE PageTablesProofs ---------------------------
(***************************************************************************)
(* Proofs about PageTables: where the tables lie, what map, unmap and the  *)
(* copy of the upper half do to every walk, and what is left of a free     *)
(* list and a set of tables when frames of it become a new root.           *)
(***************************************************************************)
EXTENDS PageTables, TLAPS, FiniteSetTheorems, NaturalsInduction, WellFoundedInduction

(* Levels, in order *)

\* A set of naturals that is not empty has a least element.
LEMMA LeastOf ==
    ASSUME NEW T \in SUBSET Nat, T # {}
    PROVE  \E x \in T : \A y \in T : x <= y
<1> DEFINE R == {pair \in Nat \X Nat : pair[1] < pair[2]}
<1>1. IsWellFoundedOn(R, Nat)
  BY NatLessThanWellFounded DEF OpToRel
<1>2. \A x, y \in Nat : <<x, y>> \in R <=> x < y
  OBVIOUS
<1> HIDE DEF R
<1>3. PICK x \in T : \A y \in T : ~(<<y, x>> \in R)
  BY <1>1, WFMin
<1>4. \A y \in T : ~(y < x)
  BY <1>2, <1>3, Zenon
<1> QED
  BY <1>4

\* What ShapeAssumption says of each constant.
LEMMA Shape ==
    /\ Levels \in Nat /\ Levels >= 2
    /\ Fan \in Nat /\ Fan >= 2
    /\ Fan \div 2 \in Nat \ {0} /\ Fan = 2 * (Fan \div 2)
BY ShapeAssumption DEF ShapeAssumption

\* A set of levels that is not empty has a highest one.
LEMMA HighestOf ==
    ASSUME NEW T \in SUBSET (0 .. Levels), T # {}
    PROVE  \E l \in T : \A k \in T : k <= l
<1> DEFINE D == {Levels - l : l \in T}
<1>1. D \in SUBSET Nat /\ D # {}
  <2>1. \A l \in T : Levels - l \in Nat
    BY Shape
  <2> QED BY <2>1
<1>2. \A k \in T : Levels - k \in D
  OBVIOUS
<1>3. \A d \in D : \E l \in T : d = Levels - l
  OBVIOUS
<1> HIDE DEF D
<1>4. PICK d \in D : \A e \in D : d <= e
  BY <1>1, LeastOf
<1>5. PICK l \in T : d = Levels - l
  BY <1>3, <1>4
<1>6. \A k \in T : Levels - l <= Levels - k
  BY <1>2, <1>4, <1>5
<1> QED
  BY <1>6, Shape

-----------------------------------------------------------------------------
(* Pages and the entries they share *)

LEMMA PowerFacts ==
    /\ Power[0] = 1
    /\ \A n \in 0 .. Levels : Power[n] \in Nat \ {0}
    /\ \A n \in 1 .. Levels : Power[n] = Fan * Power[n - 1]
<1> DEFINE D(v, n) == Fan * v
           h == CHOOSE f : f = [n \in Nat |-> IF n = 0 THEN 1 ELSE D(f[n - 1], n)]
           Step(f) == [n \in 0 .. Levels |-> IF n = 0 THEN 1 ELSE Fan * f[n - 1]]
           g == [n \in 0 .. Levels |-> h[n]]
<1>1. NatInductiveDefHypothesis(h, 1, D)
  BY DEF NatInductiveDefHypothesis
<1>2. NatInductiveDefConclusion(h, 1, D)
  BY <1>1, NatInductiveDef
<1>3. h = [n \in Nat |-> IF n = 0 THEN 1 ELSE Fan * h[n - 1]]
  BY <1>2 DEF NatInductiveDefConclusion
<1> HIDE DEF h
<1>4. g = Step(g)
  <2>1. ASSUME NEW n \in 0 .. Levels
        PROVE  g[n] = IF n = 0 THEN 1 ELSE Fan * g[n - 1]
    <3>1. h[n] = IF n = 0 THEN 1 ELSE Fan * h[n - 1]
      BY <1>3, Shape
    <3>2. n # 0 => n - 1 \in 0 .. Levels
      BY Shape
    <3> QED BY <3>1, <3>2
  <2> QED BY <2>1
<1>5. Power = CHOOSE f : f = Step(f)
  BY DEF Power
<1> HIDE DEF g
<1>6. Power = Step(Power)
  BY <1>4, <1>5
<1>7. \A n \in 0 .. Levels : Power[n] = IF n = 0 THEN 1 ELSE Fan * Power[n - 1]
  BY <1>6
<1>8. Power[0] = 1 /\ \A n \in 1 .. Levels : Power[n] = Fan * Power[n - 1]
  BY <1>7, Shape
<1> DEFINE Bad == {n \in 0 .. Levels : Power[n] \notin Nat \ {0}}
<1>9. Bad = {}
  <2> SUFFICES ASSUME Bad # {} PROVE FALSE
    OBVIOUS
  <2>1. PICK n \in Bad : \A k \in Bad : n <= k
    <3>1. Bad \in SUBSET Nat
      BY Shape
    <3> HIDE DEF Bad
    <3> QED BY <3>1, LeastOf
  <2>2. n \in 1 .. Levels /\ n - 1 \in 0 .. Levels /\ n - 1 < n
    BY <1>8, Shape
  <2>3. n - 1 \notin Bad
    BY <2>1, <2>2
  <2>4. Power[n - 1] \in Nat \ {0}
    BY <2>2, <2>3
  <2>5. Fan * Power[n - 1] \in Nat \ {0}
    BY <2>4, Shape
  <2> QED BY <1>8, <2>2, <2>5
<1> QED
  BY <1>8, <1>9

\* Division with remainder, and that there is one way to divide.
LEMMA Division ==
    ASSUME NEW a \in Nat, NEW d \in Nat, d > 0
    PROVE  /\ a \div d \in Nat /\ a % d \in 0 .. d - 1
           /\ a = d * (a \div d) + (a % d)
OBVIOUS

LEMMA Between ==
    ASSUME NEW d \in Nat, NEW s \in Nat, NEW t \in Nat, s < t
    PROVE  d * s + d <= d * t
<1>1. PICK k \in Nat : t = s + 1 + k
  <2>1. t - s - 1 \in Nat /\ t = s + 1 + (t - s - 1)
    OBVIOUS
  <2> QED BY <2>1
<1>2. d * t = d * s + d + d * k /\ d * k \in Nat /\ d * s \in Nat
  BY <1>1
<1> QED
  BY <1>2

LEMMA DivUnique ==
    ASSUME NEW a \in Nat, NEW d \in Nat, d > 0, NEW s \in Nat, NEW u \in 0 .. d - 1,
           a = d * s + u
    PROVE  a \div d = s /\ a % d = u
<1> DEFINE t == a \div d
           v == a % d
<1>1. t \in Nat /\ v \in 0 .. d - 1 /\ a = d * t + v
  BY Division
<1> HIDE DEF t, v
<1>2. d * s \in Nat /\ d * t \in Nat
  BY <1>1
<1>3. ~(s < t)
  <2> SUFFICES ASSUME s < t PROVE FALSE
    OBVIOUS
  <2>1. d * s + d <= d * t
    BY <1>1, Between
  <2> QED BY <1>1, <1>2, <2>1
<1>4. ~(t < s)
  <2> SUFFICES ASSUME t < s PROVE FALSE
    OBVIOUS
  <2>1. d * t + d <= d * s
    BY <1>1, Between
  <2> QED BY <1>1, <1>2, <2>1
<1>5. s = t
  BY <1>1, <1>3, <1>4
<1>6. u = v
  BY <1>1, <1>2, <1>5
<1> QED
  BY <1>5, <1>6 DEF t, v

LEMMA DivDiv ==
    ASSUME NEW p \in Nat, NEW a \in Nat \ {0}, NEW b \in Nat \ {0}
    PROVE  (p \div a) \div b = p \div (b * a)
<1> DEFINE q == p \div a
           r == p % a
           s == q \div b
           t == q % b
<1>1. q \in Nat /\ r \in 0 .. a - 1 /\ p = a * q + r
  BY Division
<1>2. s \in Nat /\ t \in 0 .. b - 1 /\ q = b * s + t
  BY <1>1, Division
<1> HIDE DEF q, r, s, t
<1>3. a * q = (b * a) * s + a * t
  BY <1>1, <1>2
<1>4. a * t + a <= a * b /\ a * t \in Nat /\ a * b = b * a /\ b * a \in Nat
  <2>1. a * t + a <= a * b
    BY <1>2, Between
  <2> QED BY <1>2, <2>1
<1> DEFINE u == a * t + r
           d == b * a
<1>5. u \in 0 .. d - 1
  BY <1>1, <1>4
<1>6. p = d * s + u
  <2>1. d * s \in Nat
    BY <1>2, <1>4
  <2> QED BY <1>1, <1>3, <1>4, <2>1
<1>7. d \in Nat /\ d > 0
  BY <1>4, <1>5
<1> HIDE DEF u, d
<1>8. p \div d = s
  BY <1>2, <1>5, <1>6, <1>7, DivUnique
<1> QED
  BY <1>8 DEF d, s, q

\* The pages under one table of level l have the same Prefix(p, l), those under
\* one of its entries the same Prefix(p, l - 1).
Prefix(p, l) == p \div Power[l]

LEMMA PrefixStep ==
    ASSUME NEW p \in Nat, NEW l \in 1 .. Levels
    PROVE  /\ Prefix(p, l) \in Nat /\ Prefix(p, l - 1) \in Nat
           /\ Index(p, l) \in Slots
           /\ Prefix(p, l - 1) = Prefix(p, l) * Fan + Index(p, l)
<1>1. /\ l - 1 \in 0 .. Levels /\ l \in 0 .. Levels
      /\ Power[l - 1] \in Nat \ {0} /\ Power[l] \in Nat \ {0}
      /\ Power[l] = Fan * Power[l - 1]
  <2>1. l - 1 \in 0 .. Levels /\ l \in 0 .. Levels
    BY Shape
  <2> QED BY <2>1, PowerFacts
<1> DEFINE q == p \div Power[l - 1]
<1>2. q \in Nat /\ p \div Power[l] \in Nat
  BY <1>1, Division
<1>3. q \div Fan = p \div Power[l]
  BY <1>1, Shape, DivDiv
<1>4. Index(p, l) = q % Fan
  BY DEF Index, Span
<1> DEFINE c == p \div Power[l]
           i == q % Fan
<1> HIDE DEF q
<1>5. Fan \in Nat /\ Fan > 0
  BY Shape
<1>6. q \div Fan \in Nat /\ i \in 0 .. Fan - 1 /\ q = Fan * (q \div Fan) + i
  BY <1>2, <1>5, Division
<1>7. c \in Nat /\ q \div Fan = c
  BY <1>2, <1>3
<1> HIDE DEF c, i
<1>8. q = c * Fan + i
  BY <1>5, <1>6, <1>7
<1> QED
  BY <1>2, <1>4, <1>6, <1>7, <1>8 DEF Prefix, q, c, i, Slots

LEMMA PrefixEnds ==
    /\ \A p \in Nat : Prefix(p, 0) = p
    /\ \A p \in Pages : p \in Nat /\ Prefix(p, Levels) = 0
<1>1. ASSUME NEW p \in Nat PROVE Prefix(p, 0) = p
  BY PowerFacts DEF Prefix
<1>2. ASSUME NEW p \in Pages PROVE p \in Nat /\ Prefix(p, Levels) = 0
  <2>1. Power[Levels] \in Nat \ {0}
    BY PowerFacts, Shape
  <2>2. p \in Nat /\ p < Power[Levels] /\ p = Power[Levels] * 0 + p
    BY <2>1 DEF Pages
  <2>3. p \div Power[Levels] = 0
    BY <2>1, <2>2, DivUnique
  <2> QED BY <2>2, <2>3 DEF Prefix
<1> QED
  BY <1>1, <1>2

LEMMA SamePrefix ==
    ASSUME NEW p \in Nat, NEW q \in Nat, NEW l \in 1 .. Levels
    PROVE  Prefix(p, l - 1) = Prefix(q, l - 1)
             <=> Prefix(p, l) = Prefix(q, l) /\ Index(p, l) = Index(q, l)
<1>1. /\ Prefix(p, l) \in Nat /\ Index(p, l) \in Slots
      /\ Prefix(p, l - 1) = Prefix(p, l) * Fan + Index(p, l)
  BY PrefixStep
<1>2. /\ Prefix(q, l) \in Nat /\ Index(q, l) \in Slots
      /\ Prefix(q, l - 1) = Prefix(q, l) * Fan + Index(q, l)
  BY PrefixStep
<1> DEFINE a == Prefix(p, l)
           b == Prefix(q, l)
           i == Index(p, l)
           j == Index(q, l)
<1>3. ASSUME Prefix(p, l - 1) = Prefix(q, l - 1) PROVE a = b /\ i = j
  <2>1. Fan * a + i = Fan * b + j /\ a \in Nat /\ b \in Nat
        /\ i \in 0 .. Fan - 1 /\ j \in 0 .. Fan - 1
    BY <1>1, <1>2, <1>3, Shape DEF Slots
  <2> DEFINE x == Fan * a + i
  <2>2. x \in Nat /\ x = Fan * a + i /\ x = Fan * b + j
    BY <2>1, Shape
  <2> HIDE DEF x, a, b, i, j
  <2>3. x \div Fan = a /\ x % Fan = i
    BY <2>1, <2>2, Shape, DivUnique
  <2>4. x \div Fan = b /\ x % Fan = j
    BY <2>1, <2>2, Shape, DivUnique
  <2> QED BY <2>3, <2>4
<1> QED
  BY <1>1, <1>2, <1>3

\* Pages that share an entry share everything above it.
LEMMA PrefixAbove ==
    ASSUME NEW p \in Nat, NEW q \in Nat, NEW k \in 0 .. Levels, Prefix(p, k) = Prefix(q, k)
    PROVE  \A l \in k .. Levels : Prefix(p, l) = Prefix(q, l)
<1> DEFINE Bad == {l \in k .. Levels : Prefix(p, l) # Prefix(q, l)}
<1> SUFFICES ASSUME Bad # {} PROVE FALSE
  OBVIOUS
<1>1. Bad \in SUBSET Nat
  BY Shape
<1>2. PICK l \in Bad : \A m \in Bad : l <= m
  <2> HIDE DEF Bad
  <2> QED BY <1>1, LeastOf
<1>3. l # k /\ l \in k .. Levels /\ Prefix(p, l) # Prefix(q, l)
  OBVIOUS
<1>4. l \in 1 .. Levels /\ l - 1 \in k .. Levels /\ l - 1 < l
  BY <1>3, Shape
<1>5. Prefix(p, l - 1) = Prefix(q, l - 1)
  BY <1>2, <1>4
<1> QED
  BY <1>3, <1>4, <1>5, SamePrefix

-----------------------------------------------------------------------------
(* The tables on the way to a page *)

\* Where entry i of table t leads to.
Under(m, t, i) ==
    IF t # NoFrame /\ m[t][i].kind = "branch" THEN m[t][i].frame ELSE NoFrame

LEMMA PathUnfold ==
    ASSUME NEW m, NEW root, NEW page
    PROVE  LET path == Path(m, root, page) IN
           /\ path = [l \in 1 .. Levels |-> path[l]]
           /\ path[Levels] = root
           /\ \A l \in 1 .. Levels - 1 : path[l] = Under(m, path[l + 1], Index(page, l + 1))
<1> DEFINE D(v, n) == Under(m, v, Index(page, Levels - n + 1))
           h == CHOOSE f : f = [n \in Nat |-> IF n = 0 THEN root ELSE D(f[n - 1], n)]
           Step(f) == [l \in 1 .. Levels |->
                         IF l = Levels THEN root ELSE Under(m, f[l + 1], Index(page, l + 1))]
           g == [l \in 1 .. Levels |-> h[Levels - l]]
<1>1. NatInductiveDefHypothesis(h, root, D)
  BY DEF NatInductiveDefHypothesis
<1>2. NatInductiveDefConclusion(h, root, D)
  BY <1>1, NatInductiveDef
<1>3. h = [n \in Nat |-> IF n = 0 THEN root
                         ELSE Under(m, h[n - 1], Index(page, Levels - n + 1))]
  BY <1>2 DEF NatInductiveDefConclusion
<1> HIDE DEF h
<1>4. g = Step(g)
  <2>1. ASSUME NEW l \in 1 .. Levels
        PROVE  g[l] = IF l = Levels THEN root ELSE Under(m, g[l + 1], Index(page, l + 1))
    <3>1. CASE l = Levels
      BY <1>3, <3>1, Shape
    <3>2. CASE l # Levels
      <4>1. /\ Levels - l \in Nat /\ Levels - l # 0 /\ l + 1 \in 1 .. Levels
            /\ (Levels - l) - 1 = Levels - (l + 1) /\ Levels - (Levels - l) + 1 = l + 1
        BY <3>2, Shape
      <4>2. h[Levels - l] = Under(m, h[(Levels - l) - 1], Index(page, Levels - (Levels - l) + 1))
        BY <1>3, <4>1
      <4>3. g[l + 1] = h[(Levels - l) - 1]
        BY <4>1
      <4> QED BY <3>2, <4>1, <4>2, <4>3
    <3> QED BY <3>1, <3>2
  <2> QED BY <2>1
<1>5. Path(m, root, page) = CHOOSE f : f = Step(f)
  BY DEF Path, Under
<1> HIDE DEF g
<1> DEFINE path == Path(m, root, page)
<1>6. path = Step(path)
  BY <1>4, <1>5
<1> HIDE DEF path
<1>7. /\ path = [l \in 1 .. Levels |-> path[l]]
      /\ \A l \in 1 .. Levels :
            path[l] = IF l = Levels THEN root ELSE Under(m, path[l + 1], Index(page, l + 1))
  BY <1>6
<1>8. Levels \in 1 .. Levels /\ \A l \in 1 .. Levels - 1 : l \in 1 .. Levels /\ l # Levels
  BY Shape
<1> QED
  BY <1>7, <1>8 DEF path

\* S is a set of tables that lead to one another.
Closed(m, S) ==
    /\ S \subseteq DOMAIN m
    /\ NoFrame \notin S
    /\ \A t \in S : m[t] \in [Slots -> Entry]
    /\ \A t \in S, i \in Slots : m[t][i].kind = "branch" => m[t][i].frame \in S

LEMMA PathIn ==
    ASSUME NEW m, NEW S, Closed(m, S), NEW root \in S, NEW page \in Nat
    PROVE  /\ \A l \in 1 .. Levels : Path(m, root, page)[l] \in S \cup {NoFrame}
           /\ \A l \in 1 .. Levels - 1 :
                 Path(m, root, page)[l] # NoFrame => Path(m, root, page)[l + 1] # NoFrame
<1> DEFINE path == Path(m, root, page)
           Bad == {l \in 1 .. Levels : path[l] \notin S \cup {NoFrame}}
<1>1. /\ path[Levels] = root
      /\ \A l \in 1 .. Levels - 1 : path[l] = Under(m, path[l + 1], Index(page, l + 1))
  BY PathUnfold
<1>2. \A l \in 1 .. Levels : Index(page, l) \in Slots
  BY PrefixStep
<1> HIDE DEF path
<1>3. Bad = {}
  <2> SUFFICES ASSUME Bad # {} PROVE FALSE
    OBVIOUS
  <2>1. PICK l \in Bad : \A k \in Bad : k <= l
    <3>1. Bad \in SUBSET (0 .. Levels)
      BY Shape
    <3> HIDE DEF Bad
    <3> QED BY <3>1, HighestOf
  <2>2. l \in 1 .. Levels - 1 /\ l + 1 \in 1 .. Levels /\ l + 1 > l
    BY <1>1, Shape
  <2>3. l + 1 \notin Bad
    BY <2>1, <2>2
  <2>4. path[l + 1] \in S \cup {NoFrame}
    BY <2>2, <2>3
  <2>5. path[l] = Under(m, path[l + 1], Index(page, l + 1)) /\ Index(page, l + 1) \in Slots
    BY <1>1, <1>2, <2>2
  <2>6. path[l] \in S \cup {NoFrame}
    BY <2>4, <2>5 DEF Under, Closed
  <2> QED BY <2>1, <2>6
<1>4. \A l \in 1 .. Levels - 1 : path[l] # NoFrame => path[l + 1] # NoFrame
  BY <1>1 DEF Under
<1> QED
  BY <1>3, <1>4 DEF path

\* Above a table on the way there are tables.
LEMMA PathAbove ==
    ASSUME NEW m, NEW S, Closed(m, S), NEW root \in S, NEW page \in Nat,
           NEW d \in 1 .. Levels, Path(m, root, page)[d] # NoFrame
    PROVE  \A k \in d .. Levels : Path(m, root, page)[k] \in S
<1> DEFINE path == Path(m, root, page)
           Bad == {k \in d .. Levels : path[k] = NoFrame}
<1>1. /\ \A l \in 1 .. Levels : path[l] \in S \cup {NoFrame}
      /\ \A l \in 1 .. Levels - 1 : path[l] # NoFrame => path[l + 1] # NoFrame
  BY PathIn
<1>2. path[d] # NoFrame
  OBVIOUS
<1> HIDE DEF path
<1>3. Bad = {}
  <2> SUFFICES ASSUME Bad # {} PROVE FALSE
    OBVIOUS
  <2>1. PICK k \in Bad : \A j \in Bad : k <= j
    <3>1. Bad \in SUBSET Nat
      BY Shape
    <3> HIDE DEF Bad
    <3> QED BY <3>1, LeastOf
  <2>2. k # d /\ k - 1 \in d .. Levels /\ k - 1 \in 1 .. Levels - 1 /\ k - 1 < k /\ (k - 1) + 1 = k
    BY <1>2, Shape
  <2>3. k - 1 \notin Bad
    BY <2>1, <2>2
  <2>4. path[k - 1] # NoFrame
    BY <2>2, <2>3
  <2>5. path[k] # NoFrame
    BY <1>1, <2>2, <2>4
  <2> QED BY <2>1, <2>5
<1>4. d .. Levels \subseteq 1 .. Levels
  BY Shape
<1> QED
  BY <1>1, <1>3, <1>4 DEF path

\* Pages that share an entry are reached through the same tables.
LEMMA PathShared ==
    ASSUME NEW m, NEW root, NEW p \in Nat, NEW q \in Nat, NEW l \in 0 .. Levels,
           Prefix(p, l) = Prefix(q, l)
    PROVE  \A k \in 1 .. Levels : k >= l => Path(m, root, p)[k] = Path(m, root, q)[k]
<1> DEFINE a == Path(m, root, p)
           b == Path(m, root, q)
           Bad == {k \in 1 .. Levels : k >= l /\ a[k] # b[k]}
<1>1. /\ a[Levels] = root
      /\ \A k \in 1 .. Levels - 1 : a[k] = Under(m, a[k + 1], Index(p, k + 1))
  BY PathUnfold
<1>2. /\ b[Levels] = root
      /\ \A k \in 1 .. Levels - 1 : b[k] = Under(m, b[k + 1], Index(q, k + 1))
  BY PathUnfold
<1>3. \A k \in l .. Levels : Prefix(p, k) = Prefix(q, k)
  BY PrefixAbove
<1> HIDE DEF a, b
<1>4. Bad = {}
  <2> SUFFICES ASSUME Bad # {} PROVE FALSE
    OBVIOUS
  <2>1. PICK k \in Bad : \A j \in Bad : j <= k
    <3>1. Bad \in SUBSET (0 .. Levels)
      BY Shape
    <3> HIDE DEF Bad
    <3> QED BY <3>1, HighestOf
  <2>2. /\ k \in 1 .. Levels - 1 /\ k + 1 \in 1 .. Levels /\ k + 1 > k /\ k + 1 >= l
        /\ k \in l .. Levels /\ (k + 1) - 1 = k
    BY <1>1, <1>2, Shape
  <2>3. k + 1 \notin Bad
    BY <2>1, <2>2
  <2>4. a[k + 1] = b[k + 1]
    BY <2>2, <2>3
  <2>5. Prefix(p, (k + 1) - 1) = Prefix(q, (k + 1) - 1)
    BY <1>3, <2>2
  <2>6. Index(p, k + 1) = Index(q, k + 1)
    BY <2>2, <2>5, SamePrefix
  <2>7. a[k] = b[k]
    BY <1>1, <1>2, <2>2, <2>4, <2>6
  <2> QED BY <2>1, <2>7
<1> QED
  BY <1>4 DEF a, b

\* The way down to a target ends at level d.
EndsAt(m, S, root, page, target, d) ==
    /\ d \in target .. Levels /\ d \in 1 .. Levels
    /\ \A k \in d .. Levels : Path(m, root, page)[k] \in S
    /\ \A k \in target .. d - 1 : Path(m, root, page)[k] = NoFrame

LEMMA DeepestIs ==
    ASSUME NEW m, NEW S, Closed(m, S), NEW root \in S, NEW page \in Nat, NEW target \in 1 .. Levels
    PROVE  EndsAt(m, S, root, page, target, Deepest(m, root, page, target))
<1> DEFINE path == Path(m, root, page)
           T == {l \in target .. Levels : path[l] # NoFrame}
<1>1. path[Levels] = root /\ root # NoFrame
  BY PathUnfold DEF Closed
<1>2. T \in SUBSET Nat /\ T # {}
  <2>1. Levels \in target .. Levels
    BY Shape
  <2>2. T \in SUBSET Nat
    BY Shape
  <2> QED BY <1>1, <2>1, <2>2
<1>3. \E l \in target .. Levels : path[l] # NoFrame /\ \A k \in target .. l - 1 : path[k] = NoFrame
  <2>1. PICK l \in T : \A k \in T : l <= k
    <3> HIDE DEF T
    <3> QED BY <1>2, LeastOf
  <2>2. ASSUME NEW k \in target .. l - 1 PROVE path[k] = NoFrame
    <3>1. k \in target .. Levels /\ ~(l <= k)
      BY <2>1, Shape
    <3> QED BY <2>1, <3>1
  <2> QED BY <2>1, <2>2
<1> DEFINE d == CHOOSE l \in target .. Levels :
                  path[l] # NoFrame /\ \A k \in target .. l - 1 : path[k] = NoFrame
<1>4. d \in target .. Levels /\ path[d] # NoFrame /\ \A k \in target .. d - 1 : path[k] = NoFrame
  BY <1>3
<1>5. d = Deepest(m, root, page, target)
  BY DEF Deepest
<1> HIDE DEF d
<1>6. d \in 1 .. Levels
  BY <1>4, Shape
<1>7. \A k \in d .. Levels : path[k] \in S
  BY <1>4, <1>6, PathAbove
<1> QED
  BY <1>4, <1>5, <1>6, <1>7 DEF EndsAt

-----------------------------------------------------------------------------
(* The frame behind a page *)

\* The frame behind a page, if e is the leaf of level l that leads to it.
Behind(e, l, page) == e.frame - (e.frame % Span(l)) + (page % Span(l))

\* One level of the walk, v being the walk from the level below.
Walked(m, page, hard, v, l) ==
    [t \in DOMAIN m |->
       IF m[t][Index(page, l)].kind = "leaf" THEN Behind(m[t][Index(page, l)], l, page)
       ELSE IF m[t][Index(page, l)].kind = "branch" /\ l > 1
                 /\ (hard => ~m[t][Index(page, l)].stale)
         THEN v[m[t][Index(page, l)].frame] ELSE NoFrame]

LEMMA FrameUnfold ==
    ASSUME NEW m, NEW root, NEW page, NEW hard
    PROVE  \E down : /\ Frame(m, root, page, hard) = down[Levels][root]
                     /\ \A l \in 1 .. Levels : down[l] = Walked(m, page, hard, down[l - 1], l)
<1> DEFINE D(v, n) == Walked(m, page, hard, v, n)
           h == CHOOSE f : f = [n \in Nat |-> IF n = 0 THEN NoFrame ELSE D(f[n - 1], n)]
           Step(f) == [l \in 1 .. Levels |-> Walked(m, page, hard, f[l - 1], l)]
           g == [l \in 1 .. Levels |-> h[l]]
<1>1. NatInductiveDefHypothesis(h, NoFrame, D)
  BY DEF NatInductiveDefHypothesis
<1>2. NatInductiveDefConclusion(h, NoFrame, D)
  BY <1>1, NatInductiveDef
<1>3. h = [n \in Nat |-> IF n = 0 THEN NoFrame ELSE Walked(m, page, hard, h[n - 1], n)]
  BY <1>2 DEF NatInductiveDefConclusion
<1> HIDE DEF h
<1>4. g = Step(g)
  <2>1. ASSUME NEW l \in 1 .. Levels
        PROVE  g[l] = Walked(m, page, hard, g[l - 1], l)
    <3>1. h[l] = Walked(m, page, hard, h[l - 1], l) /\ g[l] = h[l]
      BY <1>3, Shape
    <3>2. CASE l = 1
      BY <3>1, <3>2 DEF Walked
    <3>3. CASE l # 1
      <4>1. l - 1 \in 1 .. Levels
        BY <3>3, Shape
      <4>2. g[l - 1] = h[l - 1]
        BY <4>1
      <4> QED BY <3>1, <4>2
    <3> QED BY <3>2, <3>3
  <2> QED BY <2>1
<1>5. Frame(m, root, page, hard) = (CHOOSE f : f = Step(f))[Levels][root]
  BY DEF Frame, Walked, Behind
<1> HIDE DEF g
<1> DEFINE down == CHOOSE f : f = Step(f)
<1>6. down = Step(down)
  BY <1>4
<1>7. Frame(m, root, page, hard) = down[Levels][root]
  BY <1>5
<1> HIDE DEF down
<1>8. \A l \in 1 .. Levels : down[l] = Walked(m, page, hard, down[l - 1], l)
  BY <1>6
<1> QED
  BY <1>7, <1>8

\* A branch the processor refuses, on the way below level k.
Refused(m, root, page, d) ==
    \E k \in d + 1 .. Levels : m[Path(m, root, page)[k]][Index(page, k)].stale

\* The walk ends at the lowest table on the way to the page.
LEMMA FrameIs ==
    ASSUME NEW m, NEW S, Closed(m, S), NEW root \in S, NEW page \in Nat, NEW hard \in BOOLEAN
    PROVE  LET d == Deepest(m, root, page, 1)
               e == m[Path(m, root, page)[d]][Index(page, d)]
           IN Frame(m, root, page, hard) =
                IF e.kind = "leaf" /\ ~(hard /\ Refused(m, root, page, d))
                  THEN Behind(e, d, page) ELSE NoFrame
<1> DEFINE path == Path(m, root, page)
           d == Deepest(m, root, page, 1)
           At(k) == m[path[k]][Index(page, k)]
           Stopped(k) == hard /\ \E j \in k + 1 .. Levels : At(j).stale
<1>1. /\ 1 \in 1 .. Levels /\ d \in 1 .. Levels
      /\ \A k \in d .. Levels : path[k] \in S
      /\ \A k \in 1 .. d - 1 : path[k] = NoFrame
  <2>1. 1 \in 1 .. Levels
    BY Shape
  <2>2. EndsAt(m, S, root, page, 1, d)
    BY <2>1, DeepestIs
  <2> QED BY <2>1, <2>2 DEF EndsAt
<1>2. /\ path[Levels] = root
      /\ \A l \in 1 .. Levels - 1 : path[l] = Under(m, path[l + 1], Index(page, l + 1))
  BY PathUnfold
<1>3. \A l \in 1 .. Levels : Index(page, l) \in Slots
  BY PrefixStep
<1>4. PICK down : /\ Frame(m, root, page, hard) = down[Levels][root]
                  /\ \A l \in 1 .. Levels : down[l] = Walked(m, page, hard, down[l - 1], l)
  BY FrameUnfold
<1>5. \A k \in d .. Levels :
         /\ k \in 1 .. Levels /\ path[k] \in DOMAIN m /\ path[k] # NoFrame
         /\ At(k) \in Entry
  <2> SUFFICES ASSUME NEW k \in d .. Levels
               PROVE  /\ k \in 1 .. Levels /\ path[k] \in DOMAIN m /\ path[k] # NoFrame
                      /\ At(k) \in Entry
    OBVIOUS
  <2>1. k \in 1 .. Levels /\ path[k] \in S
    BY <1>1, Shape
  <2>2. m[path[k]] \in [Slots -> Entry] /\ Index(page, k) \in Slots
    BY <1>3, <2>1 DEF Closed
  <2> QED BY <2>1, <2>2 DEF Closed
<1> HIDE DEF path, d
<1> DEFINE Fine(k) == down[Levels][root] = IF Stopped(k) THEN NoFrame ELSE down[k][path[k]]
           Bad == {k \in d .. Levels : ~Fine(k)}
<1>6. Bad = {}
  <2> SUFFICES ASSUME Bad # {} PROVE FALSE
    OBVIOUS
  <2>1. PICK k \in Bad : \A j \in Bad : j <= k
    <3>1. Bad \in SUBSET (0 .. Levels)
      BY <1>1, Shape
    <3> HIDE DEF Bad
    <3> QED BY <3>1, HighestOf
  <2>2. Fine(Levels)
    <3>1. ~Stopped(Levels)
      BY Shape
    <3> QED BY <1>2, <3>1
  <2>3. k # Levels
    BY <2>1, <2>2
  <2>4. /\ k + 1 \in d .. Levels /\ k + 1 > k /\ k \in 1 .. Levels - 1 /\ k + 1 > 1
        /\ (k + 1) - 1 = k /\ k \in d .. Levels /\ k + 1 \in 1 .. Levels
    BY <1>1, <2>3, Shape
  <2>5. k + 1 \notin Bad
    BY <2>1, <2>4
  <2>6. Fine(k + 1)
    BY <2>4, <2>5
  <2> DEFINE e == At(k + 1)
             j == k + 1
  <2>7. path[j] \in DOMAIN m /\ path[j] # NoFrame /\ e \in Entry /\ path[k] # NoFrame
    BY <1>5, <2>4
  <2>8. e.kind = "branch" /\ path[k] = e.frame
    BY <1>2, <2>4, <2>7 DEF Under
  <2>9. down[j] = Walked(m, page, hard, down[k], j)
    BY <1>4, <2>4
  <2>10. down[j][path[j]] = IF hard /\ e.stale THEN NoFrame ELSE down[k][path[k]]
    BY <2>4, <2>7, <2>8, <2>9 DEF Walked, Entry
  <2>11. Stopped(k) <=> Stopped(j) \/ (hard /\ e.stale)
    <3>1. k + 1 .. Levels = {j} \cup (j + 1 .. Levels)
      BY <2>4, Shape
    <3> QED BY <3>1
  <2>12. Fine(k)
    <3> HIDE DEF e, j, At, Stopped
    <3> QED BY <2>6, <2>10, <2>11 DEF j
  <2> QED BY <2>1, <2>12
<1>7. Fine(d)
  <2>1. d \in d .. Levels
    BY <1>1
  <2> QED BY <1>6, <2>1
<1>8. d > 1 => At(d).kind # "branch"
  <2> SUFFICES ASSUME d > 1, At(d).kind = "branch" PROVE FALSE
    OBVIOUS
  <2>1. d - 1 \in 1 .. Levels - 1 /\ (d - 1) + 1 = d /\ d - 1 \in 1 .. d - 1 /\ d \in d .. Levels
    BY <1>1, Shape
  <2>2. path[d - 1] = At(d).frame /\ path[d] \in S /\ Index(page, d) \in Slots
    BY <1>1, <1>2, <1>3, <1>5, <2>1 DEF Under
  <2>3. At(d).frame \in S
    BY <2>2 DEF Closed
  <2> QED BY <1>1, <2>1, <2>2, <2>3 DEF Closed
<1>9. down[d] = Walked(m, page, hard, down[d - 1], d)
  BY <1>1, <1>4
<1>10. down[d][path[d]] = IF At(d).kind = "leaf" THEN Behind(At(d), d, page) ELSE NoFrame
  <2>1. path[d] \in DOMAIN m
    BY <1>1, <1>5
  <2> QED BY <1>1, <1>8, <1>9, <2>1 DEF Walked
<1>11. Frame(m, root, page, hard) =
         IF At(d).kind = "leaf" /\ ~Stopped(d) THEN Behind(At(d), d, page) ELSE NoFrame
  <2> HIDE DEF At, Stopped
  <2> QED BY <1>4, <1>7, <1>10
<1> QED
  BY <1>11 DEF path, d, Refused

\* Two states of the tables give a page the same frame if its walk in the one
\* meets the same entries in the other.
LEMMA SamePath ==
    ASSUME NEW m, NEW n, NEW root, NEW page, NEW d \in 1 .. Levels,
           \A k \in d + 1 .. Levels :
              Path(m, root, page)[k] # NoFrame =>
                 n[Path(m, root, page)[k]][Index(page, k)] = m[Path(m, root, page)[k]][Index(page, k)]
    PROVE  \A k \in d .. Levels : Path(n, root, page)[k] = Path(m, root, page)[k]
<1> DEFINE a == Path(m, root, page)
           b == Path(n, root, page)
           Bad == {k \in d .. Levels : b[k] # a[k]}
<1>1. /\ a[Levels] = root
      /\ \A k \in 1 .. Levels - 1 : a[k] = Under(m, a[k + 1], Index(page, k + 1))
  BY PathUnfold
<1>2. /\ b[Levels] = root
      /\ \A k \in 1 .. Levels - 1 : b[k] = Under(n, b[k + 1], Index(page, k + 1))
  BY PathUnfold
<1>3. \A k \in d + 1 .. Levels : a[k] # NoFrame => n[a[k]][Index(page, k)] = m[a[k]][Index(page, k)]
  OBVIOUS
<1> HIDE DEF a, b
<1>4. Bad = {}
  <2> SUFFICES ASSUME Bad # {} PROVE FALSE
    OBVIOUS
  <2>1. PICK k \in Bad : \A j \in Bad : j <= k
    <3>1. Bad \in SUBSET (0 .. Levels)
      BY Shape
    <3> HIDE DEF Bad
    <3> QED BY <3>1, HighestOf
  <2>2. /\ k \in 1 .. Levels - 1 /\ k + 1 \in d .. Levels /\ k + 1 > k
        /\ k + 1 \in d + 1 .. Levels
    BY <1>1, <1>2, Shape
  <2>3. k + 1 \notin Bad
    BY <2>1, <2>2
  <2>4. b[k + 1] = a[k + 1]
    BY <2>2, <2>3
  <2>5. b[k] = a[k]
    BY <1>1, <1>2, <1>3, <2>2, <2>4 DEF Under
  <2> QED BY <2>1, <2>5
<1> QED
  BY <1>4 DEF a, b

LEMMA SameWalk ==
    ASSUME NEW m, NEW S, Closed(m, S), NEW n, NEW T, Closed(n, T),
           NEW root \in S \cap T, NEW page \in Nat, NEW hard \in BOOLEAN,
           \A k \in 1 .. Levels :
              Path(m, root, page)[k] # NoFrame =>
                 n[Path(m, root, page)[k]][Index(page, k)] = m[Path(m, root, page)[k]][Index(page, k)]
    PROVE  /\ Path(n, root, page) = Path(m, root, page)
           /\ Frame(n, root, page, hard) = Frame(m, root, page, hard)
<1> DEFINE a == Path(m, root, page)
           b == Path(n, root, page)
           d == Deepest(m, root, page, 1)
<1>1. 1 \in 1 .. Levels /\ \A k \in 1 + 1 .. Levels : k \in 1 .. Levels
  BY Shape
<1>2. \A k \in 1 .. Levels : b[k] = a[k]
  BY <1>1, SamePath
<1>3. a = [l \in 1 .. Levels |-> a[l]] /\ b = [l \in 1 .. Levels |-> b[l]]
  BY PathUnfold
<1>4. b = a
  <2> HIDE DEF a, b
  <2> QED BY <1>2, <1>3
<1>5. Deepest(n, root, page, 1) = d
  BY <1>4 DEF Deepest
<1>6. d \in 1 .. Levels /\ \A k \in d .. Levels : a[k] \in S
  <2>1. EndsAt(m, S, root, page, 1, d)
    BY <1>1, DeepestIs
  <2> QED BY <2>1 DEF EndsAt
<1>7. \A k \in d .. Levels : k \in 1 .. Levels /\ n[a[k]][Index(page, k)] = m[a[k]][Index(page, k)]
  <2> SUFFICES ASSUME NEW k \in d .. Levels
               PROVE  k \in 1 .. Levels /\ n[a[k]][Index(page, k)] = m[a[k]][Index(page, k)]
    OBVIOUS
  <2>1. k \in 1 .. Levels /\ a[k] \in S
    BY <1>6, Shape
  <2>2. a[k] # NoFrame
    BY <2>1 DEF Closed
  <2> QED BY <2>1, <2>2
<1>8. Frame(m, root, page, hard) =
        IF m[a[d]][Index(page, d)].kind = "leaf" /\ ~(hard /\ Refused(m, root, page, d))
          THEN Behind(m[a[d]][Index(page, d)], d, page) ELSE NoFrame
  BY FrameIs
<1>9. Frame(n, root, page, hard) =
        IF n[b[d]][Index(page, d)].kind = "leaf" /\ ~(hard /\ Refused(n, root, page, d))
          THEN Behind(n[b[d]][Index(page, d)], d, page) ELSE NoFrame
  BY <1>5, FrameIs
<1>10. Refused(n, root, page, d) <=> Refused(m, root, page, d)
  <2>1. \A k \in d + 1 .. Levels : k \in d .. Levels
    BY <1>6, Shape
  <2> QED BY <1>4, <1>7, <2>1 DEF Refused
<1>11. d \in d .. Levels
  BY <1>6
<1> HIDE DEF a, b, d
<1> QED
  BY <1>4, <1>7, <1>8, <1>9, <1>10, <1>11 DEF a, b

-----------------------------------------------------------------------------
(* Where the tables lie *)

Place(r, l, a) == [root |-> r, level |-> l, at |-> a]
Places == [root : Nat, level : 1 .. Levels, at : Nat]

\* pl gives each of its tables one root, one level and one stretch of pages, and
\* every branch leads to the table of the stretch below it.
Placed(m, pl) ==
    /\ Closed(m, DOMAIN pl)
    /\ pl \in [DOMAIN pl -> Places]
    /\ \A t \in DOMAIN pl, i \in Slots :
          m[t][i].kind = "branch" =>
             /\ pl[t].level > 1
             /\ pl[m[t][i].frame] = Place(pl[t].root, pl[t].level - 1, pl[t].at * Fan + i)

RootAt(pl, r) == r \in DOMAIN pl /\ pl[r] = Place(r, Levels, 0)

LEMMA PathPlace ==
    ASSUME NEW m, NEW pl, Placed(m, pl), NEW root, RootAt(pl, root), NEW page \in Pages
    PROVE  \A l \in 1 .. Levels :
              Path(m, root, page)[l] # NoFrame =>
                 /\ Path(m, root, page)[l] \in DOMAIN pl
                 /\ pl[Path(m, root, page)[l]] = Place(root, l, Prefix(page, l))
<1> DEFINE path == Path(m, root, page)
           Fine(l) == path[l] # NoFrame =>
                         path[l] \in DOMAIN pl /\ pl[path[l]] = Place(root, l, Prefix(page, l))
           Bad == {l \in 1 .. Levels : ~Fine(l)}
<1>1. /\ path[Levels] = root
      /\ \A l \in 1 .. Levels - 1 : path[l] = Under(m, path[l + 1], Index(page, l + 1))
  BY PathUnfold
<1>2. page \in Nat /\ Prefix(page, Levels) = 0
  BY PrefixEnds
<1> HIDE DEF path
<1>3. Bad = {}
  <2> SUFFICES ASSUME Bad # {} PROVE FALSE
    OBVIOUS
  <2>1. PICK l \in Bad : \A j \in Bad : j <= l
    <3>1. Bad \in SUBSET (0 .. Levels)
      BY Shape
    <3> HIDE DEF Bad
    <3> QED BY <3>1, HighestOf
  <2>2. Fine(Levels)
    BY <1>1, <1>2 DEF RootAt
  <2>3. l # Levels
    BY <2>1, <2>2
  <2>4. /\ l \in 1 .. Levels - 1 /\ l + 1 \in 1 .. Levels /\ l + 1 > l /\ (l + 1) - 1 = l
    BY <2>3, Shape
  <2>5. l + 1 \notin Bad
    BY <2>1, <2>4
  <2> DEFINE t == path[l + 1]
             i == Index(page, l + 1)
  <2>6. path[l] = Under(m, t, i) /\ path[l] # NoFrame
    BY <1>1, <2>1, <2>4
  <2>7. t # NoFrame /\ m[t][i].kind = "branch" /\ path[l] = m[t][i].frame
    BY <2>6 DEF Under
  <2>8. t \in DOMAIN pl /\ pl[t] = Place(root, l + 1, Prefix(page, l + 1))
    BY <2>4, <2>5, <2>7
  <2>9. /\ i \in Slots
        /\ Prefix(page, (l + 1) - 1) = Prefix(page, l + 1) * Fan + i
    BY <1>2, <2>4, PrefixStep
  <2> HIDE DEF t, i
  <2>10. path[l] \in DOMAIN pl
    BY <2>7, <2>8, <2>9 DEF Placed, Closed
  <2>11. pl[path[l]] = Place(root, (l + 1) - 1, Prefix(page, l + 1) * Fan + i)
    BY <2>7, <2>8, <2>9 DEF Placed, Place
  <2>12. Fine(l)
    BY <2>4, <2>9, <2>10, <2>11
  <2> QED BY <2>1, <2>12
<1> QED
  BY <1>3 DEF path

\* A table is on the way to one page of one root, or to neighbours under it.
LEMMA OnePlaceEach ==
    ASSUME NEW m, NEW pl, Placed(m, pl),
           NEW r, RootAt(pl, r), NEW p \in Pages, NEW k \in 1 .. Levels,
           NEW s, RootAt(pl, s), NEW q \in Pages, NEW l \in 1 .. Levels,
           Path(m, r, p)[k] # NoFrame, Path(m, r, p)[k] = Path(m, s, q)[l]
    PROVE  r = s /\ k = l /\ Prefix(p, k) = Prefix(q, l)
<1>1. pl[Path(m, r, p)[k]] = Place(r, k, Prefix(p, k))
  BY PathPlace
<1>2. pl[Path(m, s, q)[l]] = Place(s, l, Prefix(q, l))
  BY PathPlace
<1> QED
  BY <1>1, <1>2 DEF Place

-----------------------------------------------------------------------------
(* map *)

\* A call of map that finds the tables it needs free, and no leaf in its way.
MapCall(m, pl, new, root, page, f, target) ==
    /\ Placed(m, pl)
    /\ RootAt(pl, root)
    /\ page \in Pages /\ target \in 1 .. Levels /\ f \in Nat
    /\ new \in Seq(Nat \ {NoFrame})
    /\ Len(new) = NewTables(m, root, page, target)
    /\ \A i \in DOMAIN new : new[i] \notin DOMAIN m
    /\ \A i, j \in DOMAIN new : new[i] = new[j] => i = j
    /\ ~MapPanics(m, root, page, target)

\* The table of the call at level k: the one that was there or a claimed one.
Tables(m, new, root, page, target) ==
    LET d == Deepest(m, root, page, target) IN
    [k \in target .. d |-> IF k = d THEN Path(m, root, page)[d] ELSE new[d - k]]

\* What map has done: tab are its tables, from the target up to level d.
Made(m, n, pl, tab, root, page, f, target, d) ==
    /\ d \in target .. Levels
    /\ tab[d] \in DOMAIN pl /\ tab[d] \in DOMAIN m
    /\ pl[tab[d]] = Place(root, d, Prefix(page, d))
    /\ Path(m, root, page)[d] = tab[d]
    /\ \A k \in target .. d - 1 : /\ Path(m, root, page)[k] = NoFrame
                                  /\ tab[k] \in Nat \ {NoFrame} /\ tab[k] \notin DOMAIN m
    /\ \A k, l \in target .. d : tab[k] = tab[l] => k = l
    /\ DOMAIN n = DOMAIN m \cup {tab[k] : k \in target .. d - 1}
    /\ \A t \in DOMAIN m \ {tab[d]} : n[t] = m[t]
    /\ \A k \in target .. d :
          n[tab[k]] = [IF k = d THEN m[tab[d]] ELSE NewTable EXCEPT
                         ![Index(page, k)] = IF k = target THEN Leaf(f) ELSE Branch(@, tab[k - 1])]
    /\ d > target => m[tab[d]][Index(page, d)].kind = "none"

LEMMA MapMakes ==
    ASSUME NEW m, NEW pl, NEW new, NEW root, NEW page, NEW f, NEW target,
           MapCall(m, pl, new, root, page, f, target)
    PROVE  Made(m, MapIn(m, new, root, page, f, target), pl,
                Tables(m, new, root, page, target), root, page, f, target,
                Deepest(m, root, page, target))
<1> DEFINE path == Path(m, root, page)
           d == Deepest(m, root, page, target)
           n == MapIn(m, new, root, page, f, target)
           tab == Tables(m, new, root, page, target)
           claimed == {new[i] : i \in DOMAIN new}
           below(i, e) == IF i = Len(new) THEN Leaf(f) ELSE Branch(e, new[i + 1])
<1>1. /\ Placed(m, pl) /\ RootAt(pl, root) /\ page \in Pages /\ page \in Nat
      /\ target \in 1 .. Levels /\ new \in Seq(Nat \ {NoFrame})
      /\ Closed(m, DOMAIN pl) /\ root \in DOMAIN pl
  BY PrefixEnds DEF MapCall, Placed, RootAt
<1>2. /\ d \in target .. Levels /\ d \in 1 .. Levels
      /\ path[d] \in DOMAIN pl
      /\ \A k \in target .. d - 1 : path[k] = NoFrame
  <2> DEFINE S == DOMAIN pl
  <2>1. Closed(m, S) /\ root \in S
    BY <1>1
  <2> HIDE DEF S
  <2>2. EndsAt(m, S, root, page, target, d)
    BY <1>1, <2>1, DeepestIs
  <2> QED BY <1>1, <2>2, Shape DEF S, EndsAt
<1>3. path[d] # NoFrame /\ path[d] \in DOMAIN m /\ m[path[d]] \in [Slots -> Entry]
  BY <1>1, <1>2 DEF Closed
<1>4. pl[path[d]] = Place(root, d, Prefix(page, d))
  BY <1>1, <1>2, <1>3, PathPlace
<1>5. Len(new) = d - target /\ DOMAIN new = 1 .. d - target
  BY <1>1 DEF MapCall, NewTables
<1>6. \A i \in 1 .. d - target : new[i] \in Nat \ {NoFrame} /\ new[i] \notin DOMAIN m
  BY <1>1, <1>5 DEF MapCall
<1>7. d > target => m[path[d]][Index(page, d)].kind = "none"
  <2> SUFFICES ASSUME d > target PROVE m[path[d]][Index(page, d)].kind = "none"
    OBVIOUS
  <2>1. m[path[d]][Index(page, d)].kind # "leaf"
    BY DEF MapCall, MapPanics
  <2>2. Index(page, d) \in Slots
    BY <1>1, <1>2, PrefixStep
  <2>3. m[path[d]][Index(page, d)].kind # "branch"
    <3> SUFFICES ASSUME m[path[d]][Index(page, d)].kind = "branch" PROVE FALSE
      OBVIOUS
    <3>1. m[path[d]][Index(page, d)].frame \in DOMAIN pl
      BY <1>1, <1>2, <2>2 DEF Closed
    <3>2. d - 1 \in 1 .. Levels - 1 /\ (d - 1) + 1 = d /\ d - 1 \in target .. d - 1
      BY <1>1, <1>2, Shape
    <3>3. path[d - 1] = Under(m, path[(d - 1) + 1], Index(page, (d - 1) + 1))
      BY <3>2, PathUnfold
    <3>4. path[d - 1] = m[path[d]][Index(page, d)].frame
      BY <1>3, <3>2, <3>3 DEF Under
    <3> QED BY <1>1, <1>2, <3>1, <3>2, <3>4 DEF Closed
  <2>4. m[path[d]][Index(page, d)].kind \in {"none", "branch", "leaf"}
    BY <1>3, <2>2 DEF Entry
  <2> QED BY <2>1, <2>3, <2>4
<1>8. tab = [k \in target .. d |-> IF k = d THEN path[d] ELSE new[d - k]]
  BY DEF Tables
<1>9. n = [t \in DOMAIN m \cup claimed |->
             IF t \in claimed
               THEN LET i == CHOOSE i \in DOMAIN new : new[i] = t
                    IN [NewTable EXCEPT ![Index(page, d - i)] = below(i, NoEntry)]
               ELSE IF t = path[d] THEN [m[t] EXCEPT ![Index(page, d)] = below(0, m[t][Index(page, d)])]
                                   ELSE m[t]]
  BY DEF MapIn
<1>10. \A i, j \in 1 .. d - target : new[i] = new[j] => i = j
  BY <1>5 DEF MapCall
<1> HIDE DEF path, d, n, tab
<1>11. /\ target \in Nat /\ d \in Nat /\ target <= d
       /\ tab[d] = path[d]
       /\ \A k \in target .. d - 1 : tab[k] = new[d - k] /\ d - k \in 1 .. d - target
  BY <1>1, <1>2, <1>8, Shape
<1>12. {tab[k] : k \in target .. d - 1} = claimed
  <2>1. ASSUME NEW i \in 1 .. d - target
        PROVE  d - i \in target .. d - 1 /\ d - (d - i) = i
    BY <1>11
  <2>2. \A i \in 1 .. d - target : new[i] = tab[d - i] /\ d - i \in target .. d - 1
    BY <1>11, <2>1
  <2>3. \A k \in target .. d - 1 : tab[k] \in claimed
    BY <1>5, <1>11
  <2> QED BY <1>5, <2>2, <2>3
<1>13. \A k \in target .. d - 1 : tab[k] \in Nat \ {NoFrame} /\ tab[k] \notin DOMAIN m
  BY <1>6, <1>11
<1>14. \A k, l \in target .. d : tab[k] = tab[l] => k = l
  <2> SUFFICES ASSUME NEW k \in target .. d, NEW l \in target .. d, tab[k] = tab[l]
               PROVE  k = l
    OBVIOUS
  <2>1. CASE k = d \/ l = d
    <3>1. \A j \in target .. d : j # d => j \in target .. d - 1
      BY <1>11
    <3> QED BY <1>3, <1>11, <1>13, <2>1, <3>1
  <2>2. CASE k # d /\ l # d
    <3>1. k \in target .. d - 1 /\ l \in target .. d - 1
      BY <1>11, <2>2
    <3>2. d - k = d - l
      BY <1>10, <1>11, <3>1
    <3> QED BY <1>11, <3>2
  <2> QED BY <2>1, <2>2
<1>15. DOMAIN n = DOMAIN m \cup {tab[k] : k \in target .. d - 1}
  BY <1>9, <1>12
<1>16. \A t \in DOMAIN m : t \notin claimed
  BY <1>5, <1>6
<1>17. \A t \in DOMAIN m \ {tab[d]} : n[t] = m[t]
  BY <1>9, <1>11, <1>16
<1>18. ASSUME NEW k \in target .. d
       PROVE  n[tab[k]] = [IF k = d THEN m[tab[d]] ELSE NewTable EXCEPT
                             ![Index(page, k)] = IF k = target THEN Leaf(f)
                                                 ELSE Branch(@, tab[k - 1])]
  <2>1. CASE k = d
    <3>1. n[path[d]] = [m[path[d]] EXCEPT
                          ![Index(page, d)] = below(0, m[path[d]][Index(page, d)])]
      BY <1>3, <1>9, <1>16
    <3>2. Len(new) = 0 <=> d = target
      BY <1>5, <1>11
    <3>3. d # target => tab[d - 1] = new[1] /\ 0 + 1 = 1
      BY <1>11
    <3> QED BY <1>11, <2>1, <3>1, <3>2, <3>3
  <2>2. CASE k # d
    <3> DEFINE i == d - k
    <3>1. k \in target .. d - 1 /\ i \in 1 .. d - target /\ tab[k] = new[i] /\ d - i = k
      BY <1>11, <2>2
    <3>2. i = CHOOSE j \in DOMAIN new : new[j] = tab[k]
      BY <1>5, <1>10, <3>1
    <3>3. tab[k] \in claimed
      BY <1>5, <3>1
    <3>4. n[tab[k]] = [NewTable EXCEPT ![Index(page, d - i)] = below(i, NoEntry)]
      BY <1>9, <3>2, <3>3
    <3>5. i = Len(new) <=> k = target
      BY <1>5, <1>11, <3>1
    <3>6. k # target => k - 1 \in target .. d - 1 /\ d - (k - 1) = i + 1
      BY <1>11, <3>1
    <3>7. k # target => tab[k - 1] = new[i + 1]
      BY <1>11, <3>6
    <3>8. Index(page, k) \in Slots
      <4>1. k \in 1 .. Levels
        BY <1>1, <1>2, <3>1, Shape
      <4> QED BY <1>1, <4>1, PrefixStep
    <3>9. NewTable[Index(page, k)] = NoEntry
      BY <3>8 DEF NewTable, Cleared
    <3> QED BY <2>2, <3>1, <3>4, <3>5, <3>7, <3>9
  <2> QED BY <2>1, <2>2
<1> QED
  BY <1>2, <1>3, <1>4, <1>7, <1>11, <1>13, <1>14, <1>15, <1>17, <1>18 DEF Made, path, d, n, tab

\* What the tables of the call hold.
Filled(m, n, tab, page, f, target, d) ==
    \A k \in target .. d :
        /\ k \in 1 .. Levels
        /\ n[tab[k]] \in [Slots -> Entry]
        /\ \A i \in Slots \ {Index(page, k)} :
              n[tab[k]][i] = IF k = d THEN m[tab[d]][i] ELSE NoEntry
        /\ k = target => n[tab[k]][Index(page, k)] = Leaf(f)
        /\ k # target => /\ k - 1 \in target .. d
                         /\ n[tab[k]][Index(page, k)].kind = "branch"
                         /\ n[tab[k]][Index(page, k)].frame = tab[k - 1]

LEMMA MadeEntries ==
    ASSUME NEW m, NEW n, NEW pl, NEW tab, NEW root, NEW page \in Pages, NEW f \in Nat,
           NEW target \in 1 .. Levels, NEW d, Placed(m, pl),
           Made(m, n, pl, tab, root, page, f, target, d)
    PROVE  Filled(m, n, tab, page, f, target, d)
<1> SUFFICES ASSUME NEW k \in target .. d
             PROVE  /\ k \in 1 .. Levels
                    /\ n[tab[k]] \in [Slots -> Entry]
                    /\ \A i \in Slots \ {Index(page, k)} :
                          n[tab[k]][i] = IF k = d THEN m[tab[d]][i] ELSE NoEntry
                    /\ k = target => n[tab[k]][Index(page, k)] = Leaf(f)
                    /\ k # target => /\ k - 1 \in target .. d
                                     /\ n[tab[k]][Index(page, k)].kind = "branch"
                                     /\ n[tab[k]][Index(page, k)].frame = tab[k - 1]
  BY DEF Filled
<1>1. d \in target .. Levels /\ tab[d] \in DOMAIN pl
  BY DEF Made
<1>2. k \in 1 .. Levels /\ (k # target => k - 1 \in target .. d - 1 /\ k - 1 \in target .. d)
  BY <1>1, Shape
<1> DEFINE i == Index(page, k)
           was == IF k = d THEN m[tab[d]] ELSE NewTable
           e == IF k = target THEN Leaf(f) ELSE Branch(was[i], tab[k - 1])
<1>3. i \in Slots
  BY <1>2, PrefixEnds, PrefixStep
<1>4. was \in [Slots -> Entry]
  <2>1. m[tab[d]] \in [Slots -> Entry]
    BY <1>1 DEF Placed, Closed
  <2>2. NoEntry \in Entry
    BY DEF NoEntry, Entry, NoFrame
  <2>3. NewTable \in [Slots -> Entry]
    BY <2>2 DEF NewTable, Cleared
  <2> QED BY <2>1, <2>3
<1>5. n[tab[k]] = [was EXCEPT ![i] = e]
  <2>1. n[tab[k]] = [was EXCEPT ![i] = IF k = target THEN Leaf(f) ELSE Branch(@, tab[k - 1])]
    BY DEF Made
  <2> HIDE DEF was, i
  <2> QED BY <1>3, <1>4, <2>1
<1>6. e \in Entry
  <2>1. CASE k = target
    BY <2>1 DEF Leaf, Entry
  <2>2. CASE k # target
    <3>1. tab[k - 1] \in Nat
      BY <1>2, <2>2 DEF Made
    <3>2. was[i] \in Entry
      BY <1>3, <1>4
    <3> HIDE DEF was, i
    <3>3. was[i].stale \in BOOLEAN
      BY <3>2 DEF Entry
    <3> QED BY <2>2, <3>1, <3>3 DEF Branch, Entry
  <2> QED BY <2>1, <2>2
<1>7. k # target => e.kind = "branch" /\ e.frame = tab[k - 1]
  BY DEF Branch
<1>8. \A j \in Slots : was[j] = IF k = d THEN m[tab[d]][j] ELSE NoEntry
  BY DEF NewTable, Cleared
<1> HIDE DEF was, e, i
<1>9. /\ n[tab[k]] \in [Slots -> Entry]
      /\ n[tab[k]][i] = e
      /\ \A j \in Slots \ {i} : n[tab[k]][j] = was[j]
  BY <1>3, <1>4, <1>5, <1>6
<1>10. k = target => e = Leaf(f)
  BY DEF e
<1> QED
  BY <1>2, <1>7, <1>8, <1>9, <1>10 DEF i

\* q gives the tables of the call their places, too.
Extends(q, pl, tab, root, page, target, d) ==
    /\ DOMAIN q = DOMAIN pl \cup {tab[k] : k \in target .. d - 1}
    /\ \A t \in DOMAIN pl : q[t] = pl[t]
    /\ \A k \in target .. d : q[tab[k]] = Place(root, k, Prefix(page, k))

LEMMA MapPlaced ==
    ASSUME NEW m, NEW n, NEW pl, NEW tab, NEW root, NEW page \in Pages, NEW f \in Nat,
           NEW target \in 1 .. Levels, NEW d, Placed(m, pl), RootAt(pl, root),
           Made(m, n, pl, tab, root, page, f, target, d)
    PROVE  \E q : Placed(n, q) /\ Extends(q, pl, tab, root, page, target, d)
<1> DEFINE new == {tab[k] : k \in target .. d - 1}
           q == [t \in DOMAIN pl \cup new |->
                   IF t \in DOMAIN pl THEN pl[t]
                   ELSE LET k == CHOOSE k \in target .. d - 1 : tab[k] = t
                        IN Place(root, k, Prefix(page, k))]
<1>1. /\ Closed(m, DOMAIN pl) /\ DOMAIN pl \subseteq DOMAIN m
      /\ pl \in [DOMAIN pl -> Places]
  BY DEF Placed, Closed
<1>2. d \in target .. Levels /\ tab[d] \in DOMAIN pl /\ d \in 1 .. Levels
      /\ \A k \in target .. d - 1 : k \in target .. d /\ k \in 1 .. Levels
  <2>1. d \in target .. Levels /\ tab[d] \in DOMAIN pl
    BY DEF Made
  <2> QED BY <2>1, Shape
<1>3. \A k \in target .. d - 1 : tab[k] \in Nat \ {NoFrame} /\ tab[k] \notin DOMAIN m
  BY DEF Made
<1>4. DOMAIN q = DOMAIN pl \cup new /\ \A t \in DOMAIN pl : q[t] = pl[t]
  OBVIOUS
<1>5. \A k \in target .. d : q[tab[k]] = Place(root, k, Prefix(page, k))
  <2> SUFFICES ASSUME NEW k \in target .. d PROVE q[tab[k]] = Place(root, k, Prefix(page, k))
    OBVIOUS
  <2>1. CASE k = d
    BY <1>2, <2>1 DEF Made
  <2>2. CASE k # d
    <3>1. k \in target .. d - 1 /\ tab[k] \notin DOMAIN pl /\ tab[k] \in new
      BY <1>1, <1>2, <1>3, <2>2, Shape
    <3>2. \A l \in target .. d - 1 : tab[l] = tab[k] => l = k
      BY <1>2 DEF Made
    <3>3. k = CHOOSE l \in target .. d - 1 : tab[l] = tab[k]
      BY <3>1, <3>2
    <3> QED BY <3>1, <3>3
  <2> QED BY <2>1, <2>2
<1> HIDE DEF q
<1>6. root \in Nat /\ \A k \in 1 .. Levels : Prefix(page, k) \in Nat
  <2>1. pl[root] \in Places /\ pl[root] = Place(root, Levels, 0)
    BY <1>1 DEF RootAt
  <2>2. root \in Nat
    BY <2>1 DEF Place, Places
  <2> QED BY <2>2, PrefixEnds, PrefixStep
<1>7. q \in [DOMAIN q -> Places]
  <2>1. q = [t \in DOMAIN q |-> q[t]]
    BY DEF q
  <2>2. ASSUME NEW t \in DOMAIN q PROVE q[t] \in Places
    <3>1. CASE t \in DOMAIN pl
      BY <1>1, <1>4, <3>1
    <3>2. CASE t \in new
      <4>1. PICK k \in target .. d - 1 : t = tab[k]
        BY <3>2
      <4>2. q[t] = Place(root, k, Prefix(page, k)) /\ k \in 1 .. Levels
        BY <1>2, <1>5, <4>1
      <4> QED BY <1>6, <4>2 DEF Place, Places
    <3> QED BY <1>4, <3>1, <3>2
  <2> QED BY <2>1, <2>2
<1>8. \A t \in DOMAIN pl : t # tab[d] => n[t] = m[t]
  BY <1>1 DEF Made
<1>9. \A k \in target .. d :
         /\ k \in 1 .. Levels
         /\ n[tab[k]] \in [Slots -> Entry]
         /\ \A i \in Slots \ {Index(page, k)} :
               n[tab[k]][i] = IF k = d THEN m[tab[d]][i] ELSE NoEntry
         /\ k = target => n[tab[k]][Index(page, k)] = Leaf(f)
         /\ k # target => /\ k - 1 \in target .. d
                          /\ n[tab[k]][Index(page, k)].kind = "branch"
                          /\ n[tab[k]][Index(page, k)].frame = tab[k - 1]
  <2>1. Filled(m, n, tab, page, f, target, d)
    BY MadeEntries, Zenon
  <2> QED BY <2>1 DEF Filled
<1>10. DOMAIN q \subseteq DOMAIN n /\ NoFrame \notin DOMAIN q
  <2>1. DOMAIN n = DOMAIN m \cup new
    BY DEF Made
  <2>2. NoFrame \notin DOMAIN pl
    BY <1>1 DEF Closed
  <2> QED BY <1>1, <1>3, <1>4, <2>1, <2>2
\* Each table: one of the call, or one that is as it was.
<1>11. \A t \in DOMAIN q : (t \in DOMAIN pl /\ n[t] = m[t]) \/ \E k \in target .. d : t = tab[k]
  <2>1. d \in target .. d
    BY <1>2
  <2> QED BY <1>2, <1>4, <1>8, <2>1
<1>12. \A t \in DOMAIN q : n[t] \in [Slots -> Entry]
  BY <1>1, <1>9, <1>11 DEF Closed
<1>13. ASSUME NEW t \in DOMAIN q, NEW i \in Slots, n[t][i].kind = "branch"
       PROVE  /\ n[t][i].frame \in DOMAIN q
              /\ q[t].level > 1
              /\ q[n[t][i].frame] = Place(q[t].root, q[t].level - 1, q[t].at * Fan + i)
  \* An entry that was there.
  <2>1. CASE t \in DOMAIN pl /\ n[t][i] = m[t][i]
    <3>1. m[t][i].frame \in DOMAIN pl
      BY <1>1, <1>13, <2>1 DEF Closed
    <3>2. /\ pl[t].level > 1
          /\ pl[m[t][i].frame] = Place(pl[t].root, pl[t].level - 1, pl[t].at * Fan + i)
      BY <1>13, <2>1 DEF Placed
    <3> QED BY <1>4, <2>1, <3>1, <3>2
  \* The entry that leads on to the page.
  <2>2. CASE \E k \in target .. d : t = tab[k] /\ i = Index(page, k)
    <3>1. PICK k \in target .. d : t = tab[k] /\ i = Index(page, k)
      BY <2>2
    <3>2. k # target
      BY <1>9, <1>13, <3>1 DEF Leaf
    <3>3. k - 1 \in target .. d /\ n[t][i].frame = tab[k - 1] /\ k \in 1 .. Levels
      BY <1>9, <3>1, <3>2
    <3>4. q[t] = Place(root, k, Prefix(page, k))
      BY <1>5, <3>1
    <3>5. q[tab[k - 1]] = Place(root, k - 1, Prefix(page, k - 1))
      BY <1>5, <3>3
    <3>6. Prefix(page, k - 1) = Prefix(page, k) * Fan + i
      BY <3>1, <3>3, PrefixEnds, PrefixStep
    <3>7. k > 1
      BY <3>2, <3>3, Shape
    <3>8. tab[k - 1] \in DOMAIN q
      <4>1. k - 1 \in target .. d - 1
        BY <1>2, <3>3, Shape
      <4> QED BY <1>4, <4>1
    <3> QED BY <3>3, <3>4, <3>5, <3>6, <3>7, <3>8 DEF Place
  <2>3. CASE \E k \in target .. d : t = tab[k] /\ i # Index(page, k)
    <3>1. PICK k \in target .. d : t = tab[k] /\ i # Index(page, k)
      BY <2>3
    <3>2. n[t][i] = IF k = d THEN m[tab[d]][i] ELSE NoEntry
      BY <1>9, <3>1
    <3>3. k = d
      BY <1>13, <3>2 DEF NoEntry
    <3> QED BY <1>2, <2>1, <3>1, <3>2, <3>3
  <2> QED BY <1>11, <2>1, <2>2, <2>3
<1>14. Placed(n, q)
  BY <1>7, <1>10, <1>12, <1>13 DEF Placed, Closed
<1> QED
  BY <1>4, <1>5, <1>14 DEF Extends

LEMMA LowestTable ==
    ASSUME NEW m, NEW S, Closed(m, S), NEW root \in S, NEW page \in Nat,
           NEW d \in 1 .. Levels, Path(m, root, page)[d] # NoFrame,
           m[Path(m, root, page)[d]][Index(page, d)].kind # "branch"
    PROVE  Deepest(m, root, page, 1) = d
<1> DEFINE path == Path(m, root, page)
           e == Deepest(m, root, page, 1)
<1>1. /\ e \in 1 .. Levels
      /\ \A k \in e .. Levels : path[k] \in S
      /\ \A k \in 1 .. e - 1 : path[k] = NoFrame
  <2>1. 1 \in 1 .. Levels
    BY Shape
  <2>2. EndsAt(m, S, root, page, 1, e)
    BY <2>1, DeepestIs
  <2> QED BY <2>1, <2>2 DEF EndsAt
<1>2. \A k \in 1 .. Levels - 1 : path[k] = Under(m, path[k + 1], Index(page, k + 1))
  BY PathUnfold
<1>3. path[d] # NoFrame /\ m[path[d]][Index(page, d)].kind # "branch" /\ NoFrame \notin S
  BY DEF Closed
<1> HIDE DEF path, e
<1>4. ~(d < e)
  BY <1>1, <1>3, Shape
<1>5. ~(e < d)
  <2> SUFFICES ASSUME e < d PROVE FALSE
    OBVIOUS
  <2>1. d - 1 \in e .. Levels /\ d - 1 \in 1 .. Levels - 1 /\ (d - 1) + 1 = d
    BY <1>1, Shape
  <2>2. path[d - 1] = NoFrame
    BY <1>2, <1>3, <2>1 DEF Under
  <2> QED BY <1>1, <1>3, <2>1, <2>2
<1> QED
  BY <1>1, <1>4, <1>5, Shape DEF e

\* The pages that share the tables of the call find them.
Leads(n, root, p, tab, c, d) == \A k \in c .. d : Path(n, root, p)[k] = tab[k]

LEMMA MapPath ==
    ASSUME NEW m, NEW n, NEW pl, NEW tab, NEW root, NEW page \in Pages, NEW f \in Nat,
           NEW target \in 1 .. Levels, NEW d, Placed(m, pl), RootAt(pl, root),
           Made(m, n, pl, tab, root, page, f, target, d),
           NEW p \in Pages, NEW c \in target .. d, Prefix(p, c) = Prefix(page, c)
    PROVE  Path(m, root, p)[d] = tab[d] /\ Leads(n, root, p, tab, c, d)
<1> DEFINE a == Path(m, root, p)
           b == Path(n, root, p)
           Bad == {k \in c .. d : b[k] # tab[k]}
<1>1. /\ d \in target .. Levels /\ d \in 1 .. Levels /\ c \in 1 .. Levels /\ c \in 0 .. Levels
      /\ d \in c .. Levels /\ d \in 0 .. Levels
  <2>1. d \in target .. Levels
    BY DEF Made
  <2> QED BY <2>1, Shape
<1>2. p \in Nat /\ page \in Nat
  BY PrefixEnds
<1>3. \A k \in c .. Levels : Prefix(p, k) = Prefix(page, k)
  BY <1>1, <1>2, PrefixAbove
<1>4. a[d] = tab[d] /\ tab[d] # NoFrame
  <2>1. a[d] = Path(m, root, page)[d]
    BY <1>1, <1>2, <1>3, PathShared
  <2> QED BY <2>1 DEF Made, Placed, Closed
<1>5. \A k \in d + 1 .. Levels : a[k] # NoFrame => n[a[k]] = m[a[k]]
  <2> SUFFICES ASSUME NEW k \in d + 1 .. Levels, a[k] # NoFrame PROVE n[a[k]] = m[a[k]]
    OBVIOUS
  <2>1. k \in 1 .. Levels /\ k # d
    BY <1>1, Shape
  <2>2. a[k] \in DOMAIN pl
    BY <2>1, PathPlace
  <2>3. a[k] # tab[d]
    BY <1>1, <1>4, <2>1, OnePlaceEach
  <2> QED BY <2>2, <2>3 DEF Made, Placed, Closed
<1>6. b[d] = tab[d]
  <2>1. \A k \in d .. Levels : b[k] = a[k]
    BY <1>1, <1>5, SamePath
  <2> QED BY <1>1, <1>4, <2>1
<1>7. Filled(m, n, tab, page, f, target, d)
  BY MadeEntries, Zenon
<1>8. \A k \in 1 .. Levels - 1 : b[k] = Under(n, b[k + 1], Index(p, k + 1))
  BY PathUnfold
<1> HIDE DEF a, b
<1>9. Bad = {}
  <2> SUFFICES ASSUME Bad # {} PROVE FALSE
    OBVIOUS
  <2>1. PICK k \in Bad : \A j \in Bad : j <= k
    <3>1. Bad \in SUBSET (0 .. Levels)
      BY <1>1, Shape
    <3> HIDE DEF Bad
    <3> QED BY <3>1, HighestOf
  <2>2. /\ k \in 1 .. Levels - 1 /\ k + 1 \in c .. d /\ k + 1 > k /\ k + 1 \in target .. d
        /\ k + 1 \in 1 .. Levels /\ k + 1 # target /\ (k + 1) - 1 = k /\ k \in c .. Levels
    BY <1>1, <1>6, <2>1, Shape
  <2>3. k + 1 \notin Bad
    BY <2>1, <2>2
  <2>4. b[k + 1] = tab[k + 1]
    BY <2>2, <2>3
  <2>5. Index(p, k + 1) = Index(page, k + 1)
    BY <1>2, <1>3, <2>2, SamePrefix
  <2>6. /\ n[tab[k + 1]][Index(page, k + 1)].kind = "branch"
        /\ n[tab[k + 1]][Index(page, k + 1)].frame = tab[k]
    BY <1>7, <2>2 DEF Filled
  <2>7. tab[k + 1] # NoFrame
    <3>1. k + 1 = d \/ k + 1 \in target .. d - 1
      BY <1>1, <2>2, Shape
    <3> QED BY <1>4, <3>1 DEF Made
  <2>8. b[k] = tab[k]
    BY <1>8, <2>2, <2>4, <2>5, <2>6, <2>7 DEF Under
  <2> QED BY <2>1, <2>8
<1> QED
  BY <1>4, <1>9 DEF Leads, a, b

\* The pages that were to be mapped are behind the frame they were mapped to.
LEMMA MapThere ==
    ASSUME NEW m, NEW n, NEW pl, NEW tab, NEW root, NEW page \in Pages, NEW f \in Nat,
           NEW target \in 1 .. Levels, NEW d, Placed(m, pl), RootAt(pl, root),
           Made(m, n, pl, tab, root, page, f, target, d),
           NEW p \in Pages, Prefix(p, target - 1) = Prefix(page, target - 1),
           NEW hard \in BOOLEAN
    PROVE  Frame(n, root, p, hard) = IF hard /\ Refused(n, root, p, target) THEN NoFrame
                                     ELSE Behind(Leaf(f), target, p)
<1>1. /\ target \in target .. d /\ target - 1 \in 0 .. Levels
      /\ target \in target - 1 .. Levels /\ p \in Nat /\ page \in Nat
  <2>1. d \in target .. Levels
    BY DEF Made
  <2> QED BY <2>1, PrefixEnds, Shape
<1>2. Prefix(p, target) = Prefix(page, target) /\ Index(p, target) = Index(page, target)
  BY <1>1, SamePrefix
<1>3. Path(n, root, p)[target] = tab[target]
  <2>1. Leads(n, root, p, tab, target, d)
    BY <1>1, <1>2, MapPath
  <2> QED BY <1>1, <2>1 DEF Leads
<1>4. n[tab[target]][Index(page, target)] = Leaf(f)
  <2>1. Filled(m, n, tab, page, f, target, d)
    BY MadeEntries, Zenon
  <2> QED BY <1>1, <2>1 DEF Filled
<1>5. PICK q : Placed(n, q) /\ Extends(q, pl, tab, root, page, target, d)
  BY MapPlaced
<1> DEFINE S == DOMAIN q
<1>6. Closed(n, S) /\ root \in S
  BY <1>5 DEF Placed, RootAt, Extends
<1>7. tab[target] # NoFrame
  <2>1. target \in target .. d - 1 \/ target = d
    BY <1>1 DEF Made
  <2> QED BY <2>1 DEF Made, Placed, Closed
<1> HIDE DEF S
<1>8. Deepest(n, root, p, 1) = target
  BY <1>1, <1>2, <1>3, <1>4, <1>6, <1>7, LowestTable DEF Leaf
<1>9. Leaf(f).kind = "leaf"
  BY DEF Leaf
<1> QED
  BY <1>1, <1>2, <1>3, <1>4, <1>6, <1>8, <1>9, FrameIs

\* No other page of any root is behind another frame than before.
LEMMA MapElsewhere ==
    ASSUME NEW m, NEW n, NEW pl, NEW tab, NEW root, NEW page \in Pages, NEW f \in Nat,
           NEW target \in 1 .. Levels, NEW d, Placed(m, pl), RootAt(pl, root),
           Made(m, n, pl, tab, root, page, f, target, d),
           NEW r, RootAt(pl, r), NEW p \in Pages, NEW hard \in BOOLEAN,
           r # root \/ Prefix(p, target - 1) # Prefix(page, target - 1)
    PROVE  Frame(n, r, p, hard) = Frame(m, r, p, hard)
<1> DEFINE a == Path(m, r, p)
<1>1. /\ d \in target .. Levels /\ d \in 1 .. Levels /\ target \in Nat
      /\ p \in Nat /\ page \in Nat
  <2>1. d \in target .. Levels
    BY DEF Made
  <2> QED BY <2>1, PrefixEnds, Shape
<1>2. /\ Filled(m, n, tab, page, f, target, d)
      /\ Path(m, root, page)[d] = tab[d] /\ tab[d] \in DOMAIN pl /\ tab[d] # NoFrame
      /\ \A t \in DOMAIN pl : t # tab[d] => n[t] = m[t]
  <2>1. Filled(m, n, tab, page, f, target, d)
    BY MadeEntries, Zenon
  <2> QED BY <2>1 DEF Made, Placed, Closed
<1>3. PICK q : Placed(n, q) /\ Extends(q, pl, tab, root, page, target, d)
  BY MapPlaced
<1> DEFINE S == DOMAIN pl
           T == DOMAIN q
<1>4. Closed(m, S) /\ Closed(n, T) /\ r \in S \cap T
  BY <1>3 DEF Placed, RootAt, Extends
<1> HIDE DEF S, T
\* The page shares a table that was claimed: nothing was, and nothing is, behind it.
<1>5. CASE r = root /\ d > target /\ Prefix(p, d - 1) = Prefix(page, d - 1)
  <2> DEFINE K == {k \in target .. d - 1 : Prefix(p, k) = Prefix(page, k)}
  <2>1. PICK c \in K : \A k \in K : c <= k
    <3>1. d - 1 \in target .. d - 1
      BY <1>1, <1>5
    <3>2. K \in SUBSET Nat /\ K # {}
      BY <1>1, <1>5, <3>1, Shape
    <3> HIDE DEF K
    <3> QED BY <3>2, LeastOf
  <2>2. /\ c \in target .. d - 1 /\ c \in target .. d /\ c \in 1 .. Levels /\ c # d
        /\ Prefix(p, c) = Prefix(page, c) /\ c \in c .. d
    BY <1>1, <2>1, Shape
  <2>3. Path(m, root, p)[d] = tab[d] /\ Leads(n, root, p, tab, c, d)
    BY <2>2, MapPath
  <2>4. Index(p, c) # Index(page, c)
    <3> SUFFICES ASSUME Index(p, c) = Index(page, c) PROVE FALSE
      OBVIOUS
    <3>1. Prefix(p, c - 1) = Prefix(page, c - 1)
      BY <1>1, <2>2, SamePrefix
    <3>2. c # target
      BY <1>5, <3>1
    <3>3. c - 1 \in target .. d - 1 /\ ~(c <= c - 1)
      BY <1>1, <2>2, <3>2, Shape
    <3>4. c - 1 \in K
      BY <3>1, <3>3
    <3> QED BY <2>1, <3>3, <3>4
  <2>5. Path(n, root, p)[c] = tab[c] /\ tab[c] # NoFrame
    BY <2>2, <2>3 DEF Leads, Made
  <2>6. n[tab[c]][Index(p, c)] = NoEntry
    <3>1. Index(p, c) \in Slots \ {Index(page, c)}
      BY <1>1, <2>2, <2>4, PrefixStep
    <3> QED BY <1>2, <2>2, <3>1 DEF Filled
  <2>7. Deepest(n, root, p, 1) = c
    BY <1>1, <1>4, <1>5, <2>2, <2>5, <2>6, LowestTable DEF NoEntry
  <2>8. Frame(n, root, p, hard) = NoFrame
    BY <1>1, <1>4, <1>5, <2>5, <2>6, <2>7, FrameIs DEF NoEntry
  <2>9. Index(p, d) = Index(page, d)
    BY <1>1, <1>5, SamePrefix
  <2>10. m[tab[d]][Index(page, d)].kind = "none"
    BY <1>5 DEF Made
  <2>11. Deepest(m, root, p, 1) = d
    BY <1>1, <1>2, <1>4, <1>5, <2>3, <2>9, <2>10, LowestTable
  <2>12. Frame(m, root, p, hard) = NoFrame
    BY <1>1, <1>4, <1>5, <2>3, <2>9, <2>10, <2>11, FrameIs
  <2> QED BY <1>5, <2>8, <2>12
\* It does not: its walk meets the same entries.
<1>6. CASE ~(r = root /\ d > target /\ Prefix(p, d - 1) = Prefix(page, d - 1))
  <2>1. ASSUME NEW k \in 1 .. Levels, a[k] # NoFrame
        PROVE  n[a[k]][Index(p, k)] = m[a[k]][Index(p, k)]
    <3>1. a[k] \in DOMAIN pl
      BY <2>1, PathPlace
    <3>2. CASE a[k] # tab[d]
      BY <1>2, <3>1, <3>2
    <3>3. CASE a[k] = tab[d]
      <4>1. r = root /\ k = d /\ Prefix(p, k) = Prefix(page, d)
        BY <1>1, <1>2, <2>1, <3>3, OnePlaceEach
      <4>2. Index(p, d) # Index(page, d)
        <5> SUFFICES ASSUME Index(p, d) = Index(page, d) PROVE FALSE
          OBVIOUS
        <5>1. Prefix(p, d - 1) = Prefix(page, d - 1)
          BY <1>1, <4>1, SamePrefix
        <5>2. d = target
          BY <1>1, <1>6, <4>1, <5>1
        <5> QED BY <4>1, <5>1, <5>2
      <4>3. Index(p, d) \in Slots \ {Index(page, d)} /\ d \in target .. d
        BY <1>1, <4>2, PrefixStep
      <4> QED BY <1>2, <3>3, <4>1, <4>3 DEF Filled
    <3> QED BY <3>2, <3>3
  <2> QED BY <1>1, <1>4, <2>1, SameWalk
<1> QED
  BY <1>5, <1>6

-----------------------------------------------------------------------------
(* unmap *)

\* What unmap has done to t, the table of level 1 the page is in.
Unmade(m, n, pl, root, page, t) ==
    /\ t = Path(m, root, page)[1]
    /\ t \in DOMAIN pl /\ t \in DOMAIN m /\ t # NoFrame
    /\ pl[t] = Place(root, 1, Prefix(page, 1))
    /\ m[t][Index(page, 1)].kind = "leaf"
    /\ DOMAIN n = DOMAIN m
    /\ n[t] = [m[t] EXCEPT ![Index(page, 1)] = NoEntry]
    /\ \A s \in DOMAIN m \ {t} : n[s] = m[s]

LEMMA UnmapMakes ==
    ASSUME NEW m, NEW pl, Placed(m, pl), NEW root, RootAt(pl, root), NEW page \in Pages,
           ~UnmapPanics(m, root, page)
    PROVE  Unmade(m, UnmapIn(m, root, page), pl, root, page, Path(m, root, page)[1])
<1> DEFINE t == Path(m, root, page)[1]
           n == UnmapIn(m, root, page)
<1>1. t # NoFrame /\ m[t][Index(page, 1)].kind = "leaf"
  BY DEF UnmapPanics
<1>2. 1 \in 1 .. Levels
  BY Shape
<1>3. t \in DOMAIN pl /\ pl[t] = Place(root, 1, Prefix(page, 1))
  BY <1>1, <1>2, PathPlace
<1>4. t \in DOMAIN m
  BY <1>3 DEF Placed, Closed
<1>5. n = [m EXCEPT ![t][Index(page, 1)] = NoEntry]
  BY DEF UnmapIn
<1> HIDE DEF t, n
<1>6. DOMAIN n = DOMAIN m
  BY <1>5
<1>7. n[t] = [m[t] EXCEPT ![Index(page, 1)] = NoEntry] /\ \A s \in DOMAIN m \ {t} : n[s] = m[s]
  BY <1>4, <1>5
<1> QED
  BY <1>1, <1>3, <1>4, <1>6, <1>7 DEF Unmade, t, n

Emptied(m, n, t, i) ==
    /\ n[t][i] = NoEntry
    /\ \A j \in Slots \ {i} : n[t][j] = m[t][j]

LEMMA UnmapPlaced ==
    ASSUME NEW m, NEW n, NEW pl, Placed(m, pl), NEW root, RootAt(pl, root),
           NEW page \in Pages, NEW t, Unmade(m, n, pl, root, page, t)
    PROVE  Placed(n, pl) /\ Emptied(m, n, t, Index(page, 1))
<1>1. Closed(m, DOMAIN pl) /\ t \in DOMAIN pl /\ Index(page, 1) \in Slots
  <2>1. 1 \in 1 .. Levels /\ page \in Nat
    BY PrefixEnds, Shape
  <2> QED BY <2>1, PrefixStep DEF Placed, Unmade
<1>2. m[t] \in [Slots -> Entry]
  BY <1>1 DEF Closed
<1>3. n[t] = [m[t] EXCEPT ![Index(page, 1)] = NoEntry]
  BY DEF Unmade
<1>4. NoEntry \in Entry
  BY DEF NoEntry, Entry, NoFrame
<1>5. /\ n[t] \in [Slots -> Entry]
      /\ n[t][Index(page, 1)] = NoEntry
      /\ \A i \in Slots \ {Index(page, 1)} : n[t][i] = m[t][i]
  BY <1>1, <1>2, <1>3, <1>4
<1>6. \A s \in DOMAIN pl \ {t} : n[s] = m[s]
  BY <1>1 DEF Unmade, Closed
<1>7. \A s \in DOMAIN pl, i \in Slots : n[s][i].kind = "branch" => n[s][i] = m[s][i]
  BY <1>5, <1>6 DEF NoEntry
<1>8. \A s \in DOMAIN pl : n[s] \in [Slots -> Entry]
  BY <1>1, <1>5, <1>6 DEF Closed
<1>9. Closed(n, DOMAIN pl)
  BY <1>1, <1>7, <1>8 DEF Closed, Unmade
<1> QED
  BY <1>5, <1>7, <1>9 DEF Placed, Emptied

\* The frame that is given back is the one the leaf led to.
LEMMA UnmapFrame ==
    ASSUME NEW m, NEW n, NEW pl, Placed(m, pl), NEW root, RootAt(pl, root),
           NEW page \in Pages, NEW t, Unmade(m, n, pl, root, page, t)
    PROVE  virt_to_phys(m, root, page) = m[t][Index(page, 1)].frame
<1> DEFINE S == DOMAIN pl
           e == m[t][Index(page, 1)]
<1>1. Closed(m, S) /\ root \in S
  BY DEF Placed, RootAt
<1>2. /\ t = Path(m, root, page)[1] /\ t # NoFrame /\ e.kind = "leaf"
      /\ 1 \in 1 .. Levels /\ page \in Nat
  BY PrefixEnds, Shape DEF Unmade
<1>3. e.frame \in Nat
  <2>1. t \in S /\ Index(page, 1) \in Slots
    BY <1>2, PrefixStep DEF Unmade
  <2>2. e \in Entry
    BY <1>1, <2>1 DEF Closed
  <2> QED BY <2>2 DEF Entry
<1> HIDE DEF S
<1>4. Deepest(m, root, page, 1) = 1
  BY <1>1, <1>2, LowestTable
<1>5. Frame(m, root, page, FALSE) = Behind(e, 1, page)
  BY <1>1, <1>2, <1>4, FrameIs
<1>6. Span(1) = 1
  BY PowerFacts DEF Span
<1> HIDE DEF e
<1>7. Behind(e, 1, page) = e.frame
  BY <1>2, <1>3, <1>6 DEF Behind
<1> QED
  BY <1>5, <1>7 DEF virt_to_phys, e

\* The page is behind no frame any more, and no other page of any root notices.
LEMMA UnmapWalks ==
    ASSUME NEW m, NEW n, NEW pl, Placed(m, pl), NEW root, RootAt(pl, root),
           NEW page \in Pages, NEW t, Unmade(m, n, pl, root, page, t),
           NEW r, RootAt(pl, r), NEW p \in Pages, NEW hard \in BOOLEAN
    PROVE  Frame(n, r, p, hard) = IF r = root /\ p = page THEN NoFrame ELSE Frame(m, r, p, hard)
<1> DEFINE S == DOMAIN pl
           a == Path(m, r, p)
<1>1. Closed(m, S) /\ Closed(n, S) /\ r \in S
  BY UnmapPlaced DEF Placed, RootAt
<1>2. /\ t = Path(m, root, page)[1] /\ t # NoFrame /\ t \in DOMAIN m
      /\ 1 \in 1 .. Levels /\ 1 - 1 = 0 /\ page \in Nat /\ p \in Nat
  BY PrefixEnds, Shape DEF Unmade
<1>3. /\ n[t][Index(page, 1)] = NoEntry
      /\ \A i \in Slots \ {Index(page, 1)} : n[t][i] = m[t][i]
  <2>1. Emptied(m, n, t, Index(page, 1))
    BY UnmapPlaced
  <2> QED BY <2>1 DEF Emptied
<1>4. \A s \in S \ {t} : n[s] = m[s]
  BY <1>1 DEF Unmade, Closed
<1> HIDE DEF S
<1>5. ASSUME NEW k \in 1 .. Levels, a[k] # NoFrame, a[k] = t
      PROVE  r = root /\ k = 1 /\ Prefix(p, 1) = Prefix(page, 1)
  BY <1>2, <1>5, OnePlaceEach
<1>6. CASE r = root /\ p = page
  <2>1. \A k \in 1 + 1 .. Levels : a[k] # NoFrame => n[a[k]][Index(p, k)] = m[a[k]][Index(p, k)]
    <3> SUFFICES ASSUME NEW k \in 1 + 1 .. Levels, a[k] # NoFrame
                 PROVE  n[a[k]][Index(p, k)] = m[a[k]][Index(p, k)]
      OBVIOUS
    <3>1. k \in 1 .. Levels /\ k # 1
      BY Shape
    <3>2. a[k] \in S
      BY <3>1, PathPlace DEF S
    <3> QED BY <1>4, <1>5, <3>1, <3>2
  <2>2. Path(n, r, p)[1] = a[1]
    <3>1. \A k \in 1 .. Levels : Path(n, r, p)[k] = a[k]
      BY <1>2, <2>1, SamePath
    <3> QED BY <1>2, <3>1
  <2>3. Path(n, r, p)[1] = t
    BY <1>2, <1>6, <2>2
  <2>4. Deepest(n, r, p, 1) = 1
    BY <1>1, <1>2, <1>3, <1>6, <2>3, LowestTable DEF NoEntry
  <2> QED BY <1>1, <1>2, <1>3, <1>6, <2>3, <2>4, FrameIs DEF NoEntry
<1>7. CASE ~(r = root /\ p = page)
  <2>1. ASSUME NEW k \in 1 .. Levels, a[k] # NoFrame
        PROVE  n[a[k]][Index(p, k)] = m[a[k]][Index(p, k)]
    <3>1. a[k] \in S
      BY <2>1, PathPlace DEF S
    <3>2. CASE a[k] # t
      BY <1>4, <3>1, <3>2
    <3>3. CASE a[k] = t
      <4>1. r = root /\ k = 1 /\ Prefix(p, 1) = Prefix(page, 1)
        BY <1>5, <2>1, <3>3
      <4>2. Index(p, 1) # Index(page, 1)
        <5> SUFFICES ASSUME Index(p, 1) = Index(page, 1) PROVE FALSE
          OBVIOUS
        <5>1. Prefix(p, 0) = Prefix(page, 0)
          BY <1>2, <4>1, SamePrefix
        <5> QED BY <1>2, <1>7, <4>1, <5>1, PrefixEnds
      <4>3. Index(p, 1) \in Slots \ {Index(page, 1)}
        BY <1>2, <4>2, PrefixStep
      <4> QED BY <1>3, <3>3, <4>1, <4>3
    <3> QED BY <3>2, <3>3
  <2>2. r \in S \cap S
    BY <1>1
  <2>3. Frame(n, r, p, hard) = Frame(m, r, p, hard)
    BY <1>1, <1>2, <2>1, <2>2, SameWalk
  <2> QED BY <1>7, <2>3
<1> QED
  BY <1>6, <1>7

-----------------------------------------------------------------------------
(* clone_table_range *)

\* The order in which tables are claimed is an order: each rank up to their
\* number is the rank of one of them.
Ranked(nodes) ==
    /\ \A n \in nodes : Rank(nodes, n) \in 1 .. Cardinality(nodes)
    /\ \A n, o \in nodes : Rank(nodes, n) = Rank(nodes, o) => n = o
    /\ \A i \in 1 .. Cardinality(nodes) : \E n \in nodes : Rank(nodes, n) = i

LEMMA RanksOnce ==
    ASSUME NEW nodes \in SUBSET (Nat \X Nat), IsFiniteSet(nodes)
    PROVE  Ranked(nodes)
<1> DEFINE Earlier(n) == {o \in nodes : o[2] < n[2] \/ (o[2] = n[2] /\ o[1] > n[1])}
           c == Cardinality(nodes)
           rank == [n \in nodes |-> Rank(nodes, n)]
<1>1. c \in Nat
  BY FS_CardinalityType
<1>2. \A n \in nodes : n[1] \in Nat /\ n[2] \in Nat /\ n = <<n[1], n[2]>>
  OBVIOUS
<1>3. \A n \in nodes : IsFiniteSet(Earlier(n)) /\ Cardinality(Earlier(n)) \in Nat
  <2> SUFFICES ASSUME NEW n \in nodes
               PROVE  IsFiniteSet(Earlier(n)) /\ Cardinality(Earlier(n)) \in Nat
    OBVIOUS
  <2>1. Earlier(n) \in SUBSET nodes
    OBVIOUS
  <2> HIDE DEF Earlier
  <2>2. IsFiniteSet(Earlier(n))
    BY <2>1, FS_Subset
  <2> QED BY <2>2, FS_CardinalityType
<1>4. \A n \in nodes : Rank(nodes, n) = 1 + Cardinality(Earlier(n))
  BY DEF Rank
<1>5. \A n \in nodes : Cardinality(Earlier(n)) <= c - 1
  <2> SUFFICES ASSUME NEW n \in nodes PROVE Cardinality(Earlier(n)) <= c - 1
    OBVIOUS
  <2>1. n \notin Earlier(n)
    BY <1>2
  <2>2. Earlier(n) \in SUBSET (nodes \ {n})
    BY <2>1
  <2>3. IsFiniteSet(nodes \ {n}) /\ Cardinality(nodes \ {n}) = c - 1
    BY FS_RemoveElement
  <2> HIDE DEF Earlier
  <2>4. Cardinality(Earlier(n)) <= Cardinality(nodes \ {n})
    BY <2>2, <2>3, FS_Subset
  <2> QED BY <2>3, <2>4
<1>6. ASSUME NEW n \in nodes, NEW o \in nodes, n[2] < o[2] \/ (n[2] = o[2] /\ n[1] > o[1])
      PROVE  Cardinality(Earlier(n)) < Cardinality(Earlier(o))
  <2>1. n \in Earlier(o) /\ n \notin Earlier(n)
    BY <1>2, <1>6
  <2>2. \A x \in Earlier(n) : x \in Earlier(o)
    BY <1>2, <1>6
  <2>3. Earlier(n) \cup {n} \in SUBSET Earlier(o)
    BY <2>1, <2>2
  <2>4. IsFiniteSet(Earlier(n)) /\ IsFiniteSet(Earlier(o)) /\ Cardinality(Earlier(n)) \in Nat
        /\ Cardinality(Earlier(o)) \in Nat
    BY <1>3
  <2> HIDE DEF Earlier
  <2>5. Cardinality(Earlier(n) \cup {n}) = Cardinality(Earlier(n)) + 1
    BY <2>1, <2>4, FS_AddElement
  <2>6. Cardinality(Earlier(n) \cup {n}) <= Cardinality(Earlier(o))
    BY <2>3, <2>4, FS_Subset
  <2> QED BY <2>4, <2>5, <2>6
<1> HIDE DEF Earlier
<1>7. \A n \in nodes : Rank(nodes, n) \in 1 .. c
  BY <1>1, <1>3, <1>4, <1>5
<1>8. \A n, o \in nodes : Rank(nodes, n) = Rank(nodes, o) => n = o
  <2> SUFFICES ASSUME NEW n \in nodes, NEW o \in nodes, n # o
               PROVE  Rank(nodes, n) # Rank(nodes, o)
    OBVIOUS
  <2>1. \/ n[2] < o[2] \/ (n[2] = o[2] /\ n[1] > o[1])
        \/ o[2] < n[2] \/ (o[2] = n[2] /\ o[1] > n[1])
    BY <1>2
  <2>2. Cardinality(Earlier(n)) # Cardinality(Earlier(o))
    BY <1>3, <1>6, <2>1
  <2> QED BY <1>3, <1>4, <2>2
<1>9. rank \in Injection(nodes, 1 .. c)
  <2>1. rank \in [nodes -> 1 .. c]
    BY <1>7
  <2>2. \A n, o \in nodes : rank[n] = rank[o] => n = o
    BY <1>8
  <2> HIDE DEF rank
  <2> QED BY <2>1, <2>2, Zenon DEF Injection, IsInjective
<1>10. IsFiniteSet(1 .. c) /\ Cardinality(1 .. c) = c
  BY <1>1, FS_Interval
<1>11. rank \in Surjection(nodes, 1 .. c)
  <2> HIDE DEF rank
  <2> QED BY <1>9, <1>10, FS_Injection
<1>12. \A i \in 1 .. c : \E n \in nodes : rank[n] = i
  <2> HIDE DEF rank
  <2> QED BY <1>11, Zenon DEF Surjection
<1> QED
  BY <1>7, <1>8, <1>12 DEF Ranked

\* The first page under entry i of the table at level l that begins with page b.
FirstUnder(b, i, l, c) ==
    /\ c \in Pages
    /\ c % Power[l - 1] = 0
    /\ Prefix(c, l) = Prefix(b, l) /\ Index(c, l) = i

LEMMA ChildPage ==
    ASSUME NEW l \in 1 .. Levels, NEW b \in Pages, b % Power[l] = 0, NEW i \in Slots
    PROVE  FirstUnder(b, i, l, b + i * Span(l))
<1> DEFINE P == Power[l - 1]
           Q == Power[l]
           q == b \div Q
           c == b + i * P
<1>1. /\ l - 1 \in 0 .. Levels /\ l \in 0 .. Levels /\ Levels \in l .. Levels
      /\ Levels \in 0 .. Levels
      /\ P \in Nat /\ P > 0 /\ Q \in Nat /\ Q > 0 /\ Q = Fan * P
  <2>1. l - 1 \in 0 .. Levels /\ l \in 0 .. Levels /\ Levels \in l .. Levels
        /\ Levels \in 0 .. Levels
    BY Shape
  <2> QED BY <2>1, PowerFacts
<1>2. Fan \in Nat /\ Fan > 0 /\ i \in Nat /\ i < Fan /\ b \in Nat
  BY Shape, PrefixEnds DEF Slots
<1>3. q \in Nat /\ b = Q * q
  <2>1. b % Q = 0
    OBVIOUS
  <2>2. Q \in Nat /\ Q > 0 /\ b \in Nat
    BY <1>1, <1>2
  <2> HIDE DEF Q
  <2>3. b \div Q \in Nat /\ b = Q * (b \div Q) + (b % Q)
    BY <2>2, Division
  <2>4. Q * (b \div Q) \in Nat
    BY <2>2, <2>3
  <2> QED BY <2>1, <2>3, <2>4
<1>4. Span(l) = P
  BY DEF Span
<1> HIDE DEF P, Q
<1> DEFINE x == Fan * q + i
<1>5. x \in Nat /\ c = P * x + 0 /\ c \in Nat /\ 0 \in 0 .. P - 1
  <2>1. (Fan * P) * q = P * (Fan * q) /\ P * (Fan * q + i) = P * (Fan * q) + i * P
    BY <1>1, <1>2, <1>3
  <2>2. Fan * q \in Nat /\ i * P \in Nat /\ P * (Fan * q) \in Nat
    BY <1>1, <1>2, <1>3
  <2> QED BY <1>1, <1>2, <1>3, <2>1, <2>2
<1>6. c = Q * q + i * P /\ i * P \in 0 .. Q - 1
  <2>1. i * P \in Nat /\ P * i + P <= P * Fan /\ P * i = i * P /\ P * Fan = Fan * P
    <3>1. P * i + P <= P * Fan
      BY <1>1, <1>2, Between
    <3> QED BY <1>1, <1>2, <3>1
  <2> QED BY <1>1, <1>3, <2>1
<1> HIDE DEF q, c
<1>7. x \div Fan = q /\ x % Fan = i
  <2>1. i \in 0 .. Fan - 1 /\ x = Fan * q + i /\ x \in Nat /\ q \in Nat
    BY <1>2, <1>3, <1>5
  <2> HIDE DEF x
  <2> QED BY <1>2, <2>1, DivUnique
<1> HIDE DEF x
<1>8. c \div P = x /\ c % P = 0
  BY <1>1, <1>5, DivUnique
<1>9. c \div Q = q
  <2> DEFINE y == i * P
  <2>1. y \in 0 .. Q - 1 /\ c = Q * q + y
    BY <1>6
  <2>2. Q \in Nat /\ Q > 0 /\ q \in Nat /\ c \in Nat
    BY <1>1, <1>3, <1>5
  <2> HIDE DEF y
  <2> QED BY <2>1, <2>2, DivUnique
<1>10. Prefix(c, l) = Prefix(b, l) /\ Index(c, l) = i /\ c % Power[l - 1] = 0
  BY <1>4, <1>7, <1>8, <1>9 DEF Prefix, Index, q, P, Q
<1>11. c \in Pages
  <2>1. Prefix(c, Levels) = Prefix(b, Levels)
    BY <1>1, <1>2, <1>5, <1>10, PrefixAbove
  <2>2. Prefix(c, Levels) = 0
    BY <2>1, PrefixEnds
  <2> DEFINE R == Power[Levels]
  <2>3. R \in Nat /\ R > 0 /\ c \div R = 0
    BY <1>1, <2>2, PowerFacts DEF Prefix
  <2>4. c < R
    <3> HIDE DEF R
    <3>1. c = R * (c \div R) + (c % R) /\ c % R \in 0 .. R - 1
      BY <1>5, <2>3, Division
    <3> QED BY <2>3, <3>1
  <2> QED BY <1>5, <2>3, <2>4 DEF Pages
<1> QED
  BY <1>4, <1>10, <1>11 DEF FirstUnder, c

-----------------------------------------------------------------------------
(* clone_table_range: the copies are tables of their own, at the places of  *)
(* what they copy.                                                          *)

LEMMA BelowFinite ==
    ASSUME NEW m, NEW src, NEW slots
    PROVE  /\ Below(m, src, slots) \in SUBSET (Nat \X Nat)
           /\ IsFiniteSet(Below(m, src, slots))
<1> DEFINE L == 1 .. Levels - 1
           nodes == Below(m, src, slots)
<1>1. nodes \in SUBSET (L \X Pages)
  BY DEF Below
<1>2. Levels \in 0 .. Levels /\ Levels - 1 \in Nat
  BY Shape
<1>3. Power[Levels] \in Nat
  BY <1>2, PowerFacts
<1>4. IsFiniteSet(L) /\ IsFiniteSet(Pages)
  <2>1. \A a, z \in Int : IsFiniteSet(a .. z)
    BY FS_Interval
  <2>2. Power[Levels] - 1 \in Int /\ Levels - 1 \in Int /\ 0 \in Int /\ 1 \in Int
    BY <1>2, <1>3
  <2> QED BY <2>1, <2>2 DEF Pages
<1>5. L \subseteq Nat /\ Pages \subseteq Nat
  BY <1>2, <1>3 DEF Pages
<1> HIDE DEF L, nodes
<1>6. IsFiniteSet(L \X Pages)
  BY <1>4, FS_Product
<1>7. IsFiniteSet(nodes)
  BY <1>1, <1>6, FS_Subset
<1>8. nodes \in SUBSET (Nat \X Nat)
  BY <1>1, <1>5
<1> QED BY <1>7, <1>8 DEF nodes

\* A table met by the clone, the root included.
Met(m, src, slots, l, b) ==
    /\ l \in 1 .. Levels
    /\ b \in Pages /\ b % Power[l] = 0
    /\ l # Levels => Index(b, Levels) \in slots
    /\ Path(m, src, b)[l] # NoFrame

\* Nothing hangs below the lowest tables.
Bottomed(m, src) ==
    \A p \in Pages : Path(m, src, p)[1] # NoFrame =>
        m[Path(m, src, p)[1]][Index(p, 1)].kind # "branch"

\* A branch of a table the clone meets leads to a table it meets, too.
LEMMA ChildMet ==
    ASSUME NEW m, NEW S, Closed(m, S), NEW src \in S, NEW slots, Bottomed(m, src),
           NEW l, NEW b, Met(m, src, slots, l, b), NEW i \in Slots,
           m[Path(m, src, b)[l]][i].kind = "branch", l = Levels => i \in slots
    PROVE  /\ <<l - 1, b + i * Span(l)>> \in Below(m, src, slots)
           /\ FirstUnder(b, i, l, b + i * Span(l))
           /\ l > 1
<1> DEFINE c == b + i * Span(l)
           t == Path(m, src, b)[l]
<1>1. /\ l \in 1 .. Levels /\ b \in Pages /\ b % Power[l] = 0 /\ t # NoFrame
      /\ l # Levels => Index(b, Levels) \in slots
  BY DEF Met
<1>2. FirstUnder(b, i, l, c)
  BY <1>1, ChildPage
<1> HIDE DEF c
<1>3. /\ c \in Pages /\ c % Power[l - 1] = 0
      /\ Prefix(c, l) = Prefix(b, l) /\ Index(c, l) = i
  BY <1>2 DEF FirstUnder
<1>4. b \in Nat /\ c \in Nat /\ l \in 0 .. Levels /\ Levels \in Nat /\ Levels >= 2
  BY <1>1, <1>3, PrefixEnds, Shape
<1>5. Path(m, src, c)[l] = t
  BY <1>1, <1>3, <1>4, PathShared
<1>6. l # 1
  BY <1>1, <1>3, <1>5 DEF Bottomed
<1>7. t \in S
  BY <1>1, <1>4, <1>5, PathIn
<1>8. Path(m, src, c)[l - 1] = m[t][i].frame /\ m[t][i].frame # NoFrame
  <2>1. l - 1 \in 1 .. Levels - 1 /\ (l - 1) + 1 = l
    BY <1>1, <1>4, <1>6
  <2>2. Path(m, src, c)[l - 1] = Under(m, Path(m, src, c)[(l - 1) + 1], Index(c, (l - 1) + 1))
    BY <2>1, PathUnfold
  <2>3. Path(m, src, c)[l - 1] = Under(m, t, i)
    BY <1>3, <1>5, <2>1, <2>2
  <2>4. m[t][i].frame \in S
    BY <1>7 DEF Closed
  <2>5. m[t][i].frame # NoFrame
    BY <2>4 DEF Closed
  <2> QED BY <1>1, <2>3, <2>5 DEF Under
<1>9. Index(c, Levels) \in slots
  <2>1. CASE l = Levels
    BY <1>3, <2>1
  <2>2. CASE l # Levels
    <3>1. Levels - 1 \in l .. Levels /\ Levels \in 1 .. Levels
      BY <1>1, <1>4, <2>2
    <3>2. Prefix(c, Levels - 1) = Prefix(b, Levels - 1)
      BY <1>3, <1>4, <3>1, PrefixAbove
    <3>3. Index(c, Levels) = Index(b, Levels)
      BY <1>4, <3>1, <3>2, SamePrefix
    <3> QED BY <1>1, <2>2, <3>3
  <2> QED BY <2>1, <2>2
<1>10. l - 1 \in 1 .. Levels - 1
  BY <1>1, <1>4, <1>6
<1>11. <<l - 1, c>> \in Below(m, src, slots)
  BY <1>3, <1>8, <1>9, <1>10 DEF Below
<1> QED BY <1>1, <1>2, <1>6, <1>11 DEF c

Dup(e, copy, l, b, i) ==
    IF e.kind = "branch" THEN [e EXCEPT !.frame = copy[<<l - 1, b + i * Span(l)>>]]
    ELSE IF e.kind = "leaf" THEN e ELSE NoEntry

\* The frames claimed for a clone are as many as it takes, and new to m.
Claimed(m, new, size) ==
    /\ new \in Seq(Nat \ {NoFrame})
    /\ Len(new) = size
    /\ \A i \in DOMAIN new : new[i] \notin DOMAIN m
    /\ \A i, j \in DOMAIN new : new[i] = new[j] => i = j

Copies(nodes, new) == [o \in nodes |-> new[Rank(nodes, o)]]

Fresh(m, nodes, copy) ==
    /\ \A o \in nodes : copy[o] \in Nat \ {NoFrame} /\ copy[o] \notin DOMAIN m
    /\ \A o, u \in nodes : copy[o] = copy[u] => o = u

Fills(new, nodes, copy) == {new[i] : i \in DOMAIN new} = {copy[o] : o \in nodes}

LEMMA CopiesFresh ==
    ASSUME NEW m, NEW src, NEW slots, NEW new, Claimed(m, new, CloneSize(m, src, slots))
    PROVE  /\ Fresh(m, Below(m, src, slots), Copies(Below(m, src, slots), new))
           /\ Fills(new, Below(m, src, slots), Copies(Below(m, src, slots), new))
<1> DEFINE nodes == Below(m, src, slots)
           size == Cardinality(nodes)
           copy == Copies(nodes, new)
<1>1. nodes \in SUBSET (Nat \X Nat) /\ IsFiniteSet(nodes)
  BY BelowFinite
<1>2. size \in Nat
  BY <1>1, FS_CardinalityType
<1>3. CloneSize(m, src, slots) = size
  BY DEF CloneSize
<1> HIDE DEF nodes
<1>4. Ranked(nodes)
  BY <1>1, RanksOnce
<1>5. /\ \A o \in nodes : Rank(nodes, o) \in 1 .. size
      /\ \A o, u \in nodes : Rank(nodes, o) = Rank(nodes, u) => o = u
      /\ \A i \in 1 .. size : \E o \in nodes : Rank(nodes, o) = i
  BY <1>4 DEF Ranked
<1> HIDE DEF size
<1>6. DOMAIN new = 1 .. size /\ \A i \in 1 .. size : new[i] \in Nat \ {NoFrame}
  BY <1>2, <1>3 DEF Claimed
<1>7. \A o \in nodes : copy[o] = new[Rank(nodes, o)]
  BY DEF Copies
<1> HIDE DEF copy
<1>8. Fresh(m, nodes, copy)
  BY <1>5, <1>6, <1>7 DEF Fresh, Claimed
<1>9. Fills(new, nodes, copy)
  BY <1>5, <1>6, <1>7 DEF Fills
<1> QED BY <1>8, <1>9 DEF nodes, copy

\* What a clone leaves: n is m with copies of the nodes, and dest filled in.
Cloned(m, n, src, dest, slots, nodes, copy) ==
    /\ Fresh(m, nodes, copy)
    /\ DOMAIN n = DOMAIN m \cup {copy[o] : o \in nodes}
    /\ \A t \in DOMAIN m \ {dest} : n[t] = m[t]
    /\ n[dest] = [i \in Slots |-> IF i \in slots THEN Dup(m[src][i], copy, Levels, 0, i)
                                  ELSE m[dest][i]]
    /\ \A o \in nodes :
          n[copy[o]] = [i \in Slots |->
                          Dup(m[Path(m, src, o[2])[o[1]]][i], copy, o[1], o[2], i)]

Clonable(m, S, src, dest, slots) ==
    /\ Closed(m, S) /\ src \in S /\ Bottomed(m, src)
    /\ slots \subseteq Slots
    /\ dest \in DOMAIN m \ S

LEMMA NodeMet ==
    ASSUME NEW m, NEW src, NEW slots, NEW o \in Below(m, src, slots)
    PROVE  Met(m, src, slots, o[1], o[2]) /\ o = <<o[1], o[2]>> /\ o[1] # Levels
<1>1. /\ o[1] \in 1 .. Levels - 1 /\ o[2] \in Pages
      /\ o[2] % Power[o[1]] = 0
      /\ Index(o[2], Levels) \in slots
      /\ Path(m, src, o[2])[o[1]] # NoFrame
      /\ o = <<o[1], o[2]>>
  BY DEF Below
<1>2. o[1] \in 1 .. Levels /\ o[1] # Levels
  BY <1>1, Shape
<1> QED BY <1>1, <1>2 DEF Met

LEMMA RootMet ==
    ASSUME NEW m, NEW src, src # NoFrame, NEW slots
    PROVE  Met(m, src, slots, Levels, 0) /\ Path(m, src, 0)[Levels] = src
<1>1. Levels \in 1 .. Levels /\ Levels \in 0 .. Levels
  BY Shape
<1>2. Power[Levels] \in Nat \ {0}
  BY <1>1, PowerFacts
<1>3. 0 \in Pages
  BY <1>2 DEF Pages
<1>4. 0 % Power[Levels] = 0
  <2> DEFINE P == Power[Levels]
  <2>1. P \in Nat /\ P > 0
    BY <1>2
  <2> HIDE DEF P
  <2>2. 0 % P = 0
    BY <2>1, Division
  <2> QED BY <2>2 DEF P
<1>5. Path(m, src, 0)[Levels] = src
  BY PathUnfold
<1> QED BY <1>1, <1>3, <1>4, <1>5 DEF Met

LEMMA CopiedIs ==
    ASSUME NEW m, NEW S, NEW src, NEW dest, NEW slots, Clonable(m, S, src, dest, slots),
           NEW new, NEW l, NEW b, Met(m, src, slots, l, b), NEW i \in Slots,
           l = Levels => i \in slots
    PROVE  Copied(m, Below(m, src, slots), new, Path(m, src, b)[l], l, b)[i]
             = Dup(m[Path(m, src, b)[l]][i], Copies(Below(m, src, slots), new), l, b, i)
<1> DEFINE nodes == Below(m, src, slots)
           copy == Copies(nodes, new)
           t == Path(m, src, b)[l]
           c == <<l - 1, b + i * Span(l)>>
<1>1. CASE m[t][i].kind = "branch"
  <2>1. c \in nodes
    BY <1>1, ChildMet DEF Clonable
  <2> HIDE DEF nodes, c
  <2>2. copy[c] = new[Rank(nodes, c)]
    BY <2>1 DEF Copies
  <2> HIDE DEF copy, t
  <2>3. Dup(m[t][i], copy, l, b, i) = [m[t][i] EXCEPT !.frame = copy[c]]
    BY <1>1 DEF Dup, c
  <2>4. Copied(m, nodes, new, t, l, b)[i] = [m[t][i] EXCEPT !.frame = new[Rank(nodes, c)]]
    BY <1>1 DEF Copied, c
  <2> QED BY <2>2, <2>3, <2>4 DEF nodes, copy, t
<1>2. CASE m[t][i].kind # "branch"
  <2> HIDE DEF nodes, copy, t
  <2>1. Dup(m[t][i], copy, l, b, i) = IF m[t][i].kind = "leaf" THEN m[t][i] ELSE NoEntry
    BY <1>2 DEF Dup
  <2>2. Copied(m, nodes, new, t, l, b)[i] = IF m[t][i].kind = "leaf" THEN m[t][i] ELSE NoEntry
    BY <1>2 DEF Copied
  <2> QED BY <2>1, <2>2 DEF nodes, copy, t
<1> QED BY <1>1, <1>2

LEMMA CloneMakes ==
    ASSUME NEW m, NEW S, NEW src, NEW dest, NEW slots, Clonable(m, S, src, dest, slots),
           NEW new, Claimed(m, new, CloneSize(m, src, slots))
    PROVE  Cloned(m, clone_table_range(m, new, src, dest, slots), src, dest, slots,
                  Below(m, src, slots), Copies(Below(m, src, slots), new))
<1> DEFINE nodes == Below(m, src, slots)
           copy == Copies(nodes, new)
           n == clone_table_range(m, new, src, dest, slots)
           at(o) == Path(m, src, o[2])[o[1]]
<1>1. Fresh(m, nodes, copy) /\ {new[i] : i \in DOMAIN new} = {copy[o] : o \in nodes}
  <2>1. Fresh(m, nodes, copy) /\ Fills(new, nodes, copy)
    BY CopiesFresh
  <2> QED BY <2>1 DEF Fills
<1>2. \A o \in nodes : Met(m, src, slots, o[1], o[2]) /\ o[1] # Levels
  BY NodeMet
<1>3. /\ slots \subseteq Slots /\ dest \in DOMAIN m /\ dest \notin S /\ src \in S
      /\ src # NoFrame
  BY DEF Clonable, Closed
<1>4. Met(m, src, slots, Levels, 0) /\ Path(m, src, 0)[Levels] = src
  BY <1>3, RootMet
<1>5. \A i \in Slots \cap slots :
         Copied(m, nodes, new, src, Levels, 0)[i] = Dup(m[src][i], copy, Levels, 0, i)
  BY <1>4, CopiedIs
<1>6. \A o \in nodes, i \in Slots :
         Copied(m, nodes, new, at(o), o[1], o[2])[i] = Dup(m[at(o)][i], copy, o[1], o[2], i)
  BY <1>2, CopiedIs
<1>7. n = [t \in DOMAIN m \cup {new[i] : i \in DOMAIN new} |->
            IF t = dest
              THEN [i \in Slots |-> IF i \in slots THEN Copied(m, nodes, new, src, Levels, 0)[i]
                                    ELSE m[dest][i]]
            ELSE IF \E o \in nodes : new[Rank(nodes, o)] = t
              THEN LET o == CHOOSE o \in nodes : new[Rank(nodes, o)] = t
                   IN Copied(m, nodes, new, at(o), o[1], o[2])
              ELSE m[t]]
  BY DEF clone_table_range
<1>8. \A o \in nodes : copy[o] = new[Rank(nodes, o)]
  BY DEF Copies
<1> HIDE DEF nodes, n, at, copy
<1>9. /\ \A o \in nodes : copy[o] \in Nat \ {NoFrame} /\ copy[o] \notin DOMAIN m
      /\ \A o, u \in nodes : copy[o] = copy[u] => o = u
  BY <1>1 DEF Fresh
<1>10. DOMAIN n = DOMAIN m \cup {copy[o] : o \in nodes}
  BY <1>1, <1>7
<1>11. \A t \in DOMAIN m \ {dest} : n[t] = m[t]
  <2> SUFFICES ASSUME NEW t \in DOMAIN m \ {dest} PROVE n[t] = m[t]
    OBVIOUS
  <2>1. ~ \E o \in nodes : new[Rank(nodes, o)] = t
    BY <1>8, <1>9
  <2> QED BY <1>7, <2>1
<1>12. n[dest] = [i \in Slots |-> IF i \in slots THEN Dup(m[src][i], copy, Levels, 0, i)
                                  ELSE m[dest][i]]
  <2>1. n[dest] = [i \in Slots |-> IF i \in slots THEN Copied(m, nodes, new, src, Levels, 0)[i]
                                   ELSE m[dest][i]]
    BY <1>3, <1>7
  <2> QED BY <1>5, <2>1
<1>13. \A o \in nodes : n[copy[o]] = [i \in Slots |-> Dup(m[at(o)][i], copy, o[1], o[2], i)]
  <2> SUFFICES ASSUME NEW o \in nodes
               PROVE  n[copy[o]] = [i \in Slots |-> Dup(m[at(o)][i], copy, o[1], o[2], i)]
    OBVIOUS
  <2>1. copy[o] \in DOMAIN n /\ copy[o] # dest /\ new[Rank(nodes, o)] = copy[o]
    BY <1>3, <1>8, <1>9, <1>10
  <2>2. (CHOOSE u \in nodes : new[Rank(nodes, u)] = copy[o]) = o
    BY <1>8, <1>9
  <2>3. n[copy[o]] = Copied(m, nodes, new, at(o), o[1], o[2])
    BY <1>1, <1>7, <1>10, <2>1, <2>2
  <2>4. Copied(m, nodes, new, at(o), o[1], o[2])
          = [i \in Slots |-> Copied(m, nodes, new, at(o), o[1], o[2])[i]]
    BY DEF Copied
  <2> QED BY <1>6, <2>3, <2>4
<1> QED BY <1>1, <1>10, <1>11, <1>12, <1>13 DEF Cloned, nodes, n, copy, at

\* An entry of a copy: of the kind of the entry copied, leading to a copy.
DupIs(e, d, nodes, copy, l, b, i) ==
    /\ d \in Entry
    /\ d.kind = e.kind
    /\ e.kind # "none" => d.stale = e.stale
    /\ e.kind = "leaf" => d = e
    /\ e.kind = "none" => d = NoEntry
    /\ e.kind = "branch" =>
         \E o \in nodes : /\ d.frame = copy[o] /\ l > 1
                          /\ o[1] = l - 1 /\ o[2] = b + i * Span(l)
                          /\ FirstUnder(b, i, l, o[2])

LEMMA DupFacts ==
    ASSUME NEW m, NEW S, NEW src, NEW dest, NEW slots, Clonable(m, S, src, dest, slots),
           NEW copy, Fresh(m, Below(m, src, slots), copy),
           NEW l, NEW b, Met(m, src, slots, l, b), NEW i \in Slots,
           l = Levels => i \in slots
    PROVE  DupIs(m[Path(m, src, b)[l]][i], Dup(m[Path(m, src, b)[l]][i], copy, l, b, i),
                 Below(m, src, slots), copy, l, b, i)
<1> DEFINE t == Path(m, src, b)[l]
           e == m[t][i]
           nodes == Below(m, src, slots)
           c == <<l - 1, b + i * Span(l)>>
<1>1. /\ Closed(m, S) /\ src \in S /\ Bottomed(m, src) /\ l \in 1 .. Levels
      /\ b \in Nat /\ t # NoFrame
  <2>1. l \in 1 .. Levels /\ b \in Pages /\ t # NoFrame
    BY DEF Met
  <2> QED BY <2>1, PrefixEnds DEF Clonable
<1>2. t \in S
  BY <1>1, PathIn
<1>3. e \in Entry
  BY <1>1, <1>2 DEF Closed
<1>4. e = [kind |-> e.kind, frame |-> e.frame, stale |-> e.stale]
      /\ e.kind \in {"none", "branch", "leaf"} /\ e.frame \in Nat /\ e.stale \in BOOLEAN
  BY <1>3 DEF Entry
<1>5. NoEntry \in Entry /\ NoEntry.kind = "none"
  BY DEF NoEntry, Entry, NoFrame
<1>6. CASE e.kind = "branch"
  <2>1. c \in nodes /\ FirstUnder(b, i, l, b + i * Span(l)) /\ l > 1
    BY <1>1, <1>6, ChildMet
  <2> HIDE DEF nodes
  <2>2. copy[c] \in Nat
    BY <2>1 DEF Fresh, nodes
  <2>3. c[1] = l - 1 /\ c[2] = b + i * Span(l)
    OBVIOUS
  <2> HIDE DEF c, e
  <2>4. Dup(e, copy, l, b, i) = [e EXCEPT !.frame = copy[c]]
    BY <1>6 DEF Dup, c
  <2>5. Dup(e, copy, l, b, i) = [kind |-> e.kind, frame |-> copy[c], stale |-> e.stale]
    BY <1>4, <2>4
  <2>6. Dup(e, copy, l, b, i) \in Entry
    BY <1>4, <2>2, <2>5 DEF Entry
  <2>7. FirstUnder(b, i, l, c[2])
    BY <2>1, <2>3
  <2>8. DupIs(e, Dup(e, copy, l, b, i), nodes, copy, l, b, i)
    BY <1>6, <2>1, <2>3, <2>5, <2>6, <2>7 DEF DupIs
  <2> QED BY <2>8 DEF e, nodes
<1>7. CASE e.kind # "branch"
  <2> HIDE DEF nodes, e
  <2>1. Dup(e, copy, l, b, i) = IF e.kind = "leaf" THEN e ELSE NoEntry
    BY <1>7 DEF Dup
  <2>2. DupIs(e, Dup(e, copy, l, b, i), nodes, copy, l, b, i)
    BY <1>3, <1>4, <1>5, <1>7, <2>1 DEF DupIs
  <2> QED BY <2>2 DEF e, nodes
<1> QED BY <1>6, <1>7

\* dest is a table that nothing hangs under yet.
Bare(m, pl, dest) ==
    /\ dest \in Nat \ {NoFrame}
    /\ dest \notin DOMAIN pl
    /\ m[dest] \in [Slots -> Entry]
    /\ \A i \in Slots : m[dest][i].kind = "none"

Grown(q, pl, dest, nodes, copy) ==
    /\ DOMAIN q = DOMAIN pl \cup {dest} \cup {copy[o] : o \in nodes}
    /\ \A t \in DOMAIN pl : q[t] = pl[t]
    /\ q[dest] = Place(dest, Levels, 0)
    /\ \A o \in nodes : q[copy[o]] = Place(dest, o[1], Prefix(o[2], o[1]))

LEMMA ClonePlaced ==
    ASSUME NEW m, NEW n, NEW S, NEW src, NEW dest, NEW slots,
           Clonable(m, S, src, dest, slots), NEW pl, Placed(m, pl), Bare(m, pl, dest),
           NEW copy, Cloned(m, n, src, dest, slots, Below(m, src, slots), copy)
    PROVE  \E q : Placed(n, q) /\ Grown(q, pl, dest, Below(m, src, slots), copy)
<1> DEFINE nodes == Below(m, src, slots)
           new == {copy[o] : o \in nodes}
           T == DOMAIN pl \cup {dest} \cup new
           of(t) == CHOOSE o \in nodes : copy[o] = t
           q == [t \in T |-> IF t \in DOMAIN pl THEN pl[t]
                             ELSE IF t = dest THEN Place(dest, Levels, 0)
                             ELSE Place(dest, of(t)[1], Prefix(of(t)[2], of(t)[1]))]
           at(o) == Path(m, src, o[2])[o[1]]
<1>1. /\ \A o \in nodes : copy[o] \in Nat \ {NoFrame} /\ copy[o] \notin DOMAIN m
      /\ \A o, u \in nodes : copy[o] = copy[u] => o = u
      /\ DOMAIN n = DOMAIN m \cup new
      /\ \A t \in DOMAIN m \ {dest} : n[t] = m[t]
      /\ n[dest] = [i \in Slots |-> IF i \in slots THEN Dup(m[src][i], copy, Levels, 0, i)
                                  ELSE m[dest][i]]
      /\ \A o \in nodes : n[copy[o]] = [i \in Slots |-> Dup(m[at(o)][i], copy, o[1], o[2], i)]
      /\ Fresh(m, nodes, copy)
  BY DEF Cloned, Fresh
<1>2. /\ Closed(m, DOMAIN pl) /\ pl \in [DOMAIN pl -> Places]
      /\ \A t \in DOMAIN pl, i \in Slots :
          m[t][i].kind = "branch" =>
             /\ pl[t].level > 1
             /\ pl[m[t][i].frame] = Place(pl[t].root, pl[t].level - 1, pl[t].at * Fan + i)
  BY DEF Placed
<1>3. /\ slots \subseteq Slots /\ dest \in DOMAIN m /\ src \in S /\ src # NoFrame
  BY DEF Clonable, Closed
<1>4. \A o \in nodes : Met(m, src, slots, o[1], o[2]) /\ o[1] # Levels
  BY NodeMet
<1>5. Met(m, src, slots, Levels, 0) /\ Path(m, src, 0)[Levels] = src
  BY <1>3, RootMet
<1>6. \A i \in Slots \cap slots :
         DupIs(m[src][i], Dup(m[src][i], copy, Levels, 0, i), nodes, copy, Levels, 0, i)
  BY <1>1, <1>5, DupFacts
<1>7. \A o \in nodes, i \in Slots :
         DupIs(m[at(o)][i], Dup(m[at(o)][i], copy, o[1], o[2], i), nodes, copy, o[1], o[2], i)
  BY <1>1, <1>4, DupFacts
<1>8. DOMAIN pl \subseteq DOMAIN m /\ NoFrame \notin DOMAIN pl
  BY <1>2 DEF Closed
<1>9. dest \in Nat \ {NoFrame} /\ dest \notin DOMAIN pl
      /\ m[dest] \in [Slots -> Entry] /\ \A i \in Slots : m[dest][i].kind = "none"
  BY DEF Bare
<1>10. \A o \in nodes : o[1] \in 1 .. Levels /\ o[2] \in Nat /\ Prefix(o[2], o[1]) \in Nat
  <2> SUFFICES ASSUME NEW o \in nodes
               PROVE  o[1] \in 1 .. Levels /\ o[2] \in Nat /\ Prefix(o[2], o[1]) \in Nat
    OBVIOUS
  <2>1. o[1] \in 1 .. Levels /\ o[2] \in Pages
    BY <1>4 DEF Met
  <2>2. o[2] \in Nat
    BY <2>1, PrefixEnds
  <2> QED BY <2>1, <2>2, PrefixStep
<1>11. Levels \in 1 .. Levels /\ 0 \in Pages /\ 0 \in Nat
  BY <1>5 DEF Met
<1>12. Prefix(0, Levels) = 0
  BY <1>11, PrefixEnds
<1> HIDE DEF nodes, at
<1>13. /\ \A t \in DOMAIN pl : q[t] = pl[t]
       /\ q[dest] = Place(dest, Levels, 0)
       /\ \A o \in nodes : q[copy[o]] = Place(dest, o[1], Prefix(o[2], o[1]))
       /\ DOMAIN q = T
  <2>1. \A o \in nodes : of(copy[o]) = o
    BY <1>1
  <2> HIDE DEF of
  <2>2. \A o \in nodes : copy[o] \notin DOMAIN pl /\ copy[o] # dest
    BY <1>1, <1>3, <1>8
  <2> QED BY <1>9, <2>1, <2>2
<1> HIDE DEF q
<1>14. /\ Place(dest, Levels, 0) \in Places
       /\ \A o \in nodes : Place(dest, o[1], Prefix(o[2], o[1])) \in Places
  BY <1>9, <1>10, <1>11 DEF Place, Places
<1>15. q \in [T -> Places]
  <2>1. \A t \in T : q[t] \in Places
    BY <1>2, <1>13, <1>14
  <2> QED BY <1>13, <2>1 DEF q
<1>16. ASSUME NEW l \in 1 .. Levels, NEW b, NEW i \in Slots, NEW o \in nodes,
              o[1] = l - 1, FirstUnder(b, i, l, o[2])
       PROVE  Prefix(o[2], o[1]) = Prefix(b, l) * Fan + i
  <2>1. Prefix(o[2], l) = Prefix(b, l) /\ Index(o[2], l) = i
    BY <1>16 DEF FirstUnder
  <2>2. Prefix(o[2], l - 1) = Prefix(o[2], l) * Fan + Index(o[2], l)
    BY <1>10, PrefixStep
  <2> QED BY <1>16, <2>1, <2>2
<1>17. \A i \in Slots :
          /\ n[dest][i] \in Entry
          /\ n[dest][i].kind = "branch" =>
               \E o \in nodes : /\ n[dest][i].frame = copy[o] /\ Levels > 1
                                /\ o[1] = Levels - 1
                                /\ Prefix(o[2], o[1]) = 0 * Fan + i
  <2> SUFFICES ASSUME NEW i \in Slots
               PROVE  /\ n[dest][i] \in Entry
                      /\ n[dest][i].kind = "branch" =>
                           \E o \in nodes : /\ n[dest][i].frame = copy[o] /\ Levels > 1
                                            /\ o[1] = Levels - 1
                                            /\ Prefix(o[2], o[1]) = 0 * Fan + i
    OBVIOUS
  <2>1. CASE i \in slots
    <3>1. n[dest][i] = Dup(m[src][i], copy, Levels, 0, i)
      BY <1>1, <2>1
    <3>2. DupIs(m[src][i], n[dest][i], nodes, copy, Levels, 0, i)
      BY <1>6, <2>1, <3>1
    <3> QED BY <1>11, <1>12, <1>16, <3>2 DEF DupIs
  <2>2. CASE i \notin slots
    <3>1. n[dest][i] = m[dest][i]
      BY <1>1, <2>2
    <3>2. n[dest][i] \in Entry /\ n[dest][i].kind = "none"
      BY <1>9, <3>1
    <3> QED BY <3>2
  <2> QED BY <2>1, <2>2
<1>18. \A u \in nodes, i \in Slots :
          /\ n[copy[u]][i] \in Entry
          /\ n[copy[u]][i].kind = "branch" =>
               \E o \in nodes : /\ n[copy[u]][i].frame = copy[o] /\ u[1] > 1
                                /\ o[1] = u[1] - 1
                                /\ Prefix(o[2], o[1]) = Prefix(u[2], u[1]) * Fan + i
  <2> SUFFICES ASSUME NEW u \in nodes, NEW i \in Slots
               PROVE  /\ n[copy[u]][i] \in Entry
                      /\ n[copy[u]][i].kind = "branch" =>
                           \E o \in nodes :
                              /\ n[copy[u]][i].frame = copy[o] /\ u[1] > 1
                              /\ o[1] = u[1] - 1
                              /\ Prefix(o[2], o[1]) = Prefix(u[2], u[1]) * Fan + i
    OBVIOUS
  <2>1. n[copy[u]][i] = Dup(m[at(u)][i], copy, u[1], u[2], i)
    <3>1. n[copy[u]] = [j \in Slots |-> Dup(m[at(u)][j], copy, u[1], u[2], j)]
      BY <1>1, Zenon
    <3> QED BY <3>1, Zenon
  <2>2. DupIs(m[at(u)][i], n[copy[u]][i], nodes, copy, u[1], u[2], i)
    BY <1>7, <2>1
  <2> QED BY <1>10, <1>16, <2>2 DEF DupIs
<1>19. \A t \in DOMAIN pl : n[t] = m[t]
  BY <1>1, <1>8, <1>9
<1>20. Closed(n, T)
  <2>1. T \subseteq DOMAIN n /\ NoFrame \notin T
    BY <1>1, <1>3, <1>8, <1>9
  <2>2. \A t \in T : n[t] \in [Slots -> Entry]
    <3>1. \A t \in DOMAIN pl : n[t] \in [Slots -> Entry]
      BY <1>2, <1>19 DEF Closed
    <3>2. n[dest] \in [Slots -> Entry]
      BY <1>1, <1>17
    <3>3. ASSUME NEW o \in nodes PROVE n[copy[o]] \in [Slots -> Entry]
      <4>1. n[copy[o]] = [j \in Slots |-> Dup(m[at(o)][j], copy, o[1], o[2], j)]
        BY <1>1, Zenon
      <4>2. \A j \in Slots : n[copy[o]][j] \in Entry
        BY <1>18
      <4> DEFINE e == n[copy[o]]
      <4>3. DOMAIN e = Slots /\ e = [j \in Slots |-> e[j]]
        BY <4>1, Zenon
      <4> HIDE DEF e
      <4>4. e \in [Slots -> Entry]
        BY <4>2, <4>3 DEF e
      <4> QED BY <4>4 DEF e
    <3>4. \A t \in T : t \in DOMAIN pl \/ t = dest \/ \E o \in nodes : t = copy[o]
      OBVIOUS
    <3> HIDE DEF T
    <3> QED BY <3>1, <3>2, <3>3, <3>4
  <2>3. \A t \in T, i \in Slots : n[t][i].kind = "branch" => n[t][i].frame \in T
    <3>1. \A t \in DOMAIN pl, i \in Slots : n[t][i].kind = "branch" => n[t][i].frame \in T
      BY <1>2, <1>19 DEF Closed
    <3> QED BY <1>17, <1>18, <3>1
  <2> QED BY <2>1, <2>2, <2>3 DEF Closed
<1>21. ASSUME NEW t \in T, NEW i \in Slots, n[t][i].kind = "branch"
       PROVE  /\ q[t].level > 1
              /\ q[n[t][i].frame] = Place(q[t].root, q[t].level - 1, q[t].at * Fan + i)
  <2>1. CASE t \in DOMAIN pl
    <3>1. n[t] = m[t] /\ m[t][i].frame \in DOMAIN pl
      BY <1>2, <1>19, <1>21, <2>1 DEF Closed
    <3> QED BY <1>2, <1>13, <1>21, <2>1, <3>1
  <2>2. CASE t = dest
    <3>1. PICK o \in nodes : /\ n[dest][i].frame = copy[o] /\ Levels > 1
                             /\ o[1] = Levels - 1
                             /\ Prefix(o[2], o[1]) = 0 * Fan + i
      BY <1>17, <1>21, <2>2
    <3>2. q[n[t][i].frame] = Place(dest, Levels - 1, 0 * Fan + i)
      BY <1>13, <2>2, <3>1
    <3>3. q[t].root = dest /\ q[t].level = Levels /\ q[t].at = 0
      BY <1>13, <2>2 DEF Place
    <3> QED BY <3>1, <3>2, <3>3
  <2>3. CASE \E u \in nodes : t = copy[u]
    <3>1. PICK u \in nodes : t = copy[u]
      BY <2>3
    <3>2. PICK o \in nodes : /\ n[copy[u]][i].frame = copy[o] /\ u[1] > 1
                             /\ o[1] = u[1] - 1
                             /\ Prefix(o[2], o[1]) = Prefix(u[2], u[1]) * Fan + i
      BY <1>18, <1>21, <3>1
    <3>3. q[n[t][i].frame] = Place(dest, u[1] - 1, Prefix(u[2], u[1]) * Fan + i)
      BY <1>13, <3>1, <3>2
    <3>4. q[t].root = dest /\ q[t].level = u[1] /\ q[t].at = Prefix(u[2], u[1])
      <4>1. q[t] = Place(dest, u[1], Prefix(u[2], u[1]))
        BY <1>13, <3>1
      <4> QED BY <4>1 DEF Place
    <3> QED BY <3>2, <3>3, <3>4
  <2> QED BY <1>21, <2>1, <2>2, <2>3
<1>22. Placed(n, q)
  BY <1>13, <1>15, <1>20, <1>21 DEF Placed
<1>23. Grown(q, pl, dest, nodes, copy)
  BY <1>13 DEF Grown
<1> QED BY <1>22, <1>23 DEF nodes

\* Tables that a step leaves alone translate as before.
Unchanged(m, n, U, root, page, hard) ==
    /\ Closed(n, U)
    /\ Path(n, root, page) = Path(m, root, page)
    /\ Frame(n, root, page, hard) = Frame(m, root, page, hard)

LEMMA Kept ==
    ASSUME NEW m, NEW n, NEW U, Closed(m, U), U \subseteq DOMAIN n, \A t \in U : n[t] = m[t],
           NEW root \in U, NEW page \in Nat, NEW hard \in BOOLEAN
    PROVE  Unchanged(m, n, U, root, page, hard)
<1>1. Closed(n, U)
  BY DEF Closed
<1>2. \A k \in 1 .. Levels :
        Path(m, root, page)[k] # NoFrame =>
          n[Path(m, root, page)[k]][Index(page, k)] = m[Path(m, root, page)[k]][Index(page, k)]
  BY PathIn
<1>3. root \in U \cap U
  OBVIOUS
<1>4. /\ Path(n, root, page) = Path(m, root, page)
      /\ Frame(n, root, page, hard) = Frame(m, root, page, hard)
  BY <1>1, <1>2, <1>3, SameWalk
<1> QED BY <1>1, <1>4 DEF Unchanged

\* The other slots of dest are as they were: nothing is behind them.
LEMMA CloneOutside ==
    ASSUME NEW m, NEW n, NEW src, NEW dest, NEW slots, NEW nodes, NEW copy,
           Cloned(m, n, src, dest, slots, nodes, copy), NEW pl, Bare(m, pl, dest),
           NEW U, Closed(n, U), dest \in U,
           NEW p \in Nat, Index(p, Levels) \notin slots, NEW hard \in BOOLEAN
    PROVE  Frame(n, dest, p, hard) = NoFrame
<1>1. Levels \in 1 .. Levels
  BY Shape
<1>2. Index(p, Levels) \in Slots
  BY <1>1, PrefixStep
<1>3. Path(n, dest, p)[Levels] = dest
  BY PathUnfold
<1>4. dest # NoFrame
  BY DEF Bare
<1>5. n[dest] = [i \in Slots |-> IF i \in slots THEN Dup(m[src][i], copy, Levels, 0, i)
                                  ELSE m[dest][i]]
  BY DEF Cloned
<1>6. n[dest][Index(p, Levels)] = m[dest][Index(p, Levels)]
  BY <1>2, <1>5
<1>7. n[dest][Index(p, Levels)].kind = "none"
  BY <1>2, <1>6 DEF Bare
<1>8. Deepest(n, dest, p, 1) = Levels
  BY <1>1, <1>3, <1>4, <1>7, LowestTable
<1> QED BY <1>3, <1>7, <1>8, FrameIs

\* How the walk to a page under dest follows the walk under src.
Mirrors(m, n, src, dest, slots, copy, p, k) ==
    \E b : /\ Met(m, src, slots, k, b)
           /\ Prefix(b, k) = Prefix(p, k)
           /\ Path(m, src, b)[k] = Path(m, src, p)[k]
           /\ Path(n, dest, p)[k] # NoFrame
           /\ k # Levels => Path(n, dest, p)[k] = copy[<<k, b>>]
           /\ \A i \in Slots : (k = Levels => i \in slots) =>
                n[Path(n, dest, p)[k]][i] = Dup(m[Path(m, src, p)[k]][i], copy, k, b, i)

Mirrored(m, n, src, dest, slots, copy, p, k) ==
    /\ Path(m, src, p)[k] # NoFrame => Mirrors(m, n, src, dest, slots, copy, p, k)
    /\ Path(m, src, p)[k] = NoFrame => Path(n, dest, p)[k] = NoFrame

LEMMA MirrorRoot ==
    ASSUME NEW m, NEW n, NEW S, NEW src, NEW dest, NEW slots,
           Clonable(m, S, src, dest, slots), NEW pl, Bare(m, pl, dest),
           NEW copy, Cloned(m, n, src, dest, slots, Below(m, src, slots), copy),
           NEW p \in Pages
    PROVE  Mirrored(m, n, src, dest, slots, copy, p, Levels)
<1>1. src # NoFrame /\ dest # NoFrame /\ slots \subseteq Slots
  BY DEF Clonable, Closed, Bare
<1>2. Met(m, src, slots, Levels, 0) /\ Path(m, src, 0)[Levels] = src
  BY <1>1, RootMet
<1>3. Path(m, src, p)[Levels] = src /\ Path(n, dest, p)[Levels] = dest
  BY PathUnfold
<1>4. Prefix(0, Levels) = 0 /\ Prefix(p, Levels) = 0
  BY <1>2, PrefixEnds DEF Met
<1>5. \A i \in Slots : i \in slots => n[dest][i] = Dup(m[src][i], copy, Levels, 0, i)
  BY DEF Cloned
<1>6. Mirrors(m, n, src, dest, slots, copy, p, Levels)
  BY <1>1, <1>2, <1>3, <1>4, <1>5 DEF Mirrors
<1> QED BY <1>1, <1>3, <1>6 DEF Mirrored

LEMMA MirrorStep ==
    ASSUME NEW m, NEW n, NEW S, NEW src, NEW dest, NEW slots,
           Clonable(m, S, src, dest, slots), NEW pl, Bare(m, pl, dest),
           NEW copy, Cloned(m, n, src, dest, slots, Below(m, src, slots), copy),
           NEW p \in Pages, Index(p, Levels) \in slots,
           NEW k \in 1 .. Levels - 1, Mirrored(m, n, src, dest, slots, copy, p, k + 1)
    PROVE  Mirrored(m, n, src, dest, slots, copy, p, k)
<1> DEFINE nodes == Below(m, src, slots)
           t == Path(m, src, p)[k + 1]
           u == Path(n, dest, p)[k + 1]
           i == Index(p, k + 1)
<1>1. Levels \in Nat /\ Levels >= 2 /\ p \in Nat /\ k + 1 \in 1 .. Levels /\ k \in 1 .. Levels
      /\ (k + 1) - 1 = k
  BY Shape, PrefixEnds
<1>2. Path(m, src, p)[k] = Under(m, t, i) /\ Path(n, dest, p)[k] = Under(n, u, i)
  BY <1>1, PathUnfold
<1>3. i \in Slots /\ Prefix(p, k) = Prefix(p, k + 1) * Fan + i
  BY <1>1, PrefixStep
<1>4. k + 1 = Levels => i \in slots
  OBVIOUS
<1>5. CASE t = NoFrame
  <2>1. u = NoFrame
    BY <1>5 DEF Mirrored
  <2> QED BY <1>2, <1>5, <2>1 DEF Under, Mirrored
<1>6. CASE t # NoFrame
  <2>1. Mirrors(m, n, src, dest, slots, copy, p, k + 1)
    BY <1>6 DEF Mirrored
  <2>2. PICK b : /\ Met(m, src, slots, k + 1, b)
                 /\ Prefix(b, k + 1) = Prefix(p, k + 1)
                 /\ Path(m, src, b)[k + 1] = t
                 /\ u # NoFrame
                 /\ \A j \in Slots : (k + 1 = Levels => j \in slots) =>
                      n[u][j] = Dup(m[t][j], copy, k + 1, b, j)
    BY <2>1 DEF Mirrors
  <2>3. n[u][i] = Dup(m[t][i], copy, k + 1, b, i)
    BY <1>3, <1>4, <2>2
  <2>4. Fresh(m, nodes, copy)
    BY DEF Cloned
  <2>5. DupIs(m[t][i], n[u][i], nodes, copy, k + 1, b, i)
    BY <1>3, <1>4, <2>2, <2>3, <2>4, DupFacts
  <2> HIDE DEF nodes
  <2>6. t \in S
    BY <1>1, <1>6, PathIn DEF Clonable
  <2>7. CASE m[t][i].kind = "branch"
    <3>1. PICK o \in nodes : /\ n[u][i].frame = copy[o]
                             /\ o[1] = (k + 1) - 1
                             /\ FirstUnder(b, i, k + 1, o[2])
      BY <2>5, <2>7 DEF DupIs
    <3>2. n[u][i].kind = "branch" /\ Path(n, dest, p)[k] = copy[o]
      BY <1>2, <2>2, <2>5, <2>7, <3>1 DEF DupIs, Under
    <3>3. Met(m, src, slots, o[1], o[2]) /\ o[1] = k /\ k # Levels
      BY <1>1, <3>1, NodeMet DEF nodes
    <3>4. o[2] \in Nat
      BY <3>3, PrefixEnds DEF Met
    <3>5. Prefix(o[2], k + 1) = Prefix(b, k + 1) /\ Index(o[2], k + 1) = i
      BY <3>1 DEF FirstUnder
    <3>6. Prefix(o[2], k) = Prefix(p, k)
      <4>1. Prefix(o[2], (k + 1) - 1) = Prefix(o[2], k + 1) * Fan + Index(o[2], k + 1)
        BY <1>1, <3>4, PrefixStep
      <4> QED BY <1>1, <1>3, <2>2, <3>5, <4>1
    <3>7. Path(m, src, o[2])[k] = Path(m, src, p)[k]
      <4>1. k \in 0 .. Levels /\ k >= k
        BY <1>1
      <4> QED BY <1>1, <3>4, <3>6, <4>1, PathShared
    <3>8. copy[o] # NoFrame
      BY <2>4 DEF Fresh
    <3>9. n[copy[o]] = [j \in Slots |-> Dup(m[Path(m, src, o[2])[o[1]]][j], copy, o[1], o[2], j)]
      BY DEF Cloned, nodes
    <3>10. \A j \in Slots :
             n[copy[o]][j] = Dup(m[Path(m, src, p)[k]][j], copy, k, o[2], j)
      BY <3>3, <3>7, <3>9
    <3>13. Path(n, dest, p)[k] = copy[<<k, o[2]>>]
      <4>1. o = <<o[1], o[2]>>
        BY NodeMet DEF nodes
      <4> QED BY <3>2, <3>3, <4>1
    <3>11. Mirrors(m, n, src, dest, slots, copy, p, k)
      BY <3>2, <3>3, <3>6, <3>7, <3>8, <3>10, <3>13 DEF Mirrors
    <3>12. Path(m, src, p)[k] # NoFrame
      BY <3>3, <3>7 DEF Met
    <3> QED BY <3>11, <3>12 DEF Mirrored
  <2>8. CASE m[t][i].kind # "branch"
    <3>1. n[u][i].kind # "branch"
      BY <2>5, <2>8 DEF DupIs
    <3> QED BY <1>2, <2>8, <3>1 DEF Under, Mirrored
  <2> QED BY <2>7, <2>8
<1> QED BY <1>5, <1>6

LEMMA MirrorAll ==
    ASSUME NEW m, NEW n, NEW S, NEW src, NEW dest, NEW slots,
           Clonable(m, S, src, dest, slots), NEW pl, Bare(m, pl, dest),
           NEW copy, Cloned(m, n, src, dest, slots, Below(m, src, slots), copy),
           NEW p \in Pages, Index(p, Levels) \in slots
    PROVE  \A k \in 1 .. Levels : Mirrored(m, n, src, dest, slots, copy, p, k)
<1> DEFINE ok(k) == Mirrored(m, n, src, dest, slots, copy, p, k)
           T == {k \in 1 .. Levels : ~ok(k)}
<1>1. Levels \in Nat /\ Levels >= 2
  BY Shape
<1>2. ok(Levels)
  BY MirrorRoot
<1>3. \A k \in 1 .. Levels - 1 : ok(k + 1) => ok(k)
  BY MirrorStep
<1> HIDE DEF ok
<1>4. T = {}
  <2> SUFFICES ASSUME T # {} PROVE FALSE
    OBVIOUS
  <2>1. T \in SUBSET (0 .. Levels)
    BY <1>1
  <2>2. PICK k \in T : \A j \in T : j <= k
    BY <2>1, HighestOf
  <2>3. k \in 1 .. Levels /\ ~ok(k) /\ k # Levels
    BY <1>2, <2>2
  <2>4. k \in 1 .. Levels - 1 /\ k + 1 \in 1 .. Levels /\ ~(k + 1 <= k)
    BY <1>1, <2>3
  <2>5. ok(k + 1)
    BY <2>2, <2>4
  <2> QED BY <1>3, <2>3, <2>4, <2>5
<1> QED BY <1>4 DEF ok

\* The slots cloned translate as those of src.
LEMMA CloneInside ==
    ASSUME NEW m, NEW n, NEW S, NEW src, NEW dest, NEW slots,
           Clonable(m, S, src, dest, slots), NEW pl, Bare(m, pl, dest),
           NEW copy, Cloned(m, n, src, dest, slots, Below(m, src, slots), copy),
           NEW U, Closed(n, U), dest \in U,
           NEW p \in Pages, Index(p, Levels) \in slots, NEW hard \in BOOLEAN
    PROVE  Frame(n, dest, p, hard) = Frame(m, src, p, hard)
<1> DEFINE a == Path(m, src, p)
           c == Path(n, dest, p)
           d == Deepest(m, src, p, 1)
           x(k) == m[a[k]][Index(p, k)]
           y(k) == n[c[k]][Index(p, k)]
<1>1. /\ Closed(m, S) /\ src \in S /\ Bottomed(m, src) /\ p \in Nat
      /\ Levels \in Nat /\ Levels >= 2 /\ 1 \in 1 .. Levels
  BY PrefixEnds, Shape DEF Clonable
<1>2. /\ d \in 1 .. Levels
      /\ \A k \in d .. Levels : a[k] \in S
      /\ \A k \in 1 .. d - 1 : a[k] = NoFrame
  <2>1. EndsAt(m, S, src, p, 1, d)
    BY <1>1, DeepestIs
  <2> QED BY <2>1 DEF EndsAt
<1>3. \A k \in d .. Levels : k \in 1 .. Levels /\ a[k] # NoFrame
  BY <1>1, <1>2 DEF Closed
<1>4. \A k \in d .. Levels :
         /\ c[k] # NoFrame
         /\ y(k).kind = x(k).kind
         /\ x(k).kind # "none" => y(k).stale = x(k).stale
         /\ x(k).kind = "leaf" => y(k) = x(k)
  <2> SUFFICES ASSUME NEW k \in d .. Levels
               PROVE  /\ c[k] # NoFrame
                      /\ y(k).kind = x(k).kind
                      /\ x(k).kind # "none" => y(k).stale = x(k).stale
                      /\ x(k).kind = "leaf" => y(k) = x(k)
    OBVIOUS
  <2>1. k \in 1 .. Levels /\ a[k] # NoFrame
    BY <1>3
  <2>2. Mirrors(m, n, src, dest, slots, copy, p, k)
    BY <2>1, MirrorAll DEF Mirrored
  <2>3. Index(p, k) \in Slots /\ (k = Levels => Index(p, k) \in slots)
    BY <1>1, <2>1, PrefixStep
  <2>4. PICK b : /\ Met(m, src, slots, k, b)
                 /\ Path(m, src, b)[k] = a[k]
                 /\ c[k] # NoFrame
                 /\ \A i \in Slots : (k = Levels => i \in slots) =>
                      n[c[k]][i] = Dup(m[a[k]][i], copy, k, b, i)
    BY <2>2 DEF Mirrors
  <2>5. y(k) = Dup(x(k), copy, k, b, Index(p, k))
    BY <2>3, <2>4
  <2>6. Fresh(m, Below(m, src, slots), copy)
    BY DEF Cloned
  <2>7. DupIs(x(k), y(k), Below(m, src, slots), copy, k, b, Index(p, k))
    BY <2>3, <2>4, <2>5, <2>6, DupFacts
  <2> QED BY <2>4, <2>7 DEF DupIs
<1>5. x(d).kind # "branch"
  <2>1. CASE d = 1
    BY <1>1, <1>2, <1>3, <2>1 DEF Bottomed
  <2>2. CASE d # 1
    <3>1. d - 1 \in 1 .. Levels - 1 /\ d - 1 \in 1 .. d - 1 /\ (d - 1) + 1 = d
          /\ d \in d .. Levels
      BY <1>1, <1>2, <2>2
    <3>2. a[d - 1] = Under(m, a[(d - 1) + 1], Index(p, (d - 1) + 1))
      BY <3>1, PathUnfold
    <3>3. a[d - 1] = NoFrame /\ a[d] \in S /\ a[d] # NoFrame
      BY <1>2, <1>3, <3>1
    <3>4. Index(p, d) \in Slots
      BY <1>1, <1>2, PrefixStep
    <3>5. x(d).kind = "branch" => x(d).frame \in S
      BY <1>1, <3>3, <3>4 DEF Closed
    <3> QED BY <1>1, <3>1, <3>2, <3>3, <3>5 DEF Under, Closed
  <2> QED BY <2>1, <2>2
<1>6. d \in d .. Levels
  BY <1>2
<1>7. c[d] # NoFrame /\ y(d).kind # "branch"
  BY <1>4, <1>5, <1>6
<1>8. Deepest(n, dest, p, 1) = d
  BY <1>1, <1>2, <1>7, LowestTable
<1>9. Frame(m, src, p, hard) =
        IF x(d).kind = "leaf" /\ ~(hard /\ Refused(m, src, p, d)) THEN Behind(x(d), d, p)
        ELSE NoFrame
  BY <1>1, FrameIs
<1>10. Frame(n, dest, p, hard) =
         IF y(d).kind = "leaf" /\ ~(hard /\ Refused(n, dest, p, d)) THEN Behind(y(d), d, p)
         ELSE NoFrame
  BY <1>1, <1>8, FrameIs
<1>11. \A k \in d + 1 .. Levels : y(k).stale = x(k).stale
  <2> SUFFICES ASSUME NEW k \in d + 1 .. Levels PROVE y(k).stale = x(k).stale
    OBVIOUS
  <2>1. k \in d .. Levels /\ k - 1 \in d .. Levels /\ k - 1 \in 1 .. Levels - 1 /\ (k - 1) + 1 = k
    BY <1>1, <1>2
  <2>2. a[k - 1] = Under(m, a[(k - 1) + 1], Index(p, (k - 1) + 1))
    BY <2>1, PathUnfold
  <2>3. x(k).kind = "branch"
    BY <1>3, <2>1, <2>2 DEF Under
  <2> QED BY <1>4, <2>1, <2>3
<1>12. Refused(n, dest, p, d) <=> Refused(m, src, p, d)
  BY <1>11 DEF Refused
<1>13. y(d).kind = x(d).kind /\ (x(d).kind = "leaf" => y(d) = x(d))
  BY <1>4, <1>6
<1> HIDE DEF x, y, d
<1> QED BY <1>9, <1>10, <1>12, <1>13

-----------------------------------------------------------------------------
(* Lists of frames, and their parts                                         *)

Distinct(s) == \A i, j \in DOMAIN s : s[i] = s[j] => i = j
Holds(s) == {s[i] : i \in DOMAIN s}

\* s is left of, or claimed from, a list of frames in U.
PartOf(s, list, U) == s \in Seq(U) /\ Distinct(s) /\ Holds(s) \subseteq Holds(list)

LEMMA SubSeqIs ==
    ASSUME NEW U, NEW list \in Seq(U), NEW a \in Nat \ {0}, NEW b \in Nat, b <= Len(list), a <= b + 1
    PROVE  /\ SubSeq(list, a, b) \in Seq(U)
           /\ Len(SubSeq(list, a, b)) = b - a + 1
           /\ \A k \in 1 .. b - a + 1 : SubSeq(list, a, b)[k] = list[a + k - 1]
OBVIOUS

LEMMA SubSeqPart ==
    ASSUME NEW U, NEW list \in Seq(U), Distinct(list),
           NEW a \in Nat \ {0}, NEW b \in Nat, b <= Len(list), a <= b + 1
    PROVE  /\ PartOf(SubSeq(list, a, b), list, U)
           /\ Len(SubSeq(list, a, b)) = b - a + 1
           /\ Holds(SubSeq(list, a, b)) = {list[k] : k \in a .. b}
<1> DEFINE s == SubSeq(list, a, b)
<1>1. s \in Seq(U) /\ Len(s) = b - a + 1 /\ \A k \in 1 .. b - a + 1 : s[k] = list[a + k - 1]
  BY SubSeqIs
<1>2. DOMAIN s = 1 .. b - a + 1 /\ DOMAIN list = 1 .. Len(list) /\ Len(list) \in Nat
  BY <1>1
<1> HIDE DEF s
<1>3. Holds(s) = {list[k] : k \in a .. b}
  <2>1. \A k \in 1 .. b - a + 1 : a + k - 1 \in a .. b
    OBVIOUS
  <2>2. \A k \in a .. b : k - a + 1 \in 1 .. b - a + 1 /\ a + (k - a + 1) - 1 = k
    OBVIOUS
  <2>3. Holds(s) = {s[k] : k \in 1 .. b - a + 1}
    BY <1>2 DEF Holds
  <2>4. \A k \in a .. b : list[k] \in Holds(s)
    <3> SUFFICES ASSUME NEW k \in a .. b PROVE list[k] \in Holds(s)
      OBVIOUS
    <3> DEFINE j == k - a + 1
    <3>1. j \in 1 .. b - a + 1 /\ a + j - 1 = k
      BY <2>2
    <3> HIDE DEF j
    <3> QED BY <1>1, <2>3, <3>1
  <2>5. \A k \in 1 .. b - a + 1 : s[k] \in {list[j] : j \in a .. b}
    BY <1>1, <2>1
  <2> QED BY <2>3, <2>4, <2>5
<1>4. Distinct(s)
  <2> SUFFICES ASSUME NEW i \in DOMAIN s, NEW j \in DOMAIN s, s[i] = s[j] PROVE i = j
    BY DEF Distinct
  <2>1. a + i - 1 \in DOMAIN list /\ a + j - 1 \in DOMAIN list
    BY <1>2
  <2>2. list[a + i - 1] = list[a + j - 1]
    BY <1>1, <1>2
  <2>3. a + i - 1 = a + j - 1
    BY <2>1, <2>2 DEF Distinct
  <2> QED BY <1>2, <2>3
<1>5. Holds(s) \subseteq Holds(list)
  <2>1. a .. b \subseteq DOMAIN list
    BY <1>2
  <2> QED BY <1>3, <2>1 DEF Holds
<1> QED BY <1>1, <1>3, <1>4, <1>5 DEF PartOf, s

-----------------------------------------------------------------------------
(* A root of its own: a cleared or unwiped table with another's upper half.  *)

AddTable(m, root, entries) ==
    [t \in DOMAIN m \cup {root} |-> IF t = root THEN entries ELSE m[t]]

NewSpace(m, n, pl, q, src, root, taken) ==
    /\ Placed(n, q)
    /\ DOMAIN n = DOMAIN m \cup taken /\ DOMAIN q = DOMAIN pl \cup taken
    /\ \A t \in DOMAIN m : n[t] = m[t]
    /\ \A t \in DOMAIN pl : q[t] = pl[t]
    /\ RootAt(q, root)
    /\ \A p \in Pages, hard \in BOOLEAN :
          Frame(n, root, p, hard) = IF Index(p, Levels) \in UpperSlots THEN Frame(m, src, p, hard)
                                    ELSE NoFrame

\* What the tables of a new root hold: entries in the lower half, and in the upper
\* half tables at the places and with the kinds of entries of those of src.
Imaged(m, n, q, src, root, entries, taken) ==
    /\ \A i \in Slots \ UpperSlots : n[root][i] = entries[i]
    /\ \A i \in UpperSlots : n[root][i].kind = m[src][i].kind
    /\ \A t \in taken \ {root} : \E l \in 1 .. Levels - 1, b \in Pages :
          /\ Index(b, Levels) \in UpperSlots
          /\ Path(m, src, b)[l] # NoFrame
          /\ Path(n, root, b)[l] = t
          /\ q[t] = Place(root, l, Prefix(b, l))
          /\ \A i \in Slots : n[t][i].kind = m[Path(m, src, b)[l]][i].kind
    /\ \A p \in Pages, l \in 1 .. Levels : Index(p, Levels) \in UpperSlots /\ Path(m, src, p)[l] = NoFrame
                                              => Path(n, root, p)[l] = NoFrame

LEMMA BareEntries ==
    \A entries \in {Cleared, Linked} :
        entries \in [Slots -> Entry] /\ \A i \in Slots : entries[i].kind = "none"
<1>1. NoEntry \in Entry /\ NoEntry.kind = "none"
  BY DEF NoEntry, Entry, NoFrame
<1>2. \A i \in Slots : Linked[i] \in Entry /\ Linked[i].kind = "none"
  BY DEF Linked, Unwiped, Cleared, NoEntry, Entry, NoFrame
<1>3. Linked \in [Slots -> Entry]
  <2>1. Linked = [i \in Slots |-> Linked[i]]
    BY DEF Linked, Unwiped
  <2> QED BY <1>2, <2>1
<1>4. Cleared \in [Slots -> Entry] /\ \A i \in Slots : Cleared[i].kind = "none"
  BY <1>1 DEF Cleared
<1> QED BY <1>2, <1>3, <1>4

LEMMA DupKind ==
    ASSUME NEW e \in Entry, NEW copy, NEW l, NEW b, NEW i
    PROVE  Dup(e, copy, l, b, i).kind = e.kind
BY DEF Dup, Entry, NoEntry

\* What a new root and the tables copied for it hold, whatever was found in its frame.
RootCopied(m, n, src, root, entries, nodes, copy) ==
    /\ DOMAIN n = DOMAIN m \cup {root} \cup {copy[o] : o \in nodes}
    /\ \A t \in DOMAIN m : n[t] = m[t]
    /\ n[root] = [i \in Slots |-> IF i \in UpperSlots THEN Dup(m[src][i], copy, Levels, 0, i)
                                  ELSE entries[i]]
    /\ \A o \in nodes :
          n[copy[o]] = [i \in Slots |-> Dup(m[Path(m, src, o[2])[o[1]]][i], copy, o[1], o[2], i)]

LEMMA AddClones ==
    ASSUME NEW m, NEW S, Closed(m, S), NEW src \in S, Bottomed(m, src),
           NEW root \in Nat \ {NoFrame}, root \notin DOMAIN m, NEW entries,
           NEW new, Claimed(AddTable(m, root, entries), new, CloneSize(m, src, UpperSlots))
    PROVE  RootCopied(m, clone_table_range(AddTable(m, root, entries), new, src, root, UpperSlots),
                      src, root, entries, Below(m, src, UpperSlots),
                      Copies(Below(m, src, UpperSlots), new))
<1> DEFINE k == AddTable(m, root, entries)
           nodes == Below(k, src, UpperSlots)
           copy == Copies(nodes, new)
           n == clone_table_range(k, new, src, root, UpperSlots)
<1>1. DOMAIN k = DOMAIN m \cup {root} /\ k[root] = entries /\ \A t \in DOMAIN m : k[t] = m[t]
  BY DEF AddTable
<1> HIDE DEF k
<1>2. S \subseteq DOMAIN k /\ \A t \in S : k[t] = m[t]
  BY <1>1 DEF Closed
<1>3. Closed(k, S)
  BY <1>2 DEF Closed
<1>4. \A p \in Nat : Path(k, src, p) = Path(m, src, p)
  <2>1. TRUE \in BOOLEAN
    OBVIOUS
  <2>2. \A p \in Nat, hard \in BOOLEAN : Unchanged(m, k, S, src, p, hard)
    BY <1>2, Kept
  <2> QED BY <2>1, <2>2 DEF Unchanged
<1>5. Bottomed(k, src)
  <2> SUFFICES ASSUME NEW p \in Pages, Path(k, src, p)[1] # NoFrame
               PROVE  k[Path(k, src, p)[1]][Index(p, 1)].kind # "branch"
    BY DEF Bottomed
  <2>1. p \in Nat /\ 1 \in 1 .. Levels
    BY PrefixEnds, Shape
  <2>2. Path(k, src, p)[1] = Path(m, src, p)[1]
    BY <1>4, <2>1
  <2>3. Path(m, src, p)[1] \in S
    BY <2>1, <2>2, PathIn
  <2> QED BY <1>2, <2>2, <2>3 DEF Bottomed
<1>6. \A x \in (1 .. Levels - 1) \X Pages :
         x[2] \in Nat /\ x[1] \in 1 .. Levels /\ Path(k, src, x[2])[x[1]] = Path(m, src, x[2])[x[1]]
  <2>1. \A x \in (1 .. Levels - 1) \X Pages : x[2] \in Nat /\ x[1] \in 1 .. Levels
    BY PrefixEnds, Shape
  <2> QED BY <1>4, <2>1
<1>7. nodes = Below(m, src, UpperSlots)
  BY <1>6 DEF Below
<1>8. UpperSlots \subseteq Slots
  BY Shape DEF UpperSlots, Slots
<1>9. Clonable(k, S, src, root, UpperSlots)
  BY <1>1, <1>2, <1>3, <1>5, <1>8 DEF Clonable, Closed
<1>10. Claimed(k, new, CloneSize(k, src, UpperSlots))
  BY <1>7 DEF CloneSize, k
<1>11. Cloned(k, n, src, root, UpperSlots, nodes, copy)
  BY <1>9, <1>10, CloneMakes
<1>12. \A o \in nodes : k[Path(k, src, o[2])[o[1]]] = m[Path(m, src, o[2])[o[1]]]
  <2> SUFFICES ASSUME NEW o \in nodes
               PROVE  k[Path(k, src, o[2])[o[1]]] = m[Path(m, src, o[2])[o[1]]]
    OBVIOUS
  <2>1. o \in (1 .. Levels - 1) \X Pages /\ Path(k, src, o[2])[o[1]] # NoFrame
    BY DEF Below
  <2>2. Path(m, src, o[2])[o[1]] \in S
    BY <1>6, <2>1, PathIn
  <2> QED BY <1>2, <1>6, <2>1, <2>2
<1>13. k[src] = m[src]
  BY <1>2
<1> HIDE DEF n, copy
<1>14. /\ DOMAIN n = DOMAIN m \cup {root} \cup {copy[o] : o \in nodes}
       /\ \A t \in DOMAIN m : n[t] = m[t]
       /\ n[root] = [i \in Slots |-> IF i \in UpperSlots THEN Dup(m[src][i], copy, Levels, 0, i)
                                     ELSE entries[i]]
       /\ \A o \in nodes :
             n[copy[o]] = [i \in Slots |->
                             Dup(m[Path(m, src, o[2])[o[1]]][i], copy, o[1], o[2], i)]
  <2>1. /\ DOMAIN n = DOMAIN k \cup {copy[o] : o \in nodes}
        /\ \A t \in DOMAIN k \ {root} : n[t] = k[t]
        /\ n[root] = [i \in Slots |-> IF i \in UpperSlots THEN Dup(k[src][i], copy, Levels, 0, i)
                                      ELSE k[root][i]]
        /\ \A o \in nodes :
             n[copy[o]] = [i \in Slots |->
                             Dup(k[Path(k, src, o[2])[o[1]]][i], copy, o[1], o[2], i)]
    BY <1>11 DEF Cloned
  <2> HIDE DEF nodes
  <2>2. \A t \in DOMAIN m : n[t] = m[t]
    BY <1>1, <2>1
  <2>3. n[root] = [i \in Slots |-> IF i \in UpperSlots THEN Dup(m[src][i], copy, Levels, 0, i)
                                   ELSE entries[i]]
    BY <1>1, <1>13, <2>1
  <2>4. \A o \in nodes :
             n[copy[o]] = [i \in Slots |->
                             Dup(m[Path(m, src, o[2])[o[1]]][i], copy, o[1], o[2], i)]
    BY <1>12, <2>1
  <2> QED BY <1>1, <2>1, <2>2, <2>3, <2>4
<1>15. RootCopied(m, n, src, root, entries, nodes, copy)
  BY <1>14 DEF RootCopied
<1> QED BY <1>7, <1>15 DEF n, copy, k

\* A walk from a root depends on one entry of the root, and the root is on no other way.
LEMMA WalkSame ==
    ASSUME NEW m, NEW n, NEW U, Closed(m, U), U \subseteq DOMAIN n, NEW root \in U,
           \A t \in U \ {root} : n[t] = m[t],
           \A t \in U, i \in Slots : m[t][i].kind = "branch" => m[t][i].frame # root,
           NEW p \in Nat, n[root][Index(p, Levels)] = m[root][Index(p, Levels)],
           NEW hard \in BOOLEAN
    PROVE  Frame(n, root, p, hard) = Frame(m, root, p, hard)
<1>1. PICK a : /\ Frame(m, root, p, hard) = a[Levels][root]
               /\ \A l \in 1 .. Levels : a[l] = Walked(m, p, hard, a[l - 1], l)
  BY FrameUnfold
<1>2. PICK b : /\ Frame(n, root, p, hard) = b[Levels][root]
               /\ \A l \in 1 .. Levels : b[l] = Walked(n, p, hard, b[l - 1], l)
  BY FrameUnfold
<1>3. U \subseteq DOMAIN m /\ U \subseteq DOMAIN n
  BY DEF Closed
<1>4. \A l \in 1 .. Levels : Index(p, l) \in Slots
  BY PrefixStep
<1>5. \A t \in U, i \in Slots : m[t][i].kind = "branch" => m[t][i].frame \in U \ {root}
  BY DEF Closed
<1> DEFINE Same(l) == \A t \in U \ {root} : b[l][t] = a[l][t]
           Bad == {l \in 1 .. Levels : ~Same(l)}
\* One level, of a table whose entry for p is the same.
<1>6. ASSUME NEW l \in 1 .. Levels, l > 1 => Same(l - 1), NEW t \in U,
             n[t][Index(p, l)] = m[t][Index(p, l)]
      PROVE  b[l][t] = a[l][t]
  <2>1. Index(p, l) \in Slots /\ t \in DOMAIN m /\ t \in DOMAIN n
    BY <1>3, <1>4
  <2> DEFINE e == m[t][Index(p, l)]
             follows == e.kind = "branch" /\ l > 1 /\ (hard => ~e.stale)
  <2>2. /\ a[l][t] = IF e.kind = "leaf" THEN Behind(e, l, p)
                     ELSE IF follows THEN a[l - 1][e.frame] ELSE NoFrame
        /\ b[l][t] = IF e.kind = "leaf" THEN Behind(e, l, p)
                     ELSE IF follows THEN b[l - 1][e.frame] ELSE NoFrame
    <3>1. a[l] = Walked(m, p, hard, a[l - 1], l) /\ b[l] = Walked(n, p, hard, b[l - 1], l)
      BY <1>1, <1>2
    <3>2. e \in Entry
      BY <2>1 DEF Closed
    <3>3. n[t][Index(p, l)] = e
      BY <1>6
    <3> HIDE DEF e
    <3>4. \A k, v : t \in DOMAIN k /\ k[t][Index(p, l)] = e =>
             Walked(k, p, hard, v, l)[t] = IF e.kind = "leaf" THEN Behind(e, l, p)
                                           ELSE IF e.kind = "branch" /\ l > 1 /\ (hard => ~e.stale)
                                             THEN v[e.frame] ELSE NoFrame
      BY <3>2 DEF Walked, Entry
    <3> QED BY <2>1, <3>1, <3>3, <3>4 DEF e
  <2>3. follows => a[l - 1][e.frame] = b[l - 1][e.frame]
    BY <1>5, <1>6, <2>1
  <2> HIDE DEF e, follows
  <2> QED BY <2>2, <2>3
<1>7. Bad = {}
  <2> SUFFICES ASSUME Bad # {} PROVE FALSE
    OBVIOUS
  <2>1. PICK l \in Bad : \A k \in Bad : l <= k
    <3>1. Bad \in SUBSET Nat
      OBVIOUS
    <3> HIDE DEF Bad
    <3> QED BY <3>1, LeastOf
  <2>2. l \in 1 .. Levels /\ (l > 1 => l - 1 \in 1 .. Levels /\ ~(l <= l - 1))
    BY Shape
  <2>3. l > 1 => Same(l - 1)
    BY <2>1, <2>2
  <2>4. Same(l)
    BY <1>6, <2>2, <2>3
  <2> QED BY <2>1, <2>4
<1>8. Levels \in 1 .. Levels /\ Levels - 1 \in 1 .. Levels
  BY Shape
<1>9. Same(Levels - 1)
  BY <1>7, <1>8
<1>10. b[Levels][root] = a[Levels][root]
  BY <1>6, <1>8, <1>9
<1> QED BY <1>1, <1>2, <1>10

LEMMA AddRoot ==
    ASSUME NEW m, NEW pl, Placed(m, pl), NEW S, Closed(m, S), NEW src \in S, Bottomed(m, src),
           NEW root \in Nat \ {NoFrame}, root \notin DOMAIN m,
           NEW entries \in {Cleared, Linked},
           NEW new, Claimed(AddTable(m, root, entries), new, CloneSize(m, src, UpperSlots))
    PROVE  LET n == clone_table_range(AddTable(m, root, entries), new, src, root, UpperSlots) IN
           \E q : /\ NewSpace(m, n, pl, q, src, root, {root} \cup Holds(new))
                  /\ Imaged(m, n, q, src, root, entries, {root} \cup Holds(new))
<1> DEFINE k == AddTable(m, root, entries)
           nodes == Below(k, src, UpperSlots)
           copy == Copies(nodes, new)
           n == clone_table_range(k, new, src, root, UpperSlots)
<1>1. DOMAIN k = DOMAIN m \cup {root} /\ k[root] = entries /\ \A t \in DOMAIN m : k[t] = m[t]
  BY DEF AddTable
<1>2. entries \in [Slots -> Entry] /\ \A i \in Slots : entries[i].kind = "none"
  BY BareEntries
<1> HIDE DEF k
<1>3. S \subseteq DOMAIN k /\ \A t \in S : k[t] = m[t]
  BY <1>1 DEF Closed
<1>4. Closed(k, S)
  BY <1>3 DEF Closed
<1>5. \A p \in Nat, hard \in BOOLEAN : Unchanged(m, k, S, src, p, hard)
  BY <1>3, Kept
<1>6. \A p \in Nat : /\ Path(k, src, p) = Path(m, src, p)
                    /\ \A hard \in BOOLEAN : Frame(k, src, p, hard) = Frame(m, src, p, hard)
  <2>1. TRUE \in BOOLEAN
    OBVIOUS
  <2> QED BY <1>5, <2>1 DEF Unchanged
<1>7. Bottomed(k, src)
  <2> SUFFICES ASSUME NEW p \in Pages, Path(k, src, p)[1] # NoFrame
               PROVE  k[Path(k, src, p)[1]][Index(p, 1)].kind # "branch"
    BY DEF Bottomed
  <2>1. p \in Nat /\ 1 \in 1 .. Levels
    BY PrefixEnds, Shape
  <2>2. Path(k, src, p)[1] = Path(m, src, p)[1]
    BY <1>6, <2>1
  <2>3. Path(m, src, p)[1] \in S
    BY <2>1, <2>2, PathIn
  <2> QED BY <1>3, <2>2, <2>3 DEF Bottomed
<1>8. nodes = Below(m, src, UpperSlots)
  <2>1. \A x \in (1 .. Levels - 1) \X Pages : x[2] \in Nat
    BY PrefixEnds
  <2>2. \A x \in (1 .. Levels - 1) \X Pages :
           Path(k, src, x[2])[x[1]] = Path(m, src, x[2])[x[1]]
    BY <1>6, <2>1
  <2> QED BY <2>2 DEF Below
<1>9. UpperSlots \subseteq Slots
  BY Shape DEF UpperSlots, Slots
<1>10. Clonable(k, S, src, root, UpperSlots)
  BY <1>1, <1>3, <1>4, <1>7, <1>9 DEF Clonable, Closed
<1>11. DOMAIN pl \subseteq DOMAIN m /\ Closed(m, DOMAIN pl)
  BY DEF Placed, Closed
<1>12. Placed(k, pl)
  <2>1. \A t \in DOMAIN pl : k[t] = m[t]
    BY <1>1, <1>11
  <2>2. Closed(k, DOMAIN pl)
    BY <1>1, <1>11, <2>1 DEF Closed
  <2> QED BY <2>1, <2>2 DEF Placed
<1>13. Bare(k, pl, root)
  BY <1>1, <1>2, <1>11 DEF Bare
<1>14. Claimed(k, new, CloneSize(k, src, UpperSlots))
  BY <1>8 DEF CloneSize, k
<1>15. Cloned(k, n, src, root, UpperSlots, nodes, copy)
  BY <1>10, <1>14, CloneMakes
<1>16. Holds(new) = {copy[o] : o \in nodes}
  <2>1. Fills(new, nodes, copy)
    BY <1>10, <1>14, CopiesFresh
  <2> QED BY <2>1 DEF Holds, Fills
<1> HIDE DEF n, copy
<1>17. PICK q : Placed(n, q) /\ Grown(q, pl, root, nodes, copy)
  BY <1>10, <1>12, <1>13, <1>15, ClonePlaced
<1> HIDE DEF nodes
<1>18. /\ DOMAIN n = DOMAIN m \cup ({root} \cup Holds(new))
       /\ DOMAIN q = DOMAIN pl \cup ({root} \cup Holds(new))
       /\ \A t \in DOMAIN m : n[t] = m[t]
       /\ \A t \in DOMAIN pl : q[t] = pl[t]
       /\ RootAt(q, root)
  BY <1>1, <1>15, <1>16, <1>17 DEF Cloned, Grown, RootAt
<1>19. ASSUME NEW p \in Pages, NEW hard \in BOOLEAN
       PROVE  Frame(n, root, p, hard) = IF Index(p, Levels) \in UpperSlots THEN Frame(m, src, p, hard)
                                        ELSE NoFrame
  <2>1. p \in Nat
    BY PrefixEnds
  <2> DEFINE U == DOMAIN q
  <2>2. Closed(n, U) /\ root \in U
    BY <1>17, <1>18 DEF Placed, RootAt
  <2> HIDE DEF U
  <2>3. CASE Index(p, Levels) \in UpperSlots
    <3>1. Cloned(k, n, src, root, UpperSlots, Below(k, src, UpperSlots), copy)
      BY <1>15 DEF nodes
    <3>2. Frame(n, root, p, hard) = Frame(k, src, p, hard)
      BY <1>10, <1>13, <2>2, <2>3, <3>1, CloneInside
    <3> QED BY <1>6, <2>1, <2>3, <3>2
  <2>4. CASE Index(p, Levels) \notin UpperSlots
    <3>1. Frame(n, root, p, hard) = NoFrame
      BY <1>13, <1>15, <2>1, <2>2, <2>4, CloneOutside
    <3> QED BY <2>4, <3>1
  <2> QED BY <2>3, <2>4
<1>20. NewSpace(m, n, pl, q, src, root, {root} \cup Holds(new))
  BY <1>17, <1>18, <1>19 DEF NewSpace
<1>21. /\ \A i \in Slots \ UpperSlots : n[root][i] = entries[i]
       /\ \A i \in UpperSlots : n[root][i].kind = m[src][i].kind
  <2>1. n[root] = [i \in Slots |-> IF i \in UpperSlots THEN Dup(k[src][i], copy, Levels, 0, i)
                                   ELSE k[root][i]]
    BY <1>15 DEF Cloned
  <2>2. \A i \in Slots : k[src][i] = m[src][i] /\ k[src][i] \in Entry
    BY <1>3, <1>4 DEF Closed
  <2>3. \A i \in Slots : Dup(k[src][i], copy, Levels, 0, i).kind = m[src][i].kind
    BY <2>2, DupKind
  <2> QED BY <1>1, <1>9, <2>1, <2>3
<1>22. ASSUME NEW t \in Holds(new)
       PROVE  \E l \in 1 .. Levels - 1, b \in Pages :
                 /\ Index(b, Levels) \in UpperSlots
                 /\ Path(m, src, b)[l] # NoFrame
                 /\ Path(n, root, b)[l] = t
                 /\ q[t] = Place(root, l, Prefix(b, l))
                 /\ \A i \in Slots : n[t][i].kind = m[Path(m, src, b)[l]][i].kind
  <2>1. PICK o \in nodes : t = copy[o]
    BY <1>16
  <2> DEFINE l == o[1]
             b == o[2]
             s == Path(m, src, b)[l]
  <2>2. Met(k, src, UpperSlots, l, b) /\ l # Levels /\ o = <<l, b>>
    BY NodeMet DEF nodes
  <2>3. /\ q[t] = Place(root, l, Prefix(b, l))
        /\ n[t] = [i \in Slots |-> Dup(k[Path(k, src, b)[l]][i], copy, l, b, i)]
    BY <1>15, <1>17, <2>1 DEF Grown, Cloned
  <2> HIDE DEF l, b
  <2>4. b \in Pages /\ b \in Nat /\ l \in 1 .. Levels /\ l \in 1 .. Levels - 1
        /\ Index(b, Levels) \in UpperSlots /\ Path(k, src, b)[l] # NoFrame
    BY <2>2, PrefixEnds, Shape DEF Met
  <2>5. s = Path(k, src, b)[l] /\ s # NoFrame
    BY <1>6, <2>4
  <2>6. s \in S
    BY <2>4, <2>5, PathIn
  <2> HIDE DEF s
  <2>7. \A i \in Slots : k[s][i] = m[s][i] /\ k[s][i] \in Entry
    BY <1>3, <1>4, <2>6 DEF Closed
  <2>8. \A i \in Slots : Dup(k[s][i], copy, l, b, i).kind = m[s][i].kind
    BY <2>7, DupKind
  <2>9. \A i \in Slots : n[t][i].kind = m[s][i].kind
    BY <2>3, <2>5, <2>8
  <2>10. Path(n, root, b)[l] = t
    <3>1. Mirrors(k, n, src, root, UpperSlots, copy, b, l)
      <4>1. Cloned(k, n, src, root, UpperSlots, Below(k, src, UpperSlots), copy)
        BY <1>15 DEF nodes
      <4>2. Mirrored(k, n, src, root, UpperSlots, copy, b, l)
        BY <1>10, <1>13, <2>4, <4>1, MirrorAll
      <4> QED BY <2>4, <4>2 DEF Mirrored
    <3>2. PICK c : /\ Met(k, src, UpperSlots, l, c) /\ Prefix(c, l) = Prefix(b, l)
                   /\ Path(n, root, b)[l] = copy[<<l, c>>]
      BY <2>2, <3>1 DEF Mirrors
    <3>3. c = b
      <4>1. c \in Nat /\ c % Power[l] = 0 /\ b % Power[l] = 0 /\ l \in 0 .. Levels
        BY <2>2, <2>4, <3>2, PrefixEnds DEF Met
      <4> DEFINE d == Power[l]
      <4>2. d \in Nat /\ d > 0
        BY <4>1, PowerFacts
      <4>3. c \div d = b \div d /\ c % d = 0 /\ b % d = 0
        BY <3>2, <4>1 DEF Prefix
      <4> HIDE DEF d
      <4>4. c = d * (c \div d) + (c % d)
        BY <4>1, <4>2, Division
      <4>5. b = d * (b \div d) + (b % d)
        BY <2>4, <4>2, Division
      <4> QED BY <4>3, <4>4, <4>5
    <3> QED BY <2>1, <2>2, <3>2, <3>3
  <2> QED BY <2>3, <2>4, <2>5, <2>9, <2>10 DEF s
<1>24. ASSUME NEW p \in Pages, NEW l \in 1 .. Levels, Index(p, Levels) \in UpperSlots,
              Path(m, src, p)[l] = NoFrame
       PROVE  Path(n, root, p)[l] = NoFrame
  <2>1. Cloned(k, n, src, root, UpperSlots, Below(k, src, UpperSlots), copy)
    BY <1>15 DEF nodes
  <2>2. Mirrored(k, n, src, root, UpperSlots, copy, p, l)
    BY <1>10, <1>13, <1>24, <2>1, MirrorAll
  <2>3. p \in Nat
    BY PrefixEnds
  <2>4. Path(k, src, p)[l] = NoFrame
    BY <1>6, <1>24, <2>3
  <2> QED BY <2>2, <2>4 DEF Mirrored
<1>23. Imaged(m, n, q, src, root, entries, {root} \cup Holds(new))
  BY <1>21, <1>22, <1>24 DEF Imaged
<1> QED BY <1>20, <1>23 DEF n, k

=============================================================================
