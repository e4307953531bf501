----------------------------- MODULE KrideRsvProofs -----------------------------
(***************************************************************************)
(* What the tables of the Kride core select, for every size of them.  A    *)
(* reduction yields a row of the table, and the first or the last of those *)
(* that are looked for.  A station that issues in order has no pointer to  *)
(* its oldest entry; the row it reads off its busy bits is the oldest one  *)
(* as long as these are a ring that begins at the allocation pointer.      *)
(***************************************************************************)
EXTENDS KrideRsv, WellFoundedInduction, FiniteSetTheorems, TLAPS

(* The numbers below n, the indices of a table, are n.                      *)
LEMMA FirstNumbers ==
  ASSUME NEW n \in Nat
  PROVE  IsFiniteSet(0..(n-1)) /\ Cardinality(0..(n-1)) = n
<1>1. n - 1 \in Int /\ 0 \in Int
  OBVIOUS
<1> PICK m \in Int : m = n - 1
  BY <1>1
<1>2. IsFiniteSet(0..m) /\ Cardinality(0..m) = IF 0 > m THEN 0 ELSE m - 0 + 1
  BY <1>1, FS_Interval
<1> PICK c : c = Cardinality(0..m)
  OBVIOUS
<1>3. c = n
  BY <1>2
<1> QED BY <1>2, <1>3

(* A set of natural numbers has a least one.                                *)
LEMMA Least ==
  ASSUME NEW S \in SUBSET Nat, S # {}
  PROVE  \E n \in S : \A k \in S : n <= k
<1> DEFINE R == OpToRel(<, Nat)
<1>1. IsWellFoundedOn(R, Nat)
  BY NatLessThanWellFounded
<1>2. PICK n \in S : \A k \in S : <<k, n>> \notin R
  <2> HIDE DEF R
  <2> QED BY <1>1, WFMin
<1>3. \A k \in S : <<k, n>> \in R <=> k < n
  <2>1. R = {ss \in Nat \X Nat : ss[1] < ss[2]}
    BY DEF OpToRel
  <2> HIDE DEF R
  <2>2. ASSUME NEW k \in S PROVE <<k, n>> \in R <=> k < n
    <3>1. <<k, n>> \in Nat \X Nat
      OBVIOUS
    <3>2. <<k, n>>[1] = k /\ <<k, n>>[2] = n
      OBVIOUS
    <3> QED BY <2>1, <3>1, <3>2
  <2> QED BY <2>2
<1> HIDE DEF R
<1>4. \A k \in S : ~(k < n)
  BY <1>2, <1>3
<1> QED
  BY <1>4

(* A table of 2^k rows, k > 0, has two halves of 2^(k-1) rows.             *)
LEMMA Halved ==
  ASSUME NEW n, PowerOfTwo(n), n # 1
  PROVE  /\ n \div 2 \in Nat \ {0} /\ n = 2 * (n \div 2)
         /\ PowerOfTwo(n \div 2)
<1>1. n \in Nat \ {0} /\ n >= 2
  BY DEF PowerOfTwo
<1>2. n % 2 = 0
  <2>1. 1 \in 1..n /\ n \in 1..n /\ 1 * n = n
    BY <1>1
  <2> QED BY <1>1, <2>1 DEF PowerOfTwo
<1> DEFINE m == n \div 2
<1>3. m \in Nat \ {0} /\ n = 2 * m
  BY <1>1, <1>2
<1> HIDE DEF m
<1>4. ASSUME NEW a \in 1..m, NEW b \in 1..m, a * b = m, b % 2 = 1
      PROVE  b = 1
  <2>1. 2 * a \in 1..n /\ b \in 1..n
    BY <1>3
  <2>2. (2 * a) * b = n
    BY <1>3, <1>4
  <2> QED BY <1>4, <2>1, <2>2 DEF PowerOfTwo
<1>5. PowerOfTwo(m)
  BY <1>3, <1>4 DEF PowerOfTwo
<1> QED
  BY <1>3, <1>5 DEF m

(* Two interleaved tables of 2^k rows make one of 2^(k+1) rows.            *)
LEMMA Doubled ==
  ASSUME NEW n, PowerOfTwo(n)
  PROVE  PowerOfTwo(2 * n)
<1>1. n \in Nat \ {0}
  BY DEF PowerOfTwo
<1>2. ASSUME NEW a \in 1..(2*n), NEW b \in 1..(2*n), a * b = 2 * n, b % 2 = 1
      PROVE  b = 1
  <2>1. PICK j \in Nat : b = 2 * j + 1
    <3>1. b = 2 * (b \div 2) + 1 /\ b \div 2 \in Nat
      BY <1>1, <1>2
    <3> QED BY <3>1
  <2>2. PICK i \in Nat : a = 2 * i \/ a = 2 * i + 1
    <3>1. a = 2 * (a \div 2) \/ a = 2 * (a \div 2) + 1
      BY <1>1
    <3>2. a \div 2 \in Nat
      BY <1>1
    <3> QED BY <3>1, <3>2
  <2>3. CASE a = 2 * i + 1
    <3>1. a * b = 2 * (2 * (i * j) + i + j) + 1
      BY <2>1, <2>2, <2>3
    <3>2. i * j \in Nat
      BY <2>1, <2>2
    <3> QED BY <1>1, <1>2, <3>1, <3>2
  <2>4. CASE a = 2 * i
    <3>1. 2 * (i * b) = 2 * n /\ i * b \in Nat
      BY <1>1, <1>2, <2>2, <2>4
    <3>2. i * b = n
      BY <1>1, <3>1
    <3>3. i >= 1 /\ b >= 1
      BY <1>1, <1>2, <2>2, <2>4
    <3>4. i <= i * b /\ b <= i * b
      BY <3>3, <2>2, <1>1
    <3>5. i \in 1..n /\ b \in 1..n
      BY <3>2, <3>3, <3>4, <1>1, <2>2
    <3> QED BY <3>2, <3>5, <1>2 DEF PowerOfTwo
  <2> QED BY <2>2, <2>3, <2>4
<1> QED
  BY <1>1, <1>2 DEF PowerOfTwo

-----------------------------------------------------------------------------
(* The levels of a reduction.                                               *)

LevelZero(t) == [i \in DOMAIN t |-> Node(t, i)]

(* The first n levels, as a function of their own.                          *)
Begins(q, t, n, g) ==
  g[0] = LevelZero(t) /\ \A i \in 1..n : g[i] = NextLevel(q, g[i-1])

(* There are as many levels as one asks for ...                            *)
LEMMA SomeBegin ==
  ASSUME NEW q, NEW t
  PROVE  \A n \in Nat : \E g : Begins(q, t, n, g)
<1> DEFINE S == {n \in Nat : ~\E g : Begins(q, t, n, g)}
<1>1. SUFFICES ASSUME S # {} PROVE FALSE
  OBVIOUS
<1>2. PICK m \in S : \A k \in S : m <= k
  <2> HIDE DEF S
  <2>1. S \in SUBSET Nat BY DEF S
  <2> QED BY <1>1, <2>1, Least
<1>3. m \in Nat /\ ~\E g : Begins(q, t, m, g)
  BY <1>2
<1>4. CASE m = 0
  <2> DEFINE g == [i \in {0} |-> LevelZero(t)]
  <2>1. Begins(q, t, 0, g)
    BY DEF Begins
  <2> QED BY <1>3, <1>4, <2>1
<1>5. CASE m # 0
  <2>1. m - 1 \in Nat /\ m - 1 \notin S
    BY <1>2, <1>3, <1>5
  <2>2. PICK g : Begins(q, t, m - 1, g)
    BY <2>1
  <2> DEFINE h == [i \in 0..m |-> IF i = m THEN NextLevel(q, g[m-1]) ELSE g[i]]
  <2>3. h[0] = LevelZero(t)
    BY <1>3, <1>5, <2>2 DEF Begins
  <2>4. ASSUME NEW i \in 1..m PROVE h[i] = NextLevel(q, h[i-1])
    <3>1. h[i-1] = g[i-1]
      BY <1>3
    <3>2. CASE i = m
      BY <1>3, <3>1, <3>2
    <3>3. CASE i # m
      <4>1. i \in 1..(m-1) /\ h[i] = g[i]
        BY <1>3, <3>3
      <4> QED BY <2>2, <3>1, <4>1 DEF Begins
    <3> QED BY <3>2, <3>3
  <2>5. Begins(q, t, m, h)
    BY <2>3, <2>4 DEF Begins
  <2> QED BY <1>3, <2>5
<1> QED
  BY <1>4, <1>5

(* ... and they are the same however many one asks for.                    *)
LEMMA OneBegin ==
  ASSUME NEW q, NEW t, NEW m \in Nat, NEW n \in Nat, NEW g, NEW h,
         Begins(q, t, m, g), Begins(q, t, n, h),
         NEW k \in Nat, k <= m, k <= n
  PROVE  g[k] = h[k]
<1> DEFINE S == {i \in 0..k : g[i] # h[i]}
<1>1. SUFFICES ASSUME S # {} PROVE FALSE
  <2>1. k \in 0..k
    OBVIOUS
  <2> QED BY <2>1
<1>2. PICK i \in S : \A j \in S : i <= j
  <2> HIDE DEF S
  <2>1. S \in SUBSET Nat BY DEF S
  <2> QED BY <1>1, <2>1, Least
<1>3. i \in 0..k /\ g[i] # h[i]
  BY <1>2
<1>4. i # 0
  BY <1>3 DEF Begins
<1>5. i - 1 \in 0..k /\ i - 1 \notin S
  BY <1>2, <1>3, <1>4
<1>6. g[i-1] = h[i-1]
  BY <1>5
<1>7. i \in 1..m /\ i \in 1..n
  BY <1>3, <1>4
<1> QED
  BY <1>3, <1>6, <1>7 DEF Begins

(* The recursive function of the levels is what its equation says.         *)
LEMMA LevelsAre ==
  ASSUME NEW q, NEW t
  PROVE  /\ Levels(q, t)[0] = LevelZero(t)
         /\ \A d \in Nat \ {0} : Levels(q, t)[d] = NextLevel(q, Levels(q, t)[d-1])
<1> DEFINE IsL(f) == f = [d \in Nat |-> IF d = 0 THEN LevelZero(t)
                                       ELSE NextLevel(q, f[d-1])]
           G(n) == CHOOSE g : Begins(q, t, n, g)
           f == [d \in Nat |-> G(d)[d]]
<1>1. ASSUME NEW n \in Nat PROVE Begins(q, t, n, G(n))
  BY SomeBegin
<1> HIDE DEF G
<1>2. f[0] = LevelZero(t)
  BY <1>1 DEF Begins
<1>3. ASSUME NEW d \in Nat \ {0} PROVE f[d] = NextLevel(q, f[d-1])
  <2>1. d - 1 \in Nat /\ d \in Nat /\ d - 1 <= d /\ d - 1 <= d - 1 /\ d \in 1..d
    OBVIOUS
  <2>2. G(d)[d] = NextLevel(q, G(d)[d-1])
    BY <1>1, <2>1 DEF Begins
  <2>3. G(d)[d-1] = G(d-1)[d-1]
    <3>1. Begins(q, t, d, G(d)) /\ Begins(q, t, d-1, G(d-1))
      BY <1>1, <2>1
    <3> QED BY <2>1, <3>1, OneBegin
  <2>4. f[d] = G(d)[d] /\ f[d-1] = G(d-1)[d-1]
    BY <2>1
  <2> QED BY <2>2, <2>3, <2>4
<1>4. IsL(f)
  BY <1>2, <1>3
<1>5. Levels(q, t) = CHOOSE g : IsL(g)
  BY DEF Levels, LevelZero
<1> HIDE DEF f
<1>6. IsL(Levels(q, t))
  <2> HIDE DEF IsL
  <2> QED BY <1>4, <1>5
<1> HIDE DEF f
<1> QED
  BY <1>6

(* The nodes of a level are rows of the table in their order.               *)
InLevel(t, n, s, up) ==
  /\ PowerOfTwo(s) /\ DOMAIN up = 0..(s-1)
  /\ \A i \in 0..(s-1) : up[i].idx \in 0..(n-1) /\ up[i] = Node(t, up[i].idx)
  /\ \A i, j \in 0..(s-1) : i < j => up[i].idx < up[j].idx

(* A table of n rows has n rows.                                           *)
LEMMA RowsAre ==
  ASSUME NEW t, NEW n \in Nat \ {0}, DOMAIN t = 0..(n-1)
  PROVE  Rows(t) = n
<1>1. 0 \in Int /\ n - 1 \in Int /\ n - 1 >= 0
  OBVIOUS
<1>2. Cardinality(0..(n-1)) = (n-1) - 0 + 1
  BY <1>1, FS_Interval
<1> QED
  BY <1>2 DEF Rows

(* Muxing neighbours halves a level and keeps the order of the rows.       *)
LEMMA LevelHalves ==
  ASSUME NEW q, NEW t, NEW n, NEW s, NEW up, InLevel(t, n, s, up), s # 1
  PROVE  InLevel(t, n, s \div 2, NextLevel(q, up))
<1> DEFINE m == s \div 2
           nx == NextLevel(q, up)
<1>1. m \in Nat \ {0} /\ s = 2 * m /\ PowerOfTwo(m)
  BY Halved DEF InLevel
<1> HIDE DEF m
<1>2. Rows(up) = s
  BY <1>1, RowsAre DEF InLevel
<1>3. nx = [i \in 0..(m - 1) |->
             IF SelectLeft(q, up[2*i], up[2*i+1]) THEN up[2*i] ELSE up[2*i+1]]
  BY <1>2 DEF NextLevel, MuxPairs, m
<1> HIDE DEF nx
<1>4. ASSUME NEW i \in 0..(m-1)
      PROVE  /\ 2*i \in 0..(s-1) /\ 2*i+1 \in 0..(s-1)
             /\ nx[i] = up[2*i] \/ nx[i] = up[2*i+1]
  BY <1>1, <1>3
<1>5. ASSUME NEW i \in 0..(m-1)
      PROVE  nx[i].idx \in 0..(n-1) /\ nx[i] = Node(t, nx[i].idx)
  BY <1>4 DEF InLevel
<1>6. ASSUME NEW i \in 0..(m-1), NEW j \in 0..(m-1), i < j
      PROVE  nx[i].idx < nx[j].idx
  <2>1. 2*i < 2*j /\ 2*i < 2*j+1 /\ 2*i+1 < 2*j /\ 2*i+1 < 2*j+1
    BY <1>1, <1>6
  <2> QED BY <1>4, <1>6, <2>1 DEF InLevel
<1>7. DOMAIN nx = 0..(m-1)
  BY <1>3
<1>8. InLevel(t, n, m, nx)
  BY <1>1, <1>5, <1>6, <1>7 DEF InLevel
<1> QED
  BY <1>8 DEF m, nx

(* In every level the first row of a set that is what is looked for, or the *)
(* last one, is still there.                                                *)
Prefers(q, t, n, S, side) ==
  \A i, j \in 0..(n-1) : i < j =>
    (SelectLeft(q, Node(t, i), Node(t, j)) <=> IF side = "last" THEN j \notin S ELSE i \in S)

Winner(S, side, w) ==
  w \in S /\ \A j \in S : IF side = "last" THEN j <= w ELSE w <= j

Wins(q, t, n, S, side, w) ==
  S \subseteq 0..(n-1) /\ Prefers(q, t, n, S, side) /\ Winner(S, side, w)

StillThere(up, w) == \E k \in DOMAIN up : up[k].idx = w

(* The row that is looked for wins against its neighbour.                  *)
LEMMA WinnerStays ==
  ASSUME NEW q, NEW t, NEW n, NEW s, NEW up, InLevel(t, n, s, up), s # 1,
         NEW S, NEW side, NEW w, Wins(q, t, n, S, side, w),
         StillThere(up, w), n \in Nat
  PROVE  StillThere(NextLevel(q, up), w)
<1> DEFINE m == s \div 2
           nx == NextLevel(q, up)
<1>1. m \in Nat \ {0} /\ s = 2 * m /\ PowerOfTwo(m)
  BY Halved DEF InLevel
<1> HIDE DEF m
<1>2. Rows(up) = s
  BY <1>1, RowsAre DEF InLevel
<1>3. nx = [i \in 0..(m - 1) |->
             IF SelectLeft(q, up[2*i], up[2*i+1]) THEN up[2*i] ELSE up[2*i+1]]
  BY <1>2 DEF NextLevel, MuxPairs, m
<1> HIDE DEF nx
<1> PICK k \in 0..(s-1) : up[k].idx = w
  BY DEF StillThere, InLevel
<1>11. DOMAIN nx = 0..(m-1)
  BY <1>3
<1>4. PICK i \in 0..(m-1) : k = 2*i \/ k = 2*i+1
  <2>1. k \div 2 \in 0..(m-1) /\ (k = 2*(k \div 2) \/ k = 2*(k \div 2) + 1)
    BY <1>1
  <2> QED BY <2>1
<1> DEFINE a == up[2*i].idx
           b == up[2*i+1].idx
<1>5. 2*i \in 0..(s-1) /\ 2*i+1 \in 0..(s-1) /\ 2*i < 2*i+1
  BY <1>1, <1>4
<1>6. /\ a \in 0..(n-1) /\ up[2*i] = Node(t, a)
      /\ b \in 0..(n-1) /\ up[2*i+1] = Node(t, b) /\ a < b
  BY <1>5 DEF InLevel
<1>7. SelectLeft(q, up[2*i], up[2*i+1]) <=> IF side = "last" THEN b \notin S ELSE a \in S
  BY <1>6 DEF Wins, Prefers
<1>8. nx[i] = IF SelectLeft(q, up[2*i], up[2*i+1]) THEN up[2*i] ELSE up[2*i+1]
  BY <1>3
<1>9. CASE k = 2*i
  <2>1. a = w
    BY <1>9
  <2>2. IF side = "last" THEN b \notin S ELSE a \in S
    BY <1>6, <2>1 DEF Wins, Winner
  <2> QED BY <1>7, <1>8, <2>1, <2>2, <1>11 DEF nx, m, StillThere
<1>10. CASE k = 2*i+1
  <2>1. b = w
    BY <1>10
  <2>2. ~ (IF side = "last" THEN b \notin S ELSE a \in S)
    BY <1>6, <2>1 DEF Wins, Winner
  <2> QED BY <1>7, <1>8, <2>1, <2>2, <1>11 DEF nx, m, StillThere
<1> QED
  BY <1>4, <1>9, <1>10

(* Every level is such a level, and smaller than the one before, down to 1.*)
LEMMA LevelInv ==
  ASSUME NEW q, NEW t, NEW n, PowerOfTwo(n), DOMAIN t = 0..(n-1)
  PROVE  \A d \in Nat : \E s : InLevel(t, n, s, Levels(q, t)[d]) /\ (s = 1 \/ s + d <= n)
<1> DEFINE L == Levels(q, t)
           Ok(d) == \E s : InLevel(t, n, s, L[d]) /\ (s = 1 \/ s + d <= n)
           S == {d \in Nat : ~Ok(d)}
<1>0. n \in Nat \ {0}
  BY DEF PowerOfTwo
<1>1. L[0] = LevelZero(t) /\ \A d \in Nat \ {0} : L[d] = NextLevel(q, L[d-1])
  BY LevelsAre
<1> HIDE DEF L
<1>2. SUFFICES ASSUME S # {} PROVE FALSE
  BY DEF L
<1>3. PICK d \in S : \A k \in S : d <= k
  <2> HIDE DEF S
  <2>1. S \in SUBSET Nat BY DEF S
  <2> QED BY <1>2, <2>1, Least
<1>4. d \in Nat /\ ~Ok(d)
  BY <1>3
<1>5. CASE d = 0
  <2>1. DOMAIN L[0] = 0..(n-1)
    BY <1>1 DEF LevelZero
  <2>2. \A i \in 0..(n-1) : L[0][i] = Node(t, i) /\ L[0][i].idx = i
    BY <1>1 DEF LevelZero, Node
  <2>3. InLevel(t, n, n, L[0])
    BY <1>0, <2>1, <2>2 DEF InLevel
  <2> QED BY <1>0, <1>4, <1>5, <2>3
<1>6. CASE d # 0
  <2>1. d - 1 \in Nat /\ Ok(d - 1)
    BY <1>3, <1>4, <1>6
  <2>2. PICK s : InLevel(t, n, s, L[d-1]) /\ (s = 1 \/ s + (d - 1) <= n)
    BY <2>1
  <2>3. s \in Nat \ {0}
    BY <2>2 DEF InLevel, PowerOfTwo
  <2>4. L[d] = NextLevel(q, L[d-1])
    BY <1>1, <1>4, <1>6
  <2>5. CASE s = 1
    <3>1. Rows(L[d-1]) = 1
      BY <2>2, <2>5, <2>3, RowsAre DEF InLevel
    <3>2. L[d] = L[d-1]
      BY <2>4, <3>1 DEF NextLevel
    <3> QED BY <1>4, <2>2, <2>5, <3>2
  <2>6. CASE s # 1
    <3>1. InLevel(t, n, s \div 2, L[d])
      BY <2>2, <2>4, <2>6, LevelHalves
    <3>2. s \div 2 + d <= n
      BY <1>0, <1>4, <2>1, <2>2, <2>3, <2>6
    <3> QED BY <1>4, <3>1, <3>2
  <2> QED BY <2>5, <2>6
<1> QED
  BY <1>5, <1>6

(* The row that is looked for is in every level.                           *)
LEMMA WinnerInv ==
  ASSUME NEW q, NEW t, NEW n, PowerOfTwo(n), DOMAIN t = 0..(n-1),
         NEW S, NEW side, NEW w, Wins(q, t, n, S, side, w)
  PROVE  \A d \in Nat : StillThere(Levels(q, t)[d], w)
<1> DEFINE L == Levels(q, t)
           Ok(d) == StillThere(L[d], w)
           B == {d \in Nat : ~Ok(d)}
<1>0. n \in Nat \ {0} /\ w \in 0..(n-1)
  BY DEF PowerOfTwo, Wins, Winner
<1>1. L[0] = LevelZero(t) /\ \A d \in Nat \ {0} : L[d] = NextLevel(q, L[d-1])
  BY LevelsAre
<1>2. \A d \in Nat : \E s : InLevel(t, n, s, L[d])
  BY LevelInv
<1> HIDE DEF L
<1>3. SUFFICES ASSUME B # {} PROVE FALSE
  BY DEF L
<1>4. PICK d \in B : \A k \in B : d <= k
  <2> HIDE DEF B
  <2>1. B \in SUBSET Nat BY DEF B
  <2> QED BY <1>3, <2>1, Least
<1>5. d \in Nat /\ ~Ok(d)
  BY <1>4
<1>6. CASE d = 0
  <2>1. w \in DOMAIN L[0] /\ L[0][w].idx = w
    BY <1>0, <1>1 DEF LevelZero, Node
  <2>2. StillThere(L[0], w)
    BY <2>1 DEF StillThere
  <2> QED BY <1>5, <1>6, <2>2
<1>7. CASE d # 0
  <2>1. d - 1 \in Nat /\ Ok(d - 1)
    BY <1>4, <1>5, <1>7
  <2>2. PICK s : InLevel(t, n, s, L[d-1])
    BY <1>2, <2>1
  <2>3. s \in Nat \ {0} /\ DOMAIN L[d-1] = 0..(s-1)
    BY <2>2 DEF InLevel, PowerOfTwo
  <2>5. L[d] = NextLevel(q, L[d-1])
    BY <1>1, <1>5, <1>7
  <2>6. CASE s = 1
    <3>1. Rows(L[d-1]) = 1
      BY <2>3, <2>6, RowsAre
    <3>2. L[d] = L[d-1]
      BY <2>5, <3>1 DEF NextLevel
    <3> QED BY <1>5, <2>1, <3>2
  <2>7. CASE s # 1
    <3>1. StillThere(L[d-1], w) /\ n \in Nat
      BY <1>0, <2>1
    <3>2. StillThere(NextLevel(q, L[d-1]), w)
      BY <2>2, <2>7, <3>1, WinnerStays
    <3> QED BY <1>5, <2>5, <3>2
  <2> QED BY <2>6, <2>7
<1> QED
  BY <1>6, <1>7

(* What a reduction yields is a row of the table ...                        *)
LEMMA ReduceIsRow ==
  ASSUME NEW q, NEW t, NEW n, PowerOfTwo(n), DOMAIN t = 0..(n-1)
  PROVE  /\ Reduce(q, t).idx \in 0..(n-1)
         /\ Reduce(q, t) = Node(t, Reduce(q, t).idx)
         /\ DOMAIN Levels(q, t)[n] = {0}
<1>1. n \in Nat \ {0} /\ Rows(t) = n
  BY RowsAre DEF PowerOfTwo
<1>2. PICK s : InLevel(t, n, s, Levels(q, t)[n]) /\ (s = 1 \/ s + n <= n)
  BY <1>1, LevelInv
<1>3. s \in Nat \ {0}
  BY <1>2 DEF InLevel, PowerOfTwo
<1>4. s = 1
  BY <1>1, <1>2, <1>3
<1>5. 0 \in 0..(s-1) /\ 0..(s-1) = {0}
  BY <1>4
<1> QED
  BY <1>1, <1>2, <1>5 DEF Reduce, InLevel

(* ... and the first one, or the last one, of those that are looked for.    *)
LEMMA ReduceSelects ==
  ASSUME NEW q, NEW t, NEW n, PowerOfTwo(n), DOMAIN t = 0..(n-1),
         NEW S \in SUBSET (0..(n-1)), NEW side \in {"first", "last"},
         Prefers(q, t, n, S, side),
         S # {}
  PROVE  Winner(S, side, Reduce(q, t).idx)
<1>1. n \in Nat \ {0} /\ Rows(t) = n
  BY RowsAre DEF PowerOfTwo
<1>2. PICK w : Winner(S, side, w)
  <2>1. CASE side # "last"
    <3>1. S \in SUBSET Nat
      BY <1>1
    <3> QED BY <2>1, <3>1, Least DEF Winner
  <2>2. CASE side = "last"
    <3> DEFINE T == {i \in 0..(n-1) : n - 1 - i \in S}
    <3>1. T # {}
      <4>1. PICK i \in S : TRUE
        OBVIOUS
      <4>2. n - 1 - i \in 0..(n-1) /\ n - 1 - (n - 1 - i) = i
        BY <1>1, <4>1
      <4> QED BY <4>1, <4>2
    <3>2. PICK k \in T : \A j \in T : k <= j
      <4>1. T \in SUBSET Nat
        BY <1>1
      <4> HIDE DEF T
      <4> QED BY <3>1, <4>1, Least
    <3>3. n - 1 - k \in S /\ k \in 0..(n-1)
      BY <3>2
    <3>4. ASSUME NEW j \in S PROVE j <= n - 1 - k
      <4>1. n - 1 - j \in T
        <5>1. n - 1 - j \in 0..(n-1) /\ n - 1 - (n - 1 - j) = j
          BY <1>1
        <5> QED BY <5>1
      <4>2. k <= n - 1 - j
        BY <3>2, <4>1
      <4> QED BY <1>1, <3>3, <4>2
    <3> QED BY <2>2, <3>3, <3>4 DEF Winner
  <2> QED BY <2>1, <2>2
<1>3. PICK k \in DOMAIN Levels(q, t)[n] : Levels(q, t)[n][k].idx = w
  <2>1. \A d \in Nat : StillThere(Levels(q, t)[d], w)
    <3>1. Wins(q, t, n, S, side, w)
      BY <1>2 DEF Wins
    <3> QED BY <3>1, WinnerInv
  <2> QED BY <1>1, <2>1 DEF StillThere
<1>4. DOMAIN Levels(q, t)[n] = {0}
  BY ReduceIsRow
<1>5. Reduce(q, t).idx = w
  BY <1>1, <1>3, <1>4 DEF Reduce
<1> QED
  BY <1>2, <1>5

-----------------------------------------------------------------------------
(* The searches of the stations.                                            *)

Table(t, n) == PowerOfTwo(n) /\ DOMAIN t = 0..(n-1)

(* The first busy row ...                                                  *)
LEMMA SearchFirst ==
  ASSUME NEW t, NEW n, Table(t, n), NEW killed
  PROVE  LET S == {i \in 0..(n-1) : BusyAfter(t[i], killed)}
             r == SearchIdx(t, TRUE, "first", killed)
         IN  /\ r.idx \in 0..(n-1)
             /\ r.valid <=> r.idx \in S
             /\ S # {} => Winner(S, "first", r.idx)
<1> DEFINE S == {i \in 0..(n-1) : BusyAfter(t[i], killed)}
           q == [op |-> "first", value |-> TRUE, killed |-> killed]
           r == SearchIdx(t, TRUE, "first", killed)
<1>1. /\ Reduce(q, t).idx \in 0..(n-1)
      /\ Reduce(q, t) = Node(t, Reduce(q, t).idx)
  BY ReduceIsRow DEF Table
<1>2. r.idx = Reduce(q, t).idx /\ (r.valid <=> BusyAfter(Reduce(q, t).slot, killed))
  <2>1. r = [valid |-> BusyAfter(Reduce(q, t).slot, killed) = TRUE, idx |-> Reduce(q, t).idx]
    BY DEF SearchIdx
  <2> HIDE DEF r, q
  <2>2. r.valid = (BusyAfter(Reduce(q, t).slot, killed) = TRUE) /\ r.idx = Reduce(q, t).idx
    BY <2>1
  <2>3. BusyAfter(Reduce(q, t).slot, killed) \in BOOLEAN
    BY DEF BusyAfter
  <2> QED BY <2>2, <2>3
<1>3. Reduce(q, t).slot = t[r.idx]
  <2> HIDE DEF q, r
  <2>1. Reduce(q, t).slot = t[Reduce(q, t).idx]
    BY <1>1 DEF Node
  <2> QED BY <1>2, <2>1
<1>4. Prefers(q, t, n, S, "first")
  BY DEF Prefers, SelectLeft, Node, BusyAfter
<1>5. S # {} => Winner(S, "first", Reduce(q, t).idx)
  BY <1>4, ReduceSelects DEF Table
<1>6. r.valid <=> r.idx \in S
  BY <1>1, <1>2, <1>3
<1> QED
  BY <1>1, <1>2, <1>5, <1>6

(* ... the last busy row ...                                               *)
LEMMA SearchLast ==
  ASSUME NEW t, NEW n, Table(t, n), NEW killed
  PROVE  LET S == {i \in 0..(n-1) : BusyAfter(t[i], killed)}
             r == SearchIdx(t, TRUE, "last", killed)
         IN  /\ r.idx \in 0..(n-1)
             /\ r.valid <=> r.idx \in S
             /\ S # {} => Winner(S, "last", r.idx)
<1> DEFINE S == {i \in 0..(n-1) : BusyAfter(t[i], killed)}
           q == [op |-> "last", value |-> TRUE, killed |-> killed]
           r == SearchIdx(t, TRUE, "last", killed)
<1>1. /\ Reduce(q, t).idx \in 0..(n-1)
      /\ Reduce(q, t) = Node(t, Reduce(q, t).idx)
  BY ReduceIsRow DEF Table
<1>2. r.idx = Reduce(q, t).idx /\ (r.valid <=> BusyAfter(Reduce(q, t).slot, killed))
  <2>1. r = [valid |-> BusyAfter(Reduce(q, t).slot, killed) = TRUE, idx |-> Reduce(q, t).idx]
    BY DEF SearchIdx
  <2> HIDE DEF r, q
  <2>2. r.valid = (BusyAfter(Reduce(q, t).slot, killed) = TRUE) /\ r.idx = Reduce(q, t).idx
    BY <2>1
  <2>3. BusyAfter(Reduce(q, t).slot, killed) \in BOOLEAN
    BY DEF BusyAfter
  <2> QED BY <2>2, <2>3
<1>3. Reduce(q, t).slot = t[r.idx]
  <2> HIDE DEF q, r
  <2>1. Reduce(q, t).slot = t[Reduce(q, t).idx]
    BY <1>1 DEF Node
  <2> QED BY <1>2, <2>1
<1>4. Prefers(q, t, n, S, "last")
  BY DEF Prefers, SelectLeft, Node, BusyAfter
<1>5. S # {} => Winner(S, "last", Reduce(q, t).idx)
  BY <1>4, ReduceSelects DEF Table
<1>6. r.valid <=> r.idx \in S
  BY <1>1, <1>2, <1>3
<1> QED
  BY <1>1, <1>2, <1>5, <1>6

(* ... the first free row ...                                              *)
LEMMA SearchFirstFree ==
  ASSUME NEW t, NEW n, Table(t, n), NEW killed
  PROVE  LET S == {i \in 0..(n-1) : ~BusyAfter(t[i], killed)}
             r == SearchIdx(t, FALSE, "first", killed)
         IN  /\ r.idx \in 0..(n-1)
             /\ r.valid <=> r.idx \in S
             /\ S # {} => Winner(S, "first", r.idx)
<1> DEFINE S == {i \in 0..(n-1) : ~BusyAfter(t[i], killed)}
           q == [op |-> "first", value |-> FALSE, killed |-> killed]
           r == SearchIdx(t, FALSE, "first", killed)
<1>1. /\ Reduce(q, t).idx \in 0..(n-1)
      /\ Reduce(q, t) = Node(t, Reduce(q, t).idx)
  BY ReduceIsRow DEF Table
<1>2. r.idx = Reduce(q, t).idx /\ (r.valid <=> ~BusyAfter(Reduce(q, t).slot, killed))
  <2>1. r = [valid |-> BusyAfter(Reduce(q, t).slot, killed) = FALSE, idx |-> Reduce(q, t).idx]
    BY DEF SearchIdx
  <2> HIDE DEF r, q
  <2>2. r.valid = (BusyAfter(Reduce(q, t).slot, killed) = FALSE) /\ r.idx = Reduce(q, t).idx
    BY <2>1
  <2>3. BusyAfter(Reduce(q, t).slot, killed) \in BOOLEAN
    BY DEF BusyAfter
  <2> QED BY <2>2, <2>3
<1>3. Reduce(q, t).slot = t[r.idx]
  <2> HIDE DEF q, r
  <2>1. Reduce(q, t).slot = t[Reduce(q, t).idx]
    BY <1>1 DEF Node
  <2> QED BY <1>2, <2>1
<1>4. Prefers(q, t, n, S, "first")
  BY DEF Prefers, SelectLeft, Node, BusyAfter
<1>5. S # {} => Winner(S, "first", Reduce(q, t).idx)
  BY <1>4, ReduceSelects DEF Table
<1>6. r.valid <=> r.idx \in S
  BY <1>1, <1>2, <1>3
<1> QED
  BY <1>1, <1>2, <1>5, <1>6

(* ... and the last free row.                                              *)
LEMMA SearchLastFree ==
  ASSUME NEW t, NEW n, Table(t, n), NEW killed
  PROVE  LET S == {i \in 0..(n-1) : ~BusyAfter(t[i], killed)}
             r == SearchIdx(t, FALSE, "last", killed)
         IN  /\ r.idx \in 0..(n-1)
             /\ r.valid <=> r.idx \in S
             /\ S # {} => Winner(S, "last", r.idx)
<1> DEFINE S == {i \in 0..(n-1) : ~BusyAfter(t[i], killed)}
           q == [op |-> "last", value |-> FALSE, killed |-> killed]
           r == SearchIdx(t, FALSE, "last", killed)
<1>1. /\ Reduce(q, t).idx \in 0..(n-1)
      /\ Reduce(q, t) = Node(t, Reduce(q, t).idx)
  BY ReduceIsRow DEF Table
<1>2. r.idx = Reduce(q, t).idx /\ (r.valid <=> ~BusyAfter(Reduce(q, t).slot, killed))
  <2>1. r = [valid |-> BusyAfter(Reduce(q, t).slot, killed) = FALSE, idx |-> Reduce(q, t).idx]
    BY DEF SearchIdx
  <2> HIDE DEF r, q
  <2>2. r.valid = (BusyAfter(Reduce(q, t).slot, killed) = FALSE) /\ r.idx = Reduce(q, t).idx
    BY <2>1
  <2>3. BusyAfter(Reduce(q, t).slot, killed) \in BOOLEAN
    BY DEF BusyAfter
  <2> QED BY <2>2, <2>3
<1>3. Reduce(q, t).slot = t[r.idx]
  <2> HIDE DEF q, r
  <2>1. Reduce(q, t).slot = t[Reduce(q, t).idx]
    BY <1>1 DEF Node
  <2> QED BY <1>2, <2>1
<1>4. Prefers(q, t, n, S, "last")
  BY DEF Prefers, SelectLeft, Node, BusyAfter
<1>5. S # {} => Winner(S, "last", Reduce(q, t).idx)
  BY <1>4, ReduceSelects DEF Table
<1>6. r.valid <=> r.idx \in S
  BY <1>1, <1>2, <1>3
<1> QED
  BY <1>1, <1>2, <1>5, <1>6

(* A free row other than the one excepted, if there is one.                 *)
LEMMA FreeIndexIs ==
  ASSUME NEW t, NEW n, Table(t, n), NEW except
  PROVE  LET r == FreeIndex(t, except)
         IN  /\ r.idx \in 0..(n-1) /\ r.busy = t[r.idx].busy
             /\ (\E i \in 0..(n-1) : ~t[i].busy /\ i # except)
                  => ~t[r.idx].busy /\ r.idx # except
<1> DEFINE S == {i \in 0..(n-1) : ~t[i].busy /\ i # except}
           q == [op |-> "free", except |-> except]
           r == FreeIndex(t, except)
<1>1. /\ Reduce(q, t).idx \in 0..(n-1)
      /\ Reduce(q, t) = Node(t, Reduce(q, t).idx)
  BY ReduceIsRow DEF Table
<1>2. r.idx = Reduce(q, t).idx /\ r.busy = Reduce(q, t).slot.busy
  BY DEF FreeIndex
<1>3. Reduce(q, t).slot = t[r.idx]
  <2> HIDE DEF q, r
  <2>1. Reduce(q, t).slot = t[Reduce(q, t).idx]
    BY <1>1 DEF Node
  <2> QED BY <1>2, <2>1
<1>4. Prefers(q, t, n, S, "first")
  BY DEF Prefers, SelectLeft, Node
<1>5. S # {} => Winner(S, "first", Reduce(q, t).idx)
  BY <1>4, ReduceSelects DEF Table
<1>6. ASSUME NEW i \in 0..(n-1), ~t[i].busy, i # except
      PROVE  ~t[r.idx].busy /\ r.idx # except
  <2>1. i \in S
    BY <1>6
  <2> QED BY <1>2, <1>5, <2>1 DEF Winner
<1> QED
  BY <1>1, <1>2, <1>3, <1>6

(* The pointer of a ring station is a row again.                           *)
LEMMA WrapIs ==
  ASSUME NEW t, NEW n, Table(t, n), NEW i \in 0..n
  PROVE  Wrap(t, i) = IF i = n THEN 0 ELSE i
<1>1. n \in Nat \ {0} /\ Rows(t) = n
  BY RowsAre DEF Table, PowerOfTwo
<1>2. i % n = IF i = n THEN 0 ELSE i
  BY <1>1
<1> QED
  BY <1>1, <1>2 DEF Wrap

-----------------------------------------------------------------------------
(* The stations that issue in order are rings.                              *)

(* How far behind the allocation pointer a row is: the row that is          *)
(* allocated next is at 0, the youngest entry of the ring at n-1.           *)
Pos(i, a, n) == IF i >= a THEN i - a ELSE i - a + n

(* The busy rows are those up to the pointer.                               *)
RingOf(t, a, n) ==
  /\ a \in 0..(n-1)
  /\ \A i, j \in 0..(n-1) :
       t[i].busy /\ Pos(i, a, n) <= Pos(j, a, n) => t[j].busy

(* Without a mispredict nothing is killed.                                 *)
LEMMA NotKilled ==
  ASSUME NEW e
  PROVE  BusyAfter(e, {}) <=> e.busy
  BY DEF BusyAfter

(* The row that issues is the oldest one.                                   *)
LEMMA CheckIdxIs ==
  ASSUME NEW t, NEW n, Table(t, n), NEW a, RingOf(t, a, n)
  PROVE  LET c == CheckIdx(t, a)
         IN  /\ c \in 0..(n-1)
             /\ \A i \in 0..(n-1) : t[i].busy => Pos(c, a, n) <= Pos(i, a, n)
<1> DEFINE B  == {i \in 0..(n-1) : BusyAfter(t[i], {})}
           F  == {i \in 0..(n-1) : ~BusyAfter(t[i], {})}
           b1 == SearchIdx(t, TRUE, "first", {})
           e1 == SearchIdx(t, TRUE, "last", {})
           e0 == SearchIdx(t, FALSE, "last", {})
           c  == CheckIdx(t, a)
<1>1. n \in Nat \ {0} /\ Rows(t) = n /\ a \in 0..(n-1)
  BY RowsAre DEF Table, PowerOfTwo, RingOf
<1>2. \A i \in 0..(n-1) : (i \in B <=> t[i].busy) /\ (i \in F <=> ~t[i].busy)
  BY NotKilled
<1>3. /\ b1.idx \in 0..(n-1) /\ (B # {} => Winner(B, "first", b1.idx))
      /\ e1.idx \in 0..(n-1) /\ (B # {} => Winner(B, "last", e1.idx))
      /\ e0.idx \in 0..(n-1) /\ (F # {} => Winner(F, "last", e0.idx))
      /\ (e0.valid <=> e0.idx \in F)
  <2>1. b1.idx \in 0..(n-1) /\ (B # {} => Winner(B, "first", b1.idx))
    BY SearchFirst
  <2>2. e1.idx \in 0..(n-1) /\ (B # {} => Winner(B, "last", e1.idx))
    BY SearchLast
  <2>3. e0.idx \in 0..(n-1) /\ (F # {} => Winner(F, "last", e0.idx))
        /\ (e0.valid <=> e0.idx \in F)
    BY SearchLastFree
  <2> HIDE DEF B, F, b1, e1, e0
  <2> QED BY <2>1, <2>2, <2>3
<1>4. c = IF ~e0.valid THEN a
          ELSE IF RoundTheEnd(t, b1, e1) THEN Wrap(t, e0.idx + 1) ELSE b1.idx
  BY DEF CheckIdx
<1>5. RoundTheEnd(t, b1, e1) <=> b1.idx = 0 /\ e1.idx = n - 1
  BY <1>1 DEF RoundTheEnd
<1>6. Wrap(t, e0.idx + 1) = IF e0.idx + 1 = n THEN 0 ELSE e0.idx + 1
  <2> HIDE DEF B, F, b1, e1, e0, c
  <2>1. e0.idx + 1 \in 0..n
    BY <1>1, <1>3
  <2> QED BY <2>1, WrapIs
<1>7. \A i, j \in 0..(n-1) : i \in B /\ Pos(i, a, n) <= Pos(j, a, n) => j \in B
  BY <1>2 DEF RingOf
<1>8. \A i \in 0..(n-1) : i \in B <=> i \notin F
  BY <1>2
<1>9. B \subseteq 0..(n-1) /\ F \subseteq 0..(n-1)
  OBVIOUS
<1> HIDE DEF B, F, b1, e1, e0, c
<1>10. c \in 0..(n-1)
  BY <1>1, <1>3, <1>4, <1>6
<1>11. ASSUME NEW i \in B PROVE Pos(c, a, n) <= Pos(i, a, n)
  <2>1. i \in 0..(n-1) /\ B # {}
    BY <1>9, <1>11
  <2>2. CASE ~e0.valid
    BY <1>1, <1>4, <2>1, <2>2 DEF Pos
  <2>3. CASE e0.valid /\ RoundTheEnd(t, b1, e1)
    <3>1. e0.idx \in F /\ n - 1 \in B
      BY <1>3, <1>5, <2>1, <2>3 DEF Winner
    <3>2. e0.idx # n - 1 /\ c = e0.idx + 1
      BY <1>1, <1>3, <1>4, <1>6, <1>8, <2>3, <3>1
    <3>3. ~(Pos(i, a, n) <= Pos(e0.idx, a, n))
      BY <1>3, <1>7, <1>8, <1>11, <2>1, <3>1
    <3> QED BY <1>1, <1>3, <2>1, <3>2, <3>3 DEF Pos
  <2>4. CASE e0.valid /\ ~RoundTheEnd(t, b1, e1)
    <3>1. c = b1.idx /\ c \in B /\ c <= i
      BY <1>3, <1>4, <1>11, <2>1, <2>4 DEF Winner
    <3>2. SUFFICES ASSUME Pos(i, a, n) < Pos(c, a, n) PROVE FALSE
      BY <1>1, <1>10, <2>1 DEF Pos
    <3>3. c < a /\ a <= i
      BY <1>1, <1>10, <2>1, <3>1, <3>2 DEF Pos
    <3>4. n - 1 \in B /\ 0 \in B
      <4>1. Pos(i, a, n) <= Pos(n - 1, a, n) /\ Pos(i, a, n) <= Pos(0, a, n)
        BY <1>1, <1>10, <2>1, <3>3 DEF Pos
      <4>2. n - 1 \in 0..(n-1) /\ 0 \in 0..(n-1)
        BY <1>1
      <4> QED BY <1>7, <1>11, <2>1, <4>1, <4>2
    <3>5. b1.idx = 0 /\ e1.idx = n - 1
      BY <1>1, <1>3, <2>1, <3>4 DEF Winner
    <3> QED BY <1>5, <2>4, <3>5
  <2> QED BY <2>2, <2>3, <2>4
<1>12. ASSUME NEW i \in 0..(n-1), t[i].busy PROVE Pos(c, a, n) <= Pos(i, a, n)
  BY <1>2, <1>11, <1>12
<1> QED
  BY <1>10, <1>12 DEF c

(* A row the table has, whatever the pointer.                               *)
LEMMA CheckIdxRow ==
  ASSUME NEW t, NEW n, Table(t, n), NEW a \in 0..(n-1)
  PROVE  CheckIdx(t, a) \in 0..(n-1)
<1> DEFINE b1 == SearchIdx(t, TRUE, "first", {})
           e1 == SearchIdx(t, TRUE, "last", {})
           e0 == SearchIdx(t, FALSE, "last", {})
<1>1. n \in Nat \ {0}
  BY DEF Table, PowerOfTwo
<1>2. b1.idx \in 0..(n-1)
  BY SearchFirst
<1>3. e0.idx \in 0..(n-1)
  BY SearchLastFree
<1>4. CheckIdx(t, a) = IF ~e0.valid THEN a
          ELSE IF RoundTheEnd(t, b1, e1) THEN Wrap(t, e0.idx + 1) ELSE b1.idx
  BY DEF CheckIdx
<1> HIDE DEF b1, e0, e1
<1>5. e0.idx + 1 \in 0..n
  BY <1>1, <1>3
<1>6. Wrap(t, e0.idx + 1) \in 0..(n-1)
  BY <1>1, <1>3, <1>5, WrapIs
<1> QED
  BY <1>2, <1>4, <1>6

(* What is issued is a row that is ready.                                   *)
LEMMA IIssueIs ==
  ASSUME NEW t, NEW n, Table(t, n), NEW a \in 0..(n-1), IIssue(t, a) # None
  PROVE  /\ IIssue(t, a) = CheckIdx(t, a)
         /\ IIssue(t, a) \in 0..(n-1) /\ Ready(t[IIssue(t, a)])
  BY CheckIdxRow DEF IIssue

(* So is what a station issues that issues any entry.                      *)
LEMMA OIssueIs ==
  ASSUME NEW t, NEW n, Table(t, n), NEW u, OIssue(u, t) # None
  PROVE  OIssue(u, t) \in 0..(n-1) /\ Ready(t[OIssue(u, t)])
<1> DEFINE q == [op |-> IF u = "mul" THEN "ready" ELSE "oldest"]
<1>1. /\ Reduce(q, t).idx \in 0..(n-1)
      /\ Reduce(q, t) = Node(t, Reduce(q, t).idx)
  BY ReduceIsRow DEF Table
<1>2. OIssue(u, t) = IF Ready(Reduce(q, t).slot) THEN Reduce(q, t).idx ELSE None
  BY DEF OIssue
<1> HIDE DEF q
<1>3. Reduce(q, t).slot = t[Reduce(q, t).idx]
  BY <1>1 DEF Node
<1> QED
  BY <1>1, <1>2, <1>3

(* The allocation pointer after a mispredict is a row, whatever was killed.*)
LEMMA AllocMisPredRow ==
  ASSUME NEW t, NEW n, Table(t, n), NEW a \in 0..(n-1), NEW killed
  PROVE  AllocMisPred(t, a, killed) \in 0..(n-1)
<1> DEFINE b1 == SearchIdx(t, TRUE, "first", killed)
           e1 == SearchIdx(t, TRUE, "last", killed)
           b0 == SearchIdx(t, FALSE, "first", killed)
<1>1. n \in Nat \ {0}
  BY DEF Table, PowerOfTwo
<1>2. e1.idx \in 0..(n-1)
  BY SearchLast
<1>3. b0.idx \in 0..(n-1)
  BY SearchFirstFree
<1>4. AllocMisPred(t, a, killed) = IF ~b0.valid THEN a
          ELSE IF ~b1.valid THEN Wrap(t, 1)
          ELSE IF RoundTheEnd(t, b1, e1) THEN b0.idx ELSE Wrap(t, e1.idx + 1)
  BY DEF AllocMisPred
<1> HIDE DEF b0, b1, e1
<1>5. e1.idx + 1 \in 0..n /\ 1 \in 0..n
  BY <1>1, <1>2
<1>6. Wrap(t, e1.idx + 1) \in 0..(n-1)
  BY <1>1, <1>2, <1>5, WrapIs
<1>7. Wrap(t, 1) \in 0..(n-1)
  BY <1>1, <1>5, WrapIs
<1> QED
  BY <1>3, <1>4, <1>6, <1>7

-----------------------------------------------------------------------------
(* The entries of a ring are in the order of their ages: B are the busy     *)
(* rows, g the ages.                                                        *)
RingAge(B, g, a, n) ==
  /\ n \in Nat \ {0} /\ a \in 0..(n-1) /\ B \subseteq 0..(n-1)
  /\ \A i \in B : g[i] \in Int
  /\ \A i \in B, j \in 0..(n-1) :
       Pos(i, a, n) < Pos(j, a, n) => j \in B /\ g[i] < g[j]

(* Rows are told apart by their distance to the pointer.                   *)
LEMMA PosIs ==
  ASSUME NEW n \in Nat \ {0}, NEW a \in 0..(n-1), NEW i \in 0..(n-1),
         NEW j \in 0..(n-1)
  PROVE  Pos(i, a, n) \in 0..(n-1) /\ (Pos(i, a, n) = Pos(j, a, n) => i = j)
         /\ Pos(a, a, n) = 0
  BY DEF Pos

(* Issuing the oldest entry leaves a ring, and it was the oldest.          *)
LEMMA RingIssue ==
  ASSUME NEW B, NEW g, NEW a, NEW n, RingAge(B, g, a, n),
         NEW c \in B, \A i \in B : Pos(c, a, n) <= Pos(i, a, n)
  PROVE  /\ RingAge(B \ {c}, g, a, n)
         /\ \A i \in B \ {c} : g[c] < g[i]
<1>1. ASSUME NEW i \in B \ {c} PROVE Pos(c, a, n) < Pos(i, a, n)
  BY PosIs DEF RingAge
<1>2. ASSUME NEW i \in B \ {c}, NEW j \in 0..(n-1), Pos(i, a, n) < Pos(j, a, n)
      PROVE  j # c
  BY <1>1, <1>2, PosIs DEF RingAge
<1> QED
  BY <1>1, <1>2 DEF RingAge

(* Writing a younger entry at the pointer leaves a ring behind it.         *)
LEMMA RingWrite ==
  ASSUME NEW B, NEW g, NEW h, NEW a, NEW n, RingAge(B, g, a, n), a \notin B,
         \A i \in B : h[i] = g[i] /\ h[i] < h[a], h[a] \in Int,
         NEW b, b = IF a + 1 = n THEN 0 ELSE a + 1
  PROVE  RingAge(B \cup {a}, h, b, n)
<1>1. n \in Nat \ {0} /\ a \in 0..(n-1) /\ B \subseteq 0..(n-1)
  BY DEF RingAge
<1>2. b \in 0..(n-1)
  BY <1>1
<1>3. ASSUME NEW i \in 0..(n-1)
      PROVE  Pos(i, b, n) = IF i = a THEN n - 1 ELSE Pos(i, a, n) - 1
  BY <1>1 DEF Pos
<1>4. ASSUME NEW i \in B \cup {a}, NEW j \in 0..(n-1), Pos(i, b, n) < Pos(j, b, n)
      PROVE  j \in B \cup {a} /\ h[i] < h[j]
  <2>1. Pos(j, a, n) \in 0..(n-1)
    BY <1>1, PosIs
  <2>2. i # a
    BY <1>1, <1>3, <1>4, <2>1
  <2>3. i \in B /\ i \in 0..(n-1)
    BY <1>1, <2>2
  <2>4. CASE j = a
    BY <2>3, <2>4
  <2>5. CASE j # a
    <3>1. Pos(i, a, n) < Pos(j, a, n)
      BY <1>1, <1>3, <1>4, <2>1, <2>2, <2>3, <2>5, PosIs
    <3>2. j \in B /\ g[i] < g[j]
      BY <2>3, <3>1 DEF RingAge
    <3> QED BY <2>3, <3>2
  <2> QED BY <2>4, <2>5
<1> QED
  BY <1>1, <1>2, <1>4 DEF RingAge

(* Where the pointer is at an entry, the ring is full.                     *)
LEMMA RingFull ==
  ASSUME NEW B, NEW g, NEW a, NEW n, RingAge(B, g, a, n), a \in B
  PROVE  B = 0..(n-1)
<1>1. ASSUME NEW j \in 0..(n-1) PROVE j \in B
  BY <1>1, PosIs DEF RingAge
<1> QED
  BY <1>1 DEF RingAge

(* An entry that is not there makes no difference to the order, and neither *)
(* does the clock.                                                          *)
LEMMA RingSame ==
  ASSUME NEW B, NEW g, NEW h, NEW a, NEW n, RingAge(B, g, a, n),
         \A i \in B : h[i] \in Int,
         \A i, j \in B : g[i] < g[j] => h[i] < h[j]
  PROVE  RingAge(B, h, a, n)
  BY DEF RingAge

(* A ring in the order of ages is a ring.                                  *)
LEMMA RingRing ==
  ASSUME NEW t, NEW n, NEW g, NEW a,
         RingAge({i \in 0..(n-1) : t[i].busy}, g, a, n)
  PROVE  RingOf(t, a, n)
<1>1. ASSUME NEW i \in 0..(n-1), NEW j \in 0..(n-1), t[i].busy,
             Pos(i, a, n) <= Pos(j, a, n)
      PROVE  t[j].busy
  <2>1. n \in Nat \ {0} /\ a \in 0..(n-1)
    BY DEF RingAge
  <2>2. CASE i = j
    BY <1>1, <2>2
  <2>3. CASE i # j
    <3>1. Pos(i, a, n) < Pos(j, a, n)
      BY <1>1, <2>1, <2>3, PosIs
    <3> QED BY <1>1, <3>1 DEF RingAge
  <2> QED BY <2>2, <2>3
<1> QED
  BY <1>1 DEF RingAge, RingOf

(* What is left of a ring when its youngest entries are taken out is a ring *)
(* behind an entry that is the last of them.                                *)
LEMMA RingCut ==
  ASSUME NEW B, NEW g, NEW a, NEW n, RingAge(B, g, a, n), NEW C, C \subseteq B,
         \A i \in C, j \in B : g[j] < g[i] => j \in C,
         NEW w \in C, NEW b, b = (IF w + 1 = n THEN 0 ELSE w + 1), b \notin C
  PROVE  RingAge(C, g, b, n)
<1>1. /\ n \in Nat \ {0} /\ a \in 0..(n-1) /\ C \subseteq 0..(n-1)
      /\ \A i \in C : i \in B /\ i \in 0..(n-1) /\ g[i] \in Int
      /\ w \in B /\ w \in 0..(n-1)
  BY DEF RingAge
<1>2. b \in 0..(n-1)
  BY <1>1
<1>3. \A i \in C : Pos(i, a, n) <= Pos(w, a, n)
  <2>1. SUFFICES ASSUME NEW i \in C, Pos(w, a, n) < Pos(i, a, n) PROVE FALSE
    BY <1>1, PosIs
  <2>2. Pos(b, a, n) = Pos(w, a, n) + 1
    <3>1. i \in 0..(n-1)
      BY <1>1
    <3> QED BY <1>1, <2>1, <3>1 DEF Pos
  <2>3. b \in B
    BY <1>1, <1>2, <2>2, PosIs DEF RingAge
  <2>4. CASE b = i
    BY <2>4
  <2>5. CASE b # i
    <3>1. Pos(b, a, n) < Pos(i, a, n)
      <4>1. Pos(b, a, n) # Pos(i, a, n)
        BY <1>1, <1>2, <2>5, PosIs
      <4> QED BY <1>1, <1>2, <2>1, <2>2, <4>1, PosIs
    <3>2. g[b] < g[i]
      BY <1>1, <2>3, <3>1 DEF RingAge
    <3> QED BY <2>3, <3>2
  <2> QED BY <2>4, <2>5
<1>4. ASSUME NEW i \in 0..(n-1), Pos(i, a, n) <= Pos(w, a, n)
      PROVE  Pos(i, b, n) = Pos(i, a, n) + (n - 1 - Pos(w, a, n))
  BY <1>1, <1>2, <1>4 DEF Pos
<1>5. ASSUME NEW j \in 0..(n-1), Pos(j, a, n) > Pos(w, a, n)
      PROVE  Pos(j, b, n) < n - 1 - Pos(w, a, n)
  BY <1>1, <1>2, <1>5 DEF Pos
<1>6. ASSUME NEW i \in C, NEW j \in 0..(n-1), Pos(i, b, n) < Pos(j, b, n)
      PROVE  j \in C /\ g[i] < g[j]
  <2> DEFINE p == Pos(i, a, n)
             q == Pos(j, a, n)
             r == Pos(w, a, n)
  <2>1. p \in 0..(n-1) /\ q \in 0..(n-1) /\ r \in 0..(n-1) /\ p <= r
    BY <1>1, <1>3, PosIs
  <2>2. Pos(i, b, n) = p + (n - 1 - r)
    BY <1>1, <1>3, <1>4
  <2>3. q <= r
    <3>1. q > r => Pos(j, b, n) < n - 1 - r
      BY <1>5
    <3> HIDE DEF p, q, r
    <3>2. Pos(j, b, n) \in 0..(n-1) /\ Pos(i, b, n) \in 0..(n-1)
      BY <1>1, <1>2, PosIs
    <3> QED BY <1>1, <1>6, <2>1, <2>2, <3>1, <3>2
  <2>4. Pos(j, b, n) = q + (n - 1 - r)
    BY <1>4, <2>3
  <2>5. p < q
    <3> HIDE DEF p, q, r
    <3> QED BY <1>1, <1>6, <2>1, <2>2, <2>4
  <2>6. j \in B /\ g[i] < g[j]
    BY <1>1, <2>5 DEF RingAge
  <2>7. j = w \/ g[j] < g[w]
    <3>1. CASE q = r
      BY <1>1, <3>1, PosIs
    <3>2. CASE q # r
      <4>1. q < r
        <5> HIDE DEF p, q, r
        <5> QED BY <1>1, <2>1, <2>3, <3>2
      <4> QED BY <1>1, <2>6, <4>1 DEF RingAge
    <3> QED BY <3>1, <3>2
  <2> QED BY <2>6, <2>7
<1> QED BY <1>1, <1>2, <1>6 DEF RingAge

(* A mispredict that takes the youngest entries of a ring out leaves the    *)
(* pointer behind those that stay.                                          *)
LEMMA RingTurnsBack ==
  ASSUME NEW t, NEW n, Table(t, n), NEW B, NEW g, NEW a, RingAge(B, g, a, n), NEW killed,
         NEW C, C = {i \in 0..(n-1) : BusyAfter(t[i], killed)}, C \subseteq B,
         \A i \in C, j \in B : g[j] < g[i] => j \in C
  PROVE  RingAge(C, g, AllocMisPred(t, a, killed), n)
<1> DEFINE b1 == SearchIdx(t, TRUE, "first", killed)
           e1 == SearchIdx(t, TRUE, "last", killed)
           b0 == SearchIdx(t, FALSE, "first", killed)
           D == {i \in 0..(n-1) : ~BusyAfter(t[i], killed)}
           p == AllocMisPred(t, a, killed)
<1>1. /\ n \in Nat \ {0} /\ a \in 0..(n-1) /\ C \subseteq 0..(n-1)
      /\ \A i \in C : g[i] \in Int
  BY DEF RingAge
<1>2. b1.idx \in 0..(n-1) /\ (b1.valid <=> b1.idx \in C) /\ (C # {} => Winner(C, "first", b1.idx))
  BY SearchFirst
<1>3. e1.idx \in 0..(n-1) /\ (C # {} => Winner(C, "last", e1.idx))
  BY SearchLast
<1>4. b0.idx \in 0..(n-1) /\ (b0.valid <=> b0.idx \in D) /\ (D # {} => Winner(D, "first", b0.idx))
  BY SearchFirstFree
<1>5. p = IF ~b0.valid THEN a
          ELSE IF ~b1.valid THEN Wrap(t, 1)
          ELSE IF b1.idx = 0 /\ e1.idx = n - 1 THEN b0.idx ELSE Wrap(t, e1.idx + 1)
  <2>1. Rows(t) = n
    BY <1>1, RowsAre DEF Table
  <2> QED BY <2>1 DEF AllocMisPred, RoundTheEnd
<1>6. D = (0..(n-1)) \ C
  OBVIOUS
<1>7. p \in 0..(n-1)
  BY <1>1, AllocMisPredRow
<1> HIDE DEF b0, b1, e1, D, p
<1>8. CASE ~b0.valid
  <2>1. D = {}
    BY <1>4, <1>8 DEF Winner
  <2>2. C = B /\ p = a
    BY <1>5, <1>6, <1>8, <2>1 DEF RingAge
  <2> QED BY <2>2 DEF p
<1>9. CASE C = {}
  BY <1>1, <1>7, <1>9 DEF RingAge, p
<1>10. CASE b0.valid /\ C # {}
  <2>1. b1.valid /\ b1.idx \in C /\ e1.idx \in C /\ b0.idx \in D /\ b0.idx \notin C
    BY <1>2, <1>3, <1>4, <1>6, <1>10 DEF Winner
  <2>2. /\ \A i \in C : b1.idx <= i /\ i <= e1.idx
        /\ \A i \in D : b0.idx <= i
    BY <1>2, <1>3, <1>4, <1>10, <2>1 DEF Winner
  <2>3. CASE b1.idx = 0 /\ e1.idx = n - 1
    <3>1. PICK w : w = b0.idx - 1
      OBVIOUS
    <3>2. b0.idx # 0
      BY <2>1, <2>3
    <3>3. w \in 0..(n-1) /\ w \notin D
      BY <1>1, <1>4, <2>2, <3>1, <3>2
    <3>4. w \in C /\ p = w + 1 /\ w + 1 # n /\ w + 1 \notin C
      BY <1>1, <1>4, <1>5, <1>6, <1>10, <2>1, <2>3, <3>1, <3>3
    <3>5. RingAge(C, g, p, n)
      BY <3>4, RingCut
    <3> QED BY <3>5 DEF p
  <2>4. CASE ~(b1.idx = 0 /\ e1.idx = n - 1)
    <3>1. PICK w : w = e1.idx
      OBVIOUS
    <3>2. w \in 0..(n-1) /\ w \in C /\ w + 1 \in 0..n
      BY <1>1, <1>3, <2>1, <3>1
    <3>3. p = IF w + 1 = n THEN 0 ELSE w + 1
      BY <1>1, <1>5, <1>10, <2>1, <2>4, <3>1, <3>2, WrapIs
    <3>4. p \notin C
      BY <1>1, <1>2, <2>1, <2>2, <2>4, <3>1, <3>2, <3>3
    <3>5. RingAge(C, g, p, n)
      BY <3>2, <3>3, <3>4, RingCut
    <3> QED BY <3>5 DEF p
  <2> QED BY <2>3, <2>4
<1> QED BY <1>8, <1>9, <1>10
=============================================================================
