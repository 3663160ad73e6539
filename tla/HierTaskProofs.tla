-------------------------- MODULE HierTaskProofs ---------------------------
(***************************************************************************)
(* Proofs about how ranges and loops are cut.  Hierarchy tasks, for any    *)
(* chunks and ranges: what split() does along one dimension, that the      *)
(* numbers of the chunks stand for all combinations of pieces, and what    *)
(* the threads of a group do with them.  Tiled loops, for any bounds, tile *)
(* sizes and offsets: the tiles cover the loop, and the functions that     *)
(* number a tile, bound it and name its data agree.                        *)
(***************************************************************************)
EXTENDS HierTask, TileLoop, WellFoundedInduction, TLAPS

\* Division rounds down.
LEMMA Division ==
  ASSUME NEW a \in Int, NEW b \in Nat \ {0}
  PROVE  a \div b \in Int /\ b * (a \div b) <= a /\ a < b * (a \div b) + b
OBVIOUS

\* The smaller of two numbers.
LEMMA MinOfTwo ==
  ASSUME NEW a \in Int, NEW b \in Int
  PROVE  Min({a, b}) = IF a <= b THEN a ELSE b
<1>1. \E x \in {a, b} : \A y \in {a, b} : x <= y
  OBVIOUS
<1>2. Min({a, b}) \in {a, b} /\ \A y \in {a, b} : Min({a, b}) <= y
  BY <1>1 DEF Min
<1>3. QED
  BY <1>2

\* Half-open intervals of one length tile the numbers from 0.
LEMMA Tiles ==
  ASSUME NEW S \in Nat \ {0}, NEW q \in Nat, NEW n \in Nat, q < n * S
  PROVE  /\ q \div S \in 0 .. n - 1
         /\ (q \div S) * S <= q /\ q < ((q \div S) + 1) * S
         /\ \A y \in Int : y * S <= q /\ q < (y + 1) * S => y = q \div S
<1> DEFINE x == q \div S
<1>1. x \in Int /\ S * x <= q /\ q < S * x + S
  BY Division
<1>2. x >= 0
  <2>1. SUFFICES ASSUME x <= -1 PROVE FALSE
    BY <1>1
  <2>2. S * x <= S * (-1)
    BY <1>1, <2>1
  <2>3. QED
    BY <1>1, <2>2
<1>3. x < n
  <2>1. SUFFICES ASSUME n <= x PROVE FALSE
    BY <1>1
  <2>2. n * S <= x * S
    BY <1>1, <2>1
  <2>3. QED
    BY <1>1, <2>2
<1>4. ASSUME NEW y \in Int, y * S <= q, q < (y + 1) * S
      PROVE  y = x
  <2>1. CASE y < x
    <3>1. (y + 1) * S <= x * S
      BY <1>1, <2>1
    <3>2. QED
      BY <1>1, <1>4, <3>1
  <2>2. CASE x < y
    <3>1. (x + 1) * S <= y * S
      BY <1>1, <2>2
    <3>2. (x + 1) * S = S * x + S
      BY <1>1
    <3>3. QED
      BY <1>1, <1>4, <3>1, <3>2
  <2>3. QED
    BY <1>1, <2>1, <2>2
<1>5. (x + 1) * S = S * x + S /\ x * S = S * x
  BY <1>1
<1>6. QED
  BY <1>1, <1>2, <1>3, <1>4, <1>5

\* A chunk is as long as it must be for the chunks of a dimension to reach its end.
LEMMA SizeReaches ==
  ASSUME NEW r \in Ranges, NEW d \in DOMAIN Chunks, r[d].low < r[d].high
  PROVE  Size(r, d) \in Nat \ {0} /\ r[d].high - r[d].low <= Chunks[d] * Size(r, d)
<1> DEFINE len == r[d].high - r[d].low
           n == Chunks[d]
<1>1. n \in Nat \ {0} /\ r[d].low \in Int /\ r[d].high \in Int
  BY ChunksAssumption, RangesAssumption
<1>2. len \in Nat \ {0}
  BY <1>1
<1> HIDE DEF len, n
<1>3. len + n - 1 \in Int
  BY <1>1, <1>2
<1> DEFINE S == (len + n - 1) \div n
<1>4. S \in Int /\ n * S <= len + n - 1 /\ len + n - 1 < n * S + n
  BY <1>1, <1>3, Division
<1> HIDE DEF S
<1>5. len <= n * S
  BY <1>1, <1>2, <1>4
<1>6. S > 0
  <2>1. SUFFICES ASSUME S <= 0 PROVE FALSE
    BY <1>4
  <2>2. n * S <= 0
    BY <1>1, <1>4, <2>1
  <2>3. QED
    BY <1>1, <1>2, <1>4, <1>5, <2>2
<1>7. Size(r, d) = S
  BY DEF Size, len, n, S
<1>8. QED
  BY <1>4, <1>5, <1>6, <1>7 DEF len, n

\* A bound is a coordinate.
LEMMA BoundInt ==
  ASSUME NEW r \in Ranges, NEW d \in DOMAIN Chunks, NEW x \in Int
  PROVE  Bound(r, d, x) \in Int
<1>1. Chunks[d] \in Nat \ {0} /\ r[d].low \in Int /\ r[d].high \in Int
  BY ChunksAssumption, RangesAssumption
<1>2. Size(r, d) \in Int
  BY <1>1, Division DEF Size
<1>3. r[d].low + x * Size(r, d) \in Int
  BY <1>1, <1>2
<1>4. QED
  BY <1>1, <1>3, MinOfTwo DEF Bound

\* The pieces of one dimension cover it without overlap: whatever its length and
\* their number, a coordinate is in exactly one of them.
THEOREM DimensionSplit ==
  ASSUME NEW r \in Ranges, NEW d \in DOMAIN Chunks, NEW p \in Int,
         r[d].low <= p, p < r[d].high
  PROVE  \E x \in 0 .. Chunks[d] - 1 : \A y \in Int :
           Bound(r, d, y) <= p /\ p < Bound(r, d, y + 1) <=> y = x
<1> DEFINE low == r[d].low
           high == r[d].high
           S == Size(r, d)
           q == p - low
<1>1. /\ Chunks[d] \in Nat \ {0} /\ low \in Int /\ high \in Int
      /\ S \in Nat \ {0} /\ high - low <= Chunks[d] * S
  BY ChunksAssumption, RangesAssumption, SizeReaches
<1>2. \A y \in Int : Bound(r, d, y) = IF high <= low + y * S THEN high ELSE low + y * S
  BY <1>1, MinOfTwo DEF Bound
<1>3. low <= p /\ p < high
  OBVIOUS
<1> HIDE DEF low, high, S
<1>4. q \in Nat /\ q < Chunks[d] * S
  BY <1>1, <1>3
<1>5. \A y \in Int : Bound(r, d, y) <= p <=> y * S <= q
  BY <1>1, <1>2, <1>3
<1>6. \A y \in Int : p < Bound(r, d, y + 1) <=> q < (y + 1) * S
  BY <1>1, <1>2, <1>3
<1> HIDE DEF q
<1>7. /\ q \div S \in 0 .. Chunks[d] - 1
      /\ (q \div S) * S <= q /\ q < ((q \div S) + 1) * S
      /\ \A y \in Int : y * S <= q /\ q < (y + 1) * S => y = q \div S
  BY <1>1, <1>4, Tiles
<1>8. QED
  BY <1>5, <1>6, <1>7

-----------------------------------------------------------------------------
(***************************************************************************)
(* The numbers of the chunks.                                              *)
(***************************************************************************)

\* Induction, for the set of the numbers that have a property.
LEMMA Induction ==
  ASSUME NEW T, 0 \in T, \A n \in Nat : n \in T => n + 1 \in T
  PROVE  \A n \in Nat : n \in T
<1>1. SUFFICES ASSUME Nat \ T # {} PROVE FALSE
  OBVIOUS
<1>2. PICK n \in Nat \ T : \A y \in Nat \ T : ~ (<<y, n>> \in OpToRel(<, Nat))
  BY <1>1, NatLessThanWellFounded, WFMin
<1>3. \A y \in Nat : y < n => y \in T
  BY <1>2 DEF OpToRel
<1>4. n \in Nat /\ n \notin T /\ n # 0
  BY <1>2
<1>5. n - 1 \in Nat /\ n - 1 < n /\ (n - 1) + 1 = n
  BY <1>4
<1>6. (n - 1) + 1 \in T
  BY <1>3, <1>5
<1>7. QED
  BY <1>4, <1>5, <1>6

\* The recursive definition of the weights has a solution: one that is right up to n
\* gives one that is right up to n + 1, and after the last dimension all are 1.
LEMMA WeightDef ==
  Weight = [d \in Nat |->
              IF d - 1 \in DOMAIN Chunks THEN Weight[d - 1] * Chunks[d - 1] ELSE 1]
<1> DEFINE Next1(f, d) == IF d - 1 \in DOMAIN Chunks THEN f[d - 1] * Chunks[d - 1] ELSE 1
           T == {n \in Nat : \E f \in [Nat -> Nat] : \A d \in 0 .. n : f[d] = Next1(f, d)}
<1>1. Len(Chunks) \in Nat /\ DOMAIN Chunks = 1 .. Len(Chunks)
      /\ \A d \in DOMAIN Chunks : Chunks[d] \in Nat
  BY ChunksAssumption
<1>2. 0 \in T
  <2>1. [d \in Nat |-> 1] \in [Nat -> Nat] /\ \A d \in 0 .. 0 : 1 = Next1([e \in Nat |-> 1], d)
    BY <1>1
  <2>2. QED
    BY <2>1
<1>3. ASSUME NEW n \in Nat, n \in T PROVE n + 1 \in T
  <2>1. PICK f \in [Nat -> Nat] : \A d \in 0 .. n : f[d] = Next1(f, d)
    BY <1>3
  <2> DEFINE g == [f EXCEPT ![n + 1] = Next1(f, n + 1)]
  <2>2. Next1(f, n + 1) \in Nat
    BY <1>1, <2>1
  <2>3. g \in [Nat -> Nat] /\ g[n + 1] = Next1(f, n + 1) /\ \A d \in 0 .. n : g[d] = f[d]
    BY <2>2
  <2> HIDE DEF g
  <2>4. ASSUME NEW d \in 0 .. n + 1 PROVE g[d] = Next1(g, d)
    <3>1. Next1(g, d) = Next1(f, d)
      BY <1>1, <2>3
    <3>2. QED
      BY <2>1, <2>3, <3>1
  <2>5. QED
    BY <2>3, <2>4
<1> HIDE DEF T
<1>4. Len(Chunks) + 1 \in T
  BY <1>1, <1>2, <1>3, Induction
<1>5. PICK f \in [Nat -> Nat] : \A d \in 0 .. Len(Chunks) + 1 : f[d] = Next1(f, d)
  BY <1>4 DEF T
<1> DEFINE w == [d \in Nat |-> IF d <= Len(Chunks) + 1 THEN f[d] ELSE 1]
<1>6. \A d \in Nat : Next1(w, d) = w[d]
  <2>1. SUFFICES ASSUME NEW d \in Nat PROVE Next1(w, d) = w[d]
    OBVIOUS
  <2>2. CASE d - 1 \in DOMAIN Chunks
    <3>1. d \in 0 .. Len(Chunks) + 1 /\ d - 1 \in Nat /\ d - 1 <= Len(Chunks) + 1
      BY <1>1, <2>2
    <3>2. w[d - 1] = f[d - 1] /\ w[d] = f[d]
      BY <3>1
    <3>3. QED
      BY <1>5, <2>2, <3>1, <3>2
  <2>3. CASE d - 1 \notin DOMAIN Chunks
    <3>1. CASE d <= Len(Chunks) + 1
      BY <1>1, <1>5, <2>3, <3>1
    <3>2. QED
      BY <1>1, <2>3, <3>1
  <2>4. QED
    BY <2>2, <2>3
<1>7. w = [d \in Nat |-> Next1(w, d)]
  BY <1>6
<1>8. \E v : v = [d \in Nat |-> Next1(v, d)]
  BY <1>7
<1>9. QED
  BY <1>8 DEF Weight

\* One dimension more multiplies the combinations.
LEMMA Weights ==
  /\ Len(Chunks) \in Nat /\ DOMAIN Chunks = 1 .. Len(Chunks)
  /\ \A d \in DOMAIN Chunks : Chunks[d] \in Nat \ {0} /\ Weight[d + 1] = Weight[d] * Chunks[d]
  /\ Weight[1] = 1
  /\ \A d \in 1 .. Len(Chunks) + 1 : Weight[d] \in Nat \ {0}
<1>1. Len(Chunks) \in Nat /\ DOMAIN Chunks = 1 .. Len(Chunks)
      /\ \A d \in DOMAIN Chunks : Chunks[d] \in Nat \ {0}
  BY ChunksAssumption
<1>2. \A d \in Nat : Weight[d] = IF d - 1 \in DOMAIN Chunks THEN Weight[d - 1] * Chunks[d - 1] ELSE 1
  BY WeightDef
<1>3. \A d \in DOMAIN Chunks : Weight[d + 1] = Weight[d] * Chunks[d]
  <2>1. SUFFICES ASSUME NEW d \in DOMAIN Chunks PROVE Weight[d + 1] = Weight[d] * Chunks[d]
    OBVIOUS
  <2>2. d + 1 \in Nat /\ (d + 1) - 1 = d
    BY <1>1
  <2>3. QED
    BY <1>2, <2>2
<1>4. Weight[1] = 1
  BY <1>1, <1>2
<1> DEFINE T == {n \in Nat : n <= Len(Chunks) => Weight[n + 1] \in Nat \ {0}}
<1>5. 0 \in T
  BY <1>4
<1>6. ASSUME NEW n \in Nat, n \in T PROVE n + 1 \in T
  <2>1. SUFFICES ASSUME n + 1 <= Len(Chunks) PROVE Weight[(n + 1) + 1] \in Nat \ {0}
    OBVIOUS
  <2>2. n + 1 \in DOMAIN Chunks /\ Weight[n + 1] \in Nat \ {0}
    BY <1>1, <1>6, <2>1
  <2>3. \A a, b \in Nat \ {0} : a * b \in Nat \ {0}
    OBVIOUS
  <2>4. QED
    BY <1>1, <1>3, <2>2, <2>3
<1> HIDE DEF T
<1>7. \A n \in Nat : n \in T
  BY <1>5, <1>6, Induction
<1>8. ASSUME NEW d \in 1 .. Len(Chunks) + 1 PROVE Weight[d] \in Nat \ {0}
  <2>1. d - 1 \in Nat /\ d - 1 <= Len(Chunks) /\ (d - 1) + 1 = d
    BY <1>1
  <2>2. QED
    BY <1>7, <2>1 DEF T
<1>9. QED
  BY <1>1, <1>3, <1>4, <1>8

\* A multiple of the divisor changes the quotient only.
LEMMA Shift ==
  ASSUME NEW a \in Nat, NEW w \in Nat \ {0}, NEW z \in Nat
  PROVE  (a + w * z) \div w = (a \div w) + z /\ (a + w * z) % w = a % w
<1> DEFINE y == a \div w
           b == a + w * z
<1>1. y \in Int /\ w * y <= a /\ a < w * y + w
  BY Division
<1>2. w * z \in Nat /\ b \in Nat
  OBVIOUS
<1>3. (y + z) * w = w * y + w * z /\ (y + z + 1) * w = w * y + w * z + w
  BY <1>1
<1>4. b < (b + 1) * w
  <2>1. (b + 1) * 1 <= (b + 1) * w
    BY <1>2
  <2>2. QED
    BY <1>2, <2>1
<1> HIDE DEF y, b
<1>5. (y + z) * w <= b /\ b < (y + z + 1) * w
  BY <1>1, <1>2, <1>3 DEF b
<1>6. y + z = b \div w
  BY <1>1, <1>2, <1>4, <1>5, Tiles
<1>7. b % w = b - w * (b \div w) /\ a % w = a - w * y
  BY <1>2 DEF y
<1>8. w * (y + z) = w * y + w * z
  BY <1>1
<1>9. b - w * (y + z) = a - w * y
  BY <1>1, <1>2, <1>8 DEF b
<1>10. QED
  BY <1>6, <1>7, <1>9 DEF b, y

\* The chunks before dimension d come in whole rounds of the digits of each dimension
\* before it.
LEMMA WholeRounds ==
  \A d \in 1 .. Len(Chunks) + 1 : \A e \in DOMAIN Chunks : e < d =>
    \E q \in Nat : Weight[d] = Weight[e] * (Chunks[e] * q)
<1> DEFINE T == {n \in Nat : n <= Len(Chunks) => \A e \in DOMAIN Chunks : e < n + 1 =>
                   \E q \in Nat : Weight[n + 1] = Weight[e] * (Chunks[e] * q)}
<1>1. 0 \in T
  BY Weights
<1>2. ASSUME NEW n \in Nat, n \in T PROVE n + 1 \in T
  <2>1. SUFFICES ASSUME n + 1 <= Len(Chunks), NEW e \in DOMAIN Chunks, e < (n + 1) + 1
                 PROVE  \E q \in Nat : Weight[(n + 1) + 1] = Weight[e] * (Chunks[e] * q)
    OBVIOUS
  <2>2. /\ n + 1 \in DOMAIN Chunks /\ Chunks[n + 1] \in Nat /\ Chunks[e] \in Nat
        /\ Weight[e] \in Nat /\ Weight[(n + 1) + 1] = Weight[n + 1] * Chunks[n + 1]
    <3>1. n + 1 \in DOMAIN Chunks /\ n + 1 \in 1 .. Len(Chunks) + 1
      BY <2>1, Weights
    <3>2. e \in 1 .. Len(Chunks) + 1
      BY Weights
    <3>3. QED
      BY <3>1, <3>2, Weights
  <2>3. CASE e = n + 1
    <3>1. Weight[(n + 1) + 1] = Weight[e] * (Chunks[e] * 1)
      BY <2>2, <2>3
    <3>2. QED
      BY <3>1
  <2>4. CASE e < n + 1
    <3>1. PICK q \in Nat : Weight[n + 1] = Weight[e] * (Chunks[e] * q)
      BY <1>2, <2>1, <2>4
    <3>2. \A a, b, c, f \in Nat : (a * (b * c)) * f = a * (b * (c * f))
      OBVIOUS
    <3>3. Weight[(n + 1) + 1] = Weight[e] * (Chunks[e] * (q * Chunks[n + 1]))
      BY <2>2, <3>1, <3>2
    <3>4. q * Chunks[n + 1] \in Nat
      BY <2>2
    <3>5. QED
      BY <3>3, <3>4
  <2>5. e \in Int
    BY Weights
  <2>6. QED
    BY <2>1, <2>3, <2>4, <2>5
<1> HIDE DEF T
<1>3. \A n \in Nat : n \in T
  BY <1>1, <1>2, Induction
<1>4. ASSUME NEW d \in 1 .. Len(Chunks) + 1, NEW e \in DOMAIN Chunks, e < d
      PROVE  \E q \in Nat : Weight[d] = Weight[e] * (Chunks[e] * q)
  <2>1. d - 1 \in Nat /\ d - 1 <= Len(Chunks) /\ (d - 1) + 1 = d
    BY Weights
  <2>2. QED
    BY <1>3, <1>4, <2>1 DEF T
<1>5. QED
  BY <1>4

\* Counting on dimension d leaves the digits before it alone, and is its digit.
LEMMA DigitShift ==
  ASSUME NEW d \in DOMAIN Chunks, NEW k \in 0 .. Weight[d] - 1, NEW x \in 0 .. Chunks[d] - 1
  PROVE  /\ k + Weight[d] * x \in 0 .. Weight[d + 1] - 1
         /\ Digit(k + Weight[d] * x, d) = x
         /\ \A e \in DOMAIN Chunks : e < d => Digit(k + Weight[d] * x, e) = Digit(k, e)
<1> DEFINE w == Weight[d]
           c == Chunks[d]
<1>1. /\ w \in Nat \ {0} /\ c \in Nat \ {0} /\ Weight[d + 1] = w * c
      /\ k \in Nat /\ k < w /\ x \in Nat /\ x < c
  <2>1. d \in 1 .. Len(Chunks) + 1
    BY Weights
  <2>2. w \in Nat \ {0} /\ c \in Nat \ {0} /\ Weight[d + 1] = w * c
    BY <2>1, Weights
  <2> HIDE DEF w, c
  <2>3. k \in 0 .. w - 1 /\ x \in 0 .. c - 1
    BY DEF w, c
  <2>4. QED
    BY <2>2, <2>3
<1>2. Digit(k + w * x, d) = ((k + w * x) \div w) % c
  BY DEF Digit
<1> HIDE DEF w, c
<1>3. k + w * x \in 0 .. Weight[d + 1] - 1
  <2>1. w * (x + 1) <= w * c
    BY <1>1
  <2>2. w * (x + 1) = w * x + w /\ w * x \in Nat /\ w * c \in Nat
    BY <1>1
  <2>3. QED
    BY <1>1, <2>1, <2>2
<1>4. Digit(k + w * x, d) = x
  <2>1. (k + w * x) \div w = (k \div w) + x
    BY <1>1, Shift
  <2>2. 0 * w <= k /\ k < (0 + 1) * w /\ k < 1 * w
    BY <1>1
  <2>3. k \div w = 0
    BY <1>1, <2>2, Tiles
  <2>4. x % c = x
    BY <1>1
  <2>5. QED
    BY <1>1, <1>2, <2>1, <2>3, <2>4
<1>5. ASSUME NEW e \in DOMAIN Chunks, e < d
      PROVE  Digit(k + w * x, e) = Digit(k, e)
  <2> DEFINE v == Weight[e]
             b == Chunks[e]
  <2>1. v \in Nat \ {0} /\ b \in Nat \ {0} /\ d \in 1 .. Len(Chunks) + 1
    BY Weights
  <2>2. PICK q \in Nat : w = v * (b * q)
    BY <1>5, <2>1, WholeRounds DEF w
  <2>3. /\ Digit(k + w * x, e) = ((k + w * x) \div v) % b
        /\ Digit(k, e) = (k \div v) % b
    BY DEF Digit
  <2> HIDE DEF v, b
  <2> DEFINE z == q * x
  <2>4. z \in Nat /\ b * z \in Nat
    BY <1>1, <2>1
  <2>5. w * x = v * (b * z)
    BY <1>1, <2>1, <2>2
  <2> HIDE DEF z
  <2>6. (k + v * (b * z)) \div v = (k \div v) + b * z
    BY <1>1, <2>1, <2>4, Shift
  <2>7. k \div v \in Nat
    <3>1. (k + 1) * 1 <= (k + 1) * v
      BY <1>1, <2>1
    <3>2. k < (k + 1) * v
      BY <1>1, <2>1, <3>1
    <3>3. k \div v \in 0 .. (k + 1) - 1
      BY <1>1, <2>1, <3>2, Tiles
    <3>4. QED
      BY <1>1, <3>3
  <2>8. ((k \div v) + b * z) % b = (k \div v) % b
    BY <2>1, <2>4, <2>7, Shift
  <2>9. QED
    BY <2>3, <2>5, <2>6, <2>8
<1>6. QED
  BY <1>3, <1>4, <1>5 DEF w

\* A number below Weight[d + 1] is one below Weight[d] and a digit.
LEMMA DigitSplit ==
  ASSUME NEW d \in DOMAIN Chunks, NEW k \in 0 .. Weight[d + 1] - 1
  PROVE  \E r \in 0 .. Weight[d] - 1, x \in 0 .. Chunks[d] - 1 : k = r + Weight[d] * x
<1> DEFINE w == Weight[d]
           c == Chunks[d]
<1>1. w \in Nat \ {0} /\ c \in Nat \ {0} /\ k \in 0 .. w * c - 1
  <2>1. d \in 1 .. Len(Chunks) + 1
    BY Weights
  <2>2. QED
    BY <2>1, Weights
<1> SUFFICES \E r \in 0 .. w - 1, x \in 0 .. c - 1 : k = r + w * x
  OBVIOUS
<1> HIDE DEF w, c
<1>2. w * c \in Nat /\ c * w = w * c
  BY <1>1
<1>3. k \in Nat /\ k < c * w
  BY <1>1, <1>2
<1> DEFINE x == k \div w
<1>4. x \in 0 .. c - 1 /\ x * w <= k /\ k < (x + 1) * w
  BY <1>1, <1>3, Tiles
<1> HIDE DEF x
<1>5. x * w = w * x /\ (x + 1) * w = w * x + w /\ w * x \in Int
  BY <1>1, <1>4
<1>6. k - w * x \in 0 .. w - 1 /\ k = (k - w * x) + w * x
  BY <1>1, <1>3, <1>4, <1>5
<1>7. QED
  BY <1>4, <1>6

\* Every choice of digits is that of a chunk.
LEMMA RadixOnto ==
  ASSUME NEW x \in [DOMAIN Chunks -> Nat], \A d \in DOMAIN Chunks : x[d] < Chunks[d]
  PROVE  \E k \in 0 .. Total - 1 : \A d \in DOMAIN Chunks : Digit(k, d) = x[d]
<1> DEFINE T == {n \in Nat : n <= Len(Chunks) =>
                   \E k \in 0 .. Weight[n + 1] - 1 : \A e \in DOMAIN Chunks :
                     e < n + 1 => Digit(k, e) = x[e]}
<1>1. 0 \in T
  BY Weights
<1>2. ASSUME NEW n \in Nat, n \in T PROVE n + 1 \in T
  <2>1. SUFFICES ASSUME n + 1 <= Len(Chunks)
                 PROVE  \E k \in 0 .. Weight[(n + 1) + 1] - 1 : \A e \in DOMAIN Chunks :
                          e < (n + 1) + 1 => Digit(k, e) = x[e]
    OBVIOUS
  <2>2. PICK k \in 0 .. Weight[n + 1] - 1 : \A e \in DOMAIN Chunks :
               e < n + 1 => Digit(k, e) = x[e]
    BY <1>2, <2>1
  <2>3. n + 1 \in DOMAIN Chunks
    BY <2>1, Weights
  <2>4. x[n + 1] \in 0 .. Chunks[n + 1] - 1
    BY <2>3, Weights
  <2> DEFINE l == k + Weight[n + 1] * x[n + 1]
  <2>5. /\ l \in 0 .. Weight[(n + 1) + 1] - 1 /\ Digit(l, n + 1) = x[n + 1]
        /\ \A e \in DOMAIN Chunks : e < n + 1 => Digit(l, e) = Digit(k, e)
    BY <2>3, <2>4, DigitShift
  <2> HIDE DEF l
  <2>6. \A e \in DOMAIN Chunks : e < (n + 1) + 1 => e < n + 1 \/ e = n + 1
    BY Weights
  <2>7. QED
    BY <2>2, <2>5, <2>6
<1> HIDE DEF T
<1>3. Len(Chunks) \in T
  BY <1>1, <1>2, Induction, Weights
<1>4. \A e \in DOMAIN Chunks : e < Len(Chunks) + 1
  BY Weights
<1>5. QED
  BY <1>3, <1>4, Weights DEF T, Total

\* Two chunks differ in a digit.
LEMMA RadixOneToOne ==
  ASSUME NEW k \in 0 .. Total - 1, NEW l \in 0 .. Total - 1,
         \A d \in DOMAIN Chunks : Digit(k, d) = Digit(l, d)
  PROVE  k = l
<1> DEFINE T == {n \in Nat : n <= Len(Chunks) =>
                   \A a, b \in 0 .. Weight[n + 1] - 1 :
                     (\A e \in DOMAIN Chunks : e < n + 1 => Digit(a, e) = Digit(b, e)) => a = b}
<1>1. 0 \in T
  BY Weights
<1>2. ASSUME NEW n \in Nat, n \in T PROVE n + 1 \in T
  <2>1. SUFFICES ASSUME n + 1 <= Len(Chunks),
                        NEW a \in 0 .. Weight[(n + 1) + 1] - 1,
                        NEW b \in 0 .. Weight[(n + 1) + 1] - 1,
                        \A e \in DOMAIN Chunks : e < (n + 1) + 1 => Digit(a, e) = Digit(b, e)
                 PROVE  a = b
    OBVIOUS
  <2>2. n + 1 \in DOMAIN Chunks /\ \A e \in DOMAIN Chunks : e \in Int
    BY <2>1, Weights
  <2>3. PICK r \in 0 .. Weight[n + 1] - 1, x \in 0 .. Chunks[n + 1] - 1 :
               a = r + Weight[n + 1] * x
    BY <2>2, DigitSplit
  <2>4. PICK s \in 0 .. Weight[n + 1] - 1, y \in 0 .. Chunks[n + 1] - 1 :
               b = s + Weight[n + 1] * y
    BY <2>2, DigitSplit
  <2>5. /\ Digit(a, n + 1) = x
        /\ \A e \in DOMAIN Chunks : e < n + 1 => Digit(a, e) = Digit(r, e)
    BY <2>2, <2>3, DigitShift
  <2>6. /\ Digit(b, n + 1) = y
        /\ \A e \in DOMAIN Chunks : e < n + 1 => Digit(b, e) = Digit(s, e)
    BY <2>2, <2>4, DigitShift
  <2>7. x = y
    BY <2>1, <2>2, <2>5, <2>6
  <2>8. \A e \in DOMAIN Chunks : e < n + 1 => Digit(r, e) = Digit(s, e)
    BY <2>1, <2>2, <2>5, <2>6
  <2>9. r = s
    BY <1>2, <2>1, <2>8
  <2>10. QED
    BY <2>3, <2>4, <2>7, <2>9
<1> HIDE DEF T
<1>3. Len(Chunks) \in T
  BY <1>1, <1>2, Induction, Weights
<1>4. QED
  BY <1>3, Weights DEF T, Total

\* The digits tell the chunks apart, and every choice of digits is a chunk's, whatever
\* the number of dimensions and of chunks on each.
THEOREM Radix ==
  /\ Total \in Nat \ {0}
  /\ \A k \in Group \cup {0}, d \in DOMAIN Chunks : Digit(k, d) \in 0 .. Chunks[d] - 1
  /\ \A x \in [DOMAIN Chunks -> UNION {0 .. Chunks[d] - 1 : d \in DOMAIN Chunks}] :
       (\A d \in DOMAIN Chunks : x[d] < Chunks[d]) =>
         \E k \in Group \cup {0} : \A d \in DOMAIN Chunks : Digit(k, d) = x[d]
  /\ \A k, l \in Group \cup {0} :
       (\A d \in DOMAIN Chunks : Digit(k, d) = Digit(l, d)) => k = l
<1>1. Total \in Nat \ {0} /\ Group \cup {0} = 0 .. Total - 1
  BY Weights DEF Total, Group
<1>2. ASSUME NEW k \in Group \cup {0}, NEW d \in DOMAIN Chunks
      PROVE  Digit(k, d) \in 0 .. Chunks[d] - 1
  <2>1. Weight[d] \in Nat \ {0} /\ Chunks[d] \in Nat \ {0} /\ k \in Int
    BY <1>1, Weights
  <2>2. k \div Weight[d] \in Int
    BY <2>1, Division
  <2>3. QED
    BY <2>1, <2>2 DEF Digit
<1>3. ASSUME NEW x \in [DOMAIN Chunks -> UNION {0 .. Chunks[d] - 1 : d \in DOMAIN Chunks}],
             \A d \in DOMAIN Chunks : x[d] < Chunks[d]
      PROVE  \E k \in Group \cup {0} : \A d \in DOMAIN Chunks : Digit(k, d) = x[d]
  <2>1. x \in [DOMAIN Chunks -> Nat]
    BY Weights
  <2>2. QED
    BY <1>1, <1>3, <2>1, RadixOnto
<1>4. ASSUME NEW k \in Group \cup {0}, NEW l \in Group \cup {0},
             \A d \in DOMAIN Chunks : Digit(k, d) = Digit(l, d)
      PROVE  k = l
  BY <1>1, <1>4, RadixOneToOne
<1>5. QED
  BY <1>1, <1>2, <1>3, <1>4

-----------------------------------------------------------------------------
\* split() loses no point and gives none to two chunks.
LEMMA SplitOnce ==
  ASSUME NEW r \in Ranges, NEW p \in Points(r)
  PROVE  \E k \in 1 .. Total : \A l \in 1 .. Total :
           p \in Points(Split(r)[l]) <=> l = k
<1>1. Total \in Nat \ {0} /\ Group \cup {0} = 0 .. Total - 1
  BY Radix DEF Group
<1>2. DOMAIN r = DOMAIN Chunks /\ \A d \in DOMAIN Chunks : r[d].low \in Int /\ r[d].high \in Int
  BY RangesAssumption
<1>3. DOMAIN p = DOMAIN Chunks
      /\ \A d \in DOMAIN Chunks : p[d] \in Int /\ r[d].low <= p[d] /\ p[d] < r[d].high
  BY <1>2 DEF Points
<1> DEFINE In(d, y) == Bound(r, d, y) <= p[d] /\ p[d] < Bound(r, d, y + 1)
           x == [d \in DOMAIN Chunks |->
                   CHOOSE y \in 0 .. Chunks[d] - 1 : \A z \in Int : In(d, z) <=> z = y]
<1>4. \A d \in DOMAIN Chunks :
        x[d] \in 0 .. Chunks[d] - 1 /\ \A z \in Int : In(d, z) <=> z = x[d]
  BY <1>3, DimensionSplit
<1>5. \A l \in 1 .. Total :
        /\ l - 1 \in Group \cup {0}
        /\ \A d \in DOMAIN Chunks : Digit(l - 1, d) \in Int
  BY <1>1, Radix
<1>6. ASSUME NEW l \in 1 .. Total
      PROVE  p \in Points(Split(r)[l]) <=> \A d \in DOMAIN Chunks : Digit(l - 1, d) = x[d]
  <2> DEFINE c == Chunk(r, l - 1)
  <2>1. Split(r)[l] = c
    BY DEF Split
  <2>2. DOMAIN c = DOMAIN Chunks /\ \A d \in DOMAIN Chunks :
          c[d].low = Bound(r, d, Digit(l - 1, d)) /\ c[d].high = Bound(r, d, Digit(l - 1, d) + 1)
    BY <1>2 DEF Chunk
  <2>3. \A d \in DOMAIN Chunks : In(d, Digit(l - 1, d)) <=> Digit(l - 1, d) = x[d]
    BY <1>4, <1>5
  <2>4. \A d \in DOMAIN Chunks : c[d].low <= p[d] /\ p[d] < c[d].high <=> Digit(l - 1, d) = x[d]
    BY <2>2, <2>3
  <2>5. \A d \in DOMAIN Chunks : c[d].low \in Int /\ c[d].high \in Int
    BY <1>2, <1>5, <2>2, BoundInt
  <2> HIDE DEF c
  <2>6. (\A d \in DOMAIN Chunks : c[d].low <= p[d] /\ p[d] < c[d].high) =>
          p \in [DOMAIN c -> UNION {c[d].low .. c[d].high - 1 : d \in DOMAIN c}]
    BY <1>3, <2>2, <2>5 DEF Points
  <2>7. p \in Points(c) <=> \A d \in DOMAIN c : c[d].low <= p[d] /\ p[d] < c[d].high
    BY <2>2, <2>6 DEF Points
  <2>8. QED
    BY <2>1, <2>2, <2>4, <2>7
<1>7. x \in [DOMAIN Chunks -> UNION {0 .. Chunks[d] - 1 : d \in DOMAIN Chunks}]
  BY <1>4
<1>8. \A d \in DOMAIN Chunks : x[d] < Chunks[d]
  BY <1>4, ChunksAssumption
<1> HIDE DEF x
<1>9. PICK k \in Group \cup {0} : \A d \in DOMAIN Chunks : Digit(k, d) = x[d]
  BY <1>7, <1>8, Radix
<1>10. \A l \in 1 .. Total :
         (\A d \in DOMAIN Chunks : Digit(l - 1, d) = x[d]) <=> l - 1 = k
  BY <1>5, <1>9, Radix
<1>11. k + 1 \in 1 .. Total /\ \A l \in 1 .. Total : l - 1 = k <=> l = k + 1
  BY <1>1
<1>12. QED
  BY <1>6, <1>10, <1>11

-----------------------------------------------------------------------------
\* The subthreads, and the loops of the master over them.
LEMMA GroupFacts ==
  /\ Total \in Nat \ {0}
  /\ \A k \in Int : k \in Group <=> 1 <= k /\ k < Total
  /\ Group \subseteq 1 .. Total /\ Group \subseteq Nat \ {0}
BY Radix DEF Group

\* A vector of chunks is never empty.
LEMMA SplitNotEmpty ==
  ASSUME NEW r
  PROVE  Split(r) # <<>> /\ \A k \in 1 .. Total : Split(r)[k] = Chunk(r, k - 1)
<1>1. 1 \in DOMAIN Split(r)
  BY GroupFacts DEF Split
<1>2. 1 \notin DOMAIN <<>>
  OBVIOUS
<1>3. QED
  BY <1>1, <1>2 DEF Split

\* An execution counts for the points of its range.
LEMMA ExecutedType ==
  ASSUME mpc # "idle", TypeOK, NEW r
  PROVE  /\ Executed(r) \in [Points(base) -> Nat]
         /\ \A p \in Points(base) :
              Executed(r)[p] = executed[p] + IF p \in Points(r) THEN 1 ELSE 0
<1>1. executed \in [Points(base) -> Nat]
  BY DEF TypeOK
<1>2. QED
  BY <1>1 DEF Executed

LEMMA InitInv == Init => HierInv
<1> SUFFICES ASSUME Init PROVE HierInv
  OBVIOUS
<1>1. TypeOK
  <2>1. /\ m \in 1 .. Total /\ tasks \in 0 .. MaxTask
        /\ mpc = "idle" /\ ranges = <<>> /\ subthreads_run = TRUE /\ early = FALSE
    BY GroupFacts, MaxTaskAssumption DEF Init
  <2>2. /\ is_idle \in [Group -> BOOLEAN] /\ p_param \in [Group -> Nat \X Nat]
        /\ spc \in [Group -> {"top", "lock", "waiting", "body", "done", "ended"}]
    BY DEF Init
  <2>3. QED
    BY <2>1, <2>2 DEF TypeOK
<1>2. BusyWithOwn /\ Counted
  BY DEF Init, BusyWithOwn, Counted
<1>3. QED
  BY <1>1, <1>2 DEF HierInv

\* Loops stay in the group, counts stay numbers.
LEMMA TypeStep ==
  ASSUME HierInv, [Next]_vars
  PROVE  TypeOK'
<1> USE GroupFacts, MaxTaskAssumption DEF HierInv, TypeOK
<1>1. ASSUME NEW r \in Ranges, Execute(r)
      PROVE  TypeOK'
  <2>1. executed' \in [Points(base') -> Nat]
    BY <1>1 DEF Execute
  <2>2. tasks' \in 0 .. MaxTask /\ m' \in 1 .. Total
    BY <1>1 DEF Execute
  <2>3. QED
    BY <1>1, <2>1, <2>2 DEF Execute
<1>2. CASE SetParam
  <2>1. <<tasks, m>> \in Nat \X Nat
    BY <1>2 DEF SetParam
  <2>2. QED
    BY <1>2, <2>1 DEF SetParam
<1>3. CASE RunTask
  <2>1. m \in Group /\ m' \in 1 .. Total
    BY <1>3 DEF RunTask, BusyWithOwn
  <2>2. QED
    BY <1>3, <2>1 DEF RunTask, Wake
<1>4. CASE OwnChunk
  <2>1. executed' \in [Points(base) -> Nat]
    BY <1>4, ExecutedType DEF OwnChunk
  <2>2. QED
    BY <1>4, <2>1 DEF OwnChunk
<1>5. CASE WaitTask
  <2>1. m' \in 1 .. Total
    BY <1>5 DEF WaitTask, Awaited
  <2>2. QED
    BY <1>5, <2>1 DEF WaitTask
<1>6. CASE SpuriousReturn
  <2>1. m' \in 1 .. Total
    BY <1>6 DEF SpuriousReturn, BusyWithOwn
  <2>2. QED
    BY <1>6, <2>1 DEF SpuriousReturn
<1>7. CASE WaitedAll \/ Release
  BY <1>7 DEF WaitedAll, Release
<1>8. CASE Destroy
  BY <1>8 DEF Destroy
<1>9. ASSUME NEW s \in Group, TestRun(s) \/ TestIdle(s) \/ SpuriousWake(s)
      PROVE  TypeOK'
  BY <1>9 DEF TestRun, TestIdle, SpuriousWake, Goto
<1>10. ASSUME NEW s \in Group, Body(s)
       PROVE  TypeOK'
  <2>1. mpc # "idle" => executed' \in [Points(base) -> Nat]
    BY <1>10, ExecutedType DEF Body
  <2>2. QED
    BY <1>10, <2>1 DEF Body, Goto
<1>11. ASSUME NEW s \in Group, Finish(s)
       PROVE  TypeOK'
  <2>1. /\ m' \in 1 .. Total
        /\ mpc' = mpc \/ (mpc' = "wait" /\ mpc = "waiting")
    BY <1>11 DEF Finish
  <2>2. UNCHANGED <<base, ranges, tasks, subthreads_run, p_param, executed, early>>
        /\ is_idle' = [is_idle EXCEPT ![s] = TRUE] /\ spc' = [spc EXCEPT ![s] = "top"]
    BY <1>11 DEF Finish, Goto
  <2>3. QED
    BY <2>1, <2>2
<1>12. CASE UNCHANGED vars
  BY <1>12 DEF vars
<1>13. QED
  BY <1>1, <1>2, <1>3, <1>4, <1>5, <1>6, <1>7, <1>8, <1>9, <1>10, <1>11, <1>12
     DEF Next, MasterStep, SubStep

\* The master leaves a subthread's wait only when its chunk is done.
LEMMA BusyStep ==
  ASSUME HierInv, [Next]_vars
  PROVE  BusyWithOwn'
<1> USE GroupFacts DEF HierInv, TypeOK
<1>1. ASSUME NEW r \in Ranges, Execute(r)
      PROVE  BusyWithOwn'
  <2>1. mpc = "idle" /\ mpc' = "start" /\ UNCHANGED <<is_idle, p_param, spc, early>>
    BY <1>1 DEF Execute
  <2>2. ~early => \A s \in Group : is_idle[s]
    BY <2>1 DEF BusyWithOwn, AlreadyAwaited
  <2>3. QED
    BY <2>1, <2>2 DEF BusyWithOwn
<1>2. CASE SetParam
  <2>1. /\ mpc = "start" /\ mpc' = "run" /\ m \in Group /\ UNCHANGED <<m, tasks, is_idle, spc, early>>
        /\ p_param' = [p_param EXCEPT ![m] = <<tasks, m>>]
    BY <1>2 DEF SetParam
  <2>2. \A s \in Group : Given(s)' <=> Given(s)
    BY <2>1 DEF Given, Waits
  <2>3. \A s \in Group : ~AlreadyAwaited(s)'
    BY <2>1 DEF AlreadyAwaited, Waits
  <2>4. \A s \in Group : p_param[s] = <<tasks, s>> => p_param'[s] = <<tasks, s>>
    BY <2>1
  <2>5. QED
    BY <2>1, <2>2, <2>3, <2>4 DEF BusyWithOwn
<1>3. CASE RunTask
  <2>1. /\ mpc = "run" /\ mpc' = "start" /\ m' = m + 1 /\ UNCHANGED <<tasks, p_param, early>>
        /\ is_idle' = [is_idle EXCEPT ![m] = FALSE] /\ m \in Group
    BY <1>3 DEF RunTask, BusyWithOwn
  <2>2. \A s \in Group : spc'[s] = spc[s] \/ spc'[s] = "lock"
    BY <1>3 DEF RunTask, Wake
  <2>3. \A s \in Group : (Given(s) => Given(s)') /\ (s = m => Given(s)')
    BY <2>1 DEF Given, Waits
  <2>4. \A s \in Group : ~AlreadyAwaited(s)'
    BY <2>1 DEF AlreadyAwaited, Waits
  <2>5. ~early => p_param[m] = <<tasks, m>>
    BY <2>1 DEF BusyWithOwn
  <2>6. QED
    BY <2>1, <2>2, <2>3, <2>4, <2>5 DEF BusyWithOwn
<1>4. CASE OwnChunk
  <2>1. /\ mpc = "start" /\ mpc' = "wait" /\ m' = 1
        /\ UNCHANGED <<tasks, is_idle, p_param, spc, early>>
    BY <1>4 DEF OwnChunk
  <2>2. \A s \in Group : Given(s)' /\ ~AlreadyAwaited(s)'
    BY <2>1 DEF Given, AlreadyAwaited, Waits
  <2>3. QED
    BY <2>1, <2>2 DEF BusyWithOwn
<1>5. CASE WaitTask
  <2>1. /\ mpc = "wait" /\ m \in Group /\ UNCHANGED <<tasks, is_idle, p_param, spc, early>>
        /\ \/ is_idle[m] /\ m' = m + 1 /\ mpc' = "wait"
           \/ mpc' = "waiting" /\ m' = m
    BY <1>5 DEF WaitTask, Awaited
  <2>2. \A s \in Group : ~is_idle[s] /\ ~AlreadyAwaited(s) => Given(s)' /\ ~AlreadyAwaited(s)'
    BY <2>1 DEF Given, AlreadyAwaited, Waits
  <2>3. QED
    BY <2>1, <2>2 DEF BusyWithOwn
<1>6. CASE SpuriousReturn
  <2>1. early' /\ mpc' = "wait" /\ UNCHANGED <<is_idle, spc>>
    BY <1>6 DEF SpuriousReturn
  <2>2. QED
    BY <2>1 DEF BusyWithOwn
<1>7. CASE WaitedAll
  <2>1. /\ mpc = "wait" /\ m \notin Group /\ mpc' = "release"
        /\ UNCHANGED <<m, tasks, is_idle, p_param, spc, early>>
    BY <1>7 DEF WaitedAll, Awaited
  <2>2. \A s \in Group : AlreadyAwaited(s)
    BY <2>1 DEF AlreadyAwaited, Waits
  <2>3. QED
    BY <2>1, <2>2 DEF BusyWithOwn
<1>8. CASE Release
  <2>1. /\ mpc = "release" /\ mpc' = "idle"
        /\ UNCHANGED <<tasks, is_idle, p_param, spc, early>>
    BY <1>8 DEF Release
  <2>2. \A s \in Group : AlreadyAwaited(s)
    BY <2>1 DEF AlreadyAwaited
  <2>3. QED
    BY <2>1, <2>2 DEF BusyWithOwn
<1>9. ASSUME UNCHANGED <<mpc, m, tasks, is_idle, p_param, early>>,
             \A s \in Group : spc'[s] \in {"body", "done"} => ~is_idle[s]
      PROVE  BusyWithOwn'
  <2>1. \A s \in Group : (Given(s)' <=> Given(s)) /\ (AlreadyAwaited(s)' <=> AlreadyAwaited(s))
    BY <1>9 DEF Given, AlreadyAwaited, Waits
  <2>2. QED
    BY <1>9, <2>1 DEF BusyWithOwn
<1>10. CASE Destroy \/ UNCHANGED vars
  <2>1. \A s \in Group : spc'[s] = spc[s] \/ spc'[s] = "lock"
    BY <1>10 DEF Destroy, vars
  <2>2. \A s \in Group : spc'[s] \in {"body", "done"} => ~is_idle[s]
    BY <2>1 DEF BusyWithOwn
  <2>3. UNCHANGED <<mpc, m, tasks, is_idle, p_param, early>>
    BY <1>10 DEF Destroy, vars
  <2>4. QED
    BY <1>9, <2>2, <2>3
<1>11. ASSUME NEW s \in Group, TestRun(s) \/ TestIdle(s) \/ SpuriousWake(s) \/ Body(s)
       PROVE  BusyWithOwn'
  <2>1. \A u \in Group : /\ u # s => spc'[u] = spc[u]
                         /\ u = s /\ spc'[u] \in {"body", "done"} => ~is_idle[u]
    BY <1>11 DEF TestRun, TestIdle, SpuriousWake, Body, Goto, BusyWithOwn
  <2>2. \A u \in Group : spc'[u] \in {"body", "done"} => ~is_idle[u]
    BY <2>1 DEF BusyWithOwn
  <2>3. UNCHANGED <<mpc, m, tasks, is_idle, p_param, early>>
    BY <1>11 DEF TestRun, TestIdle, SpuriousWake, Body
  <2>4. QED
    BY <1>9, <2>2, <2>3
<1>12. ASSUME NEW s \in Group, Finish(s)
       PROVE  BusyWithOwn'
  <2>1. /\ is_idle' = [is_idle EXCEPT ![s] = TRUE] /\ spc' = [spc EXCEPT ![s] = "top"]
        /\ UNCHANGED <<tasks, p_param, early>>
        /\ \/ mpc = "waiting" /\ m = s /\ mpc' = "wait" /\ m' = m + 1
           \/ mpc' = mpc /\ m' = m
    BY <1>12 DEF Finish, Goto
  <2>2. \A u \in Group : u # s =>
          (Given(u) => Given(u)') /\ (~AlreadyAwaited(u) => ~AlreadyAwaited(u)')
    BY <2>1 DEF Given, AlreadyAwaited, Waits
  <2>3. mpc' \in {"run", "waiting"} => m' \in Group
    BY <2>1 DEF BusyWithOwn
  <2>4. QED
    BY <2>1, <2>2, <2>3 DEF BusyWithOwn
<1>13. QED
  BY <1>1, <1>2, <1>3, <1>4, <1>5, <1>6, <1>7, <1>8, <1>10, <1>11, <1>12
     DEF Next, MasterStep, SubStep

\* Executing a chunk that was not done adds one to its points, and to no others.
LEMMA CountOne ==
  ASSUME HierInv, mpc # "idle", NEW c \in 1 .. Total, ~Done(c),
         executed' = Executed(ranges[c]), UNCHANGED <<base, ranges, early>>,
         \A k \in 1 .. Total : Done(k)' <=> Done(k) \/ k = c
  PROVE  Counted'
<1> USE DEF HierInv, TypeOK
<1>1. SUFFICES ASSUME ~early, NEW p \in Points(base), NEW k \in 1 .. Total,
                      p \in Points(ranges[k])
               PROVE  executed'[p] = IF Done(k)' THEN 1 ELSE 0
  BY DEF Counted
<1>2. executed'[p] = executed[p] + IF p \in Points(ranges[c]) THEN 1 ELSE 0
  BY ExecutedType
<1>3. executed[p] = IF Done(k) THEN 1 ELSE 0
  BY <1>1 DEF Counted
<1>4. p \in Points(ranges[c]) <=> k = c
  BY <1>1, SplitOnce
<1>5. QED
  BY <1>2, <1>3, <1>4

\* A chunk counts once: when its subthread has executed it, or the master.
LEMMA CountedStep ==
  ASSUME HierInv, [Next]_vars
  PROVE  Counted'
<1> USE GroupFacts DEF HierInv, TypeOK
<1>1. ASSUME UNCHANGED <<base, ranges, executed>>, mpc' # "idle" => mpc # "idle", early => early',
             ~early' => \A k \in 1 .. Total : Done(k)' <=> Done(k)
      PROVE  Counted'
  BY <1>1 DEF Counted
<1>2. ASSUME NEW r \in Ranges, Execute(r)
      PROVE  Counted'
  <2>1. /\ mpc = "idle" /\ base' = r /\ executed' = [p \in Points(r) |-> 0]
        /\ mpc' = "start" /\ m' = 1
    BY <1>2 DEF Execute
  <2>2. \A k \in 1 .. Total : ~Done(k)'
    BY <2>1 DEF Done, Given, Waits
  <2>3. QED
    BY <2>1, <2>2 DEF Counted
<1>3. CASE SetParam
  <2>1. /\ mpc = "start" /\ mpc' = "run" /\ m' = m
        /\ UNCHANGED <<base, ranges, executed, is_idle, spc, early>>
    BY <1>3 DEF SetParam
  <2>2. \A k \in 1 .. Total : Done(k)' <=> Done(k)
    BY <2>1 DEF Done, Given, Waits
  <2>3. QED
    BY <1>1, <2>1, <2>2
<1>4. CASE RunTask
  <2>1. /\ mpc = "run" /\ mpc' = "start" /\ m' = m + 1 /\ m \in Group
        /\ is_idle' = [is_idle EXCEPT ![m] = FALSE]
        /\ UNCHANGED <<base, ranges, executed, early>>
    BY <1>4 DEF RunTask, BusyWithOwn
  <2>2. ~early => spc[m] \notin {"body", "done"}
    BY <2>1 DEF BusyWithOwn, Given, Waits
  <2>3. \A k \in Group : (spc'[k] = "done" <=> spc[k] = "done")
    BY <1>4 DEF RunTask, Wake
  <2>4. ~early => \A k \in 1 .. Total : Done(k)' <=> Done(k)
    BY <2>1, <2>2, <2>3 DEF Done, Given, Waits
  <2>5. QED
    BY <1>1, <2>1, <2>4
<1>5. CASE OwnChunk
  <2>1. /\ mpc = "start" /\ mpc' = "wait" /\ m \notin Group
        /\ executed' = Executed(ranges[m])
        /\ UNCHANGED <<base, ranges, is_idle, spc, early>>
    BY <1>5 DEF OwnChunk
  <2>2. m = Total
    BY <2>1
  <2>3. \A k \in 1 .. Total : Done(k)' <=> Done(k) \/ k = m
    BY <2>1, <2>2 DEF Done, Given, Waits
  <2>4. ~Done(m)
    BY <2>1, <2>2 DEF Done, Given, Waits
  <2>5. QED
    BY <2>1, <2>2, <2>3, <2>4, CountOne
<1>6. CASE WaitTask
  <2>1. /\ mpc = "wait" /\ mpc' \in {"wait", "waiting"}
        /\ UNCHANGED <<base, ranges, executed, is_idle, spc, early>>
    BY <1>6 DEF WaitTask
  <2>2. \A k \in 1 .. Total : Done(k)' <=> Done(k)
    BY <2>1 DEF Done, Given, Waits
  <2>3. QED
    BY <1>1, <2>1, <2>2
<1>7. CASE SpuriousReturn
  BY <1>7 DEF SpuriousReturn, Counted
<1>8. CASE WaitedAll
  <2>1. /\ mpc = "wait" /\ mpc' = "release"
        /\ UNCHANGED <<base, ranges, executed, is_idle, spc, early>>
    BY <1>8 DEF WaitedAll
  <2>2. \A k \in 1 .. Total : Done(k)' <=> Done(k)
    BY <2>1 DEF Done, Given, Waits
  <2>3. QED
    BY <1>1, <2>1, <2>2
<1>9. CASE Release
  BY <1>9 DEF Release, Counted
<1>10. CASE Destroy
  BY <1>10 DEF Destroy, Counted
<1>11. ASSUME NEW s \in Group, TestRun(s) \/ TestIdle(s) \/ SpuriousWake(s)
       PROVE  Counted'
  <2>1. /\ UNCHANGED <<mpc, m, base, ranges, executed, is_idle, early>>
        /\ \A k \in Group : spc'[k] = "done" <=> spc[k] = "done"
    BY <1>11 DEF TestRun, TestIdle, SpuriousWake, Goto
  <2>2. \A k \in 1 .. Total : Done(k)' <=> Done(k)
    BY <2>1 DEF Done, Given, Waits
  <2>3. QED
    BY <1>1, <2>1, <2>2
<1>12. ASSUME NEW s \in Group, Body(s)
       PROVE  Counted'
  <2>1. /\ UNCHANGED <<mpc, m, base, ranges, is_idle, early>>
        /\ spc[s] = "body" /\ spc' = [spc EXCEPT ![s] = "done"] /\ ~is_idle[s]
    BY <1>12 DEF Body, Goto, BusyWithOwn
  <2>2. CASE ~early /\ mpc # "idle"
    <3>1. p_param[s] = <<tasks, s>> /\ Given(s)
      BY <2>1, <2>2 DEF BusyWithOwn
    <3>2. executed' = Executed(ranges[s])
      BY <1>12, <2>2, <3>1, SplitNotEmpty DEF Body
    <3>3. \A k \in 1 .. Total : Given(k)' <=> Given(k)
      BY <2>1 DEF Given, Waits
    <3>4. ~Done(s) /\ \A k \in 1 .. Total : Done(k)' <=> Done(k) \/ k = s
      BY <2>1, <3>1, <3>3 DEF Done
    <3>5. QED
      BY <2>1, <2>2, <3>2, <3>4, CountOne
  <2>3. CASE early \/ mpc = "idle"
    BY <2>1, <2>3 DEF Counted
  <2>4. QED
    BY <2>2, <2>3
<1>13. ASSUME NEW s \in Group, Finish(s)
       PROVE  Counted'
  <2>1. /\ is_idle' = [is_idle EXCEPT ![s] = TRUE] /\ spc' = [spc EXCEPT ![s] = "top"]
        /\ spc[s] = "done" /\ UNCHANGED <<base, ranges, executed, early>>
    BY <1>13 DEF Finish, Goto
  <2>2. \/ mpc = "waiting" /\ mpc' = "wait"
        \/ mpc' = mpc /\ m' = m
    BY <1>13 DEF Finish
  <2>3. \A k \in 1 .. Total : Given(k)' <=> Given(k)
    BY <2>2 DEF Given, Waits
  <2>4. \A k \in 1 .. Total : Done(k)' <=> Done(k)
    BY <2>1, <2>3 DEF Done
  <2>5. QED
    BY <1>1, <2>1, <2>2, <2>4
<1>14. CASE UNCHANGED vars
  <2>1. UNCHANGED <<mpc, m, base, ranges, executed, is_idle, spc, early>>
    BY <1>14 DEF vars
  <2>2. \A k \in 1 .. Total : Done(k)' <=> Done(k)
    BY <2>1 DEF Done, Given, Waits
  <2>3. QED
    BY <1>1, <2>1, <2>2
<1>15. QED
  BY <1>2, <1>3, <1>4, <1>5, <1>6, <1>7, <1>8, <1>9, <1>10, <1>11, <1>12, <1>13, <1>14
     DEF Next, MasterStep, SubStep

\* The invariant of hierarchy tasks: whatever the order in which subthreads take,
\* execute and finish their chunks, a chunk is that of the current task and counts once.
THEOREM HierIsInvariant == Spec => []HierInv
<1>1. HierInv /\ [Next]_vars => HierInv'
  BY TypeStep, BusyStep, CountedStep DEF HierInv
<1>2. QED
  BY InitInv, <1>1, PTL DEF Spec

\* No subthread uses its parameter after the vector it points into is gone, unless the
\* master left a wait without a signal.
THEOREM RangesStayAlive == Spec => []RangesAlive
<1>1. HierInv => RangesAlive
  <2> SUFFICES ASSUME HierInv, ~early, NEW s \in Group, spc[s] = "body"
               PROVE  ranges # <<>> /\ p_param[s] = <<tasks, s>>
    BY DEF RangesAlive
  <2>1. Given(s) /\ p_param[s] = <<tasks, s>>
    BY DEF HierInv, BusyWithOwn
  <2>2. mpc # "idle"
    BY <2>1 DEF Given, Waits
  <2>3. QED
    BY <2>1, <2>2, SplitNotEmpty DEF HierInv, TypeOK
<1>2. QED
  BY HierIsInvariant, <1>1, PTL

\* When the successors of a hierarchy task are released, every point of its range has
\* been executed exactly once, for every range and every number of chunks.
THEOREM WholeRangeExecuted == Spec => []WholeRange
<1>1. HierInv => WholeRange
  <2> SUFFICES ASSUME HierInv, mpc = "release", ~early
               PROVE  DOMAIN executed = Points(base) /\ \A p \in Points(base) : executed[p] = 1
    BY DEF WholeRange
  <2> USE DEF HierInv, TypeOK
  <2>1. \A k \in 1 .. Total : Done(k)
    <3>1. \A s \in Group : is_idle[s]
      BY DEF BusyWithOwn, AlreadyAwaited
    <3>2. QED
      BY <3>1 DEF Done, Given
  <2>2. ASSUME NEW p \in Points(base)
        PROVE  executed[p] = 1
    <3>1. PICK k \in 1 .. Total : p \in Points(Split(base)[k])
      BY <2>2, SplitOnce
    <3>2. QED
      BY <2>1, <3>1 DEF Counted
  <2>3. QED
    BY <2>2
<1>2. QED
  BY HierIsInvariant, <1>1, PTL

-----------------------------------------------------------------------------
\* The smaller and the greater of two numbers, in TileLoop.
LEMMA OfTwo ==
  ASSUME NEW a \in Int, NEW b \in Int
  PROVE  /\ Min({a, b}) = IF a <= b THEN a ELSE b
         /\ Max({a, b}) = IF a <= b THEN b ELSE a
<1>1. /\ \E x \in {a, b} : \A y \in {a, b} : x <= y
      /\ \E x \in {a, b} : \A y \in {a, b} : x >= y
  OBVIOUS
<1>2. /\ Min({a, b}) \in {a, b} /\ \A y \in {a, b} : Min({a, b}) <= y
      /\ Max({a, b}) \in {a, b} /\ \A y \in {a, b} : Max({a, b}) >= y
  BY <1>1 DEF Min, Max
<1>3. QED
  BY <1>2

\* Quotient and remainder.
LEMMA Remainder ==
  ASSUME NEW a \in Int, NEW b \in Nat \ {0}
  PROVE  a % b \in 0 .. b - 1 /\ a = b * (a \div b) + (a % b) /\ a \div b \in Int
OBVIOUS

LEMMA QuotientIs ==
  ASSUME NEW a \in Int, NEW b \in Nat \ {0}, NEW y \in Int, b * y <= a, a < b * y + b
  PROVE  a \div b = y
<1> DEFINE x == a \div b
<1>1. x \in Int /\ b * x <= a /\ a < b * x + b
  BY Division
<1> HIDE DEF x
<1>2. CASE y < x
  <2>1. b * (y + 1) <= b * x
    BY <1>1, <1>2
  <2>2. b * (y + 1) = b * y + b
    OBVIOUS
  <2>3. QED
    BY <1>1, <2>1, <2>2
<1>3. CASE x < y
  <2>1. b * (x + 1) <= b * y
    BY <1>1, <1>3
  <2>2. b * (x + 1) = b * x + b
    BY <1>1
  <2>3. QED
    BY <1>1, <2>1, <2>2
<1>4. QED
  BY <1>1, <1>2, <1>3 DEF x

LEMMA QuotientNat ==
  ASSUME NEW a \in Nat, NEW b \in Nat \ {0}
  PROVE  a \div b \in Nat
<1>1. b * 0 <= a
  OBVIOUS
<1> DEFINE x == a \div b
<1>2. x \in Int /\ a < b * x + b
  BY Division
<1> HIDE DEF x
<1>3. x >= 0
  <2>1. SUFFICES ASSUME x <= -1 PROVE FALSE
    BY <1>2
  <2>2. b * x <= b * (-1)
    BY <1>2, <2>1
  <2>3. QED
    BY <1>2, <2>2
<1>4. QED
  BY <1>2, <1>3 DEF x

\* The remainder of C.
LEMMA CRemainder ==
  ASSUME NEW a \in Int, NEW b \in Nat \ {0}
  PROVE  \E q \in Int : /\ a = b * q + CMod(a, b) /\ CMod(a, b) \in Int
                        /\ CMod(a, b) <= a \/ CMod(a, b) <= 0
<1>1. CASE a >= 0
  <2>1. CMod(a, b) = a % b
    BY <1>1 DEF CMod
  <2>2. a % b \in 0 .. b - 1 /\ a = b * (a \div b) + (a % b) /\ a \div b \in Int
    BY Remainder
  <2>3. a \div b \in Nat
    BY <1>1, QuotientNat
  <2> DEFINE q == a \div b
  <2>4. b * q \in Nat
    BY <2>3
  <2> HIDE DEF q
  <2>5. a = b * q + (a % b) /\ q \in Int
    BY <2>2 DEF q
  <2>6. a % b <= a
    BY <2>2, <2>4, <2>5
  <2> HIDE DEF CMod
  <2>7. /\ q \in Int /\ a = b * q + CMod(a, b) /\ CMod(a, b) \in Int
        /\ CMod(a, b) <= a
    BY <2>1, <2>2, <2>5, <2>6
  <2>8. QED
    BY <2>7
<1>2. CASE a < 0
  <2> DEFINE q == (-a) \div b
             r == (-a) % b
  <2>1. CMod(a, b) = -r
    BY <1>2 DEF CMod
  <2> DEFINE c == -a
  <2>0. c \in Int
    OBVIOUS
  <2>2. r \in 0 .. b - 1 /\ -a = b * q + r /\ q \in Int
    <3> HIDE DEF c
    <3>1. c % b \in 0 .. b - 1 /\ c = b * (c \div b) + (c % b) /\ c \div b \in Int
      BY <2>0, Remainder
    <3>2. QED
      BY <3>1 DEF c
  <2> HIDE DEF q, r
  <2>3. -q \in Int /\ b * (-q) = -(b * q) /\ b * q \in Int
    BY <2>2
  <2>4. a = b * (-q) + (-r) /\ -r \in Int /\ -r <= 0
    BY <2>2, <2>3
  <2>5. QED
    BY <2>1, <2>3, <2>4
<1>3. QED
  BY <1>1, <1>2

LEMMA CQuotient ==
  ASSUME NEW a \in Nat, NEW b \in Nat \ {0}
  PROVE  CDiv(a, b) = a \div b
BY DEF CDiv

\* A number has the quotient y exactly if it lies between y * b and (y + 1) * b.
LEMMA QuotientIff ==
  ASSUME NEW a \in Int, NEW b \in Nat \ {0}, NEW y \in Int
  PROVE  a \div b = y <=> y * b <= a /\ a < y * b + b
<1>1. y * b = b * y
  OBVIOUS
<1>2. a \div b = y => b * y <= a /\ a < b * y + b
  BY Division
<1>3. QED
  BY <1>1, <1>2, QuotientIs

LEMMA QuotientMonotone ==
  ASSUME NEW a \in Int, NEW c \in Int, a <= c, NEW b \in Nat \ {0}
  PROVE  a \div b <= c \div b
<1> DEFINE x == a \div b
           y == c \div b
<1>1. x \in Int /\ b * x <= a /\ y \in Int /\ c < b * y + b
  BY Division
<1> HIDE DEF x, y
<1>2. SUFFICES ASSUME y < x PROVE FALSE
  BY <1>1 DEF x, y
<1>3. b * (y + 1) <= b * x /\ b * (y + 1) = b * y + b
  BY <1>1, <1>2
<1>4. QED
  BY <1>1, <1>3

\* The k-th tile is that of the indices with the k-th quotient after that of lb.
LEMMA InTile ==
  ASSUME NEW size \in Nat \ {0}, NEW lb \in Nat, NEW ub \in Int, NEW k \in Int
  PROVE  TileStart(size, k, lb) .. TileEnd(size, k, lb, ub)
           = {i \in lb .. ub : i \div size = k + (lb \div size)}
<1> DEFINE q == lb \div size
           r == lb % size
           p == (k + q) * size
<1>0. lb \in Int
  OBVIOUS
<1>1. r \in 0 .. size - 1 /\ lb = size * q + r /\ q \in Int
  BY <1>0, Remainder
<1>2. CMod(lb, size) = r
  BY DEF CMod
<1> HIDE DEF q, r
<1>3. p \in Int /\ k * size + lb - r = p /\ (k + 1) * size + lb - r - 1 = p + size - 1
  <2>1. p = k * size + size * q /\ (k + 1) * size = k * size + size
    BY <1>1
  <2>2. k * size \in Int /\ size * q \in Int
    BY <1>1
  <2> HIDE DEF p
  <2>3. QED
    BY <1>1, <2>1, <2>2
<1>4. ASSUME NEW i \in Int PROVE i \div size = k + q <=> p <= i /\ i < p + size
  <2>1. k + q \in Int
    BY <1>1
  <2>2. QED
    BY <2>1, QuotientIff
<1> HIDE DEF p
<1>5. TileStart(size, k, lb) = IF lb <= p THEN p ELSE lb
  <2>1. TileStart(size, k, lb) = Max({lb, p})
    BY <1>2, <1>3 DEF TileStart
  <2>2. p \in Int /\ lb \in Int
    BY <1>3
  <2>3. Max({lb, p}) = IF lb <= p THEN p ELSE lb
    BY <2>2, OfTwo
  <2>4. QED
    BY <2>1, <2>3
<1>6. TileEnd(size, k, lb, ub) = IF ub <= p + size - 1 THEN ub ELSE p + size - 1
  <2>1. TileEnd(size, k, lb, ub) = Min({ub, p + size - 1})
    BY <1>2, <1>3 DEF TileEnd
  <2>2. p + size - 1 \in Int
    BY <1>3
  <2>3. QED
    BY <2>1, <2>2, OfTwo
<1> DEFINE s == TileStart(size, k, lb)
           e == TileEnd(size, k, lb, ub)
<1>7. /\ s \in Int /\ e \in Int
      /\ \A i \in Int : s <= i /\ i <= e <=> lb <= i /\ i <= ub /\ p <= i /\ i < p + size
  BY <1>3, <1>5, <1>6
<1> HIDE DEF s, e
<1>8. \A i : i \in s .. e <=> i \in lb .. ub /\ i \div size = k + q
  BY <1>4, <1>7
<1>9. QED
  BY <1>8 DEF q, s, e

\* The same, tiles being counted from off.
LEMMA InTileOff ==
  ASSUME NEW size \in Nat \ {0}, NEW lb \in Nat, NEW ub \in Int, NEW off \in Int, off <= lb,
         NEW k \in Int
  PROVE  TileStartOff(size, k, lb, off) .. TileEndOff(size, k, lb, ub, off)
           = {i \in lb .. ub : (i - off) \div size = k + ((lb - off) \div size)}
<1> DEFINE q == (lb - off) \div size
           p == (k + q) * size
<1>1. lb - off \in Nat
  OBVIOUS
<1>2. q \in Int /\ CDiv(lb - off, size) = q
  <2> DEFINE a == lb - off
  <2>1. a \in Nat /\ a \in Int
    BY <1>1
  <2> HIDE DEF a
  <2>2. CDiv(a, size) = a \div size /\ a \div size \in Int
    BY <2>1, CQuotient, Division
  <2>3. QED
    BY <2>2 DEF a
<1> HIDE DEF q
<1>3. p \in Int /\ (k + q) * size + off = p + off /\ (k + q + 1) * size + off - 1 = p + size + off - 1
  <2>1. p \in Int /\ (k + q + 1) * size = p + size
    BY <1>2
  <2> HIDE DEF p
  <2>2. QED
    BY <2>1 DEF p
<1>4. ASSUME NEW i \in Int
      PROVE  (i - off) \div size = k + q <=> p <= i - off /\ i - off < p + size
  <2> DEFINE c == i - off
  <2>1. k + q \in Int /\ c \in Int
    BY <1>2
  <2> HIDE DEF c
  <2>2. c \div size = k + q <=> (k + q) * size <= c /\ c < (k + q) * size + size
    BY <2>1, QuotientIff
  <2>3. QED
    BY <2>2 DEF c
<1>5. TileStartOff(size, k, lb, off) = IF lb <= p + off THEN p + off ELSE lb
  <2>1. TileStartOff(size, k, lb, off) = Max({lb, p + off})
    BY <1>2 DEF TileStartOff
  <2> HIDE DEF p
  <2>2. p + off \in Int /\ lb \in Int
    BY <1>3
  <2> DEFINE e == p + off
  <2>3. e \in Int
    BY <2>2
  <2> HIDE DEF e
  <2>4. Max({lb, e}) = IF lb <= e THEN e ELSE lb
    BY <2>2, <2>3, OfTwo
  <2>5. QED
    BY <2>1, <2>4 DEF e
<1>6. TileEndOff(size, k, lb, ub, off) = IF ub <= p + size + off - 1 THEN ub ELSE p + size + off - 1
  <2>1. TileEndOff(size, k, lb, ub, off) = Min({ub, (k + q + 1) * size + off - 1})
    BY <1>2 DEF TileEndOff
  <2> HIDE DEF p
  <2>2. p + size + off - 1 \in Int
    BY <1>3
  <2>3. QED
    BY <1>3, <2>1, <2>2, OfTwo
<1> HIDE DEF p
<1> DEFINE s == TileStartOff(size, k, lb, off)
           e == TileEndOff(size, k, lb, ub, off)
<1>7. /\ s \in Int /\ e \in Int
      /\ \A i \in Int : s <= i /\ i <= e
                         <=> lb <= i /\ i <= ub /\ p <= i - off /\ i - off < p + size
  BY <1>3, <1>5, <1>6
<1> HIDE DEF s, e
<1>8. \A i : i \in s .. e <=> i \in lb .. ub /\ (i - off) \div size = k + q
  <2>1. \A i : i \in s .. e <=> i \in Int /\ s <= i /\ i <= e
    BY <1>7
  <2>2. \A i : i \in lb .. ub <=> i \in Int /\ lb <= i /\ i <= ub
    OBVIOUS
  <2> DEFINE x(i) == (i - off) \div size
  <2>3. \A i \in Int : x(i) = k + q <=> p <= i - off /\ i - off < p + size
    BY <1>4
  <2> HIDE DEF x
  <2>4. \A i : i \in s .. e <=> i \in lb .. ub /\ x(i) = k + q
    BY <1>7, <2>1, <2>2, <2>3
  <2>5. QED
    BY <2>4 DEF x
<1>9. QED
  BY <1>8 DEF q, s, e

\* The number of tiles is that of the quotients between those of the bounds.
LEMMA TileNumIs ==
  ASSUME NEW size \in Nat \ {0}, NEW lb \in Nat, NEW ub \in Int, lb <= ub
  PROVE  TileNum(size, lb, ub) = (ub \div size) - (lb \div size) + 1
<1> DEFINE q == lb \div size
           r == lb % size
           v == ub \div size
           w == ub % size
           d == v - q
           s == size * d
<1>1. r \in 0 .. size - 1 /\ lb = size * q + r /\ q \in Int
  BY Remainder
<1>2. w \in 0 .. size - 1 /\ ub = size * v + w /\ v \in Int
  BY Remainder
<1>3. CMod(lb, size) = r /\ CMod(ub, size) = w
  BY DEF CMod
<1>4. q <= v
  BY QuotientMonotone
<1> HIDE DEF q, r, v, w
<1>5. d \in Nat /\ s \in Nat /\ ub - lb + 1 = s + w - r + 1
  <2>1. d \in Nat
    BY <1>1, <1>2, <1>4
  <2>2. size * d \in Nat
    BY <2>1
  <2>3. size * d = size * v - size * q /\ size * v \in Int /\ size * q \in Int
    BY <1>1, <1>2
  <2> HIDE DEF d, s
  <2>4. QED
    BY <1>1, <1>2, <2>1, <2>2, <2>3 DEF s
<1> DEFINE whole(x) == IF x <= 0 THEN 0 ELSE IF x < size THEN 1 ELSE x \div size
           pre == r # 0
           len1 == IF ~ pre THEN ub - lb + 1 ELSE Max({0, ub - lb + 1 - (size - r)})
           post == w # size - 1 /\ len1 > size
           len2 == IF post THEN len1 - (w + 1) ELSE len1
<1>6. TileNum(size, lb, ub) = (IF pre THEN 1 ELSE 0) + (IF post THEN 1 ELSE 0) + whole(len2)
  BY <1>3 DEF TileNum
\* Whole tiles.
<1>7. ASSUME NEW x \in Nat PROVE (size * x) \div size = x /\ whole(size * x) = x
  <2>1. (size * x) \div size = x
    <3>1. size * x \in Int /\ size * x <= size * x /\ size * x < size * x + size
      OBVIOUS
    <3>2. QED
      BY <3>1, QuotientIs
  <2>2. CASE x = 0
    <3>1. size * x = 0
      BY <2>2
    <3>2. QED
      BY <2>1, <2>2, <3>1
  <2>3. CASE x > 0
    <3>1. size * x >= size /\ size * x \in Int
      BY <2>3
    <3>2. QED
      BY <2>1, <3>1
  <2>4. QED
    BY <2>2, <2>3
<1>8. d = 0 => s = 0
  OBVIOUS
<1>9. d >= 1 => /\ d - 1 \in Nat /\ size * (d - 1) = s - size /\ s - size \in Nat
  BY <1>5
<1>10. size * (d + 1) = s + size /\ d + 1 \in Nat
  BY <1>5
<1>11. d >= 1 => whole(s) = d /\ whole(s - size) = d - 1
  <2>1. whole(size * d) = d
    BY <1>5, <1>7
  <2>2. d >= 1 => whole(size * (d - 1)) = d - 1
    BY <1>7, <1>9
  <2> HIDE DEF whole, d
  <2>3. QED
    BY <1>9, <2>1, <2>2
<1>12. whole(s + size) = d + 1
  <2>1. whole(size * (d + 1)) = d + 1
    BY <1>7, <1>10
  <2> HIDE DEF whole, d, s
  <2>2. QED
    BY <1>10, <2>1
<1>13. ASSUME NEW x \in 1 .. size - 1 PROVE whole(x) = 1
  OBVIOUS
<1>14. whole(0) = 0
  OBVIOUS
<1>15. size \in Nat /\ size >= 1
  OBVIOUS
<1> HIDE DEF whole, d, s
<1>16. CASE r = 0
  <2>1. len1 = s + w + 1
    BY <1>1, <1>2, <1>5, <1>16
  <2>2. CASE w # size - 1 /\ d >= 1
    <3>1. s >= size
      BY <1>5, <1>9, <2>2
    <3>2. post /\ len2 = s
      BY <1>2, <1>5, <2>1, <2>2, <3>1
    <3>3. ~ pre
      BY <1>16
    <3> HIDE DEF post, pre, len1, len2
    <3>4. QED
      BY <1>5, <1>6, <1>11, <2>2, <3>2, <3>3 DEF d, q, v
  <2>3. CASE w # size - 1 /\ d = 0
    <3>1. ~ post /\ len2 = w + 1 /\ w + 1 \in 1 .. size - 1
      BY <1>2, <1>5, <1>8, <2>1, <2>3
    <3>2. ~ pre /\ whole(w + 1) = 1
      BY <1>13, <1>16, <3>1
    <3> HIDE DEF post, pre, len1, len2
    <3>3. QED
      BY <1>5, <1>6, <2>3, <3>1, <3>2 DEF d, q, v
  <2>4. CASE w = size - 1
    <3>1. ~ post /\ len2 = s + size
      BY <1>2, <1>5, <2>1, <2>4
    <3>2. ~ pre
      BY <1>16
    <3> HIDE DEF post, pre, len1, len2
    <3>3. QED
      BY <1>5, <1>6, <1>12, <3>1, <3>2 DEF d, q, v
  <2>5. QED
    BY <1>5, <2>2, <2>3, <2>4
<1>17. CASE r # 0
  <2>1. ub - lb + 1 - (size - r) = s - size + w + 1 /\ s - size + w + 1 \in Int
    BY <1>1, <1>2, <1>5
  <2>2. len1 = IF 0 <= s - size + w + 1 THEN s - size + w + 1 ELSE 0
    <3>1. len1 = Max({0, s - size + w + 1})
      BY <1>17, <2>1
    <3> DEFINE e == s - size + w + 1
    <3>2. e \in Int /\ 0 \in Int
      BY <2>1
    <3> HIDE DEF e
    <3>3. Max({0, e}) = IF 0 <= e THEN e ELSE 0
      BY <3>2, OfTwo
    <3>4. QED
      BY <3>1, <3>3 DEF e
  <2>3. pre
    BY <1>17
  <2> HIDE DEF len1, pre
  <2>4. CASE d = 0
    <3>1. len1 = 0
      BY <1>2, <1>5, <1>8, <1>15, <2>2, <2>4
    <3>2. ~ post /\ len2 = 0
      BY <1>15, <3>1
    <3> HIDE DEF post, len2
    <3>3. QED
      BY <1>5, <1>6, <1>14, <2>3, <2>4, <3>2 DEF d, q, v
  <2>5. CASE d >= 1 /\ w = size - 1
    <3>1. len1 = s
      BY <1>2, <1>5, <1>9, <2>2, <2>5
    <3>2. ~ post /\ len2 = s
      BY <2>5, <3>1
    <3> HIDE DEF post, len2
    <3>3. QED
      BY <1>5, <1>6, <1>11, <2>3, <2>5, <3>2 DEF d, q, v
  <2>6. CASE d = 1 /\ w # size - 1
    <3>1. s = size
      BY <2>6 DEF s
    <3>2. len1 = w + 1 /\ w + 1 \in 1 .. size - 1
      BY <1>2, <2>2, <2>6, <3>1
    <3>3. ~ post /\ len2 = w + 1
      BY <1>15, <3>2
    <3>4. whole(w + 1) = 1
      BY <1>13, <3>2
    <3> HIDE DEF post, len2
    <3>5. QED
      BY <1>5, <1>6, <2>3, <2>6, <3>3, <3>4 DEF d, q, v
  <2>7. CASE d >= 2 /\ w # size - 1
    <3>1. s - size >= size
      <4>1. size * d >= size * 2
        BY <1>5, <2>7
      <4>2. QED
        BY <1>5, <4>1 DEF s
    <3>2. len1 = s - size + w + 1 /\ len1 > size /\ s - size \in Nat
      BY <1>2, <1>5, <2>2, <3>1
    <3>3. post /\ len2 = s - size
      BY <1>2, <1>5, <2>7, <3>2
    <3> HIDE DEF post, len2
    <3>4. QED
      BY <1>5, <1>6, <1>11, <2>3, <2>7, <3>3 DEF d, q, v
  <2>8. QED
    BY <1>5, <2>4, <2>5, <2>6, <2>7
<1>18. QED
  BY <1>16, <1>17

\* Quotients from that of lb to that of ub number the tiles.
LEMMA QuotientsNumber ==
  ASSUME NEW size \in Nat \ {0}, NEW a \in Int, NEW b \in Int, a <= b
  PROVE  LET num == (b \div size) - (a \div size) + 1
         IN  /\ num \in Nat \ {0}
             /\ \A i \in a .. b : (i \div size) - (a \div size) \in 0 .. num - 1
             /\ \A k \in 0 .. num - 1 : \E i \in a .. b : i \div size = k + (a \div size)
<1> DEFINE q == a \div size
           v == b \div size
<1>1. q \in Int /\ v \in Int /\ size * q <= a /\ a < size * q + size /\ size * v <= b
  BY Division
<1>2. q <= v
  BY QuotientMonotone
<1>3. \A i \in a .. b : i \div size \in Int /\ q <= i \div size /\ i \div size <= v
  BY Division, QuotientMonotone
<1> HIDE DEF q, v
<1>4. ASSUME NEW k \in 0 .. v - q PROVE \E i \in a .. b : i \div size = k + q
  <2>1. k + q \in Int /\ k + q <= v /\ size * (k + q) <= size * v /\ size * (k + q) \in Int
    BY <1>1
  <2> DEFINE p == size * (k + q)
  <2>2. p <= b /\ p \in Int
    BY <1>1, <2>1
  <2>3. CASE k = 0
    <3>1. a \in a .. b /\ a \div size = k + q
      BY <1>1, <2>3 DEF q
    <3>2. QED
      BY <3>1
  <2>4. CASE k # 0
    <3>1. size * (k + q) = size * k + size * q /\ size * k >= size /\ size * k \in Int
      BY <1>1, <2>4
    <3>2. size * q \in Int
      BY <1>1
    <3>3. p \in a .. b
      BY <1>1, <2>2, <3>1, <3>2
    <3>4. p \div size = k + q
      BY <2>1, QuotientIs
    <3>5. QED
      BY <3>3, <3>4
  <2>5. QED
    BY <2>3, <2>4
<1>5. v - q + 1 \in Nat \ {0} /\ (v - q + 1) - 1 = v - q
  BY <1>1, <1>2
<1>6. \A i \in a .. b : (i \div size) - q \in 0 .. v - q
  <2>1. SUFFICES ASSUME NEW i \in a .. b PROVE (i \div size) - q \in 0 .. v - q
    OBVIOUS
  <2> DEFINE x == i \div size
  <2>2. x \in Int /\ q <= x /\ x <= v
    BY <1>3
  <2> HIDE DEF x
  <2>3. x - q \in 0 .. v - q
    BY <1>1, <2>2
  <2>4. QED
    BY <2>3 DEF x
<1>7. QED
  BY <1>4, <1>5, <1>6 DEF q, v

\* The tiles of an ascending loop are not empty and cover its range: every index is in
\* one of them and in no other (acemesh_get_loop_tile_num, _start_ and
\* _end_index_by_tile_no), whatever the bounds and the size.
THEOREM TilesCover ==
  ASSUME NEW size \in Nat \ {0}, NEW lb \in Nat, NEW ub \in Int, lb <= ub
  PROVE  LET num == TileNum(size, lb, ub)
             tile(k) == TileStart(size, k, lb) .. TileEnd(size, k, lb, ub)
         IN  /\ num \in Nat \ {0}
             /\ \A i \in lb .. ub : \E k \in 0 .. num - 1 : i \in tile(k)
             /\ \A k \in 0 .. num - 1 : tile(k) # {} /\ tile(k) \subseteq lb .. ub
             /\ \A j, k \in 0 .. num - 1 : j # k => tile(j) \cap tile(k) = {}
<1> DEFINE num == TileNum(size, lb, ub)
           q == lb \div size
           tile(k) == TileStart(size, k, lb) .. TileEnd(size, k, lb, ub)
<1>1. lb \in Int /\ q \in Int /\ num = (ub \div size) - q + 1
  <2>1. lb \in Int
    OBVIOUS
  <2>2. QED
    BY <2>1, TileNumIs, Division
<1>2. \A k \in Int : tile(k) = {i \in lb .. ub : i \div size = k + q}
  BY InTile
<1>3. \A k \in Int : tile(k) \subseteq Int
  OBVIOUS
<1>4. /\ num \in Nat \ {0}
      /\ \A i \in lb .. ub : (i \div size) - q \in 0 .. num - 1
      /\ \A k \in 0 .. num - 1 : \E i \in lb .. ub : i \div size = k + q
  BY <1>1, QuotientsNumber
<1> HIDE DEF num, q, tile
<1>5. \A i \in lb .. ub : \E k \in 0 .. num - 1 : i \in tile(k)
  <2>1. SUFFICES ASSUME NEW i \in lb .. ub PROVE \E k \in 0 .. num - 1 : i \in tile(k)
    OBVIOUS
  <2> DEFINE k == (i \div size) - q
  <2>2. k \in 0 .. num - 1 /\ i \div size \in Int
    <3>1. i \div size \in Int
      BY Division
    <3>2. QED
      BY <1>4, <3>1
  <2>3. k \in Int /\ i \div size = k + q
    BY <1>1, <2>2
  <2> HIDE DEF k
  <2>4. QED
    BY <1>2, <2>2, <2>3
<1>6. \A k \in 0 .. num - 1 : k \in Int
  BY <1>4
<1>7. \A k \in 0 .. num - 1 : tile(k) # {} /\ tile(k) \subseteq lb .. ub
  <2>1. SUFFICES ASSUME NEW k \in 0 .. num - 1
                 PROVE  tile(k) # {} /\ tile(k) \subseteq lb .. ub
    OBVIOUS
  <2>2. PICK i \in lb .. ub : i \div size = k + q
    BY <1>4
  <2>3. i \in tile(k)
    BY <1>2, <1>6, <2>2
  <2>4. \A x \in tile(k) : x \in lb .. ub
    BY <1>2, <1>3, <1>6
  <2>5. QED
    BY <2>3, <2>4
<1>8. \A j, k \in 0 .. num - 1 : j # k => tile(j) \cap tile(k) = {}
  <2>1. SUFFICES ASSUME NEW j \in 0 .. num - 1, NEW k \in 0 .. num - 1,
                        NEW i \in tile(j), i \in tile(k)
                 PROVE  j = k
    OBVIOUS
  <2>2. i \div size = j + q /\ i \div size = k + q
    BY <1>2, <1>3, <1>6, <2>1
  <2>3. QED
    BY <1>1, <1>6, <2>2
<1>9. QED
  BY <1>4, <1>5, <1>7, <1>8 DEF num, q, tile

\* So are the tiles that are counted from an offset (the functions with_init_offset).
THEOREM OffsetTilesCover ==
  ASSUME NEW size \in Nat \ {0}, NEW lb \in Nat, NEW ub \in Int, lb <= ub,
         NEW off \in Int, off <= lb
  PROVE  LET num == TileNumOff(size, lb, ub, off)
             tile(k) == TileStartOff(size, k, lb, off)
                          .. TileEndOff(size, k, lb, ub, off)
         IN  /\ num \in Nat \ {0}
             /\ \A i \in lb .. ub : \E k \in 0 .. num - 1 : i \in tile(k)
             /\ \A k \in 0 .. num - 1 : tile(k) # {} /\ tile(k) \subseteq lb .. ub
             /\ \A j, k \in 0 .. num - 1 : j # k => tile(j) \cap tile(k) = {}
<1> DEFINE num == TileNumOff(size, lb, ub, off)
           a == lb - off
           b == ub - off
           q == a \div size
           tile(k) == TileStartOff(size, k, lb, off) .. TileEndOff(size, k, lb, ub, off)
<1>1. a \in Nat /\ b \in Nat /\ a \in Int /\ b \in Int /\ a <= b
  OBVIOUS
<1>2. q \in Int /\ num = (b \div size) - q + 1
  <2> HIDE DEF a, b
  <2>1. CDiv(a, size) = a \div size /\ CDiv(b, size) = b \div size /\ q \in Int
    BY <1>1, CQuotient, Division
  <2>2. num = CDiv(b, size) - CDiv(a, size) + 1
    BY DEF TileNumOff, a, b
  <2>3. QED
    BY <2>1, <2>2
<1>3. \A k \in Int : tile(k) = {i \in lb .. ub : (i - off) \div size = k + q}
  BY InTileOff
<1>4. \A k \in Int : tile(k) \subseteq Int
  OBVIOUS
<1> HIDE DEF q
<1>5. /\ num \in Nat \ {0}
      /\ \A i \in a .. b : (i \div size) - q \in 0 .. num - 1
      /\ \A k \in 0 .. num - 1 : \E i \in a .. b : i \div size = k + q
  <2> HIDE DEF a, b, num
  <2>1. QED
    BY <1>1, <1>2, QuotientsNumber DEF q
<1> HIDE DEF num, tile
<1>6. \A i \in lb .. ub : \E k \in 0 .. num - 1 : i \in tile(k)
  <2>1. SUFFICES ASSUME NEW i \in lb .. ub PROVE \E k \in 0 .. num - 1 : i \in tile(k)
    OBVIOUS
  <2> DEFINE j == i - off
             k == (j \div size) - q
  <2>2. j \in a .. b /\ j \in Int
    OBVIOUS
  <2> HIDE DEF j
  <2>3. k \in 0 .. num - 1 /\ j \div size \in Int
    BY <1>5, <2>2, Division
  <2>4. k \in Int /\ j \div size = k + q
    BY <1>2, <2>3
  <2> HIDE DEF k
  <2>5. (i - off) \div size = k + q
    BY <2>4 DEF j
  <2>6. QED
    BY <1>3, <2>3, <2>4, <2>5
<1>7. \A k \in 0 .. num - 1 : k \in Int
  BY <1>5
<1>8. \A k \in 0 .. num - 1 : tile(k) # {}
  <2>1. SUFFICES ASSUME NEW k \in 0 .. num - 1 PROVE tile(k) # {}
    OBVIOUS
  <2>2. PICK j \in a .. b : j \div size = k + q
    BY <1>5
  <2> DEFINE i == j + off
  <2>3. i \in lb .. ub /\ i \in Int /\ i - off = j
    OBVIOUS
  <2> HIDE DEF i
  <2>4. i \in tile(k)
    BY <1>3, <1>7, <2>2, <2>3
  <2>5. QED
    BY <2>4
<1>9. \A k \in 0 .. num - 1 : tile(k) \subseteq lb .. ub
  BY <1>3, <1>4, <1>7
<1>10. \A j, k \in 0 .. num - 1 : j # k => tile(j) \cap tile(k) = {}
  <2>1. SUFFICES ASSUME NEW j \in 0 .. num - 1, NEW k \in 0 .. num - 1,
                        NEW i \in tile(j), i \in tile(k)
                 PROVE  j = k
    OBVIOUS
  <2>2. (i - off) \div size = j + q /\ (i - off) \div size = k + q
    BY <1>3, <1>4, <1>7, <2>1
  <2>3. QED
    BY <1>2, <1>7, <2>2
<1>11. QED
  BY <1>5, <1>6, <1>8, <1>9, <1>10 DEF num, tile

LEMMA QuotientShift ==
  ASSUME NEW a \in Int, NEW b \in Nat \ {0}, NEW y \in Int
  PROVE  (a + b * y) \div b = (a \div b) + y
<1> DEFINE x == a \div b
           c == a + b * y
<1>1. x \in Int /\ b * x <= a /\ a < b * x + b
  BY Division
<1> HIDE DEF x
<1>2. b * (x + y) = b * x + b * y /\ b * x \in Int /\ b * y \in Int /\ x + y \in Int
  BY <1>1
<1>3. c \in Int /\ b * (x + y) <= c /\ c < b * (x + y) + b
  BY <1>1, <1>2
<1> HIDE DEF c
<1>4. c \div b = x + y
  BY <1>2, <1>3, QuotientIs
<1>5. QED
  BY <1>4 DEF c, x

\* The number of a tile is got back from each of its indices.
LEMMA TileNoIs ==
  ASSUME NEW size \in Nat \ {0}, NEW lb \in Nat, NEW i \in Nat, lb <= i, NEW k \in Int,
         i \div size = k + (lb \div size)
  PROVE  TileNo(size, i, lb) = k
<1> DEFINE q == lb \div size
           r == lb % size
           c == i + size * (-q)
<1>1. r \in 0 .. size - 1 /\ lb = size * q + r /\ q \in Int /\ i \in Int
  BY Remainder
<1>2. CMod(lb, size) = r
  BY DEF CMod
<1>3. i \div size = k + q
  OBVIOUS
<1> HIDE DEF q, r
<1>4. size * (-q) = -(size * q) /\ size * q \in Int /\ -q \in Int
  BY <1>1
<1>5. c \in Nat /\ i - (lb - r) = c
  BY <1>1, <1>4
<1>6. c \div size = (i \div size) + (-q)
  BY <1>1, <1>4, QuotientShift
<1>7. c \div size = k
  BY <1>1, <1>3, <1>6
<1> HIDE DEF c
<1>8. TileNo(size, i, lb) = CDiv(c, size)
  BY <1>2, <1>5 DEF TileNo
<1>9. QED
  BY <1>5, <1>7, <1>8, CQuotient

LEMMA TileNoOffIs ==
  ASSUME NEW size \in Nat \ {0}, NEW lb \in Nat, NEW i \in Nat, lb <= i, NEW k \in Int,
         NEW off \in Int, off <= lb,
         (i - off) \div size = k + ((lb - off) \div size)
  PROVE  TileNoOff(size, i, lb, off) = k
<1> DEFINE r == CMod(off, size)
           a == lb - off
           b == i - off
           x == a \div size
           z == b \div size
<1>1. PICK y \in Int : off = size * y + r /\ r \in Int /\ (r <= off \/ r <= 0)
  BY CRemainder
<1>2. a \in Nat /\ b \in Nat /\ a \in Int /\ b \in Int
  OBVIOUS
<1>3. z = k + x
  OBVIOUS
<1> HIDE DEF r
<1>4. /\ size * y \in Int /\ i - r = b + size * y /\ lb - r = a + size * y
      /\ b + size * y \in Nat /\ a + size * y \in Nat
  BY <1>1
<1> HIDE DEF a, b
<1>5. (b + size * y) \div size = z + y /\ (a + size * y) \div size = x + y
  BY <1>1, <1>2, QuotientShift
<1>6. z \in Int /\ x \in Int
  BY <1>2, Division
<1> DEFINE e == b + size * y
           f == a + size * y
<1>7. e \in Nat /\ f \in Nat /\ e \div size = z + y /\ f \div size = x + y /\ i - r = e /\ lb - r = f
  BY <1>4, <1>5
<1> HIDE DEF e, f, x, z
<1>8. CDiv(e, size) = z + y /\ CDiv(f, size) = x + y
  BY <1>7, CQuotient
<1>9. TileNoOff(size, i, lb, off) = CDiv(e, size) - CDiv(f, size)
  BY <1>7 DEF TileNoOff, r
<1>10. (z + y) - (x + y) = k
  BY <1>1, <1>3, <1>6
<1>11. QED
  BY <1>8, <1>9, <1>10

\* Indices with one quotient are in one data tile.
LEMMA DataTileIs ==
  ASSUME NEW size \in Nat \ {0}, NEW i \in Nat, NEW j \in Nat, i \div size = j \div size
  PROVE  DataTile(size, i, 0) = DataTile(size, j, 0)
<1>1. ASSUME NEW x \in Nat PROVE x - CMod(x, size) = size * (x \div size)
  <2>1. CMod(x, size) = x % size
    BY DEF CMod
  <2> DEFINE p == size * (x \div size)
             r == x % size
  <2>2. x \in Int
    OBVIOUS
  <2>3. r \in Int /\ x = p + r /\ p \in Int
    BY <2>2, Remainder
  <2> HIDE DEF p, r
  <2>4. x - r = p
    BY <2>3
  <2>5. QED
    BY <2>1, <2>4 DEF p, r
<1>2. i - CMod(i, size) = j - CMod(j, size)
  BY <1>1
<1>3. QED
  BY <1>2 DEF DataTile

LEMMA DataTileOffIs ==
  ASSUME NEW size \in Nat \ {0}, NEW off \in Int, NEW i \in Int, NEW j \in Int,
         off <= i, off <= j, (i - off) \div size = (j - off) \div size
  PROVE  DataTileOff(size, i, off, off) = DataTileOff(size, j, off, off)
<1> DEFINE a == i - off
           b == j - off
<1>1. a \in Nat /\ b \in Nat
  OBVIOUS
<1>2. a \div size = b \div size
  OBVIOUS
<1> HIDE DEF a, b
<1>3. CDiv(a, size) = CDiv(b, size)
  BY <1>1, <1>2, CQuotient
<1>4. QED
  BY <1>3 DEF DataTileOff, a, b

\* The bounds of a tile are numbers.
LEMMA TileInt ==
  ASSUME NEW size \in Nat \ {0}, NEW lb \in Nat, NEW ub \in Int, NEW off \in Int, off <= lb,
         NEW k \in Int
  PROVE  /\ TileStart(size, k, lb) \in Int /\ TileEnd(size, k, lb, ub) \in Int
         /\ TileStartOff(size, k, lb, off) \in Int
         /\ TileEndOff(size, k, lb, ub, off) \in Int
<1> DEFINE r == CMod(lb, size)
           q == CDiv(lb - off, size)
           a == k * size + lb - r
           b == (k + 1) * size + lb - r - 1
           c == (k + q) * size + off
           d == (k + q + 1) * size + off - 1
<1>1. r \in Int
  BY CRemainder
<1>2. q \in Int
  <2> DEFINE e == lb - off
  <2>1. e \in Nat /\ e \in Int
    OBVIOUS
  <2> HIDE DEF e
  <2>2. CDiv(e, size) \in Int
    BY <2>1, CQuotient, Division
  <2>3. QED
    BY <2>2 DEF e
<1> HIDE DEF r, q
<1>3. k * size \in Int /\ (k + 1) * size \in Int
  OBVIOUS
<1>4. k + q \in Int /\ k + q + 1 \in Int
  BY <1>2
<1>5. (k + q) * size \in Int /\ (k + q + 1) * size \in Int
  BY <1>4
<1>6. a \in Int /\ b \in Int /\ c \in Int /\ d \in Int /\ lb \in Int
  BY <1>1, <1>3, <1>5
<1> HIDE DEF a, b, c, d
<1>7. ASSUME NEW x \in Int, NEW y \in Int
      PROVE  Max({x, y}) \in Int /\ Min({x, y}) \in Int
  <2>1. /\ Min({x, y}) = IF x <= y THEN x ELSE y
        /\ Max({x, y}) = IF x <= y THEN y ELSE x
    BY OfTwo
  <2>2. QED
    BY <2>1
<1>8. /\ Max({lb, a}) \in Int /\ Min({ub, b}) \in Int
      /\ Max({lb, c}) \in Int /\ Min({ub, d}) \in Int
  BY <1>6, <1>7
<1>9. /\ TileStart(size, k, lb) = Max({lb, a})
      /\ TileEnd(size, k, lb, ub) = Min({ub, b})
      /\ TileStartOff(size, k, lb, off) = Max({lb, c})
      /\ TileEndOff(size, k, lb, ub, off) = Min({ub, d})
  BY DEF TileStart, TileEnd, TileStartOff, TileEndOff, a, b, c, d, r, q
<1>10. QED
  BY <1>8, <1>9

\* The least number of a set, in TileLoop.
LEMMA LeastIs ==
  ASSUME NEW S, S \subseteq Nat, S # {}
  PROVE  Min(S) \in S /\ \A x \in S : Min(S) <= x
<1>1. PICK s \in S : \A y \in S : ~ (<<y, s>> \in OpToRel(<, Nat))
  BY NatLessThanWellFounded, WFMin
<1>2. ASSUME NEW y \in S PROVE s <= y
  <2>1. y \in Nat /\ s \in Nat
    OBVIOUS
  <2>2. ~ (y < s)
    BY <1>1, <2>1 DEF OpToRel
  <2>3. QED
    BY <2>1, <2>2
<1>3. QED
  BY <1>2 DEF Min

\* While a nest is executed it is one of Nests, and its tiles are numbered from 0.
LoopInv ==
  pc # "idle" => nest \in Nests /\ no \in [1 .. Len(nest.n) -> Nat]

LEMMA LoopIsInvariant == TileSpec => []LoopInv
<1>1. TileInit => LoopInv
  BY DEF TileInit, LoopInv
<1>2. LoopInv /\ [TileNext]_tileVars => LoopInv'
  <2>1. SUFFICES ASSUME LoopInv, [TileNext]_tileVars PROVE LoopInv'
    OBVIOUS
  <2>2. ASSUME NEW a \in Nests, Start(a) PROVE LoopInv'
    BY <2>2 DEF LoopInv, Start
  <2>3. ASSUME UNCHANGED <<nest, no>>, pc # "idle" \/ pc' = pc PROVE LoopInv'
    BY <2>1, <2>3 DEF LoopInv
  <2>4. CASE NextTile
    <3> DEFINE more == {d \in Dims : no[d] + 1 < Num(d)}
    <3>1. pc = "next" /\ nest' = nest
      BY <2>4 DEF NextTile
    <3>2. nest \in Nests /\ no \in [Dims -> Nat] /\ Dims \subseteq Nat
      <4>1. nest \in Nests /\ no \in [1 .. Len(nest.n) -> Nat]
        BY <2>1, <3>1 DEF LoopInv
      <4>2. QED
        BY <4>1 DEF Dims
    <3>3. CASE more = {}
      BY <2>3, <2>4, <3>1, <3>3 DEF NextTile
    <3>4. CASE more # {}
      <4> DEFINE least == Min(more)
      <4>1. no' = [d \in Dims |-> CASE d < least -> 0
                                         [] d = least -> no[d] + 1
                                         [] OTHER -> no[d]]
        BY <2>4, <3>4 DEF NextTile
      <4>2. least \in Nat
        BY <3>2, <3>4, LeastIs
      <4> HIDE DEF least, more
      <4>3. ASSUME NEW d \in Dims
            PROVE  (CASE d < least -> 0 [] d = least -> no[d] + 1 [] OTHER -> no[d]) \in Nat
        BY <3>2, <4>2
      <4>4. no' \in [Dims -> Nat]
        BY <4>1, <4>3
      <4>5. nest' \in Nests /\ no' \in [1 .. Len(nest'.n) -> Nat]
        BY <3>1, <3>2, <4>4 DEF Dims
      <4>6. QED
        BY <4>5 DEF LoopInv
    <3>5. QED
      BY <3>3, <3>4
  <2>5. CASE Get \/ Expand \/ Compute \/ Compress \/ Put
    BY <2>3, <2>5 DEF Get, Expand, Compute, Compress, Put
  <2>6. CASE UNCHANGED tileVars
    BY <2>3, <2>6 DEF tileVars
  <2>7. QED
    BY <2>1, <2>2, <2>4, <2>5, <2>6 DEF TileNext
<1>3. QED
  BY <1>1, <1>2, PTL DEF TileSpec

\* The tile functions agree (TileOfData of TileLoop, for any nest): the tile whose bounds
\* a task computes from the number of a tile has that number, and every access of the
\* task lies in the one data tile by whose address it was declared.
THEOREM TilesOfData == TileSpec => []TileOfData
<1>1. LoopInv => TileOfData
  <2>1. SUFFICES ASSUME LoopInv, pc = "tile", NEW d \in Dims,
                        NEW i \in From(d) .. To(d)
        PROVE
          IF nest.off[d] = 0
          THEN /\ TileNo(nest.tile[d], i, nest.lb[d]) = no[d]
               /\ DataTile(nest.tile[d], i, 0)
                    = DataTile(nest.tile[d], From(d), 0)
          ELSE /\ TileNoOff(nest.tile[d], i, nest.lb[d], nest.off[d]) = no[d]
               /\ DataTileOff(nest.tile[d], i, nest.off[d], nest.off[d])
                    = DataTileOff(nest.tile[d], From(d), nest.off[d], nest.off[d])
    BY DEF TileOfData
  <2> DEFINE size == nest.tile[d]
             lb == nest.lb[d]
             ub == nest.ub[d]
             off == nest.off[d]
             k == no[d]
             from == From(d)
             to == To(d)
  <2>2. nest \in Nests /\ no \in [Dims -> Nat]
    BY <2>1 DEF LoopInv, Dims
  <2>3. /\ size \in Nat \ {0} /\ lb \in Nat /\ ub \in Int /\ off \in Int /\ off <= lb
        /\ k \in Nat
    BY <2>2, NestsAssumption DEF Dims
  <2>4. CASE off = 0
    <3>1. /\ from = TileStart(size, k, lb) /\ to = TileEnd(size, k, lb, ub)
      BY <2>4 DEF From, To
    <3> HIDE DEF size, lb, ub, off, k, from, to
    <3>2. k \in Int /\ lb \in Int /\ lb \div size \in Int
      BY <2>3, Division
    <3>3. from .. to = {x \in lb .. ub : x \div size = k + (lb \div size)}
      BY <2>3, <3>1, <3>2, InTile
    <3>4. i \in from .. to
      BY <2>1 DEF from, to
    <3>5. i \in lb .. ub /\ i \div size = k + (lb \div size)
      BY <3>3, <3>4
    <3>6. from \in Int /\ to \in Int
      <4>1. from \in Int
        BY <2>3, <3>1, <3>2, TileInt
      <4>2. to \in Int
        BY <2>3, <3>1, <3>2, TileInt
      <4>3. QED
        BY <4>1, <4>2
    <3>7. from \in from .. to
      BY <3>4, <3>6
    <3>8. from \in lb .. ub /\ from \div size = k + (lb \div size)
      BY <3>3, <3>7
    <3>9. i \in Nat /\ lb <= i /\ from \in Nat
      BY <2>3, <3>5, <3>8
    <3>10. TileNo(size, i, lb) = k
      BY <2>3, <3>2, <3>5, <3>9, TileNoIs
    <3>11. DataTile(size, i, 0) = DataTile(size, from, 0)
      BY <2>3, <3>5, <3>8, <3>9, DataTileIs
    <3>12. QED
      BY <2>4, <3>10, <3>11 DEF size, lb, off, k, from
  <2>5. CASE off # 0
    <3>1. /\ from = TileStartOff(size, k, lb, off)
          /\ to = TileEndOff(size, k, lb, ub, off)
      BY <2>5 DEF From, To
    <3> HIDE DEF size, lb, ub, off, k, from, to
    <3>2. k \in Int /\ lb \in Int
      BY <2>3
    <3>3. from .. to = {x \in lb .. ub : (x - off) \div size = k + ((lb - off) \div size)}
      BY <2>3, <3>1, <3>2, InTileOff
    <3>4. i \in from .. to
      BY <2>1 DEF from, to
    <3>5. i \in lb .. ub /\ (i - off) \div size = k + ((lb - off) \div size)
      BY <3>3, <3>4
    <3>6. from \in Int /\ to \in Int
      BY <2>3, <3>1, <3>2, TileInt
    <3>7. from \in from .. to
      BY <3>4, <3>6
    <3>8. from \in lb .. ub /\ (from - off) \div size = k + ((lb - off) \div size)
      BY <3>3, <3>7
    <3>9. /\ i \in Nat /\ lb <= i /\ i \in Int /\ from \in Int /\ off <= i /\ off <= from
      BY <2>3, <3>5, <3>8
    <3>10. TileNoOff(size, i, lb, off) = k
      BY <2>3, <3>2, <3>5, <3>9, TileNoOffIs
    <3>11. DataTileOff(size, i, off, off) = DataTileOff(size, from, off, off)
      <4>1. (i - off) \div size = (from - off) \div size
        BY <3>5, <3>8
      <4>2. QED
        BY <2>3, <3>9, <4>1, DataTileOffIs
    <3>12. QED
      BY <2>5, <3>10, <3>11 DEF size, lb, off, k, from
  <2>6. QED
    BY <2>4, <2>5
<1>2. QED
  BY <1>1, LoopIsInvariant, PTL
=============================================================================
