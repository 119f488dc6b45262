------------------------------ MODULE TreeProofs ------------------------------
(* What the operators of TreeBins do to trees that are sound, for any       *)
(* chunks: the bits of sizes, the walks down a tree, insertion, removal and *)
(* the searches. Then the same of all bins, and the sums of sizes.          *)
EXTENDS MspaceChecks, FiniteSetTheorems, WellFoundedInduction, TLAPS

(* There is a least one among some natural numbers.                         *)
LEMMA LeastNat ==
    ASSUME NEW T \in SUBSET Nat, T # {}
    PROVE  \E x \in T : \A y \in T : x <= y
<1>1. IsWellFoundedOn(OpToRel(<, Nat), Nat)
  BY NatLessThanWellFounded
<1>2. PICK x \in T : \A y \in T : ~ (<<y, x>> \in OpToRel(<, Nat))
  BY <1>1, WFMin
<1>3. \A y \in T : ~(y < x)
  BY <1>2 DEF OpToRel
<1> QED
  BY <1>3

(* What holds of 0 and of the successor of each number it holds of, holds   *)
(* of all.                                                                  *)
LEMMA NatSteps ==
    ASSUME NEW T \in SUBSET Nat, 0 \in T, \A n \in T : n + 1 \in T
    PROVE  T = Nat
<1>1. SUFFICES ASSUME Nat \ T # {} PROVE FALSE
  OBVIOUS
<1>2. PICK n \in Nat \ T : \A k \in Nat \ T : n <= k
  BY <1>1, LeastNat
<1>3. n - 1 \in T
  BY <1>2
<1> QED
  BY <1>2, <1>3

(* A function that is defined by going on to another point until it stops   *)
(* exists when every step goes down.                                        *)
WalkOf(g, D, stop, next, base, join) ==
    g = [v \in D |-> IF stop[v] THEN base[v] ELSE join[<<v, g[next[v]]>>]]

LEMMA WalksExist ==
    ASSUME NEW D, NEW R, NEW stop, NEW next, NEW base, NEW join, NEW high \in [D -> Nat],
           \A v \in D : base[v] \in R,
           \A v \in D : \A e \in R : join[<<v, e>>] \in R,
           \A v \in D : ~stop[v] => next[v] \in D /\ high[next[v]] < high[v]
    PROVE  \E g \in [D -> R] : WalkOf(g, D, stop, next, base, join)
<1> DEFINE Below(n) == {v \in D : high[v] < n}
           Up(g, n) == \A v \in Below(n) :
              g[v] = IF stop[v] THEN base[v] ELSE join[<<v, g[next[v]]>>]
           Good == {n \in Nat : \E g \in [D -> R] : Up(g, n)}
<1>1. 0 \in Good
  <2>1. Below(0) = {}
    OBVIOUS
  <2>2. [v \in D |-> base[v]] \in [D -> R]
    OBVIOUS
  <2> QED
    BY <2>1, <2>2
<1>2. ASSUME NEW n \in Good PROVE n + 1 \in Good
  <2>1. PICK g \in [D -> R] : Up(g, n)
    OBVIOUS
  <2> DEFINE h == [v \in D |-> IF stop[v] THEN base[v] ELSE
                     IF high[v] < n + 1 THEN join[<<v, g[next[v]]>>] ELSE base[v]]
  <2>2. h \in [D -> R]
    OBVIOUS
  <2>3. ASSUME NEW v \in Below(n) PROVE h[v] = g[v]
    BY <2>1
  <2>4. ASSUME NEW v \in Below(n + 1), ~stop[v] PROVE h[next[v]] = g[next[v]]
    BY <2>3, <2>4
  <2>5. ASSUME NEW v \in Below(n + 1)
        PROVE  h[v] = IF stop[v] THEN base[v] ELSE join[<<v, h[next[v]]>>]
    <3>1. CASE stop[v]
      BY <3>1
    <3>2. CASE ~stop[v]
      <4>1. h[v] = join[<<v, g[next[v]]>>]
        BY <3>2
      <4>2. h[next[v]] = g[next[v]]
        BY <2>4, <3>2
      <4> HIDE DEF h
      <4> QED
        BY <3>2, <4>1, <4>2
    <3> QED
      BY <3>1, <3>2
  <2> HIDE DEF h
  <2> QED
    BY <2>2, <2>5
<1>3. Good = Nat
  <2> HIDE DEF Good
  <2>1. Good \in SUBSET Nat
    BY DEF Good
  <2> QED
    BY <1>1, <1>2, <2>1, NatSteps
<1>4. ASSUME NEW n \in Nat PROVE \E g \in [D -> R] : Up(g, n)
  BY <1>3
<1> DEFINE F(n) == CHOOSE g \in [D -> R] : Up(g, n)
           G == [v \in D |-> F(high[v] + 1)[v]]
<1>5. ASSUME NEW n \in Nat PROVE F(n) \in [D -> R] /\ Up(F(n), n)
  BY <1>4
<1>6. ASSUME NEW k \in Nat, NEW n \in Nat, k <= n, NEW v \in Below(k)
      PROVE  F(k)[v] = F(n)[v]
  <2> DEFINE Bad == {high[u] : u \in {w \in Below(k) : F(k)[w] # F(n)[w]}}
  <2>1. SUFFICES ASSUME Bad # {} PROVE FALSE
    <3> HIDE DEF F
    <3> QED
      OBVIOUS
  <2>2. Bad \in SUBSET Nat
    OBVIOUS
  <2>3. PICK b \in Bad : \A c \in Bad : b <= c
    <3> HIDE DEF Bad
    <3> QED
      BY <2>1, <2>2, LeastNat
  <2>4. PICK u \in Below(k) : F(k)[u] # F(n)[u] /\ high[u] = b
    OBVIOUS
  <2>5. /\ F(k)[u] = (IF stop[u] THEN base[u] ELSE join[<<u, F(k)[next[u]]>>])
        /\ F(n)[u] = (IF stop[u] THEN base[u] ELSE join[<<u, F(n)[next[u]]>>])
    <3> HIDE DEF F
    <3> QED
      BY <1>5, <1>6
  <2>6. ~stop[u] /\ F(k)[next[u]] # F(n)[next[u]] /\ next[u] \in Below(k)
    <3> HIDE DEF F
    <3> QED
      BY <2>4, <2>5
  <2>7. high[u] \in Nat /\ high[next[u]] \in Nat /\ high[next[u]] < high[u]
    BY <2>6
  <2>8. high[next[u]] \in Bad
    <3> HIDE DEF F
    <3> QED
      BY <2>6, Zenon
  <2>9. b <= high[next[u]]
    <3> HIDE DEF Bad
    <3> QED
      BY <2>3, <2>8
  <2> QED
    BY <2>4, <2>7, <2>9
<1>7. G \in [D -> R]
  <2> HIDE DEF F
  <2>1. \A v \in D : F(high[v] + 1)[v] \in R
    BY <1>5
  <2> QED
    BY <2>1
<1>8. ASSUME NEW v \in D PROVE G[v] = IF stop[v] THEN base[v] ELSE join[<<v, G[next[v]]>>]
  <2> DEFINE n == high[v] + 1
  <2>1. n \in Nat /\ v \in Below(n)
    OBVIOUS
  <2>2. F(n)[v] = IF stop[v] THEN base[v] ELSE join[<<v, F(n)[next[v]]>>]
    <3> HIDE DEF F, n
    <3> QED
      BY <1>5, <2>1
  <2>3. ~stop[v] => F(n)[next[v]] = F(high[next[v]] + 1)[next[v]]
    <3>1. CASE ~stop[v]
      <4>1. next[v] \in Below(high[next[v]] + 1) /\ high[next[v]] + 1 <= n
        BY <3>1
      <4> HIDE DEF F, n
      <4> QED
        BY <1>6, <2>1, <4>1, <3>1
    <3> QED
      BY <3>1
  <2> HIDE DEF F
  <2> QED
    BY <2>2, <2>3
<1> HIDE DEF G
<1>9. WalkOf(G, D, stop, next, base, join)
  BY <1>7, <1>8 DEF WalkOf
<1> QED
  BY <1>7, <1>9
-----------------------------------------------------------------------------
Pow(k) == 2 ^ k

(* The powers of two that sizes are made of.                                *)
LEMMA PowDoubles ==
    /\ \A n \in 0 .. 29 : Pow(n + 1) = 2 * Pow(n)
    /\ \A n \in 0 .. 30 : Pow(n) \in Nat \ {0}
<1> DEFINE p == [k \in 0 .. 30 |-> Pow(k)]
<1>1. /\ p[0] = 1 /\ p[1] = 2 /\ p[2] = 4 /\ p[3] = 8
      /\ p[4] = 16 /\ p[5] = 32 /\ p[6] = 64 /\ p[7] = 128
      /\ p[8] = 256 /\ p[9] = 512 /\ p[10] = 1024 /\ p[11] = 2048
      /\ p[12] = 4096 /\ p[13] = 8192 /\ p[14] = 16384 /\ p[15] = 32768
      /\ p[16] = 65536 /\ p[17] = 131072 /\ p[18] = 262144 /\ p[19] = 524288
      /\ p[20] = 1048576 /\ p[21] = 2097152 /\ p[22] = 4194304 /\ p[23] = 8388608
      /\ p[24] = 16777216 /\ p[25] = 33554432 /\ p[26] = 67108864 /\ p[27] = 134217728
      /\ p[28] = 268435456 /\ p[29] = 536870912 /\ p[30] = 1073741824
  BY DEF Pow
<1>2. \A k \in 0 .. 30 : p[k] = Pow(k)
  OBVIOUS
<1> HIDE DEF p
<1>3. \A k \in 0 .. 29 : p[k + 1] = 2 * p[k]
  BY <1>1
<1>4. \A k \in 0 .. 30 : p[k] \in Nat \ {0}
  BY <1>1
<1> QED
  BY <1>2, <1>3, <1>4

(* Powers of two grow.                                                      *)
LEMMA PowGrows ==
    ASSUME NEW j \in 0 .. 30, NEW k \in 0 .. 30, j <= k
    PROVE  Pow(j) <= Pow(k)
<1> DEFINE Good == {n \in Nat : j + n <= 30 => Pow(j) <= Pow(j + n)}
<1>1. 0 \in Good
  BY PowDoubles
<1>2. ASSUME NEW n \in Good PROVE n + 1 \in Good
  <2>1. SUFFICES ASSUME j + (n + 1) <= 30 PROVE Pow(j) <= Pow(j + (n + 1))
    OBVIOUS
  <2>2. j + n \in 0 .. 29 /\ j + (n + 1) = (j + n) + 1
    BY <2>1
  <2> QED
    BY <2>2, PowDoubles
<1>3. Good = Nat
  <2>1. Good \in SUBSET Nat
    OBVIOUS
  <2> HIDE DEF Good
  <2> QED
    BY <1>1, <1>2, <2>1, NatSteps
<1>4. k - j \in Good
  <2>1. k - j \in Nat
    OBVIOUS
  <2> HIDE DEF Good
  <2> QED
    BY <1>3, <2>1
<1> QED
  BY <1>4

(* Half of what is left of a number is one bit less.                        *)
LEMMA DivDoubles ==
    ASSUME NEW s \in Nat, NEW a \in Nat \ {0}
    PROVE  s \div a = 2 * (s \div (2 * a)) + ((s \div a) % 2)
<1> DEFINE q == s \div a
           r == s - a * q
           p == q \div 2
           e == q % 2
<1>1. q \in Nat /\ s = a * q + r /\ r \in 0 .. a - 1
  OBVIOUS
<1>2. q = 2 * p + e /\ e \in 0 .. 1 /\ p \in Nat
  OBVIOUS
<1> HIDE DEF q, r, p, e
<1>3. s = (2 * a) * p + (a * e + r)
  BY <1>1, <1>2
<1>4. a * e + r \in 0 .. 2 * a - 1
  BY <1>1, <1>2
<1>5. s \div (2 * a) = p
  BY <1>1, <1>2, <1>3, <1>4
<1> QED
  BY <1>2, <1>5 DEF q, e

(* What is smaller than the divisor is gone, what is twice as large is not. *)
LEMMA DivSmaller ==
    ASSUME NEW s \in Nat, NEW a \in Nat \ {0}
    PROVE  /\ s \div a \in Nat
           /\ s < a => s \div a = 0
           /\ a <= s /\ s < 2 * a => s \div a = 1
           /\ \A t \in Nat : t <= s => t \div a <= s \div a
OBVIOUS

(* A size is made of its bits.                                              *)
LEMMA BitsMakeUp ==
    ASSUME NEW s \in Nat, NEW n \in 0 .. 29
    PROVE  /\ s \div Pow(n) = 2 * (s \div Pow(n + 1)) + Bit(s, n)
           /\ Bit(s, n) \in 0 .. 1
<1>1. Pow(n + 1) = 2 * Pow(n) /\ Pow(n) \in Nat \ {0}
  BY PowDoubles
<1>2. Bit(s, n) = (s \div Pow(n)) % 2
  BY DEF Bit, Pow
<1>3. s \div Pow(n) \in Nat
  BY <1>1, DivSmaller
<1>4. (s \div Pow(n)) % 2 \in 0 .. 1
  BY <1>3
<1> QED
  BY <1>1, <1>2, <1>4, DivDoubles

(* Every bit is 0 or 1.                                                     *)
LEMMA BitsAreBits ==
    ASSUME NEW s \in Nat, NEW n
    PROVE  Bit(s, n) \in 0 .. 1
<1>1. CASE n \in 0 .. 29
  BY <1>1, BitsMakeUp
<1>2. CASE n \notin 0 .. 29
  BY <1>2 DEF Bit
<1> QED
  BY <1>1, <1>2

(* s and t have the same bits above bit b.                                  *)
Agree(s, t, b) == \A j \in 0 .. 29 : j > b => Bit(s, j) = Bit(t, j)

Sizes == MIN_LARGE_SIZE .. 2 ^ 30 - 1

(* Sizes are numbers, from 2^8 on and below 2^30.                           *)
LEMMA SizesAreBounded ==
    ASSUME NEW s \in Sizes
    PROVE  s \in Nat /\ s >= 256 /\ s < Pow(30)
BY DEF Sizes, MIN_LARGE_SIZE, TREEBIN_SHIFT, Pow

(* What is left of two sizes above a bit is equal when those bits are.      *)
LEMMA AgreeAbove ==
    ASSUME NEW s \in Sizes, NEW t \in Sizes, NEW b \in 0 .. 29, Agree(s, t, b)
    PROVE  s \div Pow(b + 1) = t \div Pow(b + 1)
<1> DEFINE Good == {n \in Nat : n <= 29 - b => s \div Pow(30 - n) = t \div Pow(30 - n)}
<1>1. s \in Nat /\ t \in Nat
  BY SizesAreBounded
<1>2. 0 \in Good
  <2>1. Pow(30) \in Nat \ {0}
    BY PowDoubles
  <2>2. s \div Pow(30) = 0 /\ t \div Pow(30) = 0
    BY <2>1, SizesAreBounded, DivSmaller
  <2>3. 30 - 0 = 30
    OBVIOUS
  <2> QED
    BY <2>2, <2>3
<1>3. ASSUME NEW n \in Good PROVE n + 1 \in Good
  <2>1. SUFFICES ASSUME n + 1 <= 29 - b
                 PROVE  s \div Pow(30 - (n + 1)) = t \div Pow(30 - (n + 1))
    OBVIOUS
  <2> DEFINE j == 30 - (n + 1)
  <2>2. j \in 0 .. 29 /\ j > b /\ j + 1 = 30 - n
    BY <2>1
  <2>3. s \div Pow(j + 1) = t \div Pow(j + 1)
    BY <2>1, <2>2
  <2> HIDE DEF j
  <2>4. Bit(s, j) = Bit(t, j)
    BY <2>2 DEF Agree
  <2>5. /\ s \div Pow(j) = 2 * (s \div Pow(j + 1)) + Bit(s, j)
        /\ t \div Pow(j) = 2 * (t \div Pow(j + 1)) + Bit(t, j)
    BY <1>1, <2>2, BitsMakeUp
  <2>6. s \div Pow(j) = t \div Pow(j)
    BY <2>3, <2>4, <2>5
  <2> QED
    BY <2>6 DEF j
<1>4. Good = Nat
  <2>1. Good \in SUBSET Nat
    OBVIOUS
  <2> HIDE DEF Good
  <2> QED
    BY <1>2, <1>3, <2>1, NatSteps
<1>5. 29 - b \in Good
  <2>1. 29 - b \in Nat
    OBVIOUS
  <2> HIDE DEF Good
  <2> QED
    BY <1>4, <2>1
<1>6. 30 - (29 - b) = b + 1 /\ 29 - b <= 29 - b
  OBVIOUS
<1> QED
  BY <1>5, <1>6

(* Where the first bit in which two sizes differ is 0, the size is smaller. *)
LEMMA FirstBitDecides ==
    ASSUME NEW s \in Sizes, NEW t \in Sizes, NEW b, Agree(s, t, b),
           Bit(s, b) = 0, Bit(t, b) = 1
    PROVE  s < t
<1>1. b \in 0 .. 29
  BY DEF Bit
<1>2. s \in Nat /\ t \in Nat
  BY SizesAreBounded
<1>3. Pow(b) \in Nat \ {0} /\ Pow(b + 1) \in Nat \ {0}
  BY <1>1, PowDoubles
<1>4. s \div Pow(b) < t \div Pow(b)
  <2>1. s \div Pow(b + 1) = t \div Pow(b + 1)
    BY <1>1, AgreeAbove
  <2>2. /\ s \div Pow(b) = 2 * (s \div Pow(b + 1)) + 0
        /\ t \div Pow(b) = 2 * (t \div Pow(b + 1)) + 1
    BY <1>1, <1>2, BitsMakeUp
  <2>3. s \div Pow(b + 1) \in Nat
    BY <1>2, <1>3, DivSmaller
  <2> QED
    BY <2>1, <2>2, <2>3
<1>5. s \div Pow(b) \in Nat /\ t \div Pow(b) \in Nat
  BY <1>2, <1>3, DivSmaller
<1>6. t <= s => t \div Pow(b) <= s \div Pow(b)
  BY <1>2, <1>3, DivSmaller
<1> QED
  BY <1>2, <1>4, <1>5, <1>6
-----------------------------------------------------------------------------
(* A size below the last bin has a leading bit, and the bit behind it tells *)
(* the bin.                                                                 *)
Leads(s, k) ==
    /\ k \in 0 .. 15
    /\ Pow(k + 8) <= s /\ s < Pow(k + 9)
    /\ compute_tree_index(s) = 2 * k + Bit(s, k + 7)

Leading(x) == CHOOSE n \in 0 .. 15 : x \in 2 ^ n .. 2 ^ (n + 1) - 1

(* The bin of a size, with its leading bit by name.                         *)
LEMMA IndexFormula ==
    ASSUME NEW s
    PROVE  compute_tree_index(s) =
             LET x == s \div MIN_LARGE_SIZE
                 k == Leading(x)
             IN  IF x = 0 THEN 0
                 ELSE IF x > 65535 THEN NTREEBINS - 1
                 ELSE 2 * k + ((s \div Pow(k + TREEBIN_SHIFT - 1)) % 2)
BY DEF compute_tree_index, Leading, Pow

(* Where the last bin begins, in steps of MIN_LARGE_SIZE and in bytes.      *)
LEMMA PowersOfTwo == Pow(0) = 1 /\ Pow(16) = 65536 /\ Pow(24) = 16777216
BY SMT DEF Pow

(* A number lies between two powers of two.                                 *)
LEMMA PowerBelow ==
    ASSUME NEW x \in Nat, x >= 1, x < Pow(16)
    PROVE  \E n \in 0 .. 15 : Pow(n) <= x /\ x < Pow(n + 1)
<1> DEFINE T == {n \in 0 .. 15 : x < Pow(n + 1)}
<1>1. T \in SUBSET Nat /\ 15 \in T
  OBVIOUS
<1>2. PICK n \in T : \A y \in T : n <= y
  BY <1>1, LeastNat
<1>3. n \in 0 .. 15 /\ x < Pow(n + 1)
  OBVIOUS
<1>4. Pow(n) <= x
  <2>1. CASE n = 0
    BY <2>1, PowersOfTwo, SMT
  <2>2. CASE n # 0
    <3>1. n - 1 \in 0 .. 15 /\ (n - 1) + 1 = n /\ n - 1 \notin T
      BY <1>2, <1>3, <2>2
    <3>2. ~ (x < Pow(n)) /\ Pow(n) \in Nat
      BY <1>3, <3>1, PowDoubles
    <3> QED
      BY <3>2
  <2> QED
    BY <2>1, <2>2
<1> QED
  BY <1>3, <1>4

(* A size below the last bin has a leading bit.                             *)
LEMMA IndexOfSize ==
    ASSUME NEW s \in Sizes, s < Pow(24)
    PROVE  \E k : Leads(s, k)
<1> DEFINE x == s \div MIN_LARGE_SIZE
           k == Leading(x)
<1> HIDE DEF x, k
<1>0. s \in Nat /\ s >= 256 /\ MIN_LARGE_SIZE = 256
  BY SizesAreBounded DEF MIN_LARGE_SIZE, TREEBIN_SHIFT
<1>1. x \in Nat /\ 256 * x <= s /\ s < 256 * x + 256
  <2>1. x = s \div 256
    BY <1>0 DEF x
  <2> QED
    BY <1>0, <2>1
<1>9. x >= 1 /\ x < Pow(16) /\ ~(x > 65535)
  <2>1. x >= 1
    BY <1>0, <1>1
  <2>2. s < 16777216
    BY PowersOfTwo, SMT
  <2>3. x < 65536
    BY <1>0, <1>1, <2>2, SMT
  <2> QED
    BY <1>1, <2>1, <2>3, PowersOfTwo, SMT
<1>2. compute_tree_index(s) =
        IF x = 0 THEN 0
        ELSE IF x > 65535 THEN NTREEBINS - 1
        ELSE 2 * k + ((s \div Pow(k + TREEBIN_SHIFT - 1)) % 2)
  BY IndexFormula DEF k, x
<1>3. Leading(x) = CHOOSE n \in 0 .. 15 : x \in Pow(n) .. Pow(n + 1) - 1
  BY DEF Leading, Pow
<1>4. k \in 0 .. 15 /\ Pow(k) <= x /\ x < Pow(k + 1)
  <2>1. \A n \in 0 .. 15 : Pow(n) \in Nat /\ Pow(n + 1) \in Nat
    BY PowDoubles
  <2>2. PICK j \in 0 .. 15 : Pow(j) <= x /\ x < Pow(j + 1)
    BY <1>1, <1>9, PowerBelow
  <2>3. \E n \in 0 .. 15 : x \in Pow(n) .. Pow(n + 1) - 1
    <3>1. x \in Pow(j) .. Pow(j + 1) - 1
      BY <1>1, <2>1, <2>2
    <3> QED
      BY <3>1
  <2>4. k \in 0 .. 15 /\ x \in Pow(k) .. Pow(k + 1) - 1
    BY <1>3, <2>3 DEF k
  <2>5. \A n \in Nat, i \in Nat : x \in n .. i - 1 => n <= x /\ x < i
    BY <1>1
  <2> QED
    BY <2>1, <2>4, <2>5
<1>5. Pow(k) <= x /\ x < Pow(k + 1)
  BY <1>4
<1>6. Pow(k + 8) = 256 * Pow(k) /\ Pow(k + 9) = 256 * Pow(k + 1)
  <2>1. \A n \in 0 .. 26 : Pow(n + 4) = 16 * Pow(n)
    <3> SUFFICES ASSUME NEW n \in 0 .. 26 PROVE Pow(n + 4) = 16 * Pow(n)
      OBVIOUS
    <3>1. /\ Pow(n + 1) = 2 * Pow(n) /\ Pow(n + 2) = 2 * Pow(n + 1)
          /\ Pow(n + 3) = 2 * Pow(n + 2) /\ Pow(n + 4) = 2 * Pow(n + 3)
          /\ Pow(n) \in Nat
      BY PowDoubles
    <3> QED
      BY <3>1
  <2>2. /\ Pow(k + 4) = 16 * Pow(k) /\ Pow(k + 8) = 16 * Pow(k + 4)
        /\ Pow(k + 5) = 16 * Pow(k + 1) /\ Pow(k + 9) = 16 * Pow(k + 5)
        /\ Pow(k) \in Nat /\ Pow(k + 1) \in Nat
    BY <1>4, <2>1, PowDoubles
  <2> QED
    BY <2>2
<1>7. compute_tree_index(s) = 2 * k + Bit(s, k + 7)
  <2>1. k + TREEBIN_SHIFT - 1 = k + 7 /\ k + 7 \in 0 .. 29
    BY <1>4 DEF TREEBIN_SHIFT
  <2>2. Bit(s, k + 7) = (s \div Pow(k + 7)) % 2
    BY <2>1 DEF Bit, Pow
  <2>3. x # 0 /\ ~(x > 65535)
    BY <1>1, <1>9, SMT
  <2>4. compute_tree_index(s) = 2 * k + ((s \div Pow(k + 7)) % 2)
    <3>1. compute_tree_index(s) = 2 * k + ((s \div Pow(k + TREEBIN_SHIFT - 1)) % 2)
      BY <1>2, <2>3
    <3> QED
      BY <2>1, <3>1
  <2> QED
    BY <2>2, <2>4
<1>8. Pow(k + 8) <= s /\ s < Pow(k + 9)
  <2>1. Pow(k) \in Nat /\ Pow(k + 1) \in Nat
    BY <1>4, PowDoubles
  <2>2. \A a \in Nat, b \in Nat : a <= x /\ x < b => 256 * a <= s /\ s < 256 * b
    BY <1>0, <1>1
  <2>3. 256 * Pow(k) <= s /\ s < 256 * Pow(k + 1)
    BY <1>5, <2>1, <2>2
  <2> QED
    BY <1>6, <2>3, Zenon
<1> QED
  BY <1>4, <1>7, <1>8 DEF Leads

(* The leading bit is the first that is not 0.                              *)
LEMMA LeadingBit ==
    ASSUME NEW s \in Sizes, NEW k, Leads(s, k)
    PROVE  /\ Bit(s, k + 8) = 1
           /\ \A j \in 0 .. 29 : j > k + 8 => Bit(s, j) = 0
           /\ Bit(s, k + 7) \in 0 .. 1
<1>1. s \in Nat /\ k \in 0 .. 15
  BY SizesAreBounded DEF Leads
<1>2. ASSUME NEW j \in 0 .. 30, j >= k + 9 PROVE s \div Pow(j) = 0
  <2>0. k + 9 \in 0 .. 30 /\ k + 9 <= j
    BY <1>1, <1>2
  <2>1. Pow(k + 9) <= Pow(j) /\ Pow(j) \in Nat \ {0} /\ Pow(k + 9) \in Nat \ {0}
    BY <2>0, PowGrows, PowDoubles
  <2>2. s < Pow(j)
    BY <1>1, <2>1 DEF Leads
  <2> QED
    BY <1>1, <2>1, <2>2, DivSmaller
<1>3. Bit(s, k + 8) = 1
  <2>1. Pow(k + 9) = 2 * Pow(k + 8) /\ Pow(k + 8) \in Nat \ {0}
    <3>1. k + 8 \in 0 .. 29 /\ k + 8 \in 0 .. 30 /\ (k + 8) + 1 = k + 9
      BY <1>1
    <3>2. Pow((k + 8) + 1) = 2 * Pow(k + 8)
      BY <3>1, PowDoubles
    <3> QED
      BY <3>1, <3>2, PowDoubles
  <2>2. s \div Pow(k + 8) = 1
    BY <1>1, <2>1, DivSmaller DEF Leads
  <2>3. s \div Pow(k + 9) = 0
    BY <1>1, <1>2
  <2>4. k + 8 \in 0 .. 29 /\ (k + 8) + 1 = k + 9
    BY <1>1
  <2>5. s \div Pow(k + 8) = 2 * (s \div Pow((k + 8) + 1)) + Bit(s, k + 8)
    BY <1>1, <2>4, BitsMakeUp
  <2>6. Bit(s, k + 8) \in 0 .. 1
    BY <1>1, BitsAreBits
  <2> QED
    BY <2>2, <2>3, <2>4, <2>5, <2>6
<1>4. ASSUME NEW j \in 0 .. 29, j > k + 8 PROVE Bit(s, j) = 0
  <2>1. s \div Pow(j) = 0 /\ s \div Pow(j + 1) = 0
    BY <1>1, <1>2, <1>4
  <2>2. /\ s \div Pow(j) = 2 * (s \div Pow(j + 1)) + Bit(s, j)
        /\ Bit(s, j) \in 0 .. 1
    BY <1>1, BitsMakeUp
  <2> QED
    BY <2>1, <2>2
<1> QED
  BY <1>1, <1>3, <1>4, BitsAreBits

(* The last bin has all sizes from 2^24 on.                                 *)
LEMMA LastIndex ==
    ASSUME NEW s \in Sizes, s >= Pow(24)
    PROVE  compute_tree_index(s) = 31
<1>1. s >= 16777216
  BY DEF Pow
<1>2. s \div MIN_LARGE_SIZE # 0 /\ s \div MIN_LARGE_SIZE > 65535
  BY <1>1, SizesAreBounded DEF MIN_LARGE_SIZE, TREEBIN_SHIFT
<1> QED
  BY <1>2, IndexFormula DEF NTREEBINS

(* Every size has a bin.                                                    *)
LEMMA IndexInRange ==
    ASSUME NEW s \in Sizes
    PROVE  compute_tree_index(s) \in 0 .. 31
<1>1. s \in Nat /\ Pow(24) \in Nat
  BY SizesAreBounded, PowDoubles
<1>2. CASE s >= Pow(24)
  BY <1>2, LastIndex
<1>3. CASE s < Pow(24)
  <2>1. PICK k : Leads(s, k)
    BY <1>3, IndexOfSize
  <2> QED
    BY <2>1, LeadingBit DEF Leads
<1> QED
  BY <1>1, <1>2, <1>3

(* The sizes of one bin agree above the bit its root branches on.           *)
LEMMA BinsAgree ==
    ASSUME NEW s \in Sizes, NEW t \in Sizes,
           compute_tree_index(s) = compute_tree_index(t)
    PROVE  Agree(s, t, bit_for_tree_index(compute_tree_index(s)))
<1> DEFINE i == compute_tree_index(s)
<1>1. i \in 0 .. 31
  BY IndexInRange
<1>2. CASE i = 31
  <2>1. bit_for_tree_index(i) = 63
    BY <1>2 DEF bit_for_tree_index, NTREEBINS, SIZE_T_BITSIZE
  <2> QED
    BY <2>1 DEF Agree
<1>3. CASE i # 31
  <2>1. s \in Nat /\ t \in Nat /\ Pow(24) \in Nat
    BY SizesAreBounded, PowDoubles
  <2>2. s < Pow(24) /\ t < Pow(24)
    BY <1>3, <2>1, LastIndex
  <2>3. PICK k : Leads(s, k)
    BY <2>2, IndexOfSize
  <2>4. PICK l : Leads(t, l)
    BY <2>2, IndexOfSize
  <2>5. /\ k \in 0 .. 15 /\ l \in 0 .. 15
        /\ i = 2 * k + Bit(s, k + 7) /\ i = 2 * l + Bit(t, l + 7)
    BY <2>3, <2>4 DEF Leads
  <2>6. Bit(s, k + 7) \in 0 .. 1 /\ Bit(t, l + 7) \in 0 .. 1
    BY <2>3, <2>4, LeadingBit
  <2> HIDE DEF i
  <2>7. k = l /\ Bit(s, k + 7) = Bit(t, k + 7) /\ i \div 2 = k
    <3>1. k = l
      BY <2>5, <2>6
    <3> QED
      BY <2>5, <2>6, <3>1
  <2>8. bit_for_tree_index(i) = k + 6
    BY <1>3, <2>5, <2>7 DEF bit_for_tree_index, NTREEBINS, TREEBIN_SHIFT
  <2>9. ASSUME NEW j \in 0 .. 29, j > k + 6 PROVE Bit(s, j) = Bit(t, j)
    <3>1. j = k + 7 \/ j = k + 8 \/ j > k + 8
      BY <2>5, <2>9
    <3>2. /\ Bit(s, k + 8) = 1 /\ Bit(t, k + 8) = 1
          /\ j > k + 8 => Bit(s, j) = 0 /\ Bit(t, j) = 0
      BY <2>3, <2>4, <2>7, LeadingBit
    <3> QED
      BY <2>7, <3>1, <3>2
  <2> QED
    BY <2>8, <2>9 DEF Agree, i
<1> QED
  BY <1>2, <1>3

(* A larger size is in the same bin or in a later one.                      *)
LEMMA IndexGrows ==
    ASSUME NEW s \in Sizes, NEW t \in Sizes, s <= t
    PROVE  compute_tree_index(s) <= compute_tree_index(t)
<1>1. s \in Nat /\ t \in Nat /\ Pow(24) \in Nat
  BY SizesAreBounded, PowDoubles
<1>2. CASE t >= Pow(24)
  BY <1>2, LastIndex, IndexInRange
<1>3. CASE t < Pow(24)
  <2>1. PICK k : Leads(s, k)
    BY <1>1, <1>3, IndexOfSize
  <2>2. PICK l : Leads(t, l)
    BY <1>3, IndexOfSize
  <2>3. /\ k \in 0 .. 15 /\ l \in 0 .. 15
        /\ Pow(k + 8) <= s /\ s < Pow(k + 9) /\ t < Pow(l + 9)
        /\ compute_tree_index(s) = 2 * k + Bit(s, k + 7)
        /\ compute_tree_index(t) = 2 * l + Bit(t, l + 7)
    BY <2>1, <2>2 DEF Leads
  <2>4. Bit(s, k + 7) \in 0 .. 1 /\ Bit(t, l + 7) \in 0 .. 1
    BY <2>1, <2>2, LeadingBit
  <2>5. k <= l
    <3>1. SUFFICES ASSUME l < k PROVE FALSE
      BY <2>3
    <3>2. l + 9 \in 0 .. 30 /\ k + 8 \in 0 .. 30 /\ l + 9 <= k + 8
      BY <2>3, <3>1
    <3>3. Pow(l + 9) <= Pow(k + 8) /\ Pow(l + 9) \in Nat /\ Pow(k + 8) \in Nat
      BY <3>2, PowGrows, PowDoubles
    <3> QED
      BY <1>1, <2>3, <3>3
  <2>6. CASE k < l
    BY <2>3, <2>4, <2>6
  <2>7. CASE k = l
    <3>1. k + 7 \in 0 .. 29 /\ k + 7 \in 0 .. 30 /\ (k + 7) + 1 = k + 8 /\ k + 8 \in 0 .. 29
      BY <2>3
    <3>2. s \div Pow(k + 7) <= t \div Pow(k + 7)
      <4>1. Pow(k + 7) \in Nat \ {0}
        BY <3>1, PowDoubles
      <4> QED
        BY <1>1, <4>1, DivSmaller
    <3>3. /\ s \div Pow(k + 7) = 2 * (s \div Pow(k + 8)) + Bit(s, k + 7)
          /\ t \div Pow(k + 7) = 2 * (t \div Pow(k + 8)) + Bit(t, k + 7)
      <4>1. /\ s \div Pow(k + 7) = 2 * (s \div Pow((k + 7) + 1)) + Bit(s, k + 7)
            /\ t \div Pow(k + 7) = 2 * (t \div Pow((k + 7) + 1)) + Bit(t, k + 7)
        BY <1>1, <3>1, BitsMakeUp
      <4> QED
        BY <3>1, <4>1
    <3>4. s \div Pow(k + 8) = 1 /\ t \div Pow(k + 8) = 1
      <4>1. Pow(k + 8) \in Nat \ {0} /\ Pow(k + 9) = 2 * Pow(k + 8)
        <5>1. Pow((k + 8) + 1) = 2 * Pow(k + 8) /\ (k + 8) + 1 = k + 9 /\ k + 8 \in 0 .. 30
          BY <2>3, <3>1, PowDoubles
        <5> QED
          BY <5>1, PowDoubles
      <4>2. Pow(k + 8) <= t
        BY <2>2, <2>7 DEF Leads
      <4> QED
        BY <1>1, <2>3, <2>7, <4>1, <4>2, DivSmaller
    <3>5. Bit(s, k + 7) <= Bit(t, k + 7)
      BY <2>4, <2>7, <3>2, <3>3, <3>4
    <3> QED
      BY <2>3, <2>4, <2>7, <3>5
  <2> QED
    BY <2>3, <2>5, <2>6, <2>7
<1> QED
  BY <1>1, <1>2, <1>3
-----------------------------------------------------------------------------
(* Agreement goes on from one size to the next.                             *)
LEMMA AgreeOn ==
    ASSUME NEW s, NEW t, NEW u, NEW b \in Int, NEW c \in Int, NEW e \in Int
    PROVE  /\ Agree(s, s, b)
           /\ Agree(s, t, b) => Agree(t, s, b)
           /\ Agree(s, t, b) /\ Agree(t, u, c) /\ e >= b /\ e >= c => Agree(s, u, e)
           /\ Agree(s, t, b) /\ e > b => Bit(s, e) = Bit(t, e)
<1>1. Agree(s, t, b) /\ e > b => Bit(s, e) = Bit(t, e)
  BY DEF Agree, Bit
<1> QED
  BY <1>1 DEF Agree

(* The trees of a state m that are sound: every node is linked to and from  *)
(* the nodes around it, and has the digits of its place in its size. d is   *)
(* the depth of each node.                                                  *)
Nodes(m) == DOMAIN m.node

NodeType(S) ==
    [fd : S, bk : S, parent : S \cup {NULL, IN_BIN}, index : 0 .. 31,
     child : [0 .. 1 -> S \cup {NULL}]]

BinsTyped(m) ==
    /\ {"head", "node", "treemap", "treebin"} \subseteq DOMAIN m
    /\ NULL \notin Nodes(m) /\ IN_BIN \notin Nodes(m)
    /\ \A x \in Nodes(m) : ChunkSize(m, x) \in Sizes
    /\ m.node \in [Nodes(m) -> NodeType(Nodes(m))]
    /\ m.treebin \in [0 .. 31 -> Nodes(m) \cup {NULL}]
    /\ m.treemap = {i \in 0 .. 31 : m.treebin[i] # NULL}

Branch(m, d, x) == bit_for_tree_index(m.node[x].index) - d[x]

IsTreed(m, x) == x \in Nodes(m) /\ m.node[x].parent # NULL

ChildFits(m, d, x, side, c) ==
    /\ IsTreed(m, x) /\ m.node[c].parent = x
    /\ m.node[c].index = m.node[x].index
    /\ d[c] = d[x] + 1
    /\ Agree(ChunkSize(m, c), ChunkSize(m, x), Branch(m, d, x))
    /\ Bit(ChunkSize(m, c), Branch(m, d, x)) = side

NodeFits(m, d, x) ==
    LET n == m.node[x] IN
    /\ n.index = compute_tree_index(ChunkSize(m, x))
    /\ n.parent = IN_BIN <=> m.treebin[n.index] = x
    /\ n.parent = IN_BIN => d[x] = 0
    /\ n.parent \in Nodes(m) =>
          \E side \in 0 .. 1 : m.node[n.parent].child[side] = x
    /\ \A side \in 0 .. 1 : n.child[side] # NULL => ChildFits(m, d, x, side, n.child[side])

TreesFit(m, d, top) ==
    /\ BinsTyped(m)
    /\ top \in Nat /\ d \in [Nodes(m) -> 0 .. top]
    /\ \A x \in Nodes(m) : NodeFits(m, d, x)
    /\ \A i \in 0 .. 31 : m.treebin[i] # NULL => m.node[m.treebin[i]].index = i

(* The types of what trees are made of.                                     *)
LEMMA NodeTypes ==
    ASSUME NEW m, BinsTyped(m), NEW x \in Nodes(m)
    PROVE  /\ m.node[x].fd \in Nodes(m) /\ m.node[x].bk \in Nodes(m)
           /\ m.node[x].parent \in Nodes(m) \cup {NULL, IN_BIN}
           /\ m.node[x].index \in 0 .. 31
           /\ bit_for_tree_index(m.node[x].index) \in Int
           /\ \A side \in 0 .. 1 : m.node[x].child[side] \in Nodes(m) \cup {NULL}
           /\ ChunkSize(m, x) \in Sizes /\ ChunkSize(m, x) \in Nat
           /\ x # NULL /\ x # IN_BIN
<1>1. m.node[x] \in NodeType(Nodes(m))
  BY DEF BinsTyped
<1>2. m.node[x].index \in 0 .. 31
  BY <1>1 DEF NodeType
<1>3. bit_for_tree_index(m.node[x].index) \in Int
  BY <1>2 DEF bit_for_tree_index, NTREEBINS, SIZE_T_BITSIZE, TREEBIN_SHIFT
<1>4. ChunkSize(m, x) \in Sizes /\ ChunkSize(m, x) \in Nat
  BY SizesAreBounded DEF BinsTyped
<1>5. \A side \in 0 .. 1 : m.node[x].child[side] \in Nodes(m) \cup {NULL}
  BY <1>1 DEF NodeType
<1> QED
  BY <1>1, <1>2, <1>3, <1>4, <1>5 DEF NodeType, BinsTyped

(* A node of a tree is its root or below another node of it.                *)
RootFits(m, d, x) ==
    d[x] = 0 /\ m.treebin[m.node[x].index] = x

ParentFits(m, d, x, p) ==
    /\ IsTreed(m, p)
    /\ m.node[p].index = m.node[x].index
    /\ d[x] = d[p] + 1
    /\ Branch(m, d, p) = Branch(m, d, x) + 1
    /\ Agree(ChunkSize(m, x), ChunkSize(m, p), Branch(m, d, p))
    /\ m.node[p].child[Bit(ChunkSize(m, x), Branch(m, d, p))] = x

LEMMA ParentsFit ==
    ASSUME NEW m, NEW d, NEW top, TreesFit(m, d, top), NEW x, IsTreed(m, x)
    PROVE  /\ m.node[x].parent = IN_BIN => RootFits(m, d, x)
           /\ m.node[x].parent # IN_BIN => ParentFits(m, d, x, m.node[x].parent)
<1> DEFINE p == m.node[x].parent
<1>1. BinsTyped(m) /\ x \in Nodes(m) /\ NodeFits(m, d, x) /\ p # NULL
  BY DEF TreesFit, IsTreed
<1>2. p \in Nodes(m) \cup {IN_BIN}
  BY <1>1, NodeTypes
<1>3. CASE p = IN_BIN
  BY <1>1, <1>3 DEF NodeFits, RootFits
<1>4. CASE p \in Nodes(m) /\ p # IN_BIN
  <2>1. PICK side \in 0 .. 1 : m.node[p].child[side] = x
    BY <1>1, <1>4 DEF NodeFits
  <2>2. x # NULL /\ NodeFits(m, d, p)
    BY <1>1, <1>4, NodeTypes DEF TreesFit
  <2>3. ChildFits(m, d, p, side, x)
    BY <2>1, <2>2 DEF NodeFits
  <2>4. d[x] \in Int /\ d[p] \in Int /\ bit_for_tree_index(m.node[p].index) \in Int
    BY <1>1, <1>4, NodeTypes DEF TreesFit
  <2>5. Branch(m, d, p) = Branch(m, d, x) + 1
    BY <2>3, <2>4 DEF ChildFits, Branch
  <2> QED
    BY <1>4, <2>1, <2>3, <2>5 DEF ChildFits, ParentFits
<1> QED
  BY <1>2, <1>3, <1>4

(* The branching bits are numbers.                                          *)
LEMMA BranchIsInt ==
    ASSUME NEW m, NEW d, NEW top, TreesFit(m, d, top), NEW x \in Nodes(m)
    PROVE  Branch(m, d, x) \in Int /\ d[x] \in Nat /\ d[x] <= top /\ top \in Nat
<1>1. bit_for_tree_index(m.node[x].index) \in Int /\ d[x] \in 0 .. top /\ top \in Nat
  BY NodeTypes DEF TreesFit
<1> QED
  BY <1>1 DEF Branch

(* Two nodes in the same place are one.                                     *)
LEMMA PlacesDiffer ==
    ASSUME NEW m, NEW d, NEW top, TreesFit(m, d, top)
    PROVE  \A x, y : /\ IsTreed(m, x) /\ IsTreed(m, y)
                     /\ m.node[x].index = m.node[y].index /\ d[x] = d[y]
                     /\ Agree(ChunkSize(m, x), ChunkSize(m, y), Branch(m, d, x))
                     => x = y
<1> DEFINE Same(x, y) ==
             /\ IsTreed(m, x) /\ IsTreed(m, y)
             /\ m.node[x].index = m.node[y].index /\ d[x] = d[y]
             /\ Agree(ChunkSize(m, x), ChunkSize(m, y), Branch(m, d, x))
           Bad == {n \in Nat : \E x, y : Same(x, y) /\ x # y /\ d[x] = n}
<1>1. \A x : IsTreed(m, x) => x \in Nodes(m) /\ d[x] \in Nat /\ Branch(m, d, x) \in Int
  BY BranchIsInt DEF IsTreed
<1>2. SUFFICES ASSUME Bad # {} PROVE FALSE
  BY <1>1
<1>3. PICK n \in Bad : \A k \in Bad : n <= k
  <2>1. Bad \in SUBSET Nat
    OBVIOUS
  <2> HIDE DEF Bad
  <2> QED
    BY <1>2, <2>1, LeastNat
<1>4. PICK x, y : Same(x, y) /\ x # y /\ d[x] = n
  OBVIOUS
<1> DEFINE px == m.node[x].parent
           py == m.node[y].parent
<1>p. \A z : IsTreed(m, z) =>
               /\ m.node[z].parent = IN_BIN => RootFits(m, d, z)
               /\ m.node[z].parent # IN_BIN => ParentFits(m, d, z, m.node[z].parent)
  BY ParentsFit
<1>5. Branch(m, d, x) = Branch(m, d, y)
  BY <1>4 DEF Branch
<1>6. CASE px = IN_BIN \/ py = IN_BIN
  <2>1. d[x] = 0 /\ d[y] = 0
    BY <1>4, <1>6, <1>p DEF RootFits
  <2>2. px = IN_BIN /\ py = IN_BIN
    <3>1. ASSUME NEW z, IsTreed(m, z), d[z] = 0 PROVE m.node[z].parent = IN_BIN
      <4>1. SUFFICES ASSUME m.node[z].parent # IN_BIN PROVE FALSE
        OBVIOUS
      <4>2. IsTreed(m, m.node[z].parent) /\ d[z] = d[m.node[z].parent] + 1
        BY <3>1, <4>1, <1>p DEF ParentFits
      <4> QED
        BY <1>1, <3>1, <4>2
    <3> QED
      BY <1>4, <2>1, <3>1
  <2>3. m.treebin[m.node[x].index] = x /\ m.treebin[m.node[y].index] = y
    BY <1>4, <2>2, <1>p DEF RootFits
  <2> QED
    BY <1>4, <2>3
<1>7. CASE px # IN_BIN /\ py # IN_BIN
  <2> DEFINE b == Branch(m, d, px)
             sx == ChunkSize(m, x)
             sy == ChunkSize(m, y)
  <2>1. /\ IsTreed(m, px) /\ m.node[px].index = m.node[x].index /\ d[x] = d[px] + 1
        /\ b = Branch(m, d, x) + 1 /\ Agree(sx, ChunkSize(m, px), b)
        /\ m.node[px].child[Bit(sx, b)] = x
    BY <1>4, <1>7, <1>p DEF ParentFits
  <2>2. /\ IsTreed(m, py) /\ m.node[py].index = m.node[y].index /\ d[y] = d[py] + 1
        /\ b = Branch(m, d, py) /\ Agree(sy, ChunkSize(m, py), b)
        /\ m.node[py].child[Bit(sy, b)] = y
    <3>1. ParentFits(m, d, y, py)
      BY <1>4, <1>7, <1>p
    <3>2. Branch(m, d, py) = Branch(m, d, y) + 1
      BY <3>1 DEF ParentFits
    <3>3. Branch(m, d, py) = b
      BY <1>5, <2>1, <3>2
    <3> QED
      BY <3>1, <3>3 DEF ParentFits
  <2>3. Branch(m, d, x) \in Int /\ b \in Int /\ d[px] \in Nat /\ d[py] \in Nat
    BY <1>1, <1>4, <2>1, <2>2
  <2>4. Bit(sx, b) = Bit(sy, b)
    BY <1>4, <2>1, <2>3, AgreeOn
  <2>5. Agree(ChunkSize(m, px), ChunkSize(m, py), b)
    <3>1. Agree(ChunkSize(m, px), sx, b)
      BY <2>1, <2>3, AgreeOn
    <3>2. Agree(ChunkSize(m, px), sy, b)
      BY <1>4, <2>1, <2>3, <3>1, AgreeOn
    <3> QED
      BY <2>2, <2>3, <3>2, AgreeOn
  <2>6. Same(px, py) /\ d[px] = n - 1
    <3>1. d[px] = d[py] /\ d[px] = n - 1
      <4>1. d[x] = d[y] /\ d[x] = n
        BY <1>4
      <4>2. d[x] = d[px] + 1 /\ d[y] = d[py] + 1
        BY <2>1, <2>2
      <4>3. n = d[px] + 1 /\ n = d[py] + 1
        BY <4>1, <4>2, Zenon
      <4> HIDE DEF Bad, px, py
      <4> QED
        BY <2>3, <4>3
    <3>2. m.node[px].index = m.node[py].index
      BY <1>4, <2>1, <2>2
    <3> QED
      BY <2>1, <2>2, <2>5, <3>1, <3>2
  <2>7. px = py
    <3>1. n - 1 \in Nat /\ ~(n - 1 \in Bad)
      BY <1>3, <2>3, <2>6
    <3> HIDE DEF Same, px, py
    <3> QED
      BY <2>6, <3>1
  <2> QED
    BY <1>4, <2>1, <2>2, <2>4, <2>7
<1> QED
  BY <1>6, <1>7

(* The nodes of the subtree at t: those with its digits, as deep or deeper. *)
Under(m, d, t) ==
    {y \in Nodes(m) :
        /\ IsTreed(m, y) /\ m.node[y].index = m.node[t].index
        /\ d[t] <= d[y]
        /\ Agree(ChunkSize(m, y), ChunkSize(m, t), Branch(m, d, t))}

(* The child of t on the way to size s.                                     *)
Toward(m, d, t, s) == m.node[t].child[Bit(s, Branch(m, d, t))]

(* A subtree is its root and the subtrees of the root's children.           *)
LEMMA ChildrenAreUnder ==
    ASSUME NEW m, NEW d, NEW top, TreesFit(m, d, top), NEW t, IsTreed(m, t)
    PROVE  /\ t \in Under(m, d, t)
           /\ \A side \in 0 .. 1 : m.node[t].child[side] # NULL =>
                LET c == m.node[t].child[side] IN
                /\ IsTreed(m, c) /\ ChildFits(m, d, t, side, c)
                /\ Branch(m, d, c) = Branch(m, d, t) - 1
                /\ \A y \in Under(m, d, c) :
                      /\ y \in Under(m, d, t)
                      /\ Bit(ChunkSize(m, y), Branch(m, d, t)) = side
<1>1. t \in Nodes(m) /\ BinsTyped(m) /\ NodeFits(m, d, t)
  BY DEF TreesFit, IsTreed
<1>2. t \in Under(m, d, t)
  <2>1. d[t] <= d[t] /\ Branch(m, d, t) \in Int
    BY <1>1, BranchIsInt
  <2> QED
    BY <1>1, <2>1, AgreeOn DEF Under
<1>3. ASSUME NEW side \in 0 .. 1, m.node[t].child[side] # NULL
      PROVE  LET c == m.node[t].child[side] IN
             /\ IsTreed(m, c) /\ ChildFits(m, d, t, side, c)
             /\ Branch(m, d, c) = Branch(m, d, t) - 1
             /\ \A y \in Under(m, d, c) :
                   /\ y \in Under(m, d, t)
                   /\ Bit(ChunkSize(m, y), Branch(m, d, t)) = side
  <2> DEFINE c == m.node[t].child[side]
  <2>1. c \in Nodes(m) /\ ChildFits(m, d, t, side, c)
    BY <1>1, <1>3, NodeTypes DEF NodeFits
  <2>2. IsTreed(m, c)
    <3>1. m.node[c].parent = t /\ t # NULL
      BY <1>1, <2>1, NodeTypes DEF ChildFits
    <3> QED
      BY <2>1, <3>1 DEF IsTreed
  <2>3. /\ Branch(m, d, c) \in Int /\ Branch(m, d, t) \in Int
        /\ d[c] \in Nat /\ d[t] \in Nat
    BY <1>1, <2>1, BranchIsInt
  <2>4. Branch(m, d, c) = Branch(m, d, t) - 1
    <3>1. d[c] = d[t] + 1 /\ m.node[c].index = m.node[t].index
      BY <2>1 DEF ChildFits
    <3>2. bit_for_tree_index(m.node[t].index) \in Int
      BY <1>1, NodeTypes
    <3> QED
      BY <2>3, <3>1, <3>2 DEF Branch
  <2>5. ASSUME NEW y \in Under(m, d, c)
        PROVE  y \in Under(m, d, t) /\ Bit(ChunkSize(m, y), Branch(m, d, t)) = side
    <3>1. /\ y \in Nodes(m) /\ IsTreed(m, y) /\ m.node[y].index = m.node[t].index
          /\ d[c] <= d[y] /\ d[c] = d[t] + 1
          /\ Agree(ChunkSize(m, y), ChunkSize(m, c), Branch(m, d, c))
          /\ Agree(ChunkSize(m, c), ChunkSize(m, t), Branch(m, d, t))
          /\ Bit(ChunkSize(m, c), Branch(m, d, t)) = side
      BY <2>1 DEF Under, ChildFits
    <3>2. Agree(ChunkSize(m, y), ChunkSize(m, t), Branch(m, d, t))
      BY <2>3, <2>4, <3>1, AgreeOn
    <3>3. Bit(ChunkSize(m, y), Branch(m, d, t)) = side
      BY <2>3, <2>4, <3>1, AgreeOn
    <3>4. d[t] <= d[y]
      <4>1. d[y] \in Nat
        BY <3>1, BranchIsInt
      <4> QED
        BY <2>3, <3>1, <4>1
    <3> QED
      BY <3>1, <3>2, <3>3, <3>4 DEF Under
  <2> QED
    BY <2>1, <2>2, <2>4, <2>5
<1> QED
  BY <1>2, <1>3

(* A node of a subtree that is not its root is in the subtree of the child  *)
(* on the way to it.                                                        *)
LEMMA UnderAChild ==
    ASSUME NEW m, NEW d, NEW top, TreesFit(m, d, top), NEW t, IsTreed(m, t)
    PROVE  \A y \in Under(m, d, t) : y # t =>
              LET c == Toward(m, d, t, ChunkSize(m, y)) IN
              c # NULL /\ y \in Under(m, d, c)
<1> DEFINE Good(y) == LET c == Toward(m, d, t, ChunkSize(m, y)) IN
                      c # NULL /\ y \in Under(m, d, c)
           Bad == {n \in Nat : \E y \in Under(m, d, t) : y # t /\ ~Good(y) /\ d[y] = n}
<1>1. \A x : IsTreed(m, x) => x \in Nodes(m) /\ d[x] \in Nat /\ Branch(m, d, x) \in Int
  BY BranchIsInt DEF IsTreed
<1>2. \A y \in Under(m, d, t) : IsTreed(m, y)
  BY DEF Under
<1>3. SUFFICES ASSUME Bad # {} PROVE FALSE
  BY <1>1, <1>2
<1>4. PICK n \in Bad : \A k \in Bad : n <= k
  <2>1. Bad \in SUBSET Nat
    OBVIOUS
  <2> HIDE DEF Bad
  <2> QED
    BY <1>3, <2>1, LeastNat
<1>5. PICK y \in Under(m, d, t) : y # t /\ ~Good(y) /\ d[y] = n
  OBVIOUS
<1> HIDE DEF Good
<1> DEFINE p == m.node[y].parent
           b == Branch(m, d, t)
<1>6. /\ IsTreed(m, y) /\ m.node[y].index = m.node[t].index /\ d[t] <= d[y]
      /\ Agree(ChunkSize(m, y), ChunkSize(m, t), b)
      /\ d[y] \in Nat /\ d[t] \in Nat /\ b \in Int /\ Branch(m, d, y) \in Int
  BY <1>1 DEF Under
<1>7. d[t] < d[y]
  <2>1. d[y] # d[t]
    <3>1. SUFFICES ASSUME d[y] = d[t] PROVE FALSE
      OBVIOUS
    <3>2. Branch(m, d, y) = b
      BY <1>6, <3>1 DEF Branch
    <3> QED
      BY <1>5, <1>6, <3>1, <3>2, PlacesDiffer
  <2> QED
    BY <1>6, <2>1
<1>8. ParentFits(m, d, y, p)
  <2>1. p # IN_BIN
    <3>1. p = IN_BIN => d[y] = 0
      BY <1>6, ParentsFit DEF RootFits
    <3> QED
      BY <1>6, <1>7, <3>1
  <2> QED
    BY <1>6, <2>1, ParentsFit
<1> DEFINE sy == ChunkSize(m, y)
           sp == ChunkSize(m, p)
           bp == Branch(m, d, p)
<1>9. /\ IsTreed(m, p) /\ m.node[p].index = m.node[t].index /\ d[y] = d[p] + 1
      /\ bp = Branch(m, d, y) + 1 /\ Agree(sy, sp, bp) /\ m.node[p].child[Bit(sy, bp)] = y
      /\ d[p] \in Nat /\ bp \in Int /\ p \in Nodes(m)
  BY <1>1, <1>6, <1>8 DEF ParentFits
<1>10. d[t] <= d[p] /\ bp <= b /\ (d[t] < d[p] => bp < b)
  <2>1. bp = bit_for_tree_index(m.node[t].index) - d[p]
    BY <1>9 DEF Branch
  <2>2. bit_for_tree_index(m.node[t].index) \in Int /\ b = bit_for_tree_index(m.node[t].index) - d[t]
    BY NodeTypes DEF IsTreed, TreesFit, Branch
  <2>3. d[t] <= d[p]
    BY <1>6, <1>7, <1>9
  <2> QED
    BY <1>6, <1>9, <2>1, <2>2, <2>3
<1>11. p \in Under(m, d, t)
  <2>1. Agree(sp, sy, bp)
    BY <1>9, AgreeOn
  <2>2. Agree(sp, ChunkSize(m, t), b)
    BY <1>6, <1>9, <1>10, <2>1, AgreeOn
  <2> QED
    BY <1>9, <1>10, <2>2 DEF Under
<1>12. CASE p = t
  <2>1. Toward(m, d, t, sy) = y /\ y # NULL
    <3>1. y # NULL
      BY <1>1, <1>6, NodeTypes DEF TreesFit
    <3> QED
      BY <1>9, <1>12, <3>1 DEF Toward
  <2>2. y \in Under(m, d, y)
    BY <1>6, ChildrenAreUnder
  <2> QED
    BY <1>5, <2>1, <2>2 DEF Good
<1>13. CASE p # t
  <2>1. Good(p)
    <3>1. SUFFICES ASSUME ~Good(p) PROVE FALSE
      OBVIOUS
    <3>2. d[p] \in Bad
      BY <1>9, <1>11, <1>13, <3>1
    <3>3. n = d[p] + 1
      BY <1>5, <1>9, Zenon
    <3> HIDE DEF Bad
    <3> QED
      BY <1>4, <1>9, <3>2, <3>3
  <2> DEFINE c == Toward(m, d, t, sp)
  <2>2. d[t] < d[p]
    <3>1. SUFFICES ASSUME d[t] = d[p] PROVE FALSE
      BY <1>6, <1>9, <1>10
    <3>2. Branch(m, d, p) = b
      BY <1>9, <3>1 DEF Branch
    <3>3. Agree(sp, ChunkSize(m, t), bp)
      BY <1>11, <3>2 DEF Under
    <3> QED
      BY <1>9, <1>13, <3>1, <3>3, PlacesDiffer
  <2>3. Bit(sy, b) = Bit(sp, b)
    BY <1>6, <1>9, <1>10, <2>2, AgreeOn
  <2>4. Toward(m, d, t, sy) = c
    BY <2>3 DEF Toward
  <2>5. c # NULL /\ p \in Under(m, d, c)
    BY <2>1 DEF Good
  <2>6. y \in Under(m, d, c)
    <3>1. IsTreed(m, c)
      <4>1. Bit(sp, b) \in 0 .. 1
        BY <1>9, NodeTypes, BitsAreBits DEF TreesFit
      <4> QED
        BY <2>5, <4>1, ChildrenAreUnder DEF Toward
    <3>2. d[c] \in Nat /\ Branch(m, d, c) \in Int
      BY <1>1, <3>1
    <3>3. /\ m.node[p].index = m.node[c].index /\ d[c] <= d[p]
          /\ Agree(sp, ChunkSize(m, c), Branch(m, d, c))
      BY <2>5 DEF Under
    <3>4. bp <= Branch(m, d, c)
      <4>1. bit_for_tree_index(m.node[c].index) \in Int
        BY <3>1, NodeTypes DEF IsTreed, TreesFit
      <4>2. /\ bp = bit_for_tree_index(m.node[c].index) - d[p]
            /\ Branch(m, d, c) = bit_for_tree_index(m.node[c].index) - d[c]
        BY <3>3 DEF Branch
      <4>3. \A i \in Int, e \in Nat, f \in Nat : e <= f => i - f <= i - e
        OBVIOUS
      <4>4. bit_for_tree_index(m.node[c].index) - d[p] <= bit_for_tree_index(m.node[c].index) - d[c]
        BY <1>9, <3>2, <3>3, <4>1, <4>3
      <4> QED
        BY <4>2, <4>4, Zenon
    <3>5. Agree(sy, ChunkSize(m, c), Branch(m, d, c))
      BY <1>9, <3>2, <3>3, <3>4, AgreeOn
    <3>6. d[c] <= d[y]
      BY <1>6, <1>9, <3>2, <3>3
    <3>7. m.node[y].index = m.node[c].index
      BY <1>6, <1>9, <3>3
    <3> QED
      BY <1>1, <1>6, <3>5, <3>6, <3>7 DEF Under
  <2> QED
    BY <1>5, <2>4, <2>5, <2>6 DEF Good
<1> QED
  BY <1>12, <1>13

(* Every tree is under its root.                                            *)
LEMMA RootsAreOver ==
    ASSUME NEW m, NEW d, NEW top, TreesFit(m, d, top), NEW y, IsTreed(m, y)
    PROVE  LET r == m.treebin[m.node[y].index] IN
           r # NULL /\ IsTreed(m, r) /\ d[r] = 0 /\ y \in Under(m, d, r)
<1> DEFINE Bad == {n \in Nat : \E x : IsTreed(m, x) /\ d[x] = n
                                      /\ m.treebin[m.node[x].index] = NULL}
<1>1. \A x : IsTreed(m, x) => x \in Nodes(m) /\ d[x] \in Nat /\ Branch(m, d, x) \in Int
  BY BranchIsInt DEF IsTreed
<1>2. Bad = {}
  <2>1. SUFFICES ASSUME Bad # {} PROVE FALSE
    OBVIOUS
  <2>2. PICK n \in Bad : \A k \in Bad : n <= k
    <3>1. Bad \in SUBSET Nat
      OBVIOUS
    <3> HIDE DEF Bad
    <3> QED
      BY <2>1, <3>1, LeastNat
  <2>3. PICK x : IsTreed(m, x) /\ d[x] = n /\ m.treebin[m.node[x].index] = NULL
    OBVIOUS
  <2> DEFINE p == m.node[x].parent
  <2>4. p # IN_BIN
    <3>1. x # NULL
      BY <1>1, <2>3, NodeTypes DEF TreesFit
    <3> QED
      BY <2>3, <3>1, ParentsFit DEF RootFits
  <2>5. IsTreed(m, p) /\ m.node[p].index = m.node[x].index /\ d[x] = d[p] + 1
    BY <2>3, <2>4, ParentsFit DEF ParentFits
  <2>6. d[p] \in Bad
    BY <1>1, <2>3, <2>5
  <2>7. n = d[p] + 1
    BY <2>3, <2>5, Zenon
  <2> HIDE DEF Bad
  <2> QED
    BY <1>1, <2>2, <2>5, <2>6, <2>7
<1> DEFINE i == m.node[y].index
           r == m.treebin[i]
<1>3. r # NULL
  BY <1>1, <1>2
<1>4. BinsTyped(m) /\ y \in Nodes(m) /\ i \in 0 .. 31
  BY NodeTypes DEF TreesFit, IsTreed
<1>5. r \in Nodes(m) /\ m.node[r].index = i
  BY <1>3, <1>4 DEF TreesFit, BinsTyped
<1>6. m.node[r].parent = IN_BIN /\ d[r] = 0
  BY <1>5 DEF TreesFit, NodeFits
<1>7. IsTreed(m, r)
  BY <1>5, <1>6 DEF IsTreed, NULL, IN_BIN
<1>8. y \in Under(m, d, r)
  <2>1. Branch(m, d, r) = bit_for_tree_index(i)
    <3>1. bit_for_tree_index(i) \in Int
      BY <1>4, NodeTypes
    <3>2. Branch(m, d, r) = bit_for_tree_index(i) - 0
      BY <1>5, <1>6 DEF Branch
    <3> QED
      BY <3>1, <3>2
  <2>2. /\ compute_tree_index(ChunkSize(m, y)) = i
        /\ compute_tree_index(ChunkSize(m, r)) = i
    BY <1>4, <1>5 DEF TreesFit, NodeFits
  <2>3. Agree(ChunkSize(m, y), ChunkSize(m, r), bit_for_tree_index(i))
    BY <1>4, <1>5, <2>2, NodeTypes, BinsAgree
  <2>4. d[r] <= d[y]
    BY <1>1, <1>6
  <2> QED
    BY <1>4, <1>5, <2>1, <2>3, <2>4 DEF Under
<1> QED
  BY <1>3, <1>6, <1>7, <1>8

(* The root of a tree that there is.                                        *)
LEMMA RootsAreTreed ==
    ASSUME NEW m, NEW d, NEW top, TreesFit(m, d, top), NEW i \in m.treemap
    PROVE  LET r == m.treebin[i] IN
           /\ i \in 0 .. 31 /\ r \in Nodes(m) /\ IsTreed(m, r)
           /\ m.node[r].index = i /\ d[r] = 0
           /\ Branch(m, d, r) = bit_for_tree_index(i)
<1> DEFINE r == m.treebin[i]
<1>1. i \in 0 .. 31 /\ r # NULL /\ r \in Nodes(m) /\ m.node[r].index = i
  BY DEF TreesFit, BinsTyped
<1>2. m.node[r].parent = IN_BIN /\ d[r] = 0
  BY <1>1 DEF TreesFit, NodeFits
<1>3. IsTreed(m, r)
  BY <1>1, <1>2 DEF IsTreed, NULL, IN_BIN
<1>4. Branch(m, d, r) = bit_for_tree_index(i)
  <2>1. bit_for_tree_index(i) \in Int
    BY <1>1, NodeTypes DEF TreesFit
  <2>2. Branch(m, d, r) = bit_for_tree_index(i) - 0
    BY <1>1, <1>2 DEF Branch
  <2> QED
    BY <2>1, <2>2
<1> QED
  BY <1>1, <1>2, <1>3, <1>4
-----------------------------------------------------------------------------
(* The walk of Descend.                                                     *)
DescentOf(m, s, g) ==
    g = [v \in (DOMAIN m.node) \X Int |->
           IF ChunkSize(m, v[1]) = s \/ m.node[v[1]].child[Bit(s, v[2])] = NULL
           THEN [at |-> v[1], side |-> Bit(s, v[2])]
           ELSE g[<<m.node[v[1]].child[Bit(s, v[2])], v[2] - 1>>]]

Descent(m, s) == CHOOSE g : DescentOf(m, s, g)

(* There is such a walk, since each step leads deeper.                      *)
LEMMA DescentExists ==
    ASSUME NEW m, NEW d, NEW top, TreesFit(m, d, top), NEW s \in Nat
    PROVE  DescentOf(m, s, Descent(m, s))
<1> DEFINE D == (DOMAIN m.node) \X Int
           R == [at : Nodes(m), side : 0 .. 1]
           stop == [v \in D |-> ChunkSize(m, v[1]) = s \/ m.node[v[1]].child[Bit(s, v[2])] = NULL]
           next == [v \in D |-> <<m.node[v[1]].child[Bit(s, v[2])], v[2] - 1>>]
           base == [v \in D |-> [at |-> v[1], side |-> Bit(s, v[2])]]
           join == [p \in D \X R |-> p[2]]
           high == [v \in D |-> top - d[v[1]]]
<1>1. high \in [D -> Nat]
  <2>1. \A v \in D : v[1] \in Nodes(m)
    BY DEF Nodes
  <2>2. \A x \in Nodes(m) : top - d[x] \in Nat
    BY BranchIsInt
  <2> QED
    BY <2>1, <2>2
<1>2. \A v \in D : base[v] \in R
  BY BitsAreBits DEF Nodes
<1>3. \A v \in D : \A e \in R : join[<<v, e>>] \in R
  OBVIOUS
<1>4. ASSUME NEW v \in D, ~stop[v] PROVE next[v] \in D /\ high[next[v]] < high[v]
  <2> DEFINE x == v[1]
             side == Bit(s, v[2])
             c == m.node[x].child[side]
  <2>1. x \in Nodes(m) /\ v[2] \in Int /\ side \in 0 .. 1 /\ c # NULL
    BY <1>4, BitsAreBits DEF Nodes
  <2>2. c \in Nodes(m) /\ ChildFits(m, d, x, side, c)
    <3>1. BinsTyped(m) /\ NodeFits(m, d, x)
      BY <2>1 DEF TreesFit
    <3> HIDE DEF x, side
    <3>2. c \in Nodes(m)
      BY <2>1, <3>1, NodeTypes
    <3>3. ChildFits(m, d, x, side, c)
      BY <2>1, <3>1 DEF NodeFits
    <3> QED
      BY <3>2, <3>3
  <2>3. d[c] = d[x] + 1 /\ d[c] \in Nat /\ d[x] \in Nat /\ d[c] <= top /\ top \in Nat
    BY <2>1, <2>2, BranchIsInt DEF ChildFits
  <2>4. next[v] = <<c, v[2] - 1>> /\ next[v] \in D
    <3>1. next[v] = <<c, v[2] - 1>>
      OBVIOUS
    <3>2. v[2] - 1 \in Int
      BY <2>1
    <3>3. c \in DOMAIN m.node
      BY <2>2 DEF Nodes
    <3> HIDE DEF next, c
    <3> QED
      BY <3>1, <3>2, <3>3
  <2>5. high[next[v]] = top - d[c] /\ high[v] = top - d[x]
    BY <2>4
  <2>6. top - d[c] < top - d[x]
    BY <2>3
  <2> HIDE DEF high, next, c, x
  <2> QED
    BY <2>4, <2>5, <2>6
<1> HIDE DEF high, stop, next, base, join
<1>5. PICK g \in [D -> R] : WalkOf(g, D, stop, next, base, join)
  <2> HIDE DEF D, R
  <2> QED
    BY <1>1, <1>2, <1>3, <1>4, WalksExist
<1>6. DescentOf(m, s, g)
  <2>1. ASSUME NEW v \in D
        PROVE  (IF stop[v] THEN base[v] ELSE join[<<v, g[next[v]]>>]) =
               IF ChunkSize(m, v[1]) = s \/ m.node[v[1]].child[Bit(s, v[2])] = NULL
               THEN [at |-> v[1], side |-> Bit(s, v[2])]
               ELSE g[<<m.node[v[1]].child[Bit(s, v[2])], v[2] - 1>>]
    <3>1. CASE stop[v]
      BY <3>1 DEF stop, base
    <3>2. CASE ~stop[v]
      <4>1. next[v] \in D
        BY <1>4, <3>2
      <4>2. g[next[v]] \in R
        BY <4>1
      <4>3. join[<<v, g[next[v]]>>] = g[next[v]]
        BY <4>2 DEF join
      <4> QED
        BY <3>2, <4>3 DEF stop, next
    <3> QED
      BY <3>1, <3>2
  <2> QED
    BY <1>5, <2>1 DEF WalkOf, DescentOf
<1> QED
  BY <1>6 DEF Descent

(* Where the way to s ends: at a node of that size, or where a chunk of it  *)
(* would be a child.                                                        *)
EndsFor(m, d, s, i, place) ==
    /\ IsTreed(m, place.at) /\ m.node[place.at].index = i
    /\ place.side = Bit(s, Branch(m, d, place.at))
    /\ ChunkSize(m, place.at) # s =>
          /\ m.node[place.at].child[place.side] = NULL
          /\ Agree(s, ChunkSize(m, place.at), Branch(m, d, place.at))

(* From any node that the digits of s lead to, the walk ends where s is or  *)
(* would be.                                                                *)
LEMMA DescentEnds ==
    ASSUME NEW m, NEW d, NEW top, TreesFit(m, d, top), NEW s \in Nat, NEW t, IsTreed(m, t),
           Agree(s, ChunkSize(m, t), Branch(m, d, t))
    PROVE  LET place == Descent(m, s)[<<t, Branch(m, d, t)>>] IN
           /\ EndsFor(m, d, s, m.node[t].index, place)
           /\ (\E y \in Under(m, d, t) : ChunkSize(m, y) = s) => ChunkSize(m, place.at) = s
<1> DEFINE w == Descent(m, s)
           Way(x) == IsTreed(m, x) /\ Agree(s, ChunkSize(m, x), Branch(m, d, x))
           Good(x) == LET place == w[<<x, Branch(m, d, x)>>] IN
             /\ EndsFor(m, d, s, m.node[x].index, place)
             /\ (\E y \in Under(m, d, x) : ChunkSize(m, y) = s) => ChunkSize(m, place.at) = s
           Bad == {n \in Nat : \E x : Way(x) /\ ~Good(x) /\ top - d[x] = n}
<1>1. \A x : IsTreed(m, x) =>
         x \in Nodes(m) /\ d[x] \in Nat /\ Branch(m, d, x) \in Int /\ top - d[x] \in Nat
  BY BranchIsInt DEF IsTreed
<1>2. SUFFICES ASSUME Bad # {} PROVE FALSE
  <2>1. Bad = {} => (Way(t) => Good(t))
    <3> HIDE DEF Way, Good
    <3>1. Way(t) => IsTreed(m, t)
      BY DEF Way
    <3> QED
      BY <1>1, <3>1
  <2> QED
    BY <2>1
<1>3. PICK n \in Bad : \A k \in Bad : n <= k
  <2>1. Bad \in SUBSET Nat
    OBVIOUS
  <2> HIDE DEF Bad
  <2> QED
    BY <1>2, <2>1, LeastNat
<1>4. PICK x : Way(x) /\ ~Good(x) /\ top - d[x] = n
  OBVIOUS
<1> HIDE DEF Good, w
<1> DEFINE b == Branch(m, d, x)
           side == Bit(s, b)
           c == m.node[x].child[side]
<1>5. IsTreed(m, x) /\ Agree(s, ChunkSize(m, x), b) /\ x \in Nodes(m) /\ b \in Int
  BY <1>1, <1>4
<1>6. side \in 0 .. 1
  BY BitsAreBits
<1>7. w[<<x, b>>] = IF ChunkSize(m, x) = s \/ c = NULL THEN [at |-> x, side |-> side]
                    ELSE w[<<c, b - 1>>]
  <2>1. <<x, b>> \in (DOMAIN m.node) \X Int
    BY <1>5 DEF Nodes
  <2>2. DescentOf(m, s, w)
    BY DescentExists DEF w
  <2> HIDE DEF b
  <2> QED
    BY <2>1, <2>2 DEF DescentOf
<1>8. CASE ChunkSize(m, x) = s
  <2>1. w[<<x, b>>].at = x /\ w[<<x, b>>].side = side
    BY <1>7, <1>8
  <2> HIDE DEF b, side
  <2>2. Good(x)
    BY <1>5, <1>8, <2>1 DEF Good, EndsFor, b, side
  <2> QED
    BY <1>4, <2>2
<1>9. CASE ChunkSize(m, x) # s /\ c = NULL
  <2>1. w[<<x, b>>].at = x /\ w[<<x, b>>].side = side
    BY <1>7, <1>9
  <2>2. EndsFor(m, d, s, m.node[x].index, w[<<x, b>>])
    BY <1>5, <1>9, <2>1 DEF EndsFor
  <2>3. \A y \in Under(m, d, x) : ChunkSize(m, y) # s
    BY <1>5, <1>9, UnderAChild DEF Toward
  <2>4. Good(x)
    BY <2>2, <2>3 DEF Good
  <2> QED
    BY <1>4, <2>4
<1>10. CASE ChunkSize(m, x) # s /\ c # NULL
  <2>1. /\ IsTreed(m, c) /\ ChildFits(m, d, x, side, c) /\ Branch(m, d, c) = b - 1
    BY <1>5, <1>6, <1>10, ChildrenAreUnder
  <2>2. /\ m.node[c].index = m.node[x].index /\ d[c] = d[x] + 1
        /\ Agree(ChunkSize(m, c), ChunkSize(m, x), b)
        /\ Bit(ChunkSize(m, c), b) = side
    BY <2>1 DEF ChildFits
  <2>3. Agree(s, ChunkSize(m, c), Branch(m, d, c))
    <3>1. Agree(s, ChunkSize(m, c), b)
      <4>1. Agree(ChunkSize(m, x), ChunkSize(m, c), b)
        BY <1>5, <2>2, AgreeOn
      <4> QED
        BY <1>5, <4>1, AgreeOn
    <3>2. ASSUME NEW j \in 0 .. 29, j > b - 1 PROVE Bit(s, j) = Bit(ChunkSize(m, c), j)
      <4>1. j = b \/ j > b
        BY <1>5, <3>2
      <4> QED
        BY <2>2, <3>1, <4>1 DEF Agree
    <3> QED
      BY <2>1, <3>2 DEF Agree
  <2>4. Good(c)
    <3>1. SUFFICES ASSUME ~Good(c) PROVE FALSE
      OBVIOUS
    <3>2. top - d[c] \in Bad
      BY <1>1, <2>1, <2>3, <3>1
    <3>3. /\ d[c] \in Nat /\ d[x] \in Nat /\ top \in Nat
      BY <1>1, <1>5, <2>1, BranchIsInt DEF IsTreed
    <3>4. n <= top - d[c]
      BY <1>3, <3>2
    <3>5. n = top - d[x] /\ d[c] = d[x] + 1
      BY <1>4, <2>2
    <3> HIDE DEF Bad, c
    <3> QED
      BY <3>3, <3>4, <3>5
  <2>5. w[<<x, b>>] = w[<<c, Branch(m, d, c)>>]
    BY <1>7, <1>10, <2>1
  <2>6. ASSUME NEW y \in Under(m, d, x), ChunkSize(m, y) = s
        PROVE  y \in Under(m, d, c)
    BY <1>5, <1>10, <2>6, UnderAChild DEF Toward
  <2>7. Good(x)
    BY <2>2, <2>4, <2>5, <2>6 DEF Good
  <2> QED
    BY <1>4, <2>7
<1> QED
  BY <1>8, <1>9, <1>10

(* Descend comes to the node of a size where there is one, and else to      *)
(* where it has to be a child.                                              *)
LEMMA DescendEnds ==
    ASSUME NEW m, NEW d, NEW top, TreesFit(m, d, top), NEW s \in Sizes,
           compute_tree_index(s) \in m.treemap
    PROVE  LET i == compute_tree_index(s)
               place == Descend(m, i, s)
           IN  /\ EndsFor(m, d, s, i, place)
               /\ \A y : IsTreed(m, y) /\ ChunkSize(m, y) = s => ChunkSize(m, place.at) = s
<1> DEFINE i == compute_tree_index(s)
           r == m.treebin[i]
<1>1. /\ i \in 0 .. 31 /\ r \in Nodes(m) /\ IsTreed(m, r) /\ m.node[r].index = i
      /\ Branch(m, d, r) = bit_for_tree_index(i)
  BY RootsAreTreed
<1>2. Descend(m, i, s) = Descent(m, s)[<<r, bit_for_tree_index(i)>>]
  BY DEF Descend, Descent, DescentOf
<1>3. s \in Nat
  BY SizesAreBounded
<1>4. Agree(s, ChunkSize(m, r), Branch(m, d, r))
  <2>1. ChunkSize(m, r) \in Sizes /\ compute_tree_index(ChunkSize(m, r)) = i
    BY <1>1 DEF TreesFit, BinsTyped, NodeFits
  <2> QED
    BY <1>1, <2>1, BinsAgree
<1>5. ASSUME NEW y, IsTreed(m, y), ChunkSize(m, y) = s PROVE y \in Under(m, d, r)
  <2>1. m.node[y].index = i
    BY <1>5 DEF IsTreed, TreesFit, NodeFits
  <2> QED
    BY <1>5, <2>1, RootsAreOver
<1> QED
  BY <1>1, <1>2, <1>3, <1>4, <1>5, DescentEnds
-----------------------------------------------------------------------------
(* The rings of a state m that are sound: the chunks of one size are linked *)
(* in the order in which they came, q[s] for size s, and the first of them  *)
(* is in the tree.                                                          *)
Before(n, k) == IF k = 1 THEN n ELSE k - 1

After(n, k) == IF k = n THEN 1 ELSE k + 1

InRing(m, a, s, k) ==
    LET n == m.node[a[k]] IN
    /\ ChunkSize(m, a[k]) = s
    /\ n.fd = a[Before(Len(a), k)]
    /\ n.bk = a[After(Len(a), k)]
    /\ n.parent # NULL <=> k = 1
    /\ \A j \in 1 .. Len(a) : a[j] = a[k] => j = k

RingsFit(m, q) ==
    /\ \A s \in DOMAIN q :
          /\ q[s] \in Seq(Nodes(m))
          /\ \A k \in 1 .. Len(q[s]) : InRing(m, q[s], s, k)
    /\ \A x \in Nodes(m) :
          /\ ChunkSize(m, x) \in DOMAIN q
          /\ \E k \in 1 .. Len(q[ChunkSize(m, x)]) : q[ChunkSize(m, x)][k] = x

SameSize(m, x) == {y \in Nodes(m) : ChunkSize(m, y) = ChunkSize(m, x)}

(* Where a chunk is in its ring, and what is linked to it there.            *)
LEMMA PlaceInRing ==
    ASSUME NEW m, NEW q, RingsFit(m, q), NEW x \in Nodes(m)
    PROVE  LET a == q[ChunkSize(m, x)] IN
           /\ ChunkSize(m, x) \in DOMAIN q
           /\ a \in Seq(Nodes(m)) /\ Len(a) \in Nat /\ Len(a) >= 1
           /\ a \in [1 .. Len(a) -> Nodes(m)]
           /\ \A k \in 1 .. Len(a) : InRing(m, a, ChunkSize(m, x), k)
           /\ \E k \in 1 .. Len(a) : a[k] = x
<1> DEFINE a == q[ChunkSize(m, x)]
<1>1. ChunkSize(m, x) \in DOMAIN q /\ \E k \in 1 .. Len(a) : a[k] = x
  BY DEF RingsFit
<1>2. a \in Seq(Nodes(m)) /\ \A k \in 1 .. Len(a) : InRing(m, a, ChunkSize(m, x), k)
  BY <1>1 DEF RingsFit
<1>3. Len(a) \in Nat /\ Len(a) >= 1
  BY <1>1, <1>2
<1> QED
  BY <1>1, <1>2, <1>3

(* There is one chunk of each size in a tree.                               *)
LEMMA OneOfASize ==
    ASSUME NEW m, NEW q, RingsFit(m, q), NEW x, NEW y, IsTreed(m, x), IsTreed(m, y),
           ChunkSize(m, x) = ChunkSize(m, y)
    PROVE  x = y /\ q[ChunkSize(m, x)][1] = x
<1> DEFINE a == q[ChunkSize(m, x)]
<1>1. x \in Nodes(m) /\ y \in Nodes(m)
  BY DEF IsTreed
<1>2. PICK k \in 1 .. Len(a) : a[k] = x /\ InRing(m, a, ChunkSize(m, x), k)
  BY <1>1, PlaceInRing
<1>3. PICK j \in 1 .. Len(a) : a[j] = y /\ InRing(m, a, ChunkSize(m, x), j)
  BY <1>1, PlaceInRing
<1>4. k = 1 /\ j = 1
  BY <1>2, <1>3 DEF InRing, IsTreed
<1> QED
  BY <1>2, <1>3, <1>4

(* The walk of Ring.                                                        *)
RingOf(m, t, g) ==
    g = [u \in DOMAIN m.node |->
           IF m.node[u].fd = t THEN {u} ELSE {u} \cup g[m.node[u].fd]]

Round(m, t) == CHOOSE g : RingOf(m, t, g)

(* How many steps it is from place k of a ring of n to place j and one more.*)
Rank(n, j, k) == IF k > j THEN k - j ELSE k + n - j

(* A step along fd is one less.                                             *)
LEMMA RanksStep ==
    ASSUME NEW n \in Nat, NEW j \in 1 .. n, NEW k \in 1 .. n
    PROVE  LET p == Before(n, k) IN
           /\ p \in 1 .. n /\ Rank(n, j, k) \in 1 .. n
           /\ p = j <=> Rank(n, j, k) = 1
           /\ p # j => Rank(n, j, p) = Rank(n, j, k) - 1
           /\ Rank(n, j, j) = n
           /\ \A i \in 1 .. n : Rank(n, j, i) = Rank(n, j, k) => i = k
BY DEF Rank, Before

(* There is such a walk.                                                    *)
LEMMA RoundExists ==
    ASSUME NEW m, BinsTyped(m), NEW q, RingsFit(m, q), NEW t \in Nodes(m)
    PROVE  RingOf(m, t, Round(m, t))
<1> DEFINE s == ChunkSize(m, t)
           a == q[s]
           N == Len(a)
<1>0. \A u \in Nodes(m) :
         \E k \in 1 .. Len(q[ChunkSize(m, u)]) : q[ChunkSize(m, u)][k] = u
  BY PlaceInRing
<1>2. /\ s \in DOMAIN q /\ N \in Nat
      /\ \A k \in 1 .. N : a[k] \in Nodes(m) /\ InRing(m, a, s, k)
  <2>1. /\ s \in DOMAIN q /\ N \in Nat /\ a \in [1 .. N -> Nodes(m)]
        /\ \A k \in 1 .. N : InRing(m, a, s, k)
    BY PlaceInRing, Zenon
  <2> HIDE DEF s, a, N
  <2> QED
    BY <2>1
<1>1. PICK j \in 1 .. N : a[j] = t
  BY PlaceInRing
<1> DEFINE At(u) == CHOOSE k \in 1 .. N : a[k] = u
           D == DOMAIN m.node
           R == SUBSET Nodes(m)
           stop == [u \in D |-> m.node[u].fd = t \/ ChunkSize(m, u) # s]
           next == [u \in D |-> m.node[u].fd]
           base == [u \in D |-> IF m.node[u].fd = t THEN {u} ELSE SameSize(m, u)]
           join == [p \in D \X R |-> {p[1]} \cup p[2]]
           high == [u \in D |-> IF ChunkSize(m, u) = s THEN Rank(N, j, At(u)) ELSE 0]
<1>3. ASSUME NEW u \in D, ChunkSize(m, u) = s
      PROVE  At(u) \in 1 .. N /\ a[At(u)] = u
  <2>1. u \in Nodes(m)
    BY DEF Nodes
  <2>2. \E k \in 1 .. Len(q[ChunkSize(m, u)]) : q[ChunkSize(m, u)][k] = u
    BY <1>0, <2>1, Zenon
  <2>3. \E k \in 1 .. N : a[k] = u
    BY <1>3, <2>2, Zenon
  <2> QED
    BY <2>3
<1>4. ASSUME NEW k \in 1 .. N PROVE At(a[k]) = k /\ ChunkSize(m, a[k]) = s
  <2>1. InRing(m, a, s, k) /\ a[k] \in D
    BY <1>2 DEF Nodes
  <2>2. At(a[k]) \in 1 .. N /\ a[At(a[k])] = a[k]
    BY <1>3, <2>1 DEF InRing
  <2> HIDE DEF At
  <2> QED
    BY <2>1, <2>2 DEF InRing
<1>5. ASSUME NEW u \in D PROVE m.node[u].fd \in D /\ ChunkSize(m, m.node[u].fd) = ChunkSize(m, u)
  <2> DEFINE c == q[ChunkSize(m, u)]
  <2>1. /\ Len(c) \in Nat
        /\ \A k \in 1 .. Len(c) : c[k] \in Nodes(m) /\ InRing(m, c, ChunkSize(m, u), k)
        /\ \E k \in 1 .. Len(c) : c[k] = u
    <3>1. u \in Nodes(m)
      BY DEF Nodes
    <3>2. Len(c) \in Nat /\ c \in [1 .. Len(c) -> Nodes(m)]
      BY <3>1, PlaceInRing
    <3>3. \A k \in 1 .. Len(c) : InRing(m, c, ChunkSize(m, u), k)
      BY <3>1, PlaceInRing
    <3>4. \E k \in 1 .. Len(c) : c[k] = u
      BY <3>1, PlaceInRing
    <3> HIDE DEF c
    <3> QED
      BY <3>2, <3>3, <3>4
  <2>2. PICK k \in 1 .. Len(c) : c[k] = u
    BY <2>1
  <2>3. PICK p \in 1 .. Len(c) : m.node[u].fd = c[p]
    <3>1. InRing(m, c, ChunkSize(m, u), k)
      BY <2>1
    <3>2. Before(Len(c), k) \in 1 .. Len(c)
      BY <2>1 DEF Before
    <3> QED
      BY <2>2, <3>1, <3>2 DEF InRing
  <2>4. c[p] \in Nodes(m) /\ InRing(m, c, ChunkSize(m, u), p)
    BY <2>1
  <2> QED
    BY <2>3, <2>4 DEF InRing, Nodes
<1> HIDE DEF N
<1>6. high \in [D -> Nat]
  <2>1. ASSUME NEW u \in D, ChunkSize(m, u) = s PROVE Rank(N, j, At(u)) \in Nat
    <3>1. At(u) \in 1 .. N
      BY <1>3, <2>1
    <3>2. N \in Nat
      BY <1>2
    <3>3. Rank(N, j, At(u)) \in 1 .. N
      <4> DEFINE k == At(u)
      <4> HIDE DEF k
      <4>1. k \in 1 .. N
        BY <3>1 DEF k
      <4>2. Rank(N, j, k) \in 1 .. N
        BY <3>2, <4>1, RanksStep
      <4> QED
        BY <4>2 DEF k
    <3> HIDE DEF At
    <3> QED
      BY <3>2, <3>3
  <2> HIDE DEF At, D, s
  <2> QED
    BY <2>1
<1>7. \A u \in D : base[u] \in R
  BY DEF SameSize, Nodes
<1>8. \A u \in D : \A e \in R : join[<<u, e>>] \in R
  BY DEF Nodes
<1>9. ASSUME NEW u \in D, ~stop[u] PROVE next[u] \in D /\ high[next[u]] < high[u]
  <2> DEFINE k == At(u)
             p == Before(N, k)
  <2>1. m.node[u].fd # t /\ ChunkSize(m, u) = s
    BY <1>9
  <2>2. k \in 1 .. N /\ a[k] = u
    BY <1>3, <2>1
  <2> HIDE DEF k
  <2>3. m.node[u].fd = a[p] /\ p \in 1 .. N /\ p # j
    <3>1. InRing(m, a, s, k) /\ p \in 1 .. N
      BY <1>2, <2>2 DEF Before
    <3>2. m.node[u].fd = a[p]
      BY <2>2, <3>1 DEF InRing, N
    <3> QED
      BY <1>1, <2>1, <3>1, <3>2
  <2>4. next[u] = a[p] /\ next[u] \in D /\ ChunkSize(m, a[p]) = s /\ At(a[p]) = p
    <3>1. next[u] = a[p]
      BY <2>3
    <3> QED
      BY <1>2, <1>4, <2>3, <3>1 DEF Nodes
  <2>5. high[u] = Rank(N, j, k) /\ high[next[u]] = Rank(N, j, p)
    <3>1. high[u] = Rank(N, j, k)
      BY <2>1 DEF k
    <3>2. high[a[p]] = Rank(N, j, At(a[p]))
      BY <2>4
    <3> QED
      BY <2>4, <3>1, <3>2
  <2>6. Rank(N, j, p) = Rank(N, j, k) - 1 /\ Rank(N, j, k) \in 1 .. N
    BY <1>2, <2>2, <2>3, RanksStep
  <2> HIDE DEF high, next, p
  <2> QED
    BY <1>2, <2>4, <2>5, <2>6
<1> HIDE DEF high, stop, next, base, join
<1>10. PICK g \in [D -> R] : WalkOf(g, D, stop, next, base, join)
  <2> HIDE DEF D, R
  <2> QED
    BY <1>6, <1>7, <1>8, <1>9, WalksExist
<1>11. ASSUME NEW u \in D
       PROVE  g[u] = IF m.node[u].fd = t THEN {u} ELSE {u} \cup g[m.node[u].fd]
  <2>1. g[u] = IF stop[u] THEN base[u] ELSE join[<<u, g[next[u]]>>]
    BY <1>10 DEF WalkOf
  <2>2. CASE m.node[u].fd = t
    BY <2>1, <2>2 DEF stop, base
  <2>3. CASE m.node[u].fd # t /\ ChunkSize(m, u) = s
    <3>1. ~stop[u]
      BY <2>3 DEF stop
    <3>2. next[u] = m.node[u].fd /\ g[next[u]] \in R
      BY <1>5 DEF next
    <3>3. join[<<u, g[next[u]]>>] = {u} \cup g[next[u]]
      BY <3>2 DEF join
    <3> QED
      BY <2>1, <2>3, <3>1, <3>2, <3>3
  <2>4. CASE m.node[u].fd # t /\ ChunkSize(m, u) # s
    <3> DEFINE v == m.node[u].fd
    <3>1. v \in D /\ ChunkSize(m, v) = ChunkSize(m, u) /\ v # t
      BY <1>5, <2>4
    <3>2. m.node[v].fd # t
      BY <1>5, <2>4, <3>1
    <3>3. g[u] = SameSize(m, u)
      BY <2>1, <2>4 DEF stop, base
    <3>4. g[v] = SameSize(m, v)
      <4>1. g[v] = IF stop[v] THEN base[v] ELSE join[<<v, g[next[v]]>>]
        BY <1>10, <3>1 DEF WalkOf
      <4> QED
        BY <2>4, <3>1, <3>2, <4>1 DEF stop, base
    <3>5. SameSize(m, v) = SameSize(m, u) /\ u \in SameSize(m, u)
      BY <3>1 DEF SameSize, Nodes
    <3> QED
      BY <2>4, <3>3, <3>4, <3>5
  <2> QED
    BY <2>2, <2>3, <2>4
<1>12. RingOf(m, t, g)
  <2>1. g = [u \in D |-> g[u]]
    BY <1>10
  <2> QED
    BY <1>11, <2>1 DEF RingOf
<1> QED
  BY <1>12 DEF Round

(* A walk around a ring of n comes past all of it.                          *)
Circle(n, a, fd) ==
    /\ \A k, l \in 1 .. n : a[k] = a[l] => k = l
    /\ \A k \in 1 .. n : fd[a[k]] = a[Before(n, k)]

Collects(n, a, t, g, fd) ==
    \A k \in 1 .. n : g[a[k]] = IF fd[a[k]] = t THEN {a[k]} ELSE {a[k]} \cup g[fd[a[k]]]

Members(n, a) == {a[i] : i \in 1 .. n}

LEMMA RoundIsAll ==
    ASSUME NEW n \in Nat, NEW a, NEW fd, Circle(n, a, fd),
           NEW j \in 1 .. n, NEW g, Collects(n, a, a[j], g, fd)
    PROVE  g[a[j]] = Members(n, a)
<1> USE DEF Circle, Collects
<1> DEFINE rank == [k \in 1 .. n |-> Rank(n, j, k)]
           Done(r) == {a[i] : i \in {l \in 1 .. n : rank[l] <= r}}
           Good == {r \in Nat : \A k \in 1 .. n : rank[k] = r => g[a[k]] = Done(r)}
<1>1. ASSUME NEW k \in 1 .. n
      PROVE  /\ Before(n, k) \in 1 .. n /\ rank[k] \in 1 .. n
             /\ Before(n, k) = j <=> rank[k] = 1
             /\ Before(n, k) # j => rank[Before(n, k)] = rank[k] - 1
             /\ \A i \in 1 .. n : rank[i] = rank[k] => i = k
  <2> DEFINE p == Before(n, k)
  <2>1. /\ p \in 1 .. n /\ Rank(n, j, k) \in 1 .. n
        /\ p = j <=> Rank(n, j, k) = 1
        /\ p # j => Rank(n, j, p) = Rank(n, j, k) - 1
        /\ \A i \in 1 .. n : Rank(n, j, i) = Rank(n, j, k) => i = k
    BY DEF Rank, Before
  <2>2. \A i \in 1 .. n : rank[i] = Rank(n, j, i)
    OBVIOUS
  <2> HIDE DEF rank, p
  <2>3. p \in 1 .. n /\ rank[k] \in 1 .. n
    BY <2>1, <2>2
  <2>4. p = j <=> rank[k] = 1
    BY <2>1, <2>2
  <2>5. p # j => rank[p] = rank[k] - 1
    BY <2>1, <2>2
  <2>6. \A i \in 1 .. n : rank[i] = rank[k] => i = k
    BY <2>1, <2>2
  <2> QED
    BY <2>3, <2>4, <2>5, <2>6 DEF p
<1>2. rank[j] = n
  <2>1. rank[j] = Rank(n, j, j)
    OBVIOUS
  <2> QED
    BY <2>1, RanksStep
<1> HIDE DEF rank
<1>3. 0 \in Good
  BY <1>1
<1>4. ASSUME NEW r \in Good PROVE r + 1 \in Good
  <2>0. \A k \in 1 .. n : rank[k] = r => g[a[k]] = Done(r)
    OBVIOUS
  <2> SUFFICES ASSUME NEW k \in 1 .. n, rank[k] = r + 1
               PROVE  g[a[k]] = Done(r + 1)
    <3> HIDE DEF Done
    <3> QED
      BY DEF Good
  <2> DEFINE p == Before(n, k)
  <2>1. /\ p \in 1 .. n /\ fd[a[k]] = a[p]
        /\ p = j <=> r = 0
        /\ p # j => rank[p] = r
        /\ \A i \in 1 .. n : rank[i] = r + 1 => i = k
    BY <1>1
  <2> HIDE DEF p
  <2>2. g[a[k]] = IF p = j THEN {a[k]} ELSE {a[k]} \cup g[a[p]]
    BY <2>1
  <2>3. \A i \in 1 .. n : rank[i] <= r + 1 <=> (i = k \/ rank[i] <= r)
    BY <1>1, <2>1
  <2>4. Done(r + 1) = {a[k]} \cup Done(r)
    BY <2>3
  <2>5. CASE p = j
    <3>1. \A i \in 1 .. n : ~(rank[i] <= r)
      BY <1>1, <2>1, <2>5
    <3>2. Done(r) = {}
      BY <3>1
    <3> HIDE DEF Done
    <3> QED
      BY <2>2, <2>4, <2>5, <3>2
  <2>6. CASE p # j
    <3>1. g[a[p]] = Done(r)
      BY <2>0, <2>1, <2>6
    <3> HIDE DEF Done
    <3> QED
      BY <2>2, <2>4, <2>6, <3>1
  <2> QED
    BY <2>5, <2>6
<1>5. Good = Nat
  <2>1. Good \in SUBSET Nat
    OBVIOUS
  <2> HIDE DEF Good
  <2> QED
    BY <1>3, <1>4, <2>1, NatSteps
<1>6. g[a[j]] = Done(n)
  <2>1. n \in Good
    BY <1>5
  <2> QED
    BY <1>2, <2>1
<1>7. Done(n) = Members(n, a)
  <2>1. \A i \in 1 .. n : rank[i] <= n
    BY <1>1
  <2> QED
    BY <2>1 DEF Members
<1> QED
  BY <1>6, <1>7

(* The ring of a chunk has all chunks of its size.                          *)
LEMMA RingHasItsSize ==
    ASSUME NEW m, BinsTyped(m), NEW q, RingsFit(m, q), NEW t \in Nodes(m)
    PROVE  Ring(m, t) = SameSize(m, t)
<1> DEFINE s == ChunkSize(m, t)
           g == Round(m, t)
           fd == [u \in Nodes(m) |-> m.node[u].fd]
<1>1. \A u \in Nodes(m) : g[u] = IF m.node[u].fd = t THEN {u} ELSE {u} \cup g[m.node[u].fd]
  <2>1. RingOf(m, t, g)
    BY RoundExists
  <2> HIDE DEF g
  <2> QED
    BY <2>1 DEF RingOf, Nodes
<1>2. Ring(m, t) = g[t]
  BY DEF Ring, Round, RingOf
<1> HIDE DEF g
<1>3. PICK a : /\ a = q[s] /\ a \in [1 .. Len(a) -> Nodes(m)] /\ Len(a) \in Nat
               /\ \A k \in 1 .. Len(a) : InRing(m, a, s, k)
               /\ \E k \in 1 .. Len(a) : a[k] = t
  BY PlaceInRing
<1> DEFINE n == Len(a)
<1>4. PICK j \in 1 .. n : a[j] = t
  BY <1>3
<1>5. g[a[j]] = Members(n, a)
  <2>1. \A k, l \in 1 .. n : a[k] = a[l] => k = l
    BY <1>3 DEF InRing
  <2>2. \A k \in 1 .. n : a[k] \in Nodes(m) /\ fd[a[k]] = a[Before(n, k)]
    BY <1>3 DEF InRing
  <2>3. \A k \in 1 .. n : g[a[k]] = IF fd[a[k]] = a[j] THEN {a[k]}
                                    ELSE {a[k]} \cup g[fd[a[k]]]
    BY <1>1, <1>4, <2>2
  <2>4. n \in Nat
    BY <1>3
  <2> HIDE DEF n, fd
  <2>5. Circle(n, a, fd) /\ Collects(n, a, a[j], g, fd)
    BY <2>1, <2>2, <2>3 DEF Circle, Collects
  <2> QED
    BY <2>4, <2>5, RoundIsAll
<1>6. Members(n, a) = SameSize(m, t)
  <2>1. ASSUME NEW i \in 1 .. n PROVE a[i] \in SameSize(m, t)
    BY <1>3 DEF InRing, SameSize
  <2>2. ASSUME NEW y \in SameSize(m, t) PROVE \E i \in 1 .. n : a[i] = y
    <3>1. y \in Nodes(m) /\ ChunkSize(m, y) = s
      BY DEF SameSize
    <3> HIDE DEF n, s
    <3>2. \E i \in 1 .. Len(q[ChunkSize(m, y)]) : q[ChunkSize(m, y)][i] = y
      BY <3>1 DEF RingsFit
    <3>3. q[ChunkSize(m, y)] = a
      BY <1>3, <3>1, Zenon
    <3>4. \E i \in 1 .. Len(a) : a[i] = y
      BY <3>2, <3>3, Zenon
    <3> QED
      BY <3>4 DEF n
  <2> QED
    BY <2>1, <2>2 DEF Members
<1> QED
  BY <1>2, <1>4, <1>5, <1>6, Zenon

(* bin_find finds every chunk in its bin.                                   *)
LEMMA EveryNodeIsFound ==
    ASSUME NEW m, NEW d, NEW top, TreesFit(m, d, top), NEW q, RingsFit(m, q),
           NEW x \in Nodes(m)
    PROVE  tree_find(m, x)
<1> DEFINE s == ChunkSize(m, x)
           i == compute_tree_index(s)
           a == q[s]
           place == Descend(m, i, s)
<1>1. BinsTyped(m)
  BY DEF TreesFit
<1>2. a[1] \in Nodes(m) /\ InRing(m, a, s, 1)
  BY PlaceInRing
<1>3. IsTreed(m, a[1]) /\ ChunkSize(m, a[1]) = s
  BY <1>2 DEF InRing, IsTreed
<1>4. i \in m.treemap
  <2>1. m.node[a[1]].index = i
    BY <1>2, <1>3 DEF TreesFit, NodeFits
  <2>2. m.treebin[i] # NULL
    BY <1>3, <2>1, RootsAreOver
  <2>3. i \in 0 .. 31
    BY <1>1, NodeTypes, IndexInRange
  <2> QED
    BY <1>1, <2>2, <2>3 DEF BinsTyped
<1>5. s \in Sizes
  BY <1>1 DEF BinsTyped
<1>6. IsTreed(m, place.at) /\ ChunkSize(m, place.at) = s
  BY <1>3, <1>4, <1>5, DescendEnds DEF EndsFor
<1>7. x \in Ring(m, place.at)
  <2>1. x \in SameSize(m, place.at) /\ place.at \in Nodes(m)
    BY <1>6 DEF SameSize, IsTreed
  <2> QED
    BY <1>1, <2>1, RingHasItsSize
<1> QED
  BY <1>4, <1>7 DEF tree_find
-----------------------------------------------------------------------------
(* What is in the state w that m becomes when x is new in bin i, and, when  *)
(* par is a node, a child of par.                                           *)
Grown(m, w, x, i, par, side) ==
    /\ BinsTyped(w)
    /\ Nodes(w) = Nodes(m) \cup {x} /\ x \notin Nodes(m)
    /\ \A y \in Nodes(w) : ChunkSize(w, y) = ChunkSize(m, y)
    /\ \A y \in Nodes(m) :
          /\ w.node[y].parent = m.node[y].parent
          /\ w.node[y].index = m.node[y].index
          /\ \A z \in 0 .. 1 :
                w.node[y].child[z] = IF y = par /\ z = side THEN x ELSE m.node[y].child[z]
    /\ w.node[x].parent = par /\ w.node[x].index = i
    /\ \A z \in 0 .. 1 : w.node[x].child[z] = NULL
    /\ \A j \in 0 .. 31 :
          w.treebin[j] = IF par = IN_BIN /\ j = i THEN x ELSE m.treebin[j]

(* Where a node of size s has its place below par.                          *)
PlaceFits(m, d, s, par, side) ==
    /\ IsTreed(m, par) /\ m.node[par].index = compute_tree_index(s)
    /\ m.node[par].child[side] = NULL
    /\ side = Bit(s, Branch(m, d, par))
    /\ Agree(s, ChunkSize(m, par), Branch(m, d, par))

(* A tree stays a tree when a new node is put where it belongs.             *)
LEMMA GrownFits ==
    ASSUME NEW m, NEW d, NEW top, TreesFit(m, d, top), NEW w, NEW x, NEW i, NEW par,
           NEW side \in 0 .. 1,
           Grown(m, w, x, i, par, side), i = compute_tree_index(ChunkSize(m, x)),
           par \in Nodes(m) \cup {NULL, IN_BIN},
           par = IN_BIN => m.treebin[i] = NULL,
           par \in Nodes(m) => PlaceFits(m, d, ChunkSize(m, x), par, side)
    PROVE  \E e : TreesFit(w, e, top + 1)
<1> DEFINE e == [y \in Nodes(w) |-> IF y = x THEN (IF par \in Nodes(m) THEN d[par] + 1 ELSE 0)
                                    ELSE d[y]]
<1>1. /\ BinsTyped(m) /\ BinsTyped(w) /\ Nodes(w) = Nodes(m) \cup {x} /\ x \notin Nodes(m)
      /\ x # NULL /\ x # IN_BIN
  <2>1. BinsTyped(m) /\ BinsTyped(w) /\ Nodes(w) = Nodes(m) \cup {x} /\ x \notin Nodes(m)
    BY DEF TreesFit, Grown
  <2> QED
    BY <2>1 DEF BinsTyped
<1>2. top \in Nat /\ \A y \in Nodes(m) : d[y] \in 0 .. top
  BY DEF TreesFit
<1>3. /\ \A y \in Nodes(m) : e[y] = d[y]
      /\ par \in Nodes(m) => e[x] = d[par] + 1
      /\ par \notin Nodes(m) => e[x] = 0
  BY <1>1
<1>4. e \in [Nodes(w) -> 0 .. top + 1]
  <2>1. \A y \in Nodes(w) : e[y] \in 0 .. top + 1
    BY <1>1, <1>2, <1>3
  <2>2. e = [y \in Nodes(w) |-> e[y]]
    OBVIOUS
  <2> HIDE DEF e
  <2> QED
    BY <2>1, <2>2
<1> HIDE DEF e
<1>5. \A y \in Nodes(m) : /\ Branch(w, e, y) = Branch(m, d, y)
                          /\ ChunkSize(w, y) = ChunkSize(m, y)
                          /\ IsTreed(m, y) => IsTreed(w, y)
  BY <1>1, <1>3 DEF Grown, Branch, IsTreed
<1>6. ASSUME NEW y \in Nodes(m) PROVE NodeFits(w, e, y)
  <2> DEFINE n == m.node[y]
             v == w.node[y]
  <2>1. NodeFits(m, d, y)
    BY DEF TreesFit
  <2>2. /\ v.parent = n.parent /\ v.index = n.index
        /\ \A z \in 0 .. 1 : v.child[z] = IF y = par /\ z = side THEN x ELSE n.child[z]
    BY DEF Grown
  <2>3. /\ n.parent \in Nodes(m) \cup {NULL, IN_BIN} /\ n.index \in 0 .. 31
        /\ \A z \in 0 .. 1 : n.child[z] \in Nodes(m) \cup {NULL}
    BY <1>1, NodeTypes
  <2>4. v.index = compute_tree_index(ChunkSize(w, y))
    BY <1>5, <2>1, <2>2 DEF NodeFits
  <2>5. v.parent = IN_BIN <=> w.treebin[v.index] = y
    <3>1. w.treebin[n.index] = IF par = IN_BIN /\ n.index = i THEN x ELSE m.treebin[n.index]
      BY <2>3 DEF Grown
    <3>2. n.parent = IN_BIN <=> m.treebin[n.index] = y
      BY <2>1 DEF NodeFits
    <3>3. y # NULL /\ y # x
      BY <1>1, NodeTypes
    <3> QED
      BY <2>2, <3>1, <3>2, <3>3
  <2>6. v.parent = IN_BIN => e[y] = 0
    BY <1>3, <2>1, <2>2 DEF NodeFits
  <2>7. v.parent \in Nodes(w) => \E z \in 0 .. 1 : w.node[v.parent].child[z] = y
    <3> SUFFICES ASSUME v.parent \in Nodes(w)
                 PROVE  \E z \in 0 .. 1 : w.node[v.parent].child[z] = y
      OBVIOUS
    <3>1. n.parent \in Nodes(m)
      BY <1>1, <2>2, <2>3
    <3>2. PICK z \in 0 .. 1 : m.node[n.parent].child[z] = y
      BY <2>1, <3>1 DEF NodeFits
    <3>3. n.parent = par => m.node[par].child[side] = NULL
      BY <3>1 DEF PlaceFits
    <3>4. y # NULL
      BY NodeTypes, <1>1
    <3>5. w.node[n.parent].child[z] = m.node[n.parent].child[z]
      <4>1. w.node[n.parent].child[z] =
              IF n.parent = par /\ z = side THEN x ELSE m.node[n.parent].child[z]
        BY <3>1 DEF Grown
      <4> QED
        BY <3>2, <3>3, <3>4, <4>1
    <3> QED
      BY <2>2, <3>2, <3>5
  <2>8. ASSUME NEW z \in 0 .. 1, v.child[z] # NULL
        PROVE  ChildFits(w, e, y, z, v.child[z])
    <3>1. CASE y = par /\ z = side
      <4>1. v.child[z] = x /\ PlaceFits(m, d, ChunkSize(m, x), y, side)
        BY <2>2, <3>1
      <4>2. IsTreed(w, y)
        BY <1>5, <4>1 DEF PlaceFits
      <4>3. w.node[x].parent = y /\ w.node[x].index = i /\ ChunkSize(w, x) = ChunkSize(m, x)
        BY <1>1, <3>1 DEF Grown
      <4>4. w.node[x].index = v.index
        BY <2>2, <4>1, <4>3 DEF PlaceFits
      <4>5. e[x] = e[y] + 1
        BY <1>3, <3>1
      <4>6. Agree(ChunkSize(w, x), ChunkSize(w, y), Branch(w, e, y))
        BY <1>5, <4>1, <4>3 DEF PlaceFits
      <4>7. Bit(ChunkSize(w, x), Branch(w, e, y)) = z
        BY <1>5, <3>1, <4>1, <4>3 DEF PlaceFits
      <4> QED
        BY <4>1, <4>2, <4>3, <4>4, <4>5, <4>6, <4>7 DEF ChildFits
    <3>2. CASE ~(y = par /\ z = side)
      <4> DEFINE c == n.child[z]
      <4>1. v.child[z] = c /\ c \in Nodes(m)
        BY <2>2, <2>3, <2>8, <3>2
      <4>2. ChildFits(m, d, y, z, c)
        BY <2>1, <2>8, <4>1 DEF NodeFits
      <4> HIDE DEF c
      <4>3. IsTreed(w, y)
        BY <1>5, <4>2 DEF ChildFits
      <4>4. w.node[c].parent = y /\ w.node[c].index = v.index
        BY <2>2, <4>1, <4>2 DEF Grown, ChildFits
      <4>5. e[c] = e[y] + 1
        BY <1>3, <4>1, <4>2 DEF ChildFits
      <4>6. Agree(ChunkSize(w, c), ChunkSize(w, y), Branch(w, e, y))
        BY <1>5, <4>1, <4>2 DEF ChildFits
      <4>7. Bit(ChunkSize(w, c), Branch(w, e, y)) = z
        BY <1>5, <4>1, <4>2 DEF ChildFits
      <4> QED
        BY <4>1, <4>3, <4>4, <4>5, <4>6, <4>7 DEF ChildFits
    <3> QED
      BY <3>1, <3>2
  <2> QED
    BY <2>4, <2>5, <2>6, <2>7, <2>8 DEF NodeFits
<1>7. NodeFits(w, e, x)
  <2> DEFINE v == w.node[x]
  <2>1. /\ v.parent = par /\ v.index = i /\ \A z \in 0 .. 1 : v.child[z] = NULL
        /\ ChunkSize(w, x) = ChunkSize(m, x)
    BY <1>1 DEF Grown
  <2>2. i \in 0 .. 31
    <3>1. ChunkSize(w, x) \in Sizes
      BY <1>1 DEF BinsTyped
    <3> QED
      BY <2>1, <3>1, IndexInRange
  <2>3. v.parent = IN_BIN <=> w.treebin[v.index] = x
    <3>1. w.treebin[i] = IF par = IN_BIN THEN x ELSE m.treebin[i]
      BY <2>2 DEF Grown
    <3>2. m.treebin[i] # x
      BY <1>1, <2>2 DEF BinsTyped
    <3> QED
      BY <2>1, <3>1, <3>2
  <2>4. v.parent = IN_BIN => e[x] = 0
    BY <1>1, <1>3, <2>1 DEF BinsTyped
  <2>5. v.parent \in Nodes(w) => \E z \in 0 .. 1 : w.node[v.parent].child[z] = x
    <3> SUFFICES ASSUME par \in Nodes(m) PROVE \E z \in 0 .. 1 : w.node[par].child[z] = x
      BY <1>1, <2>1
    <3>1. w.node[par].child[side] = x
      BY DEF Grown
    <3> QED
      BY <3>1
  <2> QED
    BY <2>1, <2>3, <2>4, <2>5 DEF NodeFits
<1>8. ASSUME NEW j \in 0 .. 31, w.treebin[j] # NULL PROVE w.node[w.treebin[j]].index = j
  <2>1. w.treebin[j] = IF par = IN_BIN /\ j = i THEN x ELSE m.treebin[j]
    BY DEF Grown
  <2>2. CASE par = IN_BIN /\ j = i
    BY <2>1, <2>2 DEF Grown
  <2>3. CASE ~(par = IN_BIN /\ j = i)
    <3>1. m.treebin[j] \in Nodes(m) /\ m.node[m.treebin[j]].index = j
      BY <1>1, <1>8, <2>1, <2>3 DEF TreesFit, BinsTyped
    <3> QED
      BY <2>1, <2>3, <3>1 DEF Grown
  <2> QED
    BY <2>2, <2>3
<1>9. top + 1 \in Nat
  BY <1>2
<1>10. TreesFit(w, e, top + 1)
  BY <1>1, <1>4, <1>6, <1>7, <1>8, <1>9 DEF TreesFit
<1> QED
  BY <1>10

(* What is in the state w that m becomes when x comes to the ring a of its  *)
(* size: it is the last, right before the first.                            *)
Joined(m, w, a, x) ==
    LET n == Len(a) IN
    /\ Nodes(w) = Nodes(m) \cup {x} /\ x \notin Nodes(m)
    /\ \A y \in Nodes(w) : ChunkSize(w, y) = ChunkSize(m, y)
    /\ \A y \in Nodes(m) :
          /\ w.node[y].parent = m.node[y].parent
          /\ w.node[y].fd = IF n > 0 /\ y = a[1] THEN x ELSE m.node[y].fd
          /\ w.node[y].bk = IF n > 0 /\ y = a[n] THEN x ELSE m.node[y].bk
    /\ w.node[x].fd = IF n > 0 THEN a[n] ELSE x
    /\ w.node[x].bk = IF n > 0 THEN a[1] ELSE x
    /\ w.node[x].parent # NULL <=> n = 0

(* A ring stays a ring, in the order of arrival, when a chunk comes last.   *)
LEMMA JoinedFits ==
    ASSUME NEW m, NEW q, RingsFit(m, q), NEW w, NEW x, ChunkSize(m, x) \in DOMAIN q,
           Joined(m, w, q[ChunkSize(m, x)], x)
    PROVE  RingsFit(w, [q EXCEPT ![ChunkSize(m, x)] = Append(@, x)])
<1> DEFINE s == ChunkSize(m, x)
           a == q[s]
           n == Len(a)
           b == Append(a, x)
           r == [q EXCEPT ![s] = Append(@, x)]
<1>1. /\ a \in Seq(Nodes(m)) /\ n \in Nat /\ \A k \in 1 .. n : InRing(m, a, s, k)
      /\ \A k \in 1 .. n : a[k] \in Nodes(m)
  BY DEF RingsFit
<1>2. /\ Nodes(w) = Nodes(m) \cup {x} /\ x \notin Nodes(m)
      /\ \A y \in Nodes(w) : ChunkSize(w, y) = ChunkSize(m, y)
  BY DEF Joined
<1>3. /\ b \in Seq(Nodes(w)) /\ Len(b) = n + 1 /\ b[n + 1] = x
      /\ \A k \in 1 .. n : b[k] = a[k]
  BY <1>1, <1>2
<1>4. /\ DOMAIN r = DOMAIN q /\ s \in DOMAIN r /\ r[s] = b
      /\ \A t \in DOMAIN q : t # s => r[t] = q[t]
  OBVIOUS
<1> HIDE DEF b, r, n
<1>5. \A k \in 1 .. n + 1 : Before(n + 1, k) \in 1 .. n + 1 /\ After(n + 1, k) \in 1 .. n + 1
  BY <1>1 DEF Before, After
<1>6. ASSUME NEW k \in 1 .. n + 1 PROVE InRing(w, b, s, k)
  <2> DEFINE v == w.node[b[k]]
  <2>1. CASE k = n + 1
    <3>1. b[k] = x /\ ChunkSize(w, x) = s
      BY <1>2, <1>3, <2>1
    <3>2. v.fd = b[Before(n + 1, k)]
      <4>1. v.fd = IF n > 0 THEN a[n] ELSE x
        BY <3>1 DEF Joined, n
      <4> QED
        BY <1>1, <1>3, <2>1, <3>1, <4>1 DEF Before
    <3>3. v.bk = b[After(n + 1, k)]
      <4>1. v.bk = IF n > 0 THEN a[1] ELSE x
        BY <3>1 DEF Joined, n
      <4> QED
        BY <1>1, <1>3, <2>1, <3>1, <4>1 DEF After
    <3>4. v.parent # NULL <=> k = 1
      <4>1. v.parent # NULL <=> n = 0
        BY <3>1 DEF Joined, n
      <4> QED
        BY <1>1, <2>1, <4>1
    <3>5. \A j \in 1 .. n + 1 : b[j] = b[k] => j = k
      BY <1>1, <1>2, <1>3, <2>1, <3>1
    <3> HIDE DEF v
    <3> QED
      BY <1>3, <3>1, <3>2, <3>3, <3>4, <3>5 DEF InRing, v
  <2>2. CASE k # n + 1
    <3> DEFINE y == a[k]
    <3>1. k \in 1 .. n /\ b[k] = y /\ y \in Nodes(m) /\ y # x /\ InRing(m, a, s, k) /\ n > 0
      BY <1>1, <1>2, <1>3, <2>2
    <3>2. 1 \in 1 .. n /\ n \in 1 .. n
      BY <1>1, <3>1
    <3>3. (y = a[1] <=> k = 1) /\ (y = a[n] <=> k = n)
      BY <3>1, <3>2 DEF InRing, n
    <3>4. ChunkSize(w, y) = s
      BY <1>2, <3>1 DEF InRing
    <3>5. v.fd = b[Before(n + 1, k)]
      <4>1. v.fd = IF y = a[1] THEN x ELSE m.node[y].fd
        BY <3>1 DEF Joined, n
      <4>2. m.node[y].fd = a[Before(n, k)]
        BY <3>1 DEF InRing, n
      <4> HIDE DEF v, y
      <4>3. CASE k = 1
        BY <1>3, <3>3, <4>1, <4>3 DEF Before
      <4>4. CASE k # 1
        <5>1. Before(n, k) = k - 1 /\ Before(n + 1, k) = k - 1 /\ k - 1 \in 1 .. n
          BY <3>1, <4>4, <1>1 DEF Before
        <5> QED
          BY <1>3, <3>3, <4>1, <4>2, <4>4, <5>1
      <4> QED
        BY <4>3, <4>4
    <3>6. v.bk = b[After(n + 1, k)]
      <4>1. v.bk = IF y = a[n] THEN x ELSE m.node[y].bk
        BY <3>1 DEF Joined, n
      <4>2. m.node[y].bk = a[After(n, k)]
        BY <3>1 DEF InRing, n
      <4> HIDE DEF v, y
      <4>3. CASE k = n
        <5>1. After(n + 1, k) = n + 1
          BY <1>1, <4>3 DEF After
        <5> QED
          BY <1>3, <3>3, <4>1, <4>3, <5>1
      <4>4. CASE k # n
        <5>1. After(n, k) = k + 1 /\ After(n + 1, k) = k + 1 /\ k + 1 \in 1 .. n
          BY <3>1, <4>4, <1>1 DEF After
        <5> QED
          BY <1>3, <3>3, <4>1, <4>2, <4>4, <5>1
      <4> QED
        BY <4>3, <4>4
    <3>7. v.parent # NULL <=> k = 1
      BY <3>1 DEF Joined, InRing
    <3>8. \A j \in 1 .. n + 1 : b[j] = b[k] => j = k
      <4>1. \A j \in 1 .. n : a[j] = a[k] => j = k
        BY <3>1 DEF InRing, n
      <4> HIDE DEF y
      <4> QED
        BY <1>1, <1>3, <3>1, <4>1 DEF y
    <3> HIDE DEF v, y
    <3> QED
      BY <1>3, <3>1, <3>4, <3>5, <3>6, <3>7, <3>8 DEF InRing, v
  <2> QED
    BY <2>1, <2>2
<1>7. ASSUME NEW t \in DOMAIN q, t # s, NEW k \in 1 .. Len(q[t])
      PROVE  q[t] \in Seq(Nodes(w)) /\ InRing(w, q[t], t, k)
  <2> DEFINE c == q[t]
             y == c[k]
  <2>1. c \in Seq(Nodes(m)) /\ InRing(m, c, t, k) /\ y \in Nodes(m)
    BY DEF RingsFit
  <2>2. ChunkSize(m, y) = t
    BY <2>1 DEF InRing
  <2>3. n > 0 => y # a[1] /\ y # a[n]
    <3>1. n > 0 => ChunkSize(m, a[1]) = s /\ ChunkSize(m, a[n]) = s
      <4>1. n > 0 => 1 \in 1 .. n /\ n \in 1 .. n
        BY <1>1
      <4> QED
        BY <1>1, <4>1 DEF InRing
    <3> QED
      BY <1>7, <2>2, <3>1, Zenon
  <2>4. /\ w.node[y].parent = m.node[y].parent
        /\ w.node[y].fd = m.node[y].fd /\ w.node[y].bk = m.node[y].bk
    <3>1. /\ w.node[y].parent = m.node[y].parent
          /\ w.node[y].fd = IF n > 0 /\ y = a[1] THEN x ELSE m.node[y].fd
          /\ w.node[y].bk = IF n > 0 /\ y = a[n] THEN x ELSE m.node[y].bk
      BY <2>1 DEF Joined, n
    <3> QED
      BY <2>3, <3>1
  <2>5. ChunkSize(w, y) = t
    BY <1>2, <2>1, <2>2
  <2>6. c \in Seq(Nodes(w))
    BY <1>2, <2>1
  <2> QED
    BY <2>1, <2>4, <2>5, <2>6 DEF InRing
<1>8. ASSUME NEW y \in Nodes(w)
      PROVE  LET t == ChunkSize(w, y) IN t \in DOMAIN r /\ \E k \in 1 .. Len(r[t]) : r[t][k] = y
  <2> DEFINE t == ChunkSize(m, y)
  <2>1. ChunkSize(w, y) = t
    BY <1>2
  <2>2. CASE y = x
    <3>1. r[t] = b /\ n + 1 \in 1 .. Len(b) /\ b[n + 1] = y
      BY <1>1, <1>3, <1>4, <2>2
    <3> QED
      BY <1>4, <2>1, <2>2, <3>1
  <2>3. CASE y # x
    <3>1. t \in DOMAIN q /\ \E k \in 1 .. Len(q[t]) : q[t][k] = y
      BY <1>2, <2>3 DEF RingsFit
    <3>2. PICK k \in 1 .. Len(q[t]) : q[t][k] = y
      BY <3>1
    <3>3. CASE t = s
      <4>1. k \in 1 .. n /\ a[k] = y
        BY <3>2, <3>3 DEF n
      <4>2. r[t] = b /\ k \in 1 .. Len(b) /\ b[k] = y
        BY <1>1, <1>3, <1>4, <3>3, <4>1
      <4> QED
        BY <1>4, <2>1, <3>1, <4>2
    <3>4. CASE t # s
      <4> HIDE DEF t
      <4>1. r[t] = q[t]
        BY <1>4, <3>1, <3>4
      <4> QED
        BY <1>4, <2>1, <3>1, <4>1
    <3> QED
      BY <3>3, <3>4
  <2> QED
    BY <2>2, <2>3
<1>9. ASSUME NEW t \in DOMAIN r
      PROVE  r[t] \in Seq(Nodes(w)) /\ \A k \in 1 .. Len(r[t]) : InRing(w, r[t], t, k)
  <2>1. CASE t = s
    BY <1>3, <1>4, <1>6, <2>1
  <2>2. CASE t # s
    <3>1. t \in DOMAIN q /\ r[t] = q[t]
      BY <1>4, <2>2
    <3>2. q[t] \in Seq(Nodes(w))
      BY <1>2, <3>1 DEF RingsFit
    <3> QED
      BY <1>7, <2>2, <3>1, <3>2
  <2> QED
    BY <2>1, <2>2
<1>10. RingsFit(w, r)
  BY <1>8, <1>9 DEF RingsFit
<1> QED
  BY <1>10 DEF r
-----------------------------------------------------------------------------
(* A new chunk x of some size for bins that are sound.                      *)
IsNew(m, d, top, q, x, s) ==
    /\ TreesFit(m, d, top) /\ RingsFit(m, q)
    /\ s \in Sizes /\ s \in DOMAIN q /\ ChunkSize(m, x) = s
    /\ x \notin Nodes(m) /\ x # NULL /\ x # IN_BIN

Fit(w, q) == (\E d, top : TreesFit(w, d, top)) /\ RingsFit(w, q)

(* The ring of a size has members when one of them is in the tree.          *)
LEMMA RingOfASize ==
    ASSUME NEW m, NEW q, RingsFit(m, q), NEW s \in DOMAIN q
    PROVE  /\ Len(q[s]) \in Nat
           /\ Len(q[s]) > 0 => /\ IsTreed(m, q[s][1]) /\ ChunkSize(m, q[s][1]) = s
                               /\ q[s][1] \in Nodes(m)
                               /\ m.node[q[s][1]].fd = q[s][Len(q[s])]
                               /\ q[s][Len(q[s])] \in Nodes(m)
           /\ \A y \in Nodes(m) : ChunkSize(m, y) = s => Len(q[s]) > 0
<1> DEFINE a == q[s]
           n == Len(a)
<1>1. a \in Seq(Nodes(m)) /\ n \in Nat /\ \A k \in 1 .. n : InRing(m, a, s, k)
  BY DEF RingsFit
<1>2. ASSUME n > 0
      PROVE  /\ IsTreed(m, a[1]) /\ ChunkSize(m, a[1]) = s /\ a[1] \in Nodes(m)
             /\ m.node[a[1]].fd = a[n] /\ a[n] \in Nodes(m)
  <2>1. 1 \in 1 .. n /\ n \in 1 .. n /\ a[1] \in Nodes(m) /\ a[n] \in Nodes(m)
    BY <1>1, <1>2
  <2>2. InRing(m, a, s, 1)
    BY <1>1, <2>1
  <2> QED
    BY <2>1, <2>2 DEF InRing, IsTreed, Before
<1>3. ASSUME NEW y \in Nodes(m), ChunkSize(m, y) = s PROVE n > 0
  <2>1. \E k \in 1 .. Len(q[ChunkSize(m, y)]) : q[ChunkSize(m, y)][k] = y
    BY DEF RingsFit
  <2>2. \E k \in 1 .. n : a[k] = y
    BY <1>3, <2>1, Zenon
  <2> QED
    BY <1>1, <2>2
<1> QED
  BY <1>1, <1>2, <1>3

(* The first chunk of a bin is its root.                                    *)
LEMMA InsertInEmptyBin ==
    ASSUME NEW m, NEW d, NEW top, NEW q, NEW x, NEW s, IsNew(m, d, top, q, x, s),
           compute_tree_index(s) \notin m.treemap
    PROVE  Fit(insert_large_chunk(m, x, s), [q EXCEPT ![s] = Append(@, x)])
<1> DEFINE i == compute_tree_index(s)
           w == insert_large_chunk(m, x, s)
           new == NewNode(x, x, IN_BIN, i)
<1>0. TreesFit(m, d, top) /\ RingsFit(m, q) /\ BinsTyped(m) /\ s \in Sizes /\ s \in DOMAIN q
      /\ ChunkSize(m, x) = s /\ x \notin Nodes(m) /\ x # NULL /\ x # IN_BIN
  BY DEF IsNew, TreesFit
<1>1. i \in 0 .. 31 /\ m.treebin[i] = NULL
  <2>1. i \in 0 .. 31
    BY <1>0, IndexInRange
  <2> QED
    BY <1>0, <2>1 DEF BinsTyped
<1>2. /\ {"head", "node", "treemap", "treebin"} \subseteq DOMAIN w
      /\ w.head = m.head /\ w.treemap = m.treemap \cup {i}
      /\ w.treebin = [m.treebin EXCEPT ![i] = x]
      /\ w.node = Put(m.node, x, new)
  BY <1>0 DEF insert_large_chunk, BinsTyped
<1> HIDE DEF w
<1> HIDE DEF new
<1>3. /\ Nodes(w) = Nodes(m) \cup {x} /\ w.node[x] = new
      /\ \A y \in Nodes(m) : w.node[y] = m.node[y]
  <2> DEFINE f == m.node
  <2> HIDE DEF f
  <2>1. /\ DOMAIN Put(f, x, new) = DOMAIN f \cup {x}
        /\ Put(f, x, new)[x] = new
        /\ \A y \in DOMAIN f : y # x => Put(f, x, new)[y] = f[y]
    BY DEF Put
  <2> QED
    BY <1>0, <1>2, <2>1 DEF Nodes, f
<1>4. new \in NodeType(Nodes(w)) /\ new.fd = x /\ new.bk = x /\ new.parent = IN_BIN
      /\ new.index = i /\ \A z \in 0 .. 1 : new.child[z] = NULL
  <2> HIDE DEF i
  <2>1. x \in Nodes(w)
    BY <1>3
  <2> QED
    BY <1>1, <2>1 DEF new, NewNode, NodeType
<1>5. \A y : ChunkSize(w, y) = ChunkSize(m, y)
  BY <1>2 DEF ChunkSize
<1>6. BinsTyped(w)
  <2>1. \A y \in Nodes(w) : w.node[y] \in NodeType(Nodes(w))
    <3>1. \A y \in Nodes(m) : m.node[y] \in NodeType(Nodes(m))
      BY <1>0 DEF BinsTyped
    <3>2. \A e \in NodeType(Nodes(m)) : e \in NodeType(Nodes(w))
      BY <1>3 DEF NodeType
    <3> QED
      BY <1>3, <1>4, <3>1, <3>2
  <2>2. w.node = [y \in Nodes(w) |-> w.node[y]]
    BY <1>2 DEF Put, Nodes
  <2>3. w.node \in [Nodes(w) -> NodeType(Nodes(w))]
    BY <2>1, <2>2
  <2>4. w.treebin \in [0 .. 31 -> Nodes(w) \cup {NULL}]
    <3> DEFINE f == m.treebin
    <3>1. f \in [0 .. 31 -> Nodes(m) \cup {NULL}]
      BY <1>0 DEF BinsTyped
    <3>2. x \in Nodes(w) /\ Nodes(m) \subseteq Nodes(w)
      BY <1>3
    <3>3. w.treebin = [f EXCEPT ![i] = x]
      BY <1>2
    <3> HIDE DEF f, i
    <3> QED
      BY <3>1, <3>2, <3>3
  <2>5. w.treemap = {j \in 0 .. 31 : w.treebin[j] # NULL}
    BY <1>0, <1>1, <1>2 DEF BinsTyped
  <2>6. \A y \in Nodes(w) : ChunkSize(w, y) \in Sizes
    BY <1>0, <1>3, <1>5 DEF BinsTyped
  <2>7. NULL \notin Nodes(w) /\ IN_BIN \notin Nodes(w)
    BY <1>0, <1>3 DEF BinsTyped
  <2> QED
    BY <1>2, <2>3, <2>4, <2>5, <2>6, <2>7 DEF BinsTyped
<1>7. \E e : TreesFit(w, e, top + 1)
  <2>1. \A j \in 0 .. 31 : w.treebin[j] = IF IN_BIN = IN_BIN /\ j = i THEN x ELSE m.treebin[j]
    BY <1>0, <1>2 DEF BinsTyped
  <2>2. \A y \in Nodes(m) : y # IN_BIN
    BY <1>0 DEF BinsTyped
  <2>3. Grown(m, w, x, i, IN_BIN, 0)
    BY <1>0, <1>3, <1>4, <1>5, <1>6, <2>1, <2>2 DEF Grown
  <2>4. i = compute_tree_index(ChunkSize(m, x)) /\ IN_BIN \notin Nodes(m)
    BY <1>0, <2>2
  <2> HIDE DEF i
  <2> QED
    BY <1>0, <1>1, <2>3, <2>4, GrownFits
<1>8. Len(q[s]) = 0
  <2>1. Len(q[s]) \in Nat
    BY <1>0, RingOfASize
  <2>2. SUFFICES ASSUME Len(q[s]) > 0 PROVE FALSE
    BY <2>1
  <2> DEFINE y == q[s][1]
  <2>3. IsTreed(m, y) /\ ChunkSize(m, y) = s /\ y \in Nodes(m)
    BY <1>0, <2>2, RingOfASize
  <2> HIDE DEF y
  <2>4. m.node[y].index = i
    BY <1>0, <2>3 DEF TreesFit, NodeFits
  <2> QED
    BY <1>0, <1>1, <2>3, <2>4, RootsAreOver
<1>9. RingsFit(w, [q EXCEPT ![s] = Append(@, x)])
  <2>1. Joined(m, w, q[s], x)
    BY <1>0, <1>3, <1>4, <1>5, <1>8 DEF Joined, NULL, IN_BIN
  <2> HIDE DEF i
  <2> QED
    BY <1>0, <2>1, JoinedFits
<1>10. \E e, u : TreesFit(w, e, u)
  BY <1>7
<1>11. Fit(w, [q EXCEPT ![s] = Append(@, x)])
  BY <1>9, <1>10 DEF Fit
<1> QED
  BY <1>11 DEF w

(* A chunk of a size that a node has comes into its ring.                   *)
LEMMA InsertInRing ==
    ASSUME NEW m, NEW d, NEW top, NEW q, NEW x, NEW s, IsNew(m, d, top, q, x, s),
           NEW t, IsTreed(m, t), ChunkSize(m, t) = s
    PROVE  Fit(JoinRing(m, x, t, compute_tree_index(s)), [q EXCEPT ![s] = Append(@, x)])
<1> DEFINE i == compute_tree_index(s)
           w == JoinRing(m, x, t, i)
           f == m.node[t].fd
           g == [m.node EXCEPT ![t].fd = x, ![f].bk = x]
           new == NewNode(f, t, NULL, i)
           a == q[s]
<1>0. TreesFit(m, d, top) /\ RingsFit(m, q) /\ BinsTyped(m) /\ s \in Sizes /\ s \in DOMAIN q
      /\ ChunkSize(m, x) = s /\ x \notin Nodes(m) /\ x # NULL /\ x # IN_BIN
  BY DEF IsNew, TreesFit
<1>1. i \in 0 .. 31 /\ t \in Nodes(m) /\ f \in Nodes(m)
  <2>1. t \in Nodes(m)
    BY DEF IsTreed
  <2> QED
    BY <1>0, <2>1, IndexInRange, NodeTypes
<1>2. Len(a) > 0 /\ a[1] = t /\ f = a[Len(a)]
  <2>1. Len(a) > 0
    BY <1>0, <1>1, RingOfASize
  <2>2. a[1] = t
    <3>1. q[ChunkSize(m, t)][1] = t
      BY <1>0, OneOfASize
    <3> QED
      BY <3>1, Zenon
  <2>3. m.node[a[1]].fd = a[Len(a)]
    BY <1>0, <2>1, RingOfASize
  <2> QED
    BY <2>1, <2>2, <2>3, Zenon
<1>3. /\ {"head", "node", "treemap", "treebin"} \subseteq DOMAIN w
      /\ w.head = m.head /\ w.treemap = m.treemap /\ w.treebin = m.treebin
      /\ w.node = Put(g, x, new)
  BY <1>0 DEF JoinRing, BinsTyped
<1> HIDE DEF w
<1>4. DOMAIN g = Nodes(m)
  BY DEF Nodes
<1>5. ASSUME NEW y \in Nodes(m)
      PROVE  /\ g[y] \in NodeType(Nodes(m) \cup {x})
             /\ g[y].parent = m.node[y].parent /\ g[y].index = m.node[y].index
             /\ g[y].child = m.node[y].child
             /\ g[y].fd = IF y = t THEN x ELSE m.node[y].fd
             /\ g[y].bk = IF y = f THEN x ELSE m.node[y].bk
  <2>1. m.node[y] \in NodeType(Nodes(m))
    BY <1>0 DEF BinsTyped
  <2> DEFINE h == [m.node EXCEPT ![t].fd = x]
  <2>2. h[y] = IF y = t THEN [m.node[y] EXCEPT !.fd = x] ELSE m.node[y]
    BY DEF Nodes
  <2>3. g[y] = IF y = f THEN [h[y] EXCEPT !.bk = x] ELSE h[y]
    BY DEF Nodes
  <2> HIDE DEF g, h, f
  <2> QED
    BY <2>1, <2>2, <2>3 DEF NodeType
<1> HIDE DEF g, new
<1>6. /\ Nodes(w) = Nodes(m) \cup {x} /\ w.node[x] = new
      /\ \A y \in Nodes(m) : w.node[y] = g[y]
      /\ w.node = [y \in Nodes(w) |-> w.node[y]]
  BY <1>0, <1>3, <1>4 DEF Nodes, Put
<1>7. new \in NodeType(Nodes(w)) /\ new.fd = f /\ new.bk = t /\ new.parent = NULL
      /\ new.index = i /\ \A z \in 0 .. 1 : new.child[z] = NULL
  <2> HIDE DEF i, f
  <2> QED
    BY <1>1, <1>6 DEF new, NewNode, NodeType
<1>8. \A y : ChunkSize(w, y) = ChunkSize(m, y)
  BY <1>3 DEF ChunkSize
<1>9. BinsTyped(w)
  <2>1. \A y \in Nodes(w) : w.node[y] \in NodeType(Nodes(w))
    BY <1>5, <1>6, <1>7
  <2>2. w.node \in [Nodes(w) -> NodeType(Nodes(w))]
    BY <1>6, <2>1
  <2>3. w.treebin \in [0 .. 31 -> Nodes(w) \cup {NULL}]
    BY <1>0, <1>3, <1>6 DEF BinsTyped
  <2>4. w.treemap = {j \in 0 .. 31 : w.treebin[j] # NULL}
    BY <1>0, <1>3 DEF BinsTyped
  <2>5. \A y \in Nodes(w) : ChunkSize(w, y) \in Sizes
    BY <1>0, <1>6, <1>8 DEF BinsTyped
  <2>6. NULL \notin Nodes(w) /\ IN_BIN \notin Nodes(w)
    BY <1>0, <1>6 DEF BinsTyped
  <2> QED
    BY <1>3, <2>2, <2>3, <2>4, <2>5, <2>6 DEF BinsTyped
<1>10. \E e : TreesFit(w, e, top + 1)
  <2>1. NULL \notin Nodes(m) /\ IN_BIN # NULL
    BY <1>0 DEF BinsTyped, IN_BIN, NULL
  <2>2. \A j \in 0 .. 31 : w.treebin[j] = IF NULL = IN_BIN /\ j = i THEN x ELSE m.treebin[j]
    BY <1>3, <2>1
  <2>3. Grown(m, w, x, i, NULL, 0)
    BY <1>0, <1>5, <1>6, <1>7, <1>8, <1>9, <2>1, <2>2 DEF Grown
  <2>4. i = compute_tree_index(ChunkSize(m, x))
    BY <1>0
  <2> HIDE DEF i
  <2> QED
    BY <1>0, <1>1, <2>1, <2>3, <2>4, GrownFits
<1>11. RingsFit(w, [q EXCEPT ![s] = Append(@, x)])
  <2>1. Len(a) \in Nat
    BY <1>0, RingOfASize
  <2>2. Joined(m, w, a, x)
    BY <1>0, <1>2, <1>5, <1>6, <1>7, <1>8, <2>1 DEF Joined
  <2> HIDE DEF i
  <2> QED
    BY <1>0, <2>2, JoinedFits
<1>12. \E e, u : TreesFit(w, e, u)
  BY <1>10
<1>13. Fit(w, [q EXCEPT ![s] = Append(@, x)])
  BY <1>11, <1>12 DEF Fit
<1> QED
  BY <1>13 DEF w

(* A chunk of a new size becomes the child that the way to it ends without. *)
LEMMA InsertBelow ==
    ASSUME NEW m, NEW d, NEW top, NEW q, NEW x, NEW s, IsNew(m, d, top, q, x, s),
           NEW t, NEW side, PlaceFits(m, d, s, t, side),
           \A y : IsTreed(m, y) => ChunkSize(m, y) # s
    PROVE  LET i == compute_tree_index(s) IN
           Fit([m EXCEPT !.node = Put([@ EXCEPT ![t].child[side] = x], x, NewNode(x, x, t, i))],
               [q EXCEPT ![s] = Append(@, x)])
<1> DEFINE i == compute_tree_index(s)
           g == [m.node EXCEPT ![t].child[side] = x]
           new == NewNode(x, x, t, i)
           w == [m EXCEPT !.node = Put(g, x, new)]
           a == q[s]
<1>0. TreesFit(m, d, top) /\ RingsFit(m, q) /\ BinsTyped(m) /\ s \in Sizes /\ s \in DOMAIN q
      /\ ChunkSize(m, x) = s /\ x \notin Nodes(m) /\ x # NULL /\ x # IN_BIN
  BY DEF IsNew, TreesFit
<1>1. i \in 0 .. 31 /\ t \in Nodes(m) /\ side \in 0 .. 1
  <2>1. t \in Nodes(m)
    BY DEF PlaceFits, IsTreed
  <2>2. side \in 0 .. 1
    BY <1>0, SizesAreBounded, BitsAreBits DEF PlaceFits
  <2> QED
    BY <1>0, <2>1, <2>2, IndexInRange
<1>2. Len(a) \in Nat /\ Len(a) = 0
  <2>1. Len(a) \in Nat /\ (Len(a) > 0 => IsTreed(m, a[1]) /\ ChunkSize(m, a[1]) = s)
    BY <1>0, RingOfASize
  <2> QED
    BY <2>1
<1>3. /\ {"head", "node", "treemap", "treebin"} \subseteq DOMAIN w
      /\ w.head = m.head /\ w.treemap = m.treemap /\ w.treebin = m.treebin
      /\ w.node = Put(g, x, new)
  BY <1>0 DEF BinsTyped
<1> HIDE DEF w
<1>4. DOMAIN g = Nodes(m)
  BY DEF Nodes
<1>5. ASSUME NEW y \in Nodes(m)
      PROVE  /\ g[y] \in NodeType(Nodes(m) \cup {x})
             /\ g[y].parent = m.node[y].parent /\ g[y].index = m.node[y].index
             /\ g[y].fd = m.node[y].fd /\ g[y].bk = m.node[y].bk
             /\ \A z \in 0 .. 1 :
                  g[y].child[z] = IF y = t /\ z = side THEN x ELSE m.node[y].child[z]
  <2>1. m.node[y] \in NodeType(Nodes(m))
    BY <1>0 DEF BinsTyped
  <2>2. g[y] = IF y = t THEN [m.node[y] EXCEPT !.child[side] = x] ELSE m.node[y]
    BY DEF Nodes
  <2> HIDE DEF g
  <2> QED
    BY <1>1, <2>1, <2>2 DEF NodeType
<1> HIDE DEF g, new
<1>6. /\ Nodes(w) = Nodes(m) \cup {x} /\ w.node[x] = new
      /\ \A y \in Nodes(m) : w.node[y] = g[y]
      /\ w.node = [y \in Nodes(w) |-> w.node[y]]
  BY <1>0, <1>3, <1>4 DEF Nodes, Put
<1>7. new \in NodeType(Nodes(w)) /\ new.fd = x /\ new.bk = x /\ new.parent = t
      /\ new.index = i /\ \A z \in 0 .. 1 : new.child[z] = NULL
  <2> HIDE DEF i
  <2> QED
    BY <1>1, <1>6 DEF new, NewNode, NodeType
<1>8. \A y : ChunkSize(w, y) = ChunkSize(m, y)
  BY <1>3 DEF ChunkSize
<1>9. BinsTyped(w)
  <2>1. \A y \in Nodes(w) : w.node[y] \in NodeType(Nodes(w))
    BY <1>5, <1>6, <1>7
  <2>2. w.node \in [Nodes(w) -> NodeType(Nodes(w))]
    BY <1>6, <2>1
  <2>3. w.treebin \in [0 .. 31 -> Nodes(w) \cup {NULL}]
    BY <1>0, <1>3, <1>6 DEF BinsTyped
  <2>4. w.treemap = {j \in 0 .. 31 : w.treebin[j] # NULL}
    BY <1>0, <1>3 DEF BinsTyped
  <2>5. \A y \in Nodes(w) : ChunkSize(w, y) \in Sizes
    BY <1>0, <1>6, <1>8 DEF BinsTyped
  <2>6. NULL \notin Nodes(w) /\ IN_BIN \notin Nodes(w)
    BY <1>0, <1>6 DEF BinsTyped
  <2> QED
    BY <1>3, <2>2, <2>3, <2>4, <2>5, <2>6 DEF BinsTyped
<1>10. \E e : TreesFit(w, e, top + 1)
  <2>1. t # NULL /\ t # IN_BIN
    BY <1>0, <1>1 DEF BinsTyped
  <2>2. \A j \in 0 .. 31 : w.treebin[j] = IF t = IN_BIN /\ j = i THEN x ELSE m.treebin[j]
    BY <1>3, <2>1
  <2>3. Grown(m, w, x, i, t, side)
    BY <1>0, <1>5, <1>6, <1>7, <1>8, <1>9, <2>1, <2>2 DEF Grown
  <2>4. i = compute_tree_index(ChunkSize(m, x))
    BY <1>0
  <2>5. PlaceFits(m, d, ChunkSize(m, x), t, side)
    BY <1>0
  <2> HIDE DEF i
  <2> QED
    BY <1>0, <1>1, <2>1, <2>3, <2>4, <2>5, GrownFits
<1>11. RingsFit(w, [q EXCEPT ![s] = Append(@, x)])
  <2>1. t # NULL
    BY <1>0, <1>1 DEF BinsTyped
  <2>2. Joined(m, w, a, x)
    BY <1>0, <1>2, <1>5, <1>6, <1>7, <1>8, <2>1 DEF Joined
  <2> HIDE DEF i
  <2> QED
    BY <1>0, <2>2, JoinedFits
<1>12. \E e, u : TreesFit(w, e, u)
  BY <1>10
<1>13. Fit(w, [q EXCEPT ![s] = Append(@, x)])
  BY <1>11, <1>12 DEF Fit
<1> QED
  BY <1>13 DEF w, g, new

(* Insertion keeps trees and rings sound, whatever the chunk.               *)
LEMMA InsertFits ==
    ASSUME NEW m, NEW d, NEW top, NEW q, NEW x, NEW s, IsNew(m, d, top, q, x, s)
    PROVE  Fit(insert_large_chunk(m, x, s), [q EXCEPT ![s] = Append(@, x)])
<1> DEFINE i == compute_tree_index(s)
           place == Descend(m, i, s)
           t == place.at
           r == [q EXCEPT ![s] = Append(@, x)]
<1>1. CASE i \notin m.treemap
  BY <1>1, InsertInEmptyBin
<1>2. CASE i \in m.treemap
  <2>1. TreesFit(m, d, top) /\ s \in Sizes
    BY DEF IsNew
  <2>2. /\ EndsFor(m, d, s, i, place)
        /\ \A y : IsTreed(m, y) /\ ChunkSize(m, y) = s => ChunkSize(m, t) = s
    BY <1>2, <2>1, DescendEnds
  <2>3. insert_large_chunk(m, x, s) = Attach(m, x, s, i, place)
    BY <1>2 DEF insert_large_chunk
  <2> HIDE DEF place, r
  <2>4. CASE ChunkSize(m, t) = s
    <3>1. IsTreed(m, t)
      BY <2>2 DEF EndsFor
    <3>2. Attach(m, x, s, i, place) = JoinRing(m, x, t, i)
      BY <2>4 DEF Attach
    <3>3. Fit(JoinRing(m, x, t, i), r)
      <4> HIDE DEF t
      <4> QED
        BY <2>4, <3>1, InsertInRing DEF r
    <3> QED
      BY <2>3, <3>2, <3>3, Zenon DEF r
  <2>5. CASE ChunkSize(m, t) # s
    <3> DEFINE w == [m EXCEPT !.node =
                       Put([@ EXCEPT ![t].child[place.side] = x], x, NewNode(x, x, t, i))]
    <3>1. PlaceFits(m, d, s, t, place.side)
      BY <2>2, <2>5 DEF EndsFor, PlaceFits
    <3>2. Attach(m, x, s, i, place) = w
      BY <2>5 DEF Attach
    <3>3. \A y : IsTreed(m, y) => ChunkSize(m, y) # s
      BY <2>2, <2>5
    <3>4. Fit(w, r)
      BY <3>1, <3>3, InsertBelow DEF r
    <3> HIDE DEF w
    <3> QED
      BY <2>3, <3>2, <3>4, Zenon DEF r
  <2> QED
    BY <2>4, <2>5
<1> QED
  BY <1>1, <1>2
-----------------------------------------------------------------------------
(* A child of y, but for r.                                                 *)
Cut(m, y, z, r) ==
    IF m.node[y].child[z] = r THEN NULL ELSE m.node[y].child[z]

(* A chunk that can be in the place of node x: none where nothing is below  *)
(* it, or a chunk without children whose size belongs there.                *)
Heir(m, d, x, r) ==
    IF r = NULL THEN \A z \in 0 .. 1 : m.node[x].child[z] = NULL
    ELSE /\ r \in Nodes(m) /\ r # x
         /\ \A z \in 0 .. 1 : m.node[r].child[z] = NULL
         /\ m.node[r].index = m.node[x].index
         /\ m.node[r].parent # IN_BIN
         /\ Agree(ChunkSize(m, r), ChunkSize(m, x), Branch(m, d, x))

(* What is in the state w that m becomes when r gets the place of x.        *)
Shrunk(m, w, x, r) ==
    /\ BinsTyped(w)
    /\ Nodes(w) = Nodes(m) \ {x}
    /\ \A y \in Nodes(w) :
          /\ ChunkSize(w, y) = ChunkSize(m, y)
          /\ w.node[y].index = m.node[y].index
          /\ y # r =>
                /\ w.node[y].parent = IF m.node[y].parent = x THEN r ELSE m.node[y].parent
                /\ \A z \in 0 .. 1 :
                      w.node[y].child[z] = IF Cut(m, y, z, r) = x THEN r ELSE Cut(m, y, z, r)
          /\ y = r =>
                /\ w.node[y].parent = m.node[x].parent
                /\ \A z \in 0 .. 1 : w.node[y].child[z] = Cut(m, x, z, r)
    /\ \A j \in 0 .. 31 : w.treebin[j] = IF m.treebin[j] = x THEN r ELSE m.treebin[j]

(* A tree stays a tree when a node is replaced by one that can be there.    *)
LEMMA ShrunkFits ==
    ASSUME NEW m, NEW d, NEW top, TreesFit(m, d, top), NEW x, IsTreed(m, x), NEW r,
           Heir(m, d, x, r), NEW w, Shrunk(m, w, x, r)
    PROVE  \E e : TreesFit(w, e, top)
<1> DEFINE e == [y \in Nodes(w) |-> IF y = r THEN d[x] ELSE d[y]]
<1>1. /\ BinsTyped(m) /\ BinsTyped(w) /\ Nodes(w) = Nodes(m) \ {x} /\ x \in Nodes(m)
      /\ \A y \in Nodes(m) : y # NULL /\ y # IN_BIN
  <2>1. BinsTyped(m) /\ BinsTyped(w) /\ Nodes(w) = Nodes(m) \ {x} /\ x \in Nodes(m)
    BY DEF TreesFit, Shrunk, IsTreed
  <2> QED
    BY <2>1 DEF BinsTyped
<1>2. top \in Nat /\ \A y \in Nodes(m) : d[y] \in 0 .. top
  BY DEF TreesFit
<1>3. \A y \in Nodes(w) : e[y] = IF y = r THEN d[x] ELSE d[y]
  OBVIOUS
<1>4. e \in [Nodes(w) -> 0 .. top]
  <2>1. \A y \in Nodes(w) : e[y] \in 0 .. top
    BY <1>1, <1>2, <1>3
  <2>2. e = [y \in Nodes(w) |-> e[y]]
    OBVIOUS
  <2> HIDE DEF e
  <2> QED
    BY <2>1, <2>2
<1> HIDE DEF e
<1>5. \A y \in Nodes(w) : /\ w.node[y].index = m.node[y].index
                          /\ ChunkSize(w, y) = ChunkSize(m, y)
                          /\ y # r => Branch(w, e, y) = Branch(m, d, y)
  BY <1>3 DEF Shrunk, Branch
<1>6. r # NULL => /\ r \in Nodes(w) /\ r \in Nodes(m) /\ r # IN_BIN
                  /\ w.node[r].index = m.node[x].index /\ m.node[r].index = m.node[x].index
                  /\ Branch(w, e, r) = Branch(m, d, x)
                  /\ Agree(ChunkSize(m, r), ChunkSize(m, x), Branch(m, d, x))
                  /\ m.node[r].parent # IN_BIN
                  /\ \A z \in 0 .. 1 : m.node[r].child[z] = NULL
  <2> SUFFICES ASSUME r # NULL
               PROVE  /\ r \in Nodes(w) /\ r \in Nodes(m) /\ r # IN_BIN
                      /\ w.node[r].index = m.node[x].index /\ m.node[r].index = m.node[x].index
                      /\ Branch(w, e, r) = Branch(m, d, x)
                      /\ Agree(ChunkSize(m, r), ChunkSize(m, x), Branch(m, d, x))
                      /\ m.node[r].parent # IN_BIN
                      /\ \A z \in 0 .. 1 : m.node[r].child[z] = NULL
    OBVIOUS
  <2>1. /\ r \in Nodes(m) /\ r # x /\ m.node[r].index = m.node[x].index
        /\ Agree(ChunkSize(m, r), ChunkSize(m, x), Branch(m, d, x))
        /\ m.node[r].parent # IN_BIN
        /\ \A z \in 0 .. 1 : m.node[r].child[z] = NULL
    BY DEF Heir
  <2>2. r \in Nodes(w)
    BY <1>1, <2>1
  <2>3. w.node[r].index = m.node[x].index
    BY <1>5, <2>1, <2>2
  <2>4. e[r] = d[x]
    BY <1>3, <2>2
  <2>5. Branch(w, e, r) = Branch(m, d, x)
    BY <2>3, <2>4 DEF Branch
  <2> QED
    BY <1>1, <2>1, <2>2, <2>3, <2>5
<1>7. /\ \A y \in Nodes(m) : NodeFits(m, d, y)
      /\ \A y \in Nodes(m) : /\ m.node[y].parent \in Nodes(m) \cup {NULL, IN_BIN}
                             /\ m.node[y].index \in 0 .. 31
                             /\ \A z \in 0 .. 1 : m.node[y].child[z] \in Nodes(m) \cup {NULL}
  <2>1. \A y \in Nodes(m) : NodeFits(m, d, y)
    BY DEF TreesFit
  <2> QED
    BY <1>1, <2>1, NodeTypes
<1>8. ASSUME NEW y \in Nodes(w), y # r PROVE NodeFits(w, e, y)
  <2> DEFINE n == m.node[y]
             v == w.node[y]
  <2>1. NodeFits(m, d, y) /\ y \in Nodes(m) /\ y # x
    BY <1>1, <1>7
  <2>2. /\ v.parent = IF n.parent = x THEN r ELSE n.parent
        /\ \A z \in 0 .. 1 : v.child[z] = IF Cut(m, y, z, r) = x THEN r ELSE Cut(m, y, z, r)
        /\ v.index = n.index
    BY <1>8 DEF Shrunk
  <2>3. v.index = compute_tree_index(ChunkSize(w, y))
    BY <1>5, <2>1 DEF NodeFits
  <2>4. v.parent = IN_BIN <=> w.treebin[v.index] = y
    <3>1. w.treebin[n.index] = IF m.treebin[n.index] = x THEN r ELSE m.treebin[n.index]
      BY <1>7, <2>1 DEF Shrunk
    <3>2. n.parent = IN_BIN <=> m.treebin[n.index] = y
      BY <2>1 DEF NodeFits
    <3>3. x # IN_BIN /\ r # IN_BIN
      BY <1>1, <1>6 DEF IN_BIN, NULL
    <3> QED
      BY <1>8, <2>1, <2>2, <3>1, <3>2, <3>3
  <2>5. v.parent = IN_BIN => e[y] = 0
    <3>1. x # IN_BIN /\ r # IN_BIN
      BY <1>1, <1>6 DEF IN_BIN, NULL
    <3>2. v.parent = IN_BIN => n.parent = IN_BIN
      BY <2>2, <3>1
    <3> QED
      BY <1>3, <1>8, <2>1, <3>2 DEF NodeFits
  <2>6. ASSUME v.parent \in Nodes(w) PROVE \E z \in 0 .. 1 : w.node[v.parent].child[z] = y
    <3>1. CASE n.parent = x
      <4>1. v.parent = r /\ r # NULL
        BY <1>1, <2>2, <2>6, <3>1
      <4>2. PICK z \in 0 .. 1 : m.node[x].child[z] = y
        BY <1>1, <2>1, <3>1 DEF NodeFits
      <4>3. w.node[r].child[z] = Cut(m, x, z, r)
        BY <1>6, <4>1 DEF Shrunk
      <4>4. Cut(m, x, z, r) = y
        BY <1>8, <4>2 DEF Cut
      <4> QED
        BY <4>1, <4>3, <4>4
    <3>2. CASE n.parent # x
      <4> DEFINE p == n.parent
      <4>1. v.parent = p /\ p \in Nodes(m) /\ p \in Nodes(w) /\ p # x
        BY <1>1, <2>2, <2>6, <3>2
      <4>2. PICK z \in 0 .. 1 : m.node[p].child[z] = y
        BY <2>1, <4>1 DEF NodeFits
      <4>3. p # r
        BY <1>1, <1>6, <2>1, <4>1, <4>2
      <4>4. w.node[p].child[z] = IF Cut(m, p, z, r) = x THEN r ELSE Cut(m, p, z, r)
        BY <4>1, <4>3 DEF Shrunk
      <4>5. Cut(m, p, z, r) = y
        BY <1>8, <4>2 DEF Cut
      <4> QED
        BY <2>1, <4>1, <4>4, <4>5
    <3> QED
      BY <3>1, <3>2
  <2>7. ASSUME NEW z \in 0 .. 1, v.child[z] # NULL
        PROVE  ChildFits(w, e, y, z, v.child[z])
    <3> DEFINE c == n.child[z]
    <3>1. c # r /\ c # NULL /\ c \in Nodes(m)
      <4>1. c = r => Cut(m, y, z, r) = NULL
        BY DEF Cut
      <4>2. c = NULL => Cut(m, y, z, r) = NULL
        BY DEF Cut
      <4>3. Cut(m, y, z, r) # NULL
        BY <1>1, <2>2, <2>7
      <4> QED
        BY <1>7, <2>1, <4>1, <4>2, <4>3
    <3>2. Cut(m, y, z, r) = c
      BY <3>1 DEF Cut
    <3>3. ChildFits(m, d, y, z, c)
      BY <2>1, <3>1 DEF NodeFits
    <3>4. v.child[z] = IF c = x THEN r ELSE c
      BY <2>2, <3>2
    <3> HIDE DEF c
    <3>5. IsTreed(w, y)
      <4>1. n.parent # NULL
        BY <3>3 DEF ChildFits, IsTreed
      <4>2. n.parent # x \/ r # NULL
        <5>1. CASE n.parent = x /\ r = NULL
          <6>1. PICK k \in 0 .. 1 : m.node[x].child[k] = y
            BY <1>1, <2>1, <5>1 DEF NodeFits
          <6>2. m.node[x].child[k] = NULL
            BY <5>1 DEF Heir
          <6> QED
            BY <1>1, <2>1, <6>1, <6>2
        <5> QED
          BY <5>1
      <4> QED
        BY <2>2, <4>1, <4>2 DEF IsTreed
    <3>6. CASE c = x
      <4>1. v.child[z] = r /\ r # NULL /\ ChildFits(m, d, y, z, x)
        BY <2>7, <3>3, <3>4, <3>6
      <4>2. w.node[r].parent = y
        <5>1. m.node[x].parent = y
          BY <4>1 DEF ChildFits
        <5>2. w.node[r].parent = m.node[x].parent
          BY <1>6, <4>1 DEF Shrunk
        <5> QED
          BY <5>1, <5>2
      <4>3. w.node[r].index = v.index
        BY <1>6, <2>2, <4>1 DEF ChildFits
      <4>4. e[r] = e[y] + 1
        BY <1>3, <1>6, <1>8, <4>1 DEF ChildFits
      <4> DEFINE bx == Branch(m, d, x)
                 b == Branch(m, d, y)
                 sr == ChunkSize(m, r)
                 sx == ChunkSize(m, x)
                 sy == ChunkSize(m, y)
      <4>5. b \in Int /\ bx \in Int /\ bx < b
        <5>1. b \in Int /\ bx \in Int
          BY <1>1, <2>1, BranchIsInt
        <5>2. bx = bit_for_tree_index(m.node[y].index) - (d[y] + 1)
          BY <4>1 DEF ChildFits, Branch
        <5>3. bit_for_tree_index(m.node[y].index) \in Int /\ d[y] \in Nat
          BY <1>1, <1>2, <2>1, NodeTypes
        <5> QED
          BY <5>1, <5>2, <5>3 DEF Branch
      <4>6. Agree(sr, sx, bx) /\ Agree(sx, sy, b) /\ Bit(sx, b) = z
        BY <1>6, <4>1 DEF ChildFits
      <4> HIDE DEF bx, b, sr, sx, sy
      <4>7. Agree(sr, sy, b) /\ Bit(sr, b) = z
        <5>1. Agree(sr, sx, bx) /\ b > bx => Bit(sr, b) = Bit(sx, b)
          BY <4>5, AgreeOn
        <5>2. Agree(sr, sx, bx) /\ Agree(sx, sy, b) /\ b >= bx /\ b >= b => Agree(sr, sy, b)
          BY <4>5, AgreeOn
        <5> QED
          BY <4>5, <4>6, <5>1, <5>2
      <4>8. ChunkSize(w, r) = sr /\ ChunkSize(w, y) = sy /\ Branch(w, e, y) = b
        BY <1>5, <1>6, <1>8, <4>1 DEF sr, sy, b
      <4> QED
        BY <3>5, <4>1, <4>2, <4>3, <4>4, <4>7, <4>8 DEF ChildFits
    <3>7. CASE c # x
      <4>1. v.child[z] = c /\ c \in Nodes(w)
        BY <1>1, <3>1, <3>4, <3>7
      <4>2. w.node[c].parent = y
        <5>1. m.node[c].parent = y
          BY <3>3 DEF ChildFits
        <5>2. w.node[c].parent = IF m.node[c].parent = x THEN r ELSE m.node[c].parent
          BY <3>1, <4>1 DEF Shrunk
        <5> QED
          BY <2>1, <5>1, <5>2
      <4>3. w.node[c].index = v.index
        BY <1>5, <2>2, <3>3, <4>1 DEF ChildFits
      <4>4. e[c] = e[y] + 1
        BY <1>3, <1>8, <3>1, <3>3, <4>1 DEF ChildFits
      <4>5. ChunkSize(w, c) = ChunkSize(m, c) /\ ChunkSize(w, y) = ChunkSize(m, y)
            /\ Branch(w, e, y) = Branch(m, d, y)
        BY <1>5, <1>8, <4>1
      <4> QED
        BY <3>3, <3>5, <4>1, <4>2, <4>3, <4>4, <4>5 DEF ChildFits
    <3> QED
      BY <3>6, <3>7
  <2> QED
    BY <2>3, <2>4, <2>5, <2>6, <2>7 DEF NodeFits
<1>9. ASSUME r # NULL PROVE NodeFits(w, e, r)
  <2> DEFINE n == m.node[x]
             v == w.node[r]
  <2>1. NodeFits(m, d, x) /\ NodeFits(m, d, r) /\ r \in Nodes(m) /\ r \in Nodes(w) /\ r # x
    BY <1>1, <1>6, <1>7, <1>9
  <2>2. v.parent = n.parent /\ v.index = n.index
        /\ \A z \in 0 .. 1 : v.child[z] = Cut(m, x, z, r)
    BY <1>6, <2>1, <1>9 DEF Shrunk
  <2>3. v.index = compute_tree_index(ChunkSize(w, r))
    BY <1>5, <2>1 DEF NodeFits
  <2>4. v.parent = IN_BIN <=> w.treebin[v.index] = r
    <3>1. w.treebin[n.index] = IF m.treebin[n.index] = x THEN r ELSE m.treebin[n.index]
      BY <1>1, <1>7 DEF Shrunk
    <3>2. n.parent = IN_BIN <=> m.treebin[n.index] = x
      BY <2>1 DEF NodeFits
    <3>3. m.treebin[n.index] # r
      BY <1>6, <1>9, <2>1 DEF NodeFits
    <3> QED
      BY <2>2, <3>1, <3>2, <3>3
  <2>5. v.parent = IN_BIN => e[r] = 0
    BY <1>3, <2>1, <2>2 DEF NodeFits
  <2>6. ASSUME v.parent \in Nodes(w) PROVE \E z \in 0 .. 1 : w.node[v.parent].child[z] = r
    <3> DEFINE p == n.parent
    <3>1. v.parent = p /\ p \in Nodes(m) /\ p \in Nodes(w)
      BY <1>1, <2>2, <2>6
    <3>2. PICK z \in 0 .. 1 : m.node[p].child[z] = x
      BY <2>1, <3>1 DEF NodeFits
    <3>3. p # r
      BY <1>1, <1>6, <1>9, <3>1, <3>2
    <3>4. w.node[p].child[z] = IF Cut(m, p, z, r) = x THEN r ELSE Cut(m, p, z, r)
      BY <3>1, <3>3 DEF Shrunk
    <3>5. Cut(m, p, z, r) = x
      BY <2>1, <3>2 DEF Cut
    <3> QED
      BY <3>1, <3>4, <3>5
  <2>7. ASSUME NEW z \in 0 .. 1, v.child[z] # NULL
        PROVE  ChildFits(w, e, r, z, v.child[z])
    <3> DEFINE c == n.child[z]
    <3>1. c # r /\ c # NULL /\ v.child[z] = c /\ c \in Nodes(m)
      BY <1>1, <1>7, <2>2, <2>7 DEF Cut
    <3>2. ChildFits(m, d, x, z, c)
      BY <2>1, <3>1 DEF NodeFits
    <3> HIDE DEF c
    <3>3. IsTreed(w, r)
      BY <2>1, <2>2, <3>2 DEF IsTreed, ChildFits
    <3>4. c # x
      <4>1. d[c] = d[x] + 1
        BY <3>2 DEF ChildFits
      <4>2. d[x] \in Nat
        BY <1>1, <1>2
      <4> QED
        BY <4>1, <4>2
    <3>5. c \in Nodes(w) /\ w.node[c].parent = r
      <4>1. c \in Nodes(w)
        BY <1>1, <3>1, <3>4
      <4>2. m.node[c].parent = x
        BY <3>2 DEF ChildFits
      <4> QED
        BY <3>1, <4>1, <4>2 DEF Shrunk
    <3>6. w.node[c].index = v.index
      BY <1>5, <2>2, <3>2, <3>5 DEF ChildFits
    <3>7. e[c] = e[r] + 1
      BY <1>3, <2>1, <3>1, <3>2, <3>5 DEF ChildFits
    <3> DEFINE b == Branch(m, d, x)
               sr == ChunkSize(m, r)
               sx == ChunkSize(m, x)
               sc == ChunkSize(m, c)
    <3>8. Agree(sc, sx, b) /\ Bit(sc, b) = z /\ Agree(sr, sx, b) /\ b \in Int
      BY <1>1, <1>6, <1>9, <3>2, BranchIsInt DEF ChildFits
    <3>9. ChunkSize(w, r) = sr /\ ChunkSize(w, c) = sc /\ Branch(w, e, r) = b
      BY <1>5, <1>6, <1>9, <2>1, <3>5
    <3> HIDE DEF b, sr, sx, sc
    <3>10. Agree(sc, sr, b)
      <4>1. Agree(sr, sx, b) => Agree(sx, sr, b)
        BY <3>8, AgreeOn
      <4>2. Agree(sc, sx, b) /\ Agree(sx, sr, b) /\ b >= b /\ b >= b => Agree(sc, sr, b)
        BY <3>8, AgreeOn
      <4> QED
        BY <3>8, <4>1, <4>2
    <3> QED
      BY <3>1, <3>3, <3>5, <3>6, <3>7, <3>8, <3>9, <3>10 DEF ChildFits
  <2> QED
    BY <2>3, <2>4, <2>5, <2>6, <2>7 DEF NodeFits
<1>10. ASSUME NEW j \in 0 .. 31, w.treebin[j] # NULL PROVE w.node[w.treebin[j]].index = j
  <2>1. w.treebin[j] = IF m.treebin[j] = x THEN r ELSE m.treebin[j]
    BY DEF Shrunk
  <2>2. m.treebin[j] # NULL => m.node[m.treebin[j]].index = j /\ m.treebin[j] \in Nodes(m)
    BY <1>1 DEF TreesFit, BinsTyped
  <2>3. CASE m.treebin[j] = x
    BY <1>1, <1>6, <1>10, <2>1, <2>2, <2>3
  <2>4. CASE m.treebin[j] # x
    BY <1>1, <1>5, <1>10, <2>1, <2>2, <2>4
  <2> QED
    BY <2>3, <2>4
<1>11. \A y \in Nodes(w) : NodeFits(w, e, y)
  <2> SUFFICES ASSUME NEW y \in Nodes(w) PROVE NodeFits(w, e, y)
    OBVIOUS
  <2>1. CASE y = r
    <3>1. r # NULL
      BY <1>1, <2>1
    <3> QED
      BY <1>9, <2>1, <3>1
  <2>2. CASE y # r
    BY <1>8, <2>2
  <2> QED
    BY <2>1, <2>2
<1>12. TreesFit(w, e, top)
  BY <1>1, <1>2, <1>4, <1>10, <1>11 DEF TreesFit
<1> QED
  BY <1>12

(* A tree stays a tree when a chunk goes that is only in a ring.            *)
Dropped(m, w, x) ==
    /\ BinsTyped(w)
    /\ Nodes(w) = Nodes(m) \ {x}
    /\ \A y \in Nodes(w) :
          /\ ChunkSize(w, y) = ChunkSize(m, y)
          /\ w.node[y].index = m.node[y].index
          /\ w.node[y].parent = m.node[y].parent
          /\ w.node[y].child = m.node[y].child
    /\ w.treebin = m.treebin

LEMMA DroppedFits ==
    ASSUME NEW m, NEW d, NEW top, TreesFit(m, d, top), NEW x \in Nodes(m), ~IsTreed(m, x),
           NEW w, Dropped(m, w, x)
    PROVE  \E e : TreesFit(w, e, top)
<1> DEFINE e == [y \in Nodes(w) |-> d[y]]
<1>1. BinsTyped(m) /\ BinsTyped(w) /\ Nodes(w) = Nodes(m) \ {x} /\ m.node[x].parent = NULL
  BY DEF TreesFit, Dropped, IsTreed
<1>2. top \in Nat /\ \A y \in Nodes(m) : d[y] \in 0 .. top
  BY DEF TreesFit
<1>3. \A y \in Nodes(w) : e[y] = d[y]
  OBVIOUS
<1>4. e \in [Nodes(w) -> 0 .. top]
  BY <1>1, <1>2
<1> HIDE DEF e
<1>5. \A y \in Nodes(w) : /\ w.node[y].index = m.node[y].index
                          /\ w.node[y].parent = m.node[y].parent
                          /\ w.node[y].child = m.node[y].child
                          /\ ChunkSize(w, y) = ChunkSize(m, y)
                          /\ Branch(w, e, y) = Branch(m, d, y)
                          /\ IsTreed(w, y) <=> IsTreed(m, y)
  BY <1>1, <1>3 DEF Dropped, Branch, IsTreed
<1>6. ASSUME NEW y \in Nodes(w) PROVE NodeFits(w, e, y)
  <2> DEFINE n == m.node[y]
             v == w.node[y]
  <2>1. NodeFits(m, d, y) /\ y \in Nodes(m)
    BY <1>1 DEF TreesFit
  <2>2. /\ v.index = compute_tree_index(ChunkSize(w, y))
        /\ v.parent = IN_BIN <=> w.treebin[v.index] = y
        /\ v.parent = IN_BIN => e[y] = 0
    BY <1>3, <1>5, <2>1 DEF NodeFits, Dropped
  <2>3. v.parent \in Nodes(w) => \E z \in 0 .. 1 : w.node[v.parent].child[z] = y
    <3>1. v.parent \in Nodes(w) => w.node[v.parent].child = m.node[n.parent].child
      BY <1>5
    <3> QED
      BY <1>1, <1>5, <2>1, <3>1 DEF NodeFits
  <2>4. ASSUME NEW z \in 0 .. 1, v.child[z] # NULL PROVE ChildFits(w, e, y, z, v.child[z])
    <3> DEFINE c == n.child[z]
    <3>1. v.child[z] = c /\ ChildFits(m, d, y, z, c)
      BY <1>5, <2>1, <2>4 DEF NodeFits
    <3>2. c \in Nodes(w)
      <4>1. c \in Nodes(m)
        BY <1>1, <2>1, <2>4, <3>1, NodeTypes
      <4>2. m.node[c].parent = y
        BY <3>1 DEF ChildFits
      <4>3. y # NULL
        BY <1>1, <2>1, NodeTypes
      <4> HIDE DEF c
      <4> QED
        BY <1>1, <4>1, <4>2, <4>3
    <3> HIDE DEF c
    <3> QED
      BY <1>3, <1>5, <3>1, <3>2 DEF ChildFits
  <2> QED
    BY <2>2, <2>3, <2>4 DEF NodeFits
<1>7. ASSUME NEW j \in 0 .. 31, w.treebin[j] # NULL PROVE w.node[w.treebin[j]].index = j
  <2>1. w.treebin[j] = m.treebin[j] /\ w.treebin[j] \in Nodes(w)
    BY <1>1, <1>7 DEF BinsTyped, Dropped
  <2>2. m.node[m.treebin[j]].index = j
    BY <1>7, <2>1 DEF TreesFit
  <2> QED
    BY <1>5, <2>1, <2>2
<1>8. TreesFit(w, e, top)
  BY <1>1, <1>2, <1>4, <1>6, <1>7 DEF TreesFit
<1> QED
  BY <1>8

(* Place j of what is left of a ring, in the ring of n that lost place k.   *)
Passing(j, k) == IF j < k THEN j ELSE j + 1

(* The links of a ring that closes behind place k.                          *)
Closes(n, k, j) ==
    LET u == Passing(j, k) IN
    /\ u \in 1 .. n /\ u # k
    /\ Before(n - 1, j) \in 1 .. n - 1 /\ After(n - 1, j) \in 1 .. n - 1
    /\ Before(n, k) \in 1 .. n /\ After(n, k) \in 1 .. n
    /\ Passing(Before(n - 1, j), k) = IF u = After(n, k) THEN Before(n, k) ELSE Before(n, u)
    /\ Passing(After(n - 1, j), k) = IF u = Before(n, k) THEN After(n, k) ELSE After(n, u)
    /\ j = 1 <=> u = 1 \/ (k = 1 /\ u = After(n, k))
    /\ \A i \in 1 .. n - 1 : Passing(i, k) = u => i = j
    /\ \A i \in 1 .. n : i # k => \E l \in 1 .. n - 1 : Passing(l, k) = i

LEMMA RingCloses ==
    ASSUME NEW n \in Nat, NEW k \in 1 .. n, NEW j \in 1 .. n - 1
    PROVE  Closes(n, k, j)
<1>1. /\ Passing(j, k) \in 1 .. n /\ Passing(j, k) # k
      /\ Before(n - 1, j) \in 1 .. n - 1 /\ After(n - 1, j) \in 1 .. n - 1
      /\ Before(n, k) \in 1 .. n /\ After(n, k) \in 1 .. n
  BY DEF Passing, Before, After
<1>2. Passing(Before(n - 1, j), k) =
        IF Passing(j, k) = After(n, k) THEN Before(n, k) ELSE Before(n, Passing(j, k))
  BY DEF Passing, Before, After
<1>3. Passing(After(n - 1, j), k) =
        IF Passing(j, k) = Before(n, k) THEN After(n, k) ELSE After(n, Passing(j, k))
  BY DEF Passing, Before, After
<1>4. j = 1 <=> Passing(j, k) = 1 \/ (k = 1 /\ Passing(j, k) = After(n, k))
  BY DEF Passing, Before, After
<1>5. \A i \in 1 .. n - 1 : Passing(i, k) = Passing(j, k) => i = j
  BY DEF Passing
<1>6. ASSUME NEW i \in 1 .. n, i # k PROVE \E l \in 1 .. n - 1 : Passing(l, k) = i
  <2>1. CASE i < k
    <3>1. i \in 1 .. n - 1 /\ Passing(i, k) = i
      BY <2>1 DEF Passing
    <3> QED
      BY <3>1
  <2>2. CASE i > k
    <3>1. i - 1 \in 1 .. n - 1 /\ Passing(i - 1, k) = i
      BY <2>2 DEF Passing
    <3> QED
      BY <3>1
  <2> QED
    BY <1>6, <2>1, <2>2
<1> QED
  BY <1>1, <1>2, <1>3, <1>4, <1>5, <1>6 DEF Closes

(* What is in the state w that m becomes when the ring of x closes behind   *)
(* it: the chunk that came after x is in the tree if x was.                 *)
Left(m, w, x) ==
    LET n == m.node[x] IN
    /\ Nodes(w) = Nodes(m) \ {x}
    /\ \A y \in Nodes(w) :
          /\ ChunkSize(w, y) = ChunkSize(m, y)
          /\ w.node[y].fd = IF y = n.bk THEN n.fd ELSE m.node[y].fd
          /\ w.node[y].bk = IF y = n.fd THEN n.bk ELSE m.node[y].bk
          /\ w.node[y].parent # NULL <=> m.node[y].parent # NULL \/ (IsTreed(m, x) /\ y = n.bk)

(* A ring stays a ring, in the order of arrival, when a chunk goes.         *)
LEMMA LeftFits ==
    ASSUME NEW m, NEW q, RingsFit(m, q), NEW x \in Nodes(m), NEW w, Left(m, w, x)
    PROVE  RingsFit(w, [q EXCEPT ![ChunkSize(m, x)] = Removed(@, x)])
<1> DEFINE s == ChunkSize(m, x)
           a == q[s]
           n == Len(a)
           b == Removed(a, x)
           r == [q EXCEPT ![s] = Removed(@, x)]
<1>1. /\ s \in DOMAIN q /\ a \in Seq(Nodes(m)) /\ n \in Nat
      /\ \A i \in 1 .. n : InRing(m, a, s, i) /\ a[i] \in Nodes(m)
      /\ \E i \in 1 .. n : a[i] = x
  <2>1. s \in DOMAIN q /\ a \in Seq(Nodes(m)) /\ n \in Nat
        /\ \A i \in 1 .. n : InRing(m, a, s, i)
    BY PlaceInRing
  <2>2. \E i \in 1 .. n : a[i] = x
    BY PlaceInRing
  <2> QED
    BY <2>1, <2>2
<1>2. PICK k \in 1 .. n : a[k] = x
  BY <1>1
<1>3. \A i \in 1 .. n : a[i] = x => i = k
  BY <1>1, <1>2 DEF InRing
<1>4. /\ Nodes(w) = Nodes(m) \ {x}
      /\ \A y \in Nodes(w) : ChunkSize(w, y) = ChunkSize(m, y)
  BY DEF Left
<1>5. b = [j \in 1 .. n - 1 |-> a[Passing(j, k)]]
  <2> DEFINE l == CHOOSE i \in DOMAIN a : a[i] = x
  <2>1. DOMAIN a = 1 .. n
    BY <1>1
  <2>2. l = k
    <3>1. l \in 1 .. n /\ a[l] = x
      BY <1>1, <2>1
    <3> HIDE DEF l
    <3> QED
      BY <1>3, <3>1
  <2>3. b = [j \in 1 .. n - 1 |-> a[IF j < l THEN j ELSE j + 1]]
    BY DEF Removed
  <2> HIDE DEF l, b, a
  <2> QED
    BY <2>2, <2>3 DEF Passing
<1>6. /\ DOMAIN r = DOMAIN q /\ s \in DOMAIN r /\ r[s] = b
      /\ \A t \in DOMAIN q : t # s => r[t] = q[t]
  BY <1>1
<1> HIDE DEF b, r, n
<1>7. \A i \in 1 .. n - 1 : Passing(i, k) \in 1 .. n /\ Passing(i, k) # k
  BY <1>1, <1>2 DEF Passing
<1>8. /\ n - 1 \in Nat /\ b \in Seq(Nodes(w)) /\ Len(b) = n - 1
      /\ \A i \in 1 .. n - 1 : b[i] = a[Passing(i, k)] /\ b[i] \in Nodes(w) /\ b[i] \in Nodes(m)
  <2>1. n - 1 \in Nat
    BY <1>1, <1>2
  <2>2. \A i \in 1 .. n - 1 : a[Passing(i, k)] \in Nodes(m) /\ a[Passing(i, k)] # x
    BY <1>1, <1>3, <1>7
  <2>3. b \in [1 .. n - 1 -> Nodes(w)]
    BY <1>4, <1>5, <2>2
  <2>4. b \in Seq(Nodes(w))
    BY <2>1, <2>3
  <2>5. Len(b) = n - 1
    BY <1>5, <2>1, <2>4
  <2> QED
    BY <1>4, <1>5, <2>1, <2>2, <2>4, <2>5
<1>9. /\ m.node[x].fd = a[Before(n, k)] /\ m.node[x].bk = a[After(n, k)]
      /\ IsTreed(m, x) <=> k = 1
  <2>1. InRing(m, a, s, k)
    BY <1>1
  <2> QED
    BY <1>2, <2>1 DEF InRing, IsTreed, n
<1>10. ASSUME NEW j \in 1 .. n - 1 PROVE InRing(w, b, s, j)
  <2> DEFINE u == Passing(j, k)
             y == b[j]
             v == w.node[y]
  <2>1. /\ u \in 1 .. n /\ u # k
        /\ Before(n - 1, j) \in 1 .. n - 1 /\ After(n - 1, j) \in 1 .. n - 1
        /\ Before(n, k) \in 1 .. n /\ After(n, k) \in 1 .. n
        /\ Passing(Before(n - 1, j), k) = IF u = After(n, k) THEN Before(n, k) ELSE Before(n, u)
        /\ Passing(After(n - 1, j), k) = IF u = Before(n, k) THEN After(n, k) ELSE After(n, u)
        /\ j = 1 <=> u = 1 \/ (k = 1 /\ u = After(n, k))
        /\ \A i \in 1 .. n - 1 : Passing(i, k) = u => i = j
    <3>1. Closes(n, k, j)
      BY <1>1, RingCloses
    <3> QED
      BY <3>1 DEF Closes
  <2> HIDE DEF u
  <2>2. y = a[u] /\ y \in Nodes(m) /\ y \in Nodes(w) /\ InRing(m, a, s, u)
    BY <1>1, <1>8, <2>1 DEF u
  <2>3. /\ ChunkSize(m, y) = s /\ m.node[y].fd = a[Before(n, u)] /\ m.node[y].bk = a[After(n, u)]
        /\ m.node[y].parent # NULL <=> u = 1
        /\ \A i \in 1 .. n : a[i] = a[u] => i = u
    BY <2>2 DEF InRing, n
  <2> HIDE DEF y
  <2>4. (y = m.node[x].bk <=> u = After(n, k)) /\ (y = m.node[x].fd <=> u = Before(n, k))
    <3>1. (a[After(n, k)] = a[u] <=> u = After(n, k)) /\ (a[Before(n, k)] = a[u] <=> u = Before(n, k))
      BY <2>1, <2>3
    <3> QED
      BY <1>9, <2>2, <3>1
  <2>5. /\ ChunkSize(w, y) = s
        /\ v.fd = IF y = m.node[x].bk THEN m.node[x].fd ELSE m.node[y].fd
        /\ v.bk = IF y = m.node[x].fd THEN m.node[x].bk ELSE m.node[y].bk
        /\ v.parent # NULL <=> m.node[y].parent # NULL \/ (IsTreed(m, x) /\ y = m.node[x].bk)
    BY <2>2, <2>3 DEF Left
  <2> HIDE DEF v
  <2>6. v.fd = b[Before(n - 1, j)]
    <3>1. b[Before(n - 1, j)] = a[Passing(Before(n - 1, j), k)]
      BY <1>8, <2>1
    <3>2. CASE u = After(n, k)
      <4>1. v.fd = a[Before(n, k)]
        BY <1>9, <2>4, <2>5, <3>2
      <4>2. Passing(Before(n - 1, j), k) = Before(n, k)
        BY <2>1, <3>2
      <4> QED
        BY <3>1, <4>1, <4>2, Zenon
    <3>3. CASE u # After(n, k)
      <4>1. v.fd = a[Before(n, u)]
        BY <2>3, <2>4, <2>5, <3>3
      <4>2. Passing(Before(n - 1, j), k) = Before(n, u)
        BY <2>1, <3>3
      <4> QED
        BY <3>1, <4>1, <4>2, Zenon
    <3> QED
      BY <3>2, <3>3
  <2>7. v.bk = b[After(n - 1, j)]
    <3>1. b[After(n - 1, j)] = a[Passing(After(n - 1, j), k)]
      BY <1>8, <2>1
    <3>2. CASE u = Before(n, k)
      <4>1. v.bk = a[After(n, k)]
        BY <1>9, <2>4, <2>5, <3>2
      <4>2. Passing(After(n - 1, j), k) = After(n, k)
        BY <2>1, <3>2
      <4> QED
        BY <3>1, <4>1, <4>2, Zenon
    <3>3. CASE u # Before(n, k)
      <4>1. v.bk = a[After(n, u)]
        BY <2>3, <2>4, <2>5, <3>3
      <4>2. Passing(After(n - 1, j), k) = After(n, u)
        BY <2>1, <3>3
      <4> QED
        BY <3>1, <4>1, <4>2, Zenon
    <3> QED
      BY <3>2, <3>3
  <2>8. v.parent # NULL <=> j = 1
    BY <1>9, <2>1, <2>3, <2>4, <2>5
  <2>9. \A i \in 1 .. n - 1 : b[i] = b[j] => i = j
    <3> SUFFICES ASSUME NEW i \in 1 .. n - 1, b[i] = b[j] PROVE i = j
      OBVIOUS
    <3>1. b[i] = a[Passing(i, k)] /\ Passing(i, k) \in 1 .. n
      BY <1>7, <1>8
    <3>2. b[j] = a[u]
      BY <2>2 DEF y
    <3>3. a[Passing(i, k)] = a[u]
      BY <3>1, <3>2, Zenon
    <3>4. Passing(i, k) = u
      BY <2>3, <3>1, <3>3
    <3> QED
      BY <2>1, <3>4
  <2>10. Len(b) = n - 1
    BY <1>8
  <2>11. /\ ChunkSize(w, b[j]) = s /\ w.node[b[j]].fd = b[Before(n - 1, j)]
         /\ w.node[b[j]].bk = b[After(n - 1, j)]
         /\ w.node[b[j]].parent # NULL <=> j = 1
    BY <2>5, <2>6, <2>7, <2>8 DEF v, y
  <2> QED
    BY <2>9, <2>10, <2>11 DEF InRing
<1>11. ASSUME NEW t \in DOMAIN q, t # s, NEW k2 \in 1 .. Len(q[t])
       PROVE  q[t] \in Seq(Nodes(w)) /\ InRing(w, q[t], t, k2)
  <2> DEFINE c == q[t]
             y == c[k2]
  <2>1. c \in Seq(Nodes(m)) /\ \A i \in 1 .. Len(c) : InRing(m, c, t, i) /\ c[i] \in Nodes(m)
    BY DEF RingsFit
  <2>2. \A i \in 1 .. Len(c) : c[i] # x /\ c[i] \in Nodes(w)
    BY <1>4, <1>11, <2>1 DEF InRing
  <2>3. c \in Seq(Nodes(w))
    <3>1. Len(c) \in Nat /\ c = [i \in 1 .. Len(c) |-> c[i]]
      BY <2>1
    <3> HIDE DEF c
    <3>2. c \in [1 .. Len(c) -> Nodes(w)]
      BY <2>2, <3>1
    <3> QED
      BY <3>1, <3>2
  <2>4. y \in Nodes(w) /\ y \in Nodes(m) /\ InRing(m, c, t, k2) /\ ChunkSize(m, y) = t
    BY <2>1, <2>2 DEF InRing
  <2>5. y # m.node[x].bk /\ y # m.node[x].fd
    <3>1. Before(n, k) \in 1 .. n /\ After(n, k) \in 1 .. n
      BY <1>1, <1>2 DEF Before, After
    <3>2. ChunkSize(m, a[Before(n, k)]) = s /\ ChunkSize(m, a[After(n, k)]) = s
      BY <1>1, <3>1 DEF InRing
    <3> QED
      BY <1>9, <1>11, <2>4, <3>2, Zenon
  <2>6. /\ ChunkSize(w, y) = t
        /\ w.node[y].fd = m.node[y].fd /\ w.node[y].bk = m.node[y].bk
        /\ w.node[y].parent # NULL <=> m.node[y].parent # NULL
    BY <2>4, <2>5 DEF Left
  <2> QED
    BY <2>3, <2>4, <2>6 DEF InRing
<1>12. ASSUME NEW y \in Nodes(w)
       PROVE  LET t == ChunkSize(w, y) IN t \in DOMAIN r /\ \E i \in 1 .. Len(r[t]) : r[t][i] = y
  <2> DEFINE t == ChunkSize(m, y)
  <2>1. ChunkSize(w, y) = t /\ y \in Nodes(m) /\ y # x
    BY <1>4
  <2>2. t \in DOMAIN q /\ \E i \in 1 .. Len(q[t]) : q[t][i] = y
    BY <2>1 DEF RingsFit
  <2> HIDE DEF t
  <2>3. CASE t = s
    <3>1. PICK i \in 1 .. n : a[i] = y
      BY <2>2, <2>3 DEF n
    <3>2. i # k
      BY <1>2, <2>1, <3>1
    <3>3. PICK l \in 1 .. n - 1 : Passing(l, k) = i
      <4>1. 1 \in 1 .. n - 1
        BY <1>1, <1>2, <3>1, <3>2
      <4> QED
        <5>1. Closes(n, k, 1)
          BY <1>1, <4>1, RingCloses
        <5> QED
          BY <3>1, <3>2, <5>1 DEF Closes
    <3>4. b[l] = y
      BY <1>8, <3>1, <3>3
    <3> QED
      BY <1>6, <1>8, <2>1, <2>3, <3>4
  <2>4. CASE t # s
    BY <1>6, <2>1, <2>2, <2>4
  <2> QED
    BY <2>3, <2>4
<1>13. ASSUME NEW t \in DOMAIN r
       PROVE  r[t] \in Seq(Nodes(w)) /\ \A i \in 1 .. Len(r[t]) : InRing(w, r[t], t, i)
  <2>1. CASE t = s
    BY <1>6, <1>8, <1>10, <2>1
  <2>2. CASE t # s
    <3>1. t \in DOMAIN q /\ r[t] = q[t]
      BY <1>6, <2>2
    <3>2. q[t] \in Seq(Nodes(w))
      <4>1. q[t] \in Seq(Nodes(m))
        BY <3>1 DEF RingsFit
      <4>2. CASE Len(q[t]) = 0
        BY <4>1, <4>2
      <4>3. CASE Len(q[t]) # 0
        <5>1. 1 \in 1 .. Len(q[t])
          BY <4>1, <4>3
        <5> QED
          BY <1>11, <2>2, <3>1, <5>1
      <4> QED
        BY <4>2, <4>3
    <3> QED
      BY <1>11, <2>2, <3>1, <3>2
  <2> QED
    BY <2>1, <2>2
<1>14. RingsFit(w, r)
  BY <1>12, <1>13 DEF RingsFit
<1> QED
  BY <1>14 DEF r

(* The walk of LeafLink.                                                    *)
LinkSide(m, t) == IF m.node[t].child[1] # NULL THEN 1 ELSE 0

LinkNext(m, t) == m.node[t].child[LinkSide(m, t)]

IsLeaf(m, c) == \A z \in 0 .. 1 : m.node[c].child[z] = NULL

LeafLinkOf(m, g) ==
    g = [t \in DOMAIN m.node |->
          LET side == IF m.node[t].child[1] # NULL THEN 1 ELSE 0
              next == m.node[t].child[side]
          IN  IF next = NULL \/ Range(m.node[next].child) = {NULL}
              THEN [of |-> t, side |-> side, leaf |-> next]
              ELSE g[next]]

LeafLinks(m) == CHOOSE g : LeafLinkOf(m, g)

(* There is such a walk.                                                    *)
LEMMA LinksExist ==
    ASSUME NEW m, NEW d, NEW top, TreesFit(m, d, top)
    PROVE  \A t \in Nodes(m) :
              LET c == LinkNext(m, t) IN
              LeafLinks(m)[t] = IF c = NULL \/ IsLeaf(m, c)
                            THEN [of |-> t, side |-> LinkSide(m, t), leaf |-> c]
                            ELSE LeafLinks(m)[c]
<1> DEFINE D == DOMAIN m.node
           R == [of : D, side : 0 .. 1, leaf : D \cup {NULL}]
           stop == [t \in D |-> LinkNext(m, t) = NULL \/ IsLeaf(m, LinkNext(m, t))]
           next == [t \in D |-> LinkNext(m, t)]
           base == [t \in D |-> [of |-> t, side |-> LinkSide(m, t), leaf |-> LinkNext(m, t)]]
           join == [p \in D \X R |-> p[2]]
           high == [t \in D |-> top - d[t]]
<1>1. ASSUME NEW t \in D
      PROVE  /\ LinkSide(m, t) \in 0 .. 1 /\ LinkNext(m, t) \in D \cup {NULL}
             /\ top - d[t] \in Nat
  <2>1. t \in Nodes(m) /\ LinkSide(m, t) \in 0 .. 1 /\ BinsTyped(m)
    BY DEF LinkSide, Nodes, TreesFit
  <2>2. m.node[t].child[LinkSide(m, t)] \in Nodes(m) \cup {NULL}
    BY <2>1, NodeTypes
  <2>3. top - d[t] \in Nat
    BY <2>1, BranchIsInt
  <2> QED
    BY <2>1, <2>2, <2>3 DEF LinkNext, Nodes
<1>2. high \in [D -> Nat]
  BY <1>1
<1>3. \A t \in D : base[t] \in R
  BY <1>1
<1>4. \A t \in D : \A e \in R : join[<<t, e>>] \in R
  OBVIOUS
<1>5. ASSUME NEW t \in D, ~stop[t] PROVE next[t] \in D /\ high[next[t]] < high[t]
  <2> DEFINE c == LinkNext(m, t)
  <2>1. c \in D /\ next[t] = c /\ c # NULL
    BY <1>1, <1>5
  <2>2. ChildFits(m, d, t, LinkSide(m, t), c)
    BY <1>1, <2>1 DEF LinkNext, TreesFit, NodeFits, Nodes
  <2>3. d[c] = d[t] + 1
    BY <2>2 DEF ChildFits
  <2>4. d[t] \in Nat /\ top \in Nat
    BY BranchIsInt DEF Nodes
  <2>5. high[c] = top - d[c] /\ high[t] = top - d[t]
    BY <2>1
  <2> HIDE DEF c, high, next
  <2> QED
    BY <2>1, <2>3, <2>4, <2>5
<1> HIDE DEF high, stop, next, base, join
<1>6. PICK g \in [D -> R] : WalkOf(g, D, stop, next, base, join)
  <2> HIDE DEF D, R
  <2> QED
    BY <1>2, <1>3, <1>4, <1>5, WalksExist
<1>7. ASSUME NEW c \in D PROVE Range(m.node[c].child) = {NULL} <=> IsLeaf(m, c)
  <2>1. m.node[c].child \in [0 .. 1 -> Nodes(m) \cup {NULL}]
    BY DEF TreesFit, BinsTyped, NodeType, Nodes
  <2> DEFINE f == m.node[c].child
  <2> HIDE DEF f
  <2>2. DOMAIN f = 0 .. 1
    BY <2>1 DEF f
  <2>3. Range(f) = {f[z] : z \in 0 .. 1}
    BY <2>2 DEF Range
  <2>4. Range(f) = {NULL} <=> \A z \in 0 .. 1 : f[z] = NULL
    BY <2>3
  <2> QED
    BY <2>4 DEF IsLeaf, f
<1>8. ASSUME NEW t \in D
      PROVE  LET side == IF m.node[t].child[1] # NULL THEN 1 ELSE 0
                 c == m.node[t].child[side]
             IN  g[t] = IF c = NULL \/ Range(m.node[c].child) = {NULL}
                        THEN [of |-> t, side |-> side, leaf |-> c]
                        ELSE g[c]
  <2> DEFINE side == LinkSide(m, t)
             c == LinkNext(m, t)
  <2>1. g[t] = IF stop[t] THEN base[t] ELSE join[<<t, g[next[t]]>>]
    BY <1>6 DEF WalkOf
  <2>2. ~stop[t] => join[<<t, g[next[t]]>>] = g[c]
    <3>1. ~stop[t] => next[t] = c /\ g[c] \in R
      BY <1>5, <1>6 DEF next
    <3> QED
      BY <3>1 DEF join
  <2>3. base[t] = [of |-> t, side |-> side, leaf |-> c]
    BY DEF base
  <2>4. stop[t] <=> c = NULL \/ Range(m.node[c].child) = {NULL}
    <3>1. c \in D \cup {NULL}
      BY <1>1
    <3>2. stop[t] <=> c = NULL \/ IsLeaf(m, c)
      BY DEF stop
    <3> QED
      BY <1>7, <3>1, <3>2
  <2>5. g[t] = IF c = NULL \/ Range(m.node[c].child) = {NULL}
               THEN [of |-> t, side |-> side, leaf |-> c]
               ELSE g[c]
    <3> HIDE DEF side, c
    <3> QED
      BY <2>1, <2>2, <2>3, <2>4
  <2> QED
    BY <2>5 DEF LinkSide, LinkNext
<1>9. LeafLinkOf(m, g)
  <2>1. g = [t \in D |-> g[t]]
    BY <1>6
  <2> QED
    BY <1>8, <2>1 DEF LeafLinkOf
<1>10. LeafLinkOf(m, LeafLinks(m))
  BY <1>9 DEF LeafLinks
<1> DEFINE h == LeafLinks(m)
<1>11. LeafLinkOf(m, h)
  BY <1>10
<1> HIDE DEF h
<1>12. ASSUME NEW t \in D
       PROVE  LET c == LinkNext(m, t) IN
              h[t] = IF c = NULL \/ IsLeaf(m, c)
                     THEN [of |-> t, side |-> LinkSide(m, t), leaf |-> c]
                     ELSE h[c]
  <2>1. LinkNext(m, t) \in D \cup {NULL}
    BY <1>1
  <2>2. LET c == LinkNext(m, t) IN
        h[t] = IF c = NULL \/ Range(m.node[c].child) = {NULL}
               THEN [of |-> t, side |-> LinkSide(m, t), leaf |-> c]
               ELSE h[c]
    BY <1>11 DEF LeafLinkOf, LinkNext, LinkSide
  <2> QED
    BY <1>7, <2>1, <2>2
<1> QED
  BY <1>12 DEF h, Nodes

(* What the walk from x ends with: nothing where nothing is below x, or a   *)
(* leaf below it and the link to it.                                        *)
LinksLeaf(m, d, x, l) ==
    IF l.leaf = NULL THEN IsLeaf(m, x)
    ELSE /\ IsTreed(m, l.leaf) /\ l.leaf \in Under(m, d, x) /\ d[x] < d[l.leaf]
         /\ IsLeaf(m, l.leaf)
         /\ l.of \in Nodes(m) /\ l.side \in 0 .. 1
         /\ m.node[l.of].child[l.side] = l.leaf

LEMMA LeafLinkEnds ==
    ASSUME NEW m, NEW d, NEW top, TreesFit(m, d, top), NEW x, IsTreed(m, x)
    PROVE  LinksLeaf(m, d, x, LeafLink(m, x))
<1> DEFINE g == LeafLinks(m)
           Good(t) == LinksLeaf(m, d, t, g[t])
           Bad == {n \in Nat : \E t : IsTreed(m, t) /\ ~Good(t) /\ top - d[t] = n}
<1>1. LeafLink(m, x) = g[x]
  BY DEF LeafLink, LeafLinks, LeafLinkOf
<1>2. \A t : IsTreed(m, t) => t \in Nodes(m) /\ d[t] \in Nat /\ top \in Nat /\ top - d[t] \in Nat
  BY BranchIsInt DEF IsTreed
<1>3. SUFFICES ASSUME Bad # {} PROVE FALSE
  <2>1. Bad = {} => Good(x)
    <3> HIDE DEF Good
    <3> QED
      BY <1>2
  <2> QED
    BY <1>1, <2>1, <1>3
<1>4. PICK n \in Bad : \A k \in Bad : n <= k
  <2>1. Bad \in SUBSET Nat
    OBVIOUS
  <2> HIDE DEF Bad
  <2> QED
    BY <1>3, <2>1, LeastNat
<1>5. PICK t : IsTreed(m, t) /\ ~Good(t) /\ top - d[t] = n
  BY <1>4
<1> DEFINE c == LinkNext(m, t)
           side == LinkSide(m, t)
<1>6. g[t] = IF c = NULL \/ IsLeaf(m, c) THEN [of |-> t, side |-> side, leaf |-> c] ELSE g[c]
  BY <1>2, <1>5, LinksExist
<1>7. side \in 0 .. 1 /\ c = m.node[t].child[side] /\ t \in Nodes(m)
  BY <1>2, <1>5 DEF LinkSide, LinkNext
<1> HIDE DEF g
<1>8. CASE c = NULL
  <2>1. IsLeaf(m, t)
    <3>1. m.node[t].child[1] = NULL /\ m.node[t].child[0] = NULL
      BY <1>8 DEF LinkNext, LinkSide
    <3> QED
      BY <3>1 DEF IsLeaf
  <2>2. g[t].leaf = NULL
    BY <1>6, <1>8
  <2> QED
    BY <1>5, <2>1, <2>2 DEF LinksLeaf
<1>9. CASE c # NULL
  <2>1. /\ IsTreed(m, c) /\ ChildFits(m, d, t, side, c)
        /\ \A y \in Under(m, d, c) : y \in Under(m, d, t)
    <3> HIDE DEF c, side
    <3>1. \A z \in 0 .. 1 : m.node[t].child[z] # NULL =>
             /\ IsTreed(m, m.node[t].child[z]) /\ ChildFits(m, d, t, z, m.node[t].child[z])
             /\ \A y \in Under(m, d, m.node[t].child[z]) : y \in Under(m, d, t)
      BY <1>5, ChildrenAreUnder
    <3> QED
      BY <1>7, <1>9, <3>1
  <2>2. d[c] = d[t] + 1 /\ c \in Under(m, d, c)
    BY <2>1, ChildrenAreUnder DEF ChildFits
  <2> HIDE DEF c, side
  <2>3. CASE IsLeaf(m, c)
    <3>1. g[t].of = t /\ g[t].side = side /\ g[t].leaf = c
      BY <1>6, <2>3
    <3>2. d[t] < d[c]
      BY <1>2, <1>5, <2>2
    <3> QED
      BY <1>5, <1>7, <1>9, <2>1, <2>2, <2>3, <3>1, <3>2 DEF LinksLeaf
  <2>4. CASE ~IsLeaf(m, c)
    <3>1. g[t] = g[c]
      BY <1>6, <1>9, <2>4
    <3>2. Good(c)
      <4>1. SUFFICES ASSUME ~Good(c) PROVE FALSE
        OBVIOUS
      <4>2. top - d[c] \in Bad
        BY <1>2, <2>1, <4>1
      <4> HIDE DEF Bad
      <4> QED
        BY <1>2, <1>4, <1>5, <2>1, <2>2, <4>2
    <3>3. g[c].leaf # NULL
      BY <2>4, <3>2 DEF LinksLeaf
    <3>4. d[g[c].leaf] \in Nat /\ d[t] < d[g[c].leaf]
      BY <1>2, <1>5, <2>1, <2>2, <3>2, <3>3 DEF LinksLeaf
    <3> QED
      BY <1>5, <2>1, <3>1, <3>2, <3>3, <3>4 DEF LinksLeaf
  <2> QED
    BY <2>3, <2>4
<1> QED
  BY <1>8, <1>9
-----------------------------------------------------------------------------
(* How the links of two chunks of a ring answer each other.                 *)
LEMMA RingLinks ==
    ASSUME NEW m, NEW q, RingsFit(m, q), NEW x \in Nodes(m)
    PROVE  /\ m.node[x].fd \in Nodes(m) /\ m.node[x].bk \in Nodes(m)
           /\ \A y \in Nodes(m) : (m.node[y].fd = x <=> y = m.node[x].bk)
                                  /\ (m.node[y].bk = x <=> y = m.node[x].fd)
           /\ ChunkSize(m, m.node[x].bk) = ChunkSize(m, x)
           /\ m.node[x].bk = x => IsTreed(m, x)
           /\ m.node[x].bk # x /\ IsTreed(m, x) => ~IsTreed(m, m.node[x].bk)
<1> DEFINE s == ChunkSize(m, x)
           a == q[s]
           n == Len(a)
<1>1. PICK k \in 1 .. n : a[k] = x
  <2>1. \E k \in 1 .. n : a[k] = x
    BY DEF RingsFit
  <2> QED
    BY <2>1
<1>2. n \in Nat /\ \A i \in 1 .. n : InRing(m, a, s, i)
  BY PlaceInRing
<1>3. \A i \in 1 .. n : a[i] \in Nodes(m)
  <2>1. a \in [1 .. n -> Nodes(m)]
    BY PlaceInRing
  <2> QED
    BY <2>1
<1> HIDE DEF a, n
<1>4. /\ Before(n, k) \in 1 .. n /\ After(n, k) \in 1 .. n
      /\ \A i \in 1 .. n : (Before(n, i) = k <=> i = After(n, k))
                           /\ (After(n, i) = k <=> i = Before(n, k))
      /\ (After(n, k) = k => n = 1 /\ k = 1)
      /\ (After(n, k) # k /\ k = 1 => After(n, k) # 1)
  BY <1>1, <1>2 DEF Before, After
<1>5. \A i \in 1 .. n : /\ m.node[a[i]].fd = a[Before(n, i)]
                        /\ m.node[a[i]].bk = a[After(n, i)]
                        /\ IsTreed(m, a[i]) <=> i = 1
                        /\ ChunkSize(m, a[i]) = s
                        /\ \A j \in 1 .. n : a[j] = a[i] => j = i
  BY <1>2, <1>3 DEF InRing, IsTreed, n
<1> DEFINE p == After(n, k)
           b == Before(n, k)
<1>6. m.node[x].bk = a[p] /\ m.node[x].fd = a[b] /\ p \in 1 .. n /\ b \in 1 .. n
      /\ (IsTreed(m, x) <=> k = 1)
  BY <1>1, <1>4, <1>5
<1> HIDE DEF p, b
<1>7. ASSUME NEW y \in Nodes(m)
      PROVE  (m.node[y].fd = x <=> y = m.node[x].bk) /\ (m.node[y].bk = x <=> y = m.node[x].fd)
  <2>1. CASE ChunkSize(m, y) = s
    <3>1. \E i \in 1 .. Len(q[ChunkSize(m, y)]) : q[ChunkSize(m, y)][i] = y
      BY DEF RingsFit
    <3>2. \E i \in 1 .. Len(a) : a[i] = y
      BY <2>1, <3>1, Zenon DEF a
    <3>3. PICK i \in 1 .. n : a[i] = y
      BY <3>2 DEF n
    <3>4. m.node[y].fd = a[Before(n, i)] /\ m.node[y].bk = a[After(n, i)]
      BY <1>5, <3>3
    <3>5. Before(n, i) \in 1 .. n /\ After(n, i) \in 1 .. n
      BY <1>2 DEF Before, After
    <3>6. a[Before(n, i)] = x <=> Before(n, i) = k
      BY <1>1, <1>5, <3>5
    <3>7. a[After(n, i)] = x <=> After(n, i) = k
      BY <1>1, <1>5, <3>5
    <3>8. (y = a[p] <=> i = p) /\ (y = a[b] <=> i = b)
      BY <1>5, <1>6, <3>3
    <3>9. (Before(n, i) = k <=> i = p) /\ (After(n, i) = k <=> i = b)
      BY <1>4 DEF p, b
    <3> QED
      BY <1>6, <3>4, <3>6, <3>7, <3>8, <3>9
  <2>2. CASE ChunkSize(m, y) # s
    <3> DEFINE c == q[ChunkSize(m, y)]
    <3>1. PICK i \in 1 .. Len(c) : c[i] = y
      BY DEF RingsFit
    <3>2. Len(c) \in Nat /\ \A j \in 1 .. Len(c) : InRing(m, c, ChunkSize(m, y), j)
      BY PlaceInRing
    <3>3. Before(Len(c), i) \in 1 .. Len(c) /\ After(Len(c), i) \in 1 .. Len(c)
      BY <3>2 DEF Before, After
    <3>4. /\ ChunkSize(m, m.node[y].fd) = ChunkSize(m, y)
          /\ ChunkSize(m, m.node[y].bk) = ChunkSize(m, y)
      <4>1. /\ m.node[c[i]].fd = c[Before(Len(c), i)]
            /\ m.node[c[i]].bk = c[After(Len(c), i)]
        BY <3>2 DEF InRing
      <4>2. /\ ChunkSize(m, c[Before(Len(c), i)]) = ChunkSize(m, y)
            /\ ChunkSize(m, c[After(Len(c), i)]) = ChunkSize(m, y)
        BY <3>2, <3>3 DEF InRing
      <4> QED
        BY <3>1, <4>1, <4>2, Zenon
    <3>5. m.node[y].fd # x /\ m.node[y].bk # x
      BY <2>2, <3>4
    <3>6. ChunkSize(m, a[p]) = s /\ ChunkSize(m, a[b]) = s
      BY <1>5, <1>6
    <3>7. y # a[p] /\ y # a[b]
      BY <2>2, <3>6
    <3> QED
      BY <1>6, <3>5, <3>7
  <2> QED
    BY <2>1, <2>2
<1>8. ASSUME m.node[x].bk = x PROVE IsTreed(m, x)
  <2>1. p = k
    BY <1>1, <1>5, <1>6, <1>8
  <2> QED
    BY <1>4, <1>6, <2>1 DEF p
<1>9. ASSUME m.node[x].bk # x, IsTreed(m, x) PROVE ~IsTreed(m, m.node[x].bk)
  <2>1. k = 1 /\ p # k
    BY <1>1, <1>6, <1>9
  <2>2. p # 1
    BY <1>4, <2>1 DEF p
  <2>3. ~IsTreed(m, a[p])
    BY <1>5, <1>6, <2>2
  <2> QED
    BY <1>6, <2>3
<1>10. ChunkSize(m, m.node[x].bk) = s
  <2>1. ChunkSize(m, a[p]) = s
    BY <1>5, <1>6
  <2> QED
    BY <1>6, <2>1, Zenon
<1> QED
  BY <1>3, <1>6, <1>7, <1>8, <1>9, <1>10

(* What is in the nodes before r gets the place of x: the ring of x is      *)
(* closed, and the link to r is cut.                                        *)
Prepared(m, nodes, x, r) ==
    /\ DOMAIN nodes = Nodes(m)
    /\ \A y \in Nodes(m) :
          LET n == m.node[x] IN
          /\ nodes[y] \in NodeType(Nodes(m))
          /\ nodes[y].parent = m.node[y].parent /\ nodes[y].index = m.node[y].index
          /\ nodes[y].fd = IF y = n.bk THEN n.fd ELSE m.node[y].fd
          /\ nodes[y].bk = IF y = n.fd THEN n.bk ELSE m.node[y].bk
          /\ \A z \in 0 .. 1 : nodes[y].child[z] = Cut(m, y, z, r)

(* The node that a child belongs to, and the side it is on, is one.         *)
LEMMA OneParent ==
    ASSUME NEW m, NEW d, NEW top, TreesFit(m, d, top), NEW y \in Nodes(m), NEW z \in 0 .. 1,
           NEW c, m.node[y].child[z] = c, c # NULL
    PROVE  /\ c \in Nodes(m) /\ IsTreed(m, c) /\ IsTreed(m, y)
           /\ m.node[c].parent = y /\ d[c] = d[y] + 1 /\ d[y] \in Nat
           /\ z = Bit(ChunkSize(m, c), Branch(m, d, y))
<1>1. ChildFits(m, d, y, z, c)
  BY DEF TreesFit, NodeFits
<1>2. BinsTyped(m) /\ d[y] \in Nat
  BY BranchIsInt DEF TreesFit
<1>3. c \in Nodes(m)
  BY <1>2, NodeTypes
<1>4. y # NULL
  BY <1>2, NodeTypes
<1> QED
  BY <1>1, <1>2, <1>3, <1>4 DEF ChildFits, IsTreed

(* What replacing a node does to the links.                                 *)
LEMMA ReplaceFields ==
    ASSUME NEW m, NEW d, NEW top, TreesFit(m, d, top), NEW q, RingsFit(m, q),
           NEW x, IsTreed(m, x), NEW r, Heir(m, d, x, r),
           r # NULL => IsTreed(m, r) \/ r = m.node[x].bk,
           m.node[x].bk \in {x, r},
           NEW nodes, Prepared(m, nodes, x, r)
    PROVE  LET w == Replace(m, nodes, x, r) IN
           w.head = m.head /\ Shrunk(m, w, x, r) /\ Left(m, w, x)
<1> DEFINE w == Replace(m, nodes, x, r)
           n == nodes[x]
           i == m.node[x].index
<1>0. /\ BinsTyped(m) /\ x \in Nodes(m) /\ m.node[x].parent # NULL /\ r # x
      /\ \A y \in Nodes(m) : y # NULL /\ y # IN_BIN
      /\ r # NULL => r \in Nodes(m) /\ IsLeaf(m, r)
      /\ r = NULL => IsLeaf(m, x)
  <2>1. BinsTyped(m) /\ x \in Nodes(m) /\ m.node[x].parent # NULL
    BY DEF TreesFit, IsTreed
  <2>2. \A y \in Nodes(m) : y # NULL /\ y # IN_BIN
    BY <2>1 DEF BinsTyped
  <2> QED
    BY <2>1, <2>2 DEF Heir, IsLeaf
<1>1. /\ n.parent = m.node[x].parent /\ n.index = i /\ n.child \in [0 .. 1 -> Nodes(m) \cup {NULL}]
      /\ \A z \in 0 .. 1 : n.child[z] = Cut(m, x, z, r)
      /\ i \in 0 .. 31
  BY <1>0, NodeTypes DEF Prepared, NodeType
<1> DEFINE Relinked(y) ==
             IF y = r
             THEN [nodes[y] EXCEPT
                     !.parent = n.parent,
                     !.child = [side \in 0 .. 1 |->
                         IF n.child[side] # NULL THEN n.child[side] ELSE @[side]]]
             ELSE IF r # NULL /\ y \in Range(n.child)
             THEN [nodes[y] EXCEPT !.parent = r]
             ELSE IF y = n.parent
             THEN [nodes[y] EXCEPT
                     !.child[IF nodes[y].child[0] = x THEN 0 ELSE 1] = r]
             ELSE nodes[y]
<1>2. /\ {"head", "node", "treemap", "treebin"} \subseteq DOMAIN w
      /\ w.head = m.head
      /\ w.node = [y \in Nodes(m) \ {x} |-> Relinked(y)]
      /\ w.treebin = [m.treebin EXCEPT ![i] = IF m.treebin[i] = x THEN r ELSE m.treebin[i]]
      /\ w.treemap = IF m.treebin[i] = x /\ r = NULL THEN m.treemap \ {i} ELSE m.treemap
  BY <1>0, <1>1 DEF Replace, NewRoot, BinsTyped, Prepared
<1> HIDE DEF w, Relinked
<1>3. Nodes(w) = Nodes(m) \ {x} /\ \A y \in Nodes(w) : w.node[y] = Relinked(y)
  BY <1>2 DEF Nodes
<1>4. \A y : ChunkSize(w, y) = ChunkSize(m, y)
  BY <1>2 DEF ChunkSize
<1>5. /\ \A y \in Nodes(m) : y \in Range(n.child) <=> y # r /\ m.node[y].parent = x
      /\ NodeFits(m, d, x)
  <2>1. NodeFits(m, d, x)
    BY <1>0 DEF TreesFit
  <2>2. ASSUME NEW y \in Nodes(m), y \in Range(n.child) PROVE y # r /\ m.node[y].parent = x
    <3>1. PICK z \in 0 .. 1 : n.child[z] = y
      BY <1>1, <2>2 DEF Range
    <3>2. Cut(m, x, z, r) = y
      BY <1>1, <3>1
    <3>3. y # NULL /\ m.node[x].child[z] = y /\ y # r
      BY <1>0, <3>2 DEF Cut
    <3> QED
      BY <1>0, <3>3, OneParent
  <2>3. ASSUME NEW y \in Nodes(m), y # r, m.node[y].parent = x PROVE y \in Range(n.child)
    <3>1. PICK z \in 0 .. 1 : m.node[x].child[z] = y
      BY <1>0, <2>3 DEF TreesFit, NodeFits
    <3>2. n.child[z] = y
      BY <1>1, <2>3, <3>1 DEF Cut
    <3> QED
      BY <1>1, <3>2 DEF Range
  <2> QED
    BY <2>1, <2>2, <2>3
<1>6. ASSUME NEW y \in Nodes(m), NEW z \in 0 .. 1, m.node[y].child[z] = x
      PROVE  y = m.node[x].parent /\ z = Bit(ChunkSize(m, x), Branch(m, d, y)) /\ y # r /\ y # x
             /\ m.node[y].parent # x
  <2>1. /\ m.node[x].parent = y /\ z = Bit(ChunkSize(m, x), Branch(m, d, y))
        /\ d[x] = d[y] + 1 /\ d[y] \in Nat
    BY <1>0, <1>6, OneParent
  <2>2. y # r
    BY <1>0, <1>6 DEF IsLeaf
  <2>3. m.node[y].parent # x
    <3>1. SUFFICES ASSUME m.node[y].parent = x PROVE FALSE
      OBVIOUS
    <3>2. PICK k \in 0 .. 1 : m.node[x].child[k] = y
      BY <1>0, <3>1 DEF TreesFit, NodeFits
    <3>3. d[y] = d[x] + 1
      BY <1>0, <3>2, OneParent
    <3> QED
      BY <2>1, <3>3
  <2> QED
    BY <2>1, <2>2, <2>3
<1>7. ASSUME m.node[x].parent \in Nodes(m)
      PROVE  LET p == m.node[x].parent
                 side == IF nodes[p].child[0] = x THEN 0 ELSE 1
             IN  \A z \in 0 .. 1 : m.node[p].child[z] = x <=> z = side
  <2> DEFINE p == m.node[x].parent
             side == IF nodes[p].child[0] = x THEN 0 ELSE 1
  <2>1. PICK z \in 0 .. 1 : m.node[p].child[z] = x
    BY <1>5, <1>7 DEF NodeFits
  <2>2. nodes[p].child[0] = x <=> m.node[p].child[0] = x
    <3>1. nodes[p].child[0] = Cut(m, p, 0, r)
      BY <1>7 DEF Prepared
    <3> QED
      BY <1>0, <3>1 DEF Cut
  <2>3. \A k \in 0 .. 1 : m.node[p].child[k] = x => k = Bit(ChunkSize(m, x), Branch(m, d, p))
    BY <1>6, <1>7
  <2>4. \A k \in 0 .. 1 : m.node[p].child[k] = x <=> k = side
    <3> DEFINE c == m.node[p].child
               e == Bit(ChunkSize(m, x), Branch(m, d, p))
    <3>1. c[z] = x /\ \A k \in 0 .. 1 : c[k] = x => k = e
      BY <2>1, <2>3
    <3>2. side = IF c[0] = x THEN 0 ELSE 1
      BY <2>2
    <3> HIDE DEF c, e, side
    <3>3. \A k \in 0 .. 1 : c[k] = x <=> k = side
      BY <3>1, <3>2
    <3> QED
      BY <3>3 DEF c
  <2> QED
    BY <2>4
<1> HIDE DEF n, i
<1>8. ASSUME NEW y \in Nodes(w), y # r
      PROVE  LET v == w.node[y] IN
             /\ v.fd = nodes[y].fd /\ v.bk = nodes[y].bk /\ v.index = nodes[y].index
             /\ v.parent = IF m.node[y].parent = x THEN r ELSE m.node[y].parent
             /\ \A z \in 0 .. 1 : v.child[z] = IF Cut(m, y, z, r) = x THEN r ELSE Cut(m, y, z, r)
             /\ v = [fd |-> v.fd, bk |-> v.bk, parent |-> v.parent, index |-> v.index,
                     child |-> v.child]
             /\ v.child = [z \in 0 .. 1 |-> v.child[z]]
  <2>1. /\ y \in Nodes(m) /\ y # x /\ nodes[y] \in NodeType(Nodes(m))
        /\ nodes[y].parent = m.node[y].parent
        /\ \A z \in 0 .. 1 : nodes[y].child[z] = Cut(m, y, z, r)
    BY <1>3 DEF Prepared
  <2>2. \A z \in 0 .. 1 : Cut(m, y, z, r) = x <=> m.node[y].child[z] = x
    BY <1>0 DEF Cut
  <2>3. w.node[y] = Relinked(y)
    BY <1>3
  <2>4. CASE r # NULL /\ y \in Range(n.child)
    <3>1. m.node[y].parent = x /\ \A z \in 0 .. 1 : m.node[y].child[z] # x
      BY <1>5, <1>6, <2>1, <2>4
    <3>2. w.node[y] = [nodes[y] EXCEPT !.parent = r]
      BY <1>8, <2>3, <2>4 DEF Relinked
    <3> QED
      BY <2>1, <2>2, <3>1, <3>2 DEF NodeType
  <2>5. CASE ~(r # NULL /\ y \in Range(n.child)) /\ y = n.parent
    <3> DEFINE side == IF nodes[y].child[0] = x THEN 0 ELSE 1
    <3>1. w.node[y] = [nodes[y] EXCEPT !.child[side] = r]
      BY <1>8, <2>3, <2>5 DEF Relinked
    <3>2. \A z \in 0 .. 1 : m.node[y].child[z] = x <=> z = side
      BY <1>1, <1>7, <2>1, <2>5
    <3>3. m.node[y].parent # x
      <4>1. m.node[y].child[side] = x /\ side \in 0 .. 1
        BY <3>2
      <4> QED
        BY <1>6, <2>1, <4>1
    <3> HIDE DEF side
    <3>4. side \in 0 .. 1
      BY DEF side
    <3> QED
      BY <2>1, <2>2, <3>1, <3>2, <3>3, <3>4 DEF NodeType
  <2>6. CASE ~(r # NULL /\ y \in Range(n.child)) /\ y # n.parent
    <3>1. w.node[y] = nodes[y]
      BY <1>8, <2>3, <2>6 DEF Relinked
    <3>2. \A z \in 0 .. 1 : m.node[y].child[z] # x
      BY <1>1, <1>6, <2>1, <2>6
    <3>3. m.node[y].parent # x
      <4>1. CASE r = NULL
        <5>1. SUFFICES ASSUME m.node[y].parent = x PROVE FALSE
          OBVIOUS
        <5>2. PICK k \in 0 .. 1 : m.node[x].child[k] = y
          BY <1>0, <2>1, <5>1 DEF TreesFit, NodeFits
        <5> QED
          BY <1>0, <2>1, <4>1, <5>2 DEF IsLeaf
      <4>2. CASE r # NULL
        BY <1>5, <1>8, <2>1, <2>6, <4>2
      <4> QED
        BY <4>1, <4>2
    <3> QED
      BY <2>1, <2>2, <3>1, <3>2, <3>3 DEF NodeType
  <2> QED
    BY <2>4, <2>5, <2>6
<1>9. ASSUME r # NULL
      PROVE  LET v == w.node[r] IN
             /\ v.fd = nodes[r].fd /\ v.bk = nodes[r].bk /\ v.index = nodes[r].index
             /\ v.parent = m.node[x].parent
             /\ \A z \in 0 .. 1 : v.child[z] = Cut(m, x, z, r)
             /\ v = [fd |-> v.fd, bk |-> v.bk, parent |-> v.parent, index |-> v.index,
                     child |-> v.child]
             /\ v.child = [z \in 0 .. 1 |-> v.child[z]]
  <2>1. r \in Nodes(w) /\ nodes[r] \in NodeType(Nodes(m))
        /\ \A z \in 0 .. 1 : nodes[r].child[z] = NULL
    <3>1. r \in Nodes(m)
      BY <1>0, <1>9
    <3>2. \A z \in 0 .. 1 : nodes[r].child[z] = Cut(m, r, z, r)
      BY <3>1 DEF Prepared
    <3> QED
      BY <1>0, <1>3, <1>9, <3>1, <3>2 DEF Prepared, Cut, IsLeaf
  <2>2. w.node[r] = [nodes[r] EXCEPT
                       !.parent = n.parent,
                       !.child = [side \in 0 .. 1 |->
                           IF n.child[side] # NULL THEN n.child[side] ELSE @[side]]]
    BY <1>3, <2>1 DEF Relinked
  <2> DEFINE c == [side \in 0 .. 1 |-> IF n.child[side] # NULL THEN n.child[side]
                                       ELSE nodes[r].child[side]]
  <2>3. w.node[r] = [nodes[r] EXCEPT !.parent = n.parent, !.child = c]
    BY <2>1, <2>2 DEF NodeType
  <2>4. \A z \in 0 .. 1 : c[z] = Cut(m, x, z, r)
    BY <1>1, <2>1
  <2>5. c = [z \in 0 .. 1 |-> c[z]]
    OBVIOUS
  <2> HIDE DEF c
  <2> QED
    BY <1>1, <2>1, <2>3, <2>4, <2>5 DEF NodeType
<1>10. \A y \in Nodes(w) :
          /\ w.node[y].fd = nodes[y].fd /\ w.node[y].bk = nodes[y].bk
          /\ w.node[y].index = nodes[y].index
  <2>1. \A y \in Nodes(w) : y = r => r # NULL
    BY <1>0, <1>3
  <2> QED
    BY <1>8, <1>9, <2>1
<1>11. BinsTyped(w)
  <2>1. ASSUME NEW y \in Nodes(w) PROVE w.node[y] \in NodeType(Nodes(w))
    <3> DEFINE v == w.node[y]
    <3>1. y \in Nodes(m) /\ y # x /\ (y = r => r # NULL)
      BY <1>0, <1>3
    <3>2. v.fd \in Nodes(w) /\ v.bk \in Nodes(w)
      <4>1. /\ v.fd = IF y = m.node[x].bk THEN m.node[x].fd ELSE m.node[y].fd
            /\ v.bk = IF y = m.node[x].fd THEN m.node[x].bk ELSE m.node[y].bk
        BY <1>10, <3>1 DEF Prepared
      <4>2. /\ m.node[x].fd \in Nodes(m) /\ m.node[x].bk \in Nodes(m)
            /\ m.node[y].fd \in Nodes(m) /\ m.node[y].bk \in Nodes(m)
            /\ (m.node[y].fd = x <=> y = m.node[x].bk)
            /\ (m.node[y].bk = x <=> y = m.node[x].fd)
            /\ (m.node[x].fd = x <=> x = m.node[x].bk)
            /\ (m.node[x].bk = x <=> x = m.node[x].fd)
        BY <1>0, <3>1, RingLinks
      <4> HIDE DEF v
      <4> QED
        BY <1>3, <3>1, <4>1, <4>2
    <3>3. v.index \in 0 .. 31
      BY <1>10, <3>1 DEF Prepared, NodeType
    <3>4. v.parent \in Nodes(w) \cup {NULL, IN_BIN}
      <4>1. m.node[y].parent \in Nodes(m) \cup {NULL, IN_BIN}
            /\ m.node[x].parent \in Nodes(m) \cup {NULL, IN_BIN}
        BY <1>0, <3>1, NodeTypes
      <4>2. m.node[x].parent # x
        <5>1. SUFFICES ASSUME m.node[x].parent = x PROVE FALSE
          OBVIOUS
        <5>2. PICK k \in 0 .. 1 : m.node[x].child[k] = x
          BY <1>0, <1>5, <5>1 DEF NodeFits
        <5> QED
          BY <1>0, <1>6, <5>2
      <4>3. r \in Nodes(w) \cup {NULL}
        BY <1>0, <1>3
      <4>4. CASE y = r
        <5>1. v.parent = m.node[x].parent
          BY <1>9, <3>1, <4>4
        <5> QED
          BY <1>3, <4>1, <4>2, <5>1
      <4>5. CASE y # r
        <5>1. v.parent = IF m.node[y].parent = x THEN r ELSE m.node[y].parent
          BY <1>8, <4>5
        <5> QED
          BY <1>3, <4>1, <4>3, <5>1
      <4> QED
        BY <4>4, <4>5
    <3>5. /\ v.child = [z \in 0 .. 1 |-> v.child[z]]
          /\ \A z \in 0 .. 1 : v.child[z] \in Nodes(w) \cup {NULL}
      <4>1. \A z \in 0 .. 1 : Cut(m, y, z, r) \in Nodes(m) \cup {NULL}
                              /\ Cut(m, x, z, r) \in Nodes(m) \cup {NULL}
                              /\ Cut(m, x, z, r) # x
        BY <1>0, <1>6, <3>1, NodeTypes DEF Cut
      <4>2. r \in Nodes(w) \cup {NULL}
        BY <1>0, <1>3
      <4>3. CASE y = r
        <5>1. v.child = [z \in 0 .. 1 |-> v.child[z]] /\ \A z \in 0 .. 1 : v.child[z] = Cut(m, x, z, r)
          BY <1>9, <3>1, <4>3
        <5> QED
          BY <1>3, <4>1, <5>1
      <4>4. CASE y # r
        <5>1. /\ v.child = [z \in 0 .. 1 |-> v.child[z]]
              /\ \A z \in 0 .. 1 : v.child[z] = IF Cut(m, y, z, r) = x THEN r ELSE Cut(m, y, z, r)
          BY <1>8, <4>4
        <5> QED
          BY <1>3, <4>1, <4>2, <5>1
      <4> QED
        BY <4>3, <4>4
    <3>6. v.child \in [0 .. 1 -> Nodes(w) \cup {NULL}]
      <4> DEFINE c == v.child
      <4>1. c = [z \in 0 .. 1 |-> c[z]] /\ \A z \in 0 .. 1 : c[z] \in Nodes(w) \cup {NULL}
        BY <3>5
      <4> HIDE DEF c
      <4>2. c \in [0 .. 1 -> Nodes(w) \cup {NULL}]
        BY <4>1
      <4> QED
        BY <4>2 DEF c
    <3>7. v = [fd |-> v.fd, bk |-> v.bk, parent |-> v.parent, index |-> v.index, child |-> v.child]
      <4>1. CASE y = r
        BY <1>9, <3>1, <4>1
      <4>2. CASE y # r
        BY <1>8, <4>2
      <4> QED
        BY <4>1, <4>2
    <3> HIDE DEF v
    <3> QED
      BY <3>2, <3>3, <3>4, <3>6, <3>7 DEF NodeType, v
  <2>2. w.node = [y \in Nodes(w) |-> w.node[y]]
    BY <1>2, <1>3
  <2>3. w.node \in [Nodes(w) -> NodeType(Nodes(w))]
    BY <2>1, <2>2
  <2>4. w.treebin \in [0 .. 31 -> Nodes(w) \cup {NULL}]
        /\ \A j \in 0 .. 31 : w.treebin[j] = IF m.treebin[j] = x THEN r ELSE m.treebin[j]
    <3>1. m.treebin \in [0 .. 31 -> Nodes(m) \cup {NULL}]
      BY <1>0 DEF BinsTyped
    <3>2. \A j \in 0 .. 31 : m.treebin[j] = x => j = i
      BY <1>0, <3>1 DEF TreesFit, i
    <3>3. r \in Nodes(w) \cup {NULL}
      BY <1>0, <1>3
    <3>4. \A j \in 0 .. 31 : w.treebin[j] = IF m.treebin[j] = x THEN r ELSE m.treebin[j]
      BY <1>1, <1>2, <3>1, <3>2
    <3> QED
      BY <1>2, <1>3, <3>1, <3>3, <3>4
  <2>5. w.treemap = {j \in 0 .. 31 : w.treebin[j] # NULL}
    <3>1. m.treemap = {j \in 0 .. 31 : m.treebin[j] # NULL}
      BY <1>0 DEF BinsTyped
    <3>2. \A j \in 0 .. 31 : m.treebin[j] = x => j = i
      BY <1>0 DEF TreesFit, i
    <3> QED
      BY <1>0, <1>2, <2>4, <3>1, <3>2
  <2>6. \A y \in Nodes(w) : ChunkSize(w, y) \in Sizes
    BY <1>0, <1>3, <1>4 DEF BinsTyped
  <2>7. NULL \notin Nodes(w) /\ IN_BIN \notin Nodes(w)
    BY <1>0, <1>3
  <2> QED
    BY <1>2, <2>3, <2>4, <2>5, <2>6, <2>7 DEF BinsTyped
<1>12. Shrunk(m, w, x, r)
  <2>1. \A j \in 0 .. 31 : w.treebin[j] = IF m.treebin[j] = x THEN r ELSE m.treebin[j]
    <3>1. \A j \in 0 .. 31 : m.treebin[j] = x => j = i
      BY <1>0 DEF TreesFit, i
    <3> QED
      BY <1>0, <1>1, <1>2, <3>1 DEF BinsTyped
  <2>2. \A y \in Nodes(w) : w.node[y].index = m.node[y].index
    BY <1>3, <1>10 DEF Prepared
  <2>3. \A y \in Nodes(w) : y = r => r # NULL
    BY <1>0, <1>3
  <2> QED
    BY <1>3, <1>4, <1>8, <1>9, <1>11, <2>1, <2>2, <2>3 DEF Shrunk
<1>13. Left(m, w, x)
  <2>1. ASSUME NEW y \in Nodes(w)
        PROVE  w.node[y].parent # NULL <=> m.node[y].parent # NULL \/ (IsTreed(m, x) /\ y = m.node[x].bk)
    <3>1. y \in Nodes(m) /\ y # x
      BY <1>3
    <3>2. CASE y = r
      <4>1. r # NULL
        BY <1>0, <3>1, <3>2
      <4>2. w.node[y].parent # NULL
        BY <1>0, <1>9, <3>2, <4>1
      <4> QED
        BY <3>2, <4>1, <4>2 DEF IsTreed
    <3>3. CASE y # r
      <4>1. w.node[y].parent = IF m.node[y].parent = x THEN r ELSE m.node[y].parent
        BY <1>8, <3>3
      <4>2. y # m.node[x].bk
        BY <3>1, <3>3
      <4>3. m.node[y].parent = x => r # NULL
        <5>1. SUFFICES ASSUME m.node[y].parent = x, r = NULL PROVE FALSE
          OBVIOUS
        <5>2. PICK k \in 0 .. 1 : m.node[x].child[k] = y
          BY <1>0, <3>1, <5>1 DEF TreesFit, NodeFits
        <5> QED
          BY <1>0, <3>1, <5>1, <5>2 DEF IsLeaf
      <4>4. x # NULL
        BY <1>0
      <4> QED
        BY <4>1, <4>2, <4>3, <4>4
    <3> QED
      BY <3>2, <3>3
  <2>2. ASSUME NEW y \in Nodes(w)
        PROVE  /\ w.node[y].fd = IF y = m.node[x].bk THEN m.node[x].fd ELSE m.node[y].fd
               /\ w.node[y].bk = IF y = m.node[x].fd THEN m.node[x].bk ELSE m.node[y].bk
    BY <1>3, <1>10 DEF Prepared
  <2> QED
    BY <1>3, <1>4, <2>1, <2>2 DEF Left
<1> QED
  BY <1>2, <1>12, <1>13 DEF w

(* A chunk that is only in a ring goes, and the tree does not change.       *)
LEMMA ReplaceUntreed ==
    ASSUME NEW m, NEW d, NEW top, TreesFit(m, d, top), NEW q, RingsFit(m, q),
           NEW x \in Nodes(m), ~IsTreed(m, x), NEW r, NEW nodes, Prepared(m, nodes, x, NULL)
    PROVE  LET w == Replace(m, nodes, x, r) IN
           w.head = m.head /\ Dropped(m, w, x) /\ Left(m, w, x)
<1> DEFINE w == Replace(m, nodes, x, r)
           n == nodes[x]
           i == m.node[x].index
<1>0. /\ BinsTyped(m) /\ m.node[x].parent = NULL /\ i \in 0 .. 31
      /\ \A y \in Nodes(m) : y # NULL /\ y # IN_BIN
  <2>1. BinsTyped(m) /\ m.node[x].parent = NULL
    BY DEF TreesFit, IsTreed
  <2>2. i \in 0 .. 31
    BY <2>1, NodeTypes
  <2> QED
    BY <2>1, <2>2 DEF BinsTyped
<1>1. n.parent = NULL /\ n.index = i
  BY <1>0 DEF Prepared
<1>2. m.treebin[i] # x
  <2>1. NodeFits(m, d, x)
    BY DEF TreesFit
  <2> QED
    BY <1>0, <2>1 DEF NodeFits, NULL, IN_BIN
<1>3. /\ {"head", "node", "treemap", "treebin"} \subseteq DOMAIN w
      /\ w.head = m.head
      /\ w.node = [y \in Nodes(m) \ {x} |-> nodes[y]]
      /\ w.treebin = m.treebin
      /\ w.treemap = m.treemap
  <2>1. w.treebin = [m.treebin EXCEPT ![i] = m.treebin[i]]
    BY <1>0, <1>1, <1>2 DEF Replace, NewRoot, BinsTyped
  <2>2. w.treebin = m.treebin
    BY <1>0, <2>1 DEF BinsTyped
  <2>3. w.treemap = m.treemap /\ {"head", "node", "treemap", "treebin"} \subseteq DOMAIN w
        /\ w.head = m.head
    BY <1>0, <1>1, <1>2 DEF Replace, NewRoot, BinsTyped
  <2>4. w.node = [y \in Nodes(m) \ {x} |-> nodes[y]]
    BY <1>0, <1>1 DEF Replace, NewRoot, BinsTyped, Prepared
  <2> QED
    BY <2>2, <2>3, <2>4
<1> HIDE DEF w, i, n
<1>4. Nodes(w) = Nodes(m) \ {x} /\ \A y \in Nodes(w) : w.node[y] = nodes[y]
  BY <1>3 DEF Nodes
<1>5. \A y : ChunkSize(w, y) = ChunkSize(m, y)
  BY <1>3 DEF ChunkSize
<1>6. ASSUME NEW y \in Nodes(w)
      PROVE  /\ y \in Nodes(m) /\ y # x
             /\ nodes[y] \in NodeType(Nodes(m))
             /\ w.node[y].index = m.node[y].index /\ w.node[y].parent = m.node[y].parent
             /\ w.node[y].fd = IF y = m.node[x].bk THEN m.node[x].fd ELSE m.node[y].fd
             /\ w.node[y].bk = IF y = m.node[x].fd THEN m.node[x].bk ELSE m.node[y].bk
             /\ w.node[y].child = m.node[y].child
  <2>1. y \in Nodes(m) /\ y # x /\ w.node[y] = nodes[y]
    BY <1>4
  <2>2. /\ nodes[y] \in NodeType(Nodes(m)) /\ m.node[y] \in NodeType(Nodes(m))
        /\ nodes[y].index = m.node[y].index /\ nodes[y].parent = m.node[y].parent
        /\ nodes[y].fd = IF y = m.node[x].bk THEN m.node[x].fd ELSE m.node[y].fd
        /\ nodes[y].bk = IF y = m.node[x].fd THEN m.node[x].bk ELSE m.node[y].bk
    BY <1>0, <2>1 DEF Prepared, BinsTyped
  <2>3. ASSUME NEW z \in 0 .. 1 PROVE nodes[y].child[z] = m.node[y].child[z]
    <3>1. nodes[y].child[z] = Cut(m, y, z, NULL)
      BY <2>1 DEF Prepared
    <3> QED
      BY <3>1 DEF Cut
  <2>4. nodes[y].child = m.node[y].child
    <3> DEFINE a == nodes[y].child
               b == m.node[y].child
    <3>1. a \in [0 .. 1 -> Nodes(m) \cup {NULL}] /\ b \in [0 .. 1 -> Nodes(m) \cup {NULL}]
      BY <2>2 DEF NodeType
    <3>2. \A z \in 0 .. 1 : a[z] = b[z]
      BY <2>3
    <3> HIDE DEF a, b
    <3>3. a = b
      BY <3>1, <3>2
    <3> QED
      BY <3>3 DEF a, b
  <2> QED
    BY <2>1, <2>2, <2>4
<1>7. BinsTyped(w)
  <2>1. ASSUME NEW y \in Nodes(w) PROVE w.node[y] \in NodeType(Nodes(w))
    <3> DEFINE v == w.node[y]
    <3>1. v = nodes[y] /\ v \in NodeType(Nodes(m)) /\ y \in Nodes(m) /\ y # x
      BY <1>4, <1>6
    <3>2. v.fd \in Nodes(w) /\ v.bk \in Nodes(w)
      <4>1. /\ v.fd = IF y = m.node[x].bk THEN m.node[x].fd ELSE m.node[y].fd
            /\ v.bk = IF y = m.node[x].fd THEN m.node[x].bk ELSE m.node[y].bk
        BY <1>6
      <4>2. /\ m.node[x].fd \in Nodes(m) /\ m.node[x].bk \in Nodes(m)
            /\ m.node[y].fd \in Nodes(m) /\ m.node[y].bk \in Nodes(m)
            /\ (m.node[y].fd = x <=> y = m.node[x].bk)
            /\ (m.node[y].bk = x <=> y = m.node[x].fd)
            /\ (m.node[x].fd = x <=> x = m.node[x].bk)
            /\ (m.node[x].bk = x <=> x = m.node[x].fd)
        BY <1>0, <3>1, RingLinks
      <4> HIDE DEF v
      <4> QED
        BY <1>4, <3>1, <4>1, <4>2
    <3>3. v.parent \in Nodes(w) \cup {NULL, IN_BIN}
      <4>1. v.parent # x
        <5>1. SUFFICES ASSUME m.node[y].parent = x PROVE FALSE
          BY <1>6
        <5>2. PICK z \in 0 .. 1 : m.node[x].child[z] = y
          BY <3>1, <5>1 DEF TreesFit, NodeFits
        <5>3. IsTreed(m, x)
          BY <1>0, <3>1, <5>2, OneParent
        <5> QED
          BY <5>3
      <4> QED
        BY <1>4, <3>1, <4>1 DEF NodeType
    <3>4. v.child \in [0 .. 1 -> Nodes(w) \cup {NULL}]
      <4> DEFINE c == v.child
      <4>1. c \in [0 .. 1 -> Nodes(m) \cup {NULL}]
        BY <3>1 DEF NodeType
      <4>2. ASSUME NEW z \in 0 .. 1 PROVE c[z] # x
        <5>1. SUFFICES ASSUME m.node[y].child[z] = x PROVE FALSE
          BY <1>6
        <5>2. IsTreed(m, x)
          BY <1>0, <3>1, <5>1, OneParent
        <5> QED
          BY <5>2
      <4> HIDE DEF c
      <4>3. c \in [0 .. 1 -> Nodes(w) \cup {NULL}]
        BY <1>4, <4>1, <4>2
      <4> QED
        BY <4>3 DEF c
    <3> HIDE DEF v
    <3> QED
      BY <3>1, <3>2, <3>3, <3>4 DEF NodeType, v
  <2>2. w.node = [y \in Nodes(w) |-> w.node[y]]
    BY <1>3, <1>4
  <2>3. w.node \in [Nodes(w) -> NodeType(Nodes(w))]
    BY <2>1, <2>2
  <2>4. w.treebin \in [0 .. 31 -> Nodes(w) \cup {NULL}]
    <3>1. m.treebin \in [0 .. 31 -> Nodes(m) \cup {NULL}]
      BY <1>0 DEF BinsTyped
    <3>2. \A j \in 0 .. 31 : m.treebin[j] # x
      <4> SUFFICES ASSUME NEW j \in 0 .. 31, m.treebin[j] = x PROVE FALSE
        OBVIOUS
      <4>1. i = j
        BY <1>0 DEF TreesFit, i
      <4> QED
        BY <1>2, <4>1
    <3> QED
      BY <1>3, <1>4, <3>1, <3>2
  <2>5. w.treemap = {j \in 0 .. 31 : w.treebin[j] # NULL}
    BY <1>0, <1>3 DEF BinsTyped
  <2>6. \A y \in Nodes(w) : ChunkSize(w, y) \in Sizes
    BY <1>0, <1>4, <1>5 DEF BinsTyped
  <2>7. NULL \notin Nodes(w) /\ IN_BIN \notin Nodes(w)
    BY <1>0, <1>4
  <2> QED
    BY <1>3, <2>3, <2>4, <2>5, <2>6, <2>7 DEF BinsTyped
<1>8. Dropped(m, w, x)
  BY <1>3, <1>4, <1>5, <1>6, <1>7 DEF Dropped
<1>9. Left(m, w, x)
  BY <1>4, <1>5, <1>6 DEF Left
<1> QED
  BY <1>3, <1>8, <1>9 DEF w

(* The ring closes behind x.                                                *)
LEMMA PreparedInRing ==
    ASSUME NEW m, BinsTyped(m), NEW q, RingsFit(m, q),
           NEW x \in Nodes(m), m.node[x].bk # x,
           NEW r, \A y \in Nodes(m) : \A z \in 0 .. 1 : Cut(m, y, z, r) = m.node[y].child[z]
    PROVE  LET n == m.node[x] IN
           Prepared(m, [m.node EXCEPT ![n.fd].bk = n.bk, ![n.bk].fd = n.fd], x, r)
<1> DEFINE f == m.node[x].fd
           b == m.node[x].bk
           h == [m.node EXCEPT ![f].bk = b]
           g == [h EXCEPT ![b].fd = f]
<1>1. f \in Nodes(m) /\ b \in Nodes(m)
  BY RingLinks
<1>2. DOMAIN g = Nodes(m)
  BY DEF Nodes
<1>3. ASSUME NEW y \in Nodes(m)
      PROVE  /\ g[y] \in NodeType(Nodes(m))
             /\ g[y].parent = m.node[y].parent /\ g[y].index = m.node[y].index
             /\ g[y].fd = IF y = b THEN f ELSE m.node[y].fd
             /\ g[y].bk = IF y = f THEN b ELSE m.node[y].bk
             /\ g[y].child = m.node[y].child
  <2>1. m.node[y] \in NodeType(Nodes(m))
    BY DEF BinsTyped
  <2>2. h[y] = IF y = f THEN [m.node[y] EXCEPT !.bk = b] ELSE m.node[y]
    BY DEF Nodes
  <2>3. g[y] = IF y = b THEN [h[y] EXCEPT !.fd = f] ELSE h[y]
    BY DEF Nodes
  <2> HIDE DEF g, h, f, b
  <2> QED
    BY <1>1, <2>1, <2>2, <2>3 DEF NodeType
<1> HIDE DEF g
<1>4. Prepared(m, g, x, r)
  BY <1>2, <1>3 DEF Prepared
<1> QED
  BY <1>4 DEF g

(* Nothing is cut where nothing is linked.                                  *)
LEMMA NothingIsCut ==
    ASSUME NEW m, NEW d, NEW top, TreesFit(m, d, top), NEW r, ~IsTreed(m, r)
    PROVE  \A y \in Nodes(m) : \A z \in 0 .. 1 : Cut(m, y, z, r) = m.node[y].child[z]
<1> SUFFICES ASSUME NEW y \in Nodes(m), NEW z \in 0 .. 1
             PROVE  Cut(m, y, z, r) = m.node[y].child[z]
  OBVIOUS
<1>1. CASE m.node[y].child[z] = r
  <2>1. r = NULL
    BY <1>1, OneParent
  <2> QED
    BY <1>1, <2>1 DEF Cut
<1>2. CASE m.node[y].child[z] # r
  BY <1>2 DEF Cut
<1> QED
  BY <1>1, <1>2

(* The link to the leaf is cut, or there is none.                           *)
LEMMA PreparedForLeaf ==
    ASSUME NEW m, NEW d, NEW top, TreesFit(m, d, top), NEW q, RingsFit(m, q),
           NEW x, IsTreed(m, x), m.node[x].bk = x, NEW l, LinksLeaf(m, d, x, l)
    PROVE  Prepared(m, IF l.leaf = NULL THEN m.node
                       ELSE [m.node EXCEPT ![l.of].child[l.side] = NULL], x, l.leaf)
<1>0. /\ BinsTyped(m) /\ x \in Nodes(m) /\ m.node[x].fd = x
  <2>1. BinsTyped(m) /\ x \in Nodes(m)
    BY DEF TreesFit, IsTreed
  <2>2. m.node[x].fd = x
    BY <2>1, RingLinks
  <2> QED
    BY <2>1, <2>2
<1>1. \A y \in Nodes(m) : m.node[y] \in NodeType(Nodes(m))
  BY <1>0 DEF BinsTyped
<1>2. \A y \in Nodes(m) : /\ m.node[y].fd = IF y = m.node[x].bk THEN m.node[x].fd ELSE m.node[y].fd
                          /\ m.node[y].bk = IF y = m.node[x].fd THEN m.node[x].bk ELSE m.node[y].bk
  BY <1>0
<1>3. CASE l.leaf = NULL
  <2>1. ~IsTreed(m, NULL)
    BY <1>0 DEF IsTreed, BinsTyped
  <2>2. \A y \in Nodes(m) : \A z \in 0 .. 1 : Cut(m, y, z, NULL) = m.node[y].child[z]
    BY DEF Cut
  <2>3. Prepared(m, m.node, x, NULL)
    BY <1>1, <1>2, <2>2 DEF Prepared, Nodes
  <2> QED
    BY <1>3, <2>3
<1>4. CASE l.leaf # NULL
  <2> DEFINE g == [m.node EXCEPT ![l.of].child[l.side] = NULL]
             r == l.leaf
  <2>1. /\ l.of \in Nodes(m) /\ l.side \in 0 .. 1
        /\ m.node[l.of].child[l.side] = r /\ r # NULL
    BY <1>4 DEF LinksLeaf
  <2>2. ASSUME NEW y \in Nodes(m), NEW z \in 0 .. 1
        PROVE  m.node[y].child[z] = r <=> y = l.of /\ z = l.side
    <3>1. m.node[r].parent = l.of /\ l.side = Bit(ChunkSize(m, r), Branch(m, d, l.of))
      BY <2>1, OneParent
    <3>2. m.node[y].child[z] = r =>
             m.node[r].parent = y /\ z = Bit(ChunkSize(m, r), Branch(m, d, y))
      BY <2>1, OneParent
    <3> QED
      BY <2>1, <3>1, <3>2
  <2>3. DOMAIN g = Nodes(m)
    BY DEF Nodes
  <2>4. ASSUME NEW y \in Nodes(m)
        PROVE  /\ g[y] \in NodeType(Nodes(m))
               /\ g[y].parent = m.node[y].parent /\ g[y].index = m.node[y].index
               /\ g[y].fd = m.node[y].fd /\ g[y].bk = m.node[y].bk
               /\ \A z \in 0 .. 1 : g[y].child[z] = Cut(m, y, z, r)
    <3>1. g[y] = IF y = l.of THEN [m.node[y] EXCEPT !.child[l.side] = NULL] ELSE m.node[y]
      BY DEF Nodes
    <3>2. \A z \in 0 .. 1 : Cut(m, y, z, r) =
            IF y = l.of /\ z = l.side THEN NULL ELSE m.node[y].child[z]
      BY <2>2 DEF Cut
    <3> HIDE DEF g, r
    <3> QED
      BY <1>1, <2>1, <3>1, <3>2 DEF NodeType
  <2> HIDE DEF g
  <2>5. Prepared(m, g, x, r)
    BY <1>2, <2>3, <2>4 DEF Prepared
  <2> QED
    BY <1>4, <2>5 DEF g
<1> QED
  BY <1>3, <1>4

(* Removal keeps trees and rings sound, whatever the chunk: the next of its *)
(* size takes its place, or a leaf from below it.                           *)
LEMMA UnlinkFits ==
    ASSUME NEW m, NEW d, NEW top, TreesFit(m, d, top), NEW q, RingsFit(m, q),
           NEW x \in Nodes(m)
    PROVE  LET w == unlink_large_chunk(m, x) IN
           /\ Fit(w, [q EXCEPT ![ChunkSize(m, x)] = Removed(@, x)])
           /\ Nodes(w) = Nodes(m) \ {x} /\ w.head = m.head
<1> DEFINE u == [q EXCEPT ![ChunkSize(m, x)] = Removed(@, x)]
           n == m.node[x]
           Sound(w) == Fit(w, u) /\ Nodes(w) = Nodes(m) \ {x} /\ w.head = m.head
<1>0. BinsTyped(m) /\ n.bk \in Nodes(m)
  BY RingLinks DEF TreesFit
<1>1. ASSUME NEW w, NEW r, IsTreed(m, x), Heir(m, d, x, r),
             w.head = m.head /\ Shrunk(m, w, x, r) /\ Left(m, w, x)
      PROVE  Sound(w)
  <2>1. \E e : TreesFit(w, e, top)
    BY <1>1, ShrunkFits
  <2>2. RingsFit(w, u)
    BY <1>1, LeftFits
  <2> QED
    BY <1>1, <2>1, <2>2 DEF Fit, Left
<1>2. CASE n.bk = x
  <2> DEFINE l == LeafLink(m, x)
             r == l.leaf
             nodes == IF l.leaf = NULL THEN m.node
                      ELSE [m.node EXCEPT ![l.of].child[l.side] = NULL]
  <2>1. IsTreed(m, x)
    BY <1>2, RingLinks
  <2>2. LinksLeaf(m, d, x, l)
    BY <2>1, LeafLinkEnds
  <2>3. unlink_large_chunk(m, x) = Replace(m, nodes, x, r)
    BY <1>2 DEF unlink_large_chunk, WithLeaf
  <2> HIDE DEF l
  <2>4. Prepared(m, nodes, x, r)
    BY <1>2, <2>1, <2>2, PreparedForLeaf
  <2>5. Heir(m, d, x, r)
    <3>1. CASE r = NULL
      BY <2>2, <3>1 DEF LinksLeaf, Heir, IsLeaf
    <3>2. CASE r # NULL
      <4>1. /\ IsTreed(m, r) /\ r \in Under(m, d, x) /\ d[x] < d[r] /\ IsLeaf(m, r)
            /\ l.of \in Nodes(m) /\ l.side \in 0 .. 1 /\ m.node[l.of].child[l.side] = r
        BY <2>2, <3>2 DEF LinksLeaf
      <4>2. r \in Nodes(m) /\ r # x
        <5>1. d[x] \in Nat
          BY BranchIsInt
        <5> QED
          BY <4>1, <5>1 DEF IsTreed
      <4>3. m.node[r].parent # IN_BIN
        <5>1. m.node[r].parent = l.of
          BY <3>2, <4>1, OneParent
        <5> QED
          BY <1>0, <4>1, <5>1 DEF BinsTyped
      <4>4. m.node[r].index = m.node[x].index
            /\ Agree(ChunkSize(m, r), ChunkSize(m, x), Branch(m, d, x))
        BY <4>1 DEF Under
      <4> HIDE DEF r
      <4> QED
        BY <3>2, <4>1, <4>2, <4>3, <4>4 DEF Heir, IsLeaf
    <3> QED
      BY <3>1, <3>2
  <2>6. r # NULL => IsTreed(m, r)
    BY <2>2 DEF LinksLeaf
  <2> HIDE DEF nodes, r
  <2>7. LET w == Replace(m, nodes, x, r) IN
        w.head = m.head /\ Shrunk(m, w, x, r) /\ Left(m, w, x)
    BY <1>2, <2>1, <2>4, <2>5, <2>6, ReplaceFields
  <2> DEFINE w == Replace(m, nodes, x, r)
  <2>8. w.head = m.head /\ Shrunk(m, w, x, r) /\ Left(m, w, x)
    BY <2>7
  <2> HIDE DEF w, Sound
  <2>9. Sound(w)
    BY <1>1, <2>1, <2>5, <2>8
  <2> QED
    BY <2>3, <2>9 DEF w, Sound
<1>3. CASE n.bk # x
  <2> DEFINE r == n.bk
             nodes == [m.node EXCEPT ![n.fd].bk = n.bk, ![n.bk].fd = n.fd]
  <2>1. unlink_large_chunk(m, x) = Replace(m, nodes, x, r)
    BY <1>3 DEF unlink_large_chunk
  <2>2. CASE IsTreed(m, x)
    <3>1. ~IsTreed(m, r)
      BY <1>3, <2>2, RingLinks
    <3>2. Prepared(m, nodes, x, r)
      <4>1. \A y \in Nodes(m) : \A z \in 0 .. 1 : Cut(m, y, z, r) = m.node[y].child[z]
        BY <3>1, NothingIsCut
      <4> QED
        BY <1>0, <1>3, <4>1, PreparedInRing
    <3>3. Heir(m, d, x, r)
      <4>1. r \in Nodes(m) /\ r # NULL /\ m.node[r].parent = NULL
        BY <1>0, <3>1 DEF IsTreed, BinsTyped
      <4>2. ChunkSize(m, r) = ChunkSize(m, x)
        BY RingLinks
      <4>3. m.node[r].index = m.node[x].index
        <5>1. NodeFits(m, d, r) /\ NodeFits(m, d, x)
          BY <4>1 DEF TreesFit
        <5>2. /\ m.node[r].index = compute_tree_index(ChunkSize(m, r))
              /\ m.node[x].index = compute_tree_index(ChunkSize(m, x))
          BY <5>1 DEF NodeFits
        <5> QED
          BY <4>2, <5>2, Zenon
      <4>4. \A z \in 0 .. 1 : m.node[r].child[z] = NULL
        <5> SUFFICES ASSUME NEW z \in 0 .. 1, m.node[r].child[z] # NULL PROVE FALSE
          OBVIOUS
        <5>1. IsTreed(m, r)
          BY <4>1, OneParent
        <5> QED
          BY <3>1, <5>1
      <4>5. Agree(ChunkSize(m, r), ChunkSize(m, x), Branch(m, d, x))
        BY <4>2 DEF Agree
      <4>6. m.node[r].parent # IN_BIN
        BY <4>1 DEF NULL, IN_BIN
      <4> HIDE DEF r
      <4> QED
        BY <1>3, <4>1, <4>3, <4>4, <4>5, <4>6 DEF Heir, r
    <3> HIDE DEF nodes
    <3>4. LET w == Replace(m, nodes, x, r) IN
          w.head = m.head /\ Shrunk(m, w, x, r) /\ Left(m, w, x)
      BY <2>2, <3>2, <3>3, ReplaceFields
    <3> DEFINE w == Replace(m, nodes, x, r)
    <3>5. w.head = m.head /\ Shrunk(m, w, x, r) /\ Left(m, w, x)
      BY <3>4
    <3> HIDE DEF w, Sound
    <3>6. Sound(w)
      BY <1>1, <2>2, <3>3, <3>5
    <3> QED
      BY <2>1, <3>6 DEF w, Sound
  <2>3. CASE ~IsTreed(m, x)
    <3>1. Prepared(m, nodes, x, NULL)
      <4>1. \A y \in Nodes(m) : \A z \in 0 .. 1 : Cut(m, y, z, NULL) = m.node[y].child[z]
        BY DEF Cut
      <4> QED
        BY <1>0, <1>3, <4>1, PreparedInRing
    <3> HIDE DEF nodes
    <3>2. LET w == Replace(m, nodes, x, r) IN
          w.head = m.head /\ Dropped(m, w, x) /\ Left(m, w, x)
      BY <2>3, <3>1, ReplaceUntreed
    <3> DEFINE w == Replace(m, nodes, x, r)
    <3>3. w.head = m.head /\ Dropped(m, w, x) /\ Left(m, w, x)
      BY <3>2
    <3> HIDE DEF w
    <3>4. \E e : TreesFit(w, e, top)
      BY <2>3, <3>3, DroppedFits
    <3>5. RingsFit(w, u)
      BY <3>3, LeftFits
    <3>6. Sound(w)
      BY <3>3, <3>4, <3>5 DEF Fit, Left
    <3> QED
      BY <2>1, <3>6 DEF w
  <2> QED
    BY <2>2, <2>3
<1> QED
  BY <1>2, <1>3
-----------------------------------------------------------------------------
(* Sizes that agree above a bit and on it agree above the next one.         *)
LEMMA AgreeBelow ==
    ASSUME NEW s, NEW t, NEW b \in Int, Agree(s, t, b), Bit(s, b) = Bit(t, b)
    PROVE  Agree(s, t, b - 1)
<1> SUFFICES ASSUME NEW j \in 0 .. 29, j > b - 1 PROVE Bit(s, j) = Bit(t, j)
  BY DEF Agree
<1>1. j = b \/ j > b
  OBVIOUS
<1> QED
  BY <1>1 DEF Agree

(* A child is next to nothing, or one deeper.                               *)
LEMMA ChildIsDeeper ==
    ASSUME NEW m, NEW d, NEW top, TreesFit(m, d, top), NEW t \in Nodes(m), NEW z \in 0 .. 1
    PROVE  LET c == m.node[t].child[z] IN
           /\ c \in Nodes(m) \cup {NULL}
           /\ c # NULL => d[c] = d[t] + 1 /\ top - d[c] \in Nat
           /\ d[t] \in Nat /\ top - d[t] \in Nat /\ top \in Nat /\ NULL \notin Nodes(m)
<1> DEFINE c == m.node[t].child[z]
<1>1. BinsTyped(m) /\ NULL \notin Nodes(m)
  BY DEF TreesFit, BinsTyped
<1>2. c \in Nodes(m) \cup {NULL}
  BY <1>1, NodeTypes
<1>3. ASSUME c # NULL PROVE d[c] = d[t] + 1 /\ top - d[c] \in Nat
  <2>1. d[c] = d[t] + 1 /\ c \in Nodes(m)
    BY <1>3, OneParent
  <2>2. top - d[c] \in Nat
    BY <2>1, BranchIsInt
  <2> QED
    BY <2>1, <2>2
<1>4. d[t] \in Nat /\ top - d[t] \in Nat /\ top \in Nat
  BY BranchIsInt
<1> QED
  BY <1>1, <1>2, <1>3, <1>4

(* The walk of LeftmostPath.                                                *)
PathOf(m, g) ==
    g = [u \in DOMAIN m.node \cup {NULL} |->
           IF u = NULL THEN {} ELSE {u} \cup g[leftmost_child(m, u)]]

Path(m) == CHOOSE g : PathOf(m, g)

(* There is such a walk.                                                    *)
LEMMA PathExists ==
    ASSUME NEW m, NEW d, NEW top, TreesFit(m, d, top)
    PROVE  /\ Path(m)[NULL] = {}
           /\ \A t \in Nodes(m) : /\ Path(m)[t] = {t} \cup Path(m)[leftmost_child(m, t)]
                                  /\ leftmost_child(m, t) \in Nodes(m) \cup {NULL}
<1> DEFINE D == Nodes(m) \cup {NULL}
           R == SUBSET D
           stop == [u \in D |-> u = NULL]
           next == [u \in D |-> leftmost_child(m, u)]
           base == [u \in D |-> {}]
           join == [p \in D \X R |-> {p[1]} \cup p[2]]
           high == [u \in D |-> IF u = NULL THEN 0 ELSE top - d[u] + 1]
<1>0. NULL \notin Nodes(m)
  BY DEF TreesFit, BinsTyped
<1>1. ASSUME NEW t \in Nodes(m)
      PROVE  LET c == leftmost_child(m, t) IN
             /\ c \in D /\ top - d[t] \in Nat
             /\ c # NULL => top - d[c] \in Nat /\ top - d[c] < top - d[t]
  <2>1. \A z \in 0 .. 1 : LET c == m.node[t].child[z] IN
           /\ c \in Nodes(m) \cup {NULL}
           /\ c # NULL => d[c] = d[t] + 1 /\ top - d[c] \in Nat
    BY ChildIsDeeper
  <2>2. d[t] \in Nat /\ top - d[t] \in Nat /\ top \in Nat
    BY BranchIsInt
  <2>3. PICK z \in 0 .. 1 : leftmost_child(m, t) = m.node[t].child[z]
    BY DEF leftmost_child
  <2> DEFINE c == m.node[t].child[z]
  <2>4. c \in Nodes(m) \cup {NULL} /\ (c # NULL => d[c] = d[t] + 1 /\ top - d[c] \in Nat)
    BY <2>1
  <2> HIDE DEF c
  <2>5. c \in D /\ (c # NULL => top - d[c] \in Nat /\ top - d[c] < top - d[t])
    BY <2>2, <2>4
  <2> QED
    BY <2>2, <2>3, <2>5 DEF c
<1>2. high \in [D -> Nat]
  BY <1>1
<1>3. \A u \in D : base[u] \in R
  OBVIOUS
<1>4. \A u \in D : \A e \in R : join[<<u, e>>] \in R
  OBVIOUS
<1>5. ASSUME NEW u \in D, ~stop[u] PROVE next[u] \in D /\ high[next[u]] < high[u]
  <2> DEFINE c == leftmost_child(m, u)
  <2>1. u # NULL /\ u \in Nodes(m)
    BY <1>5
  <2>2. /\ c \in D /\ top - d[u] \in Nat
        /\ c # NULL => top - d[c] \in Nat /\ top - d[c] < top - d[u]
    BY <1>1, <2>1
  <2>3. high[u] = top - d[u] + 1
    BY <2>1
  <2> HIDE DEF c
  <2>4. high[c] = IF c = NULL THEN 0 ELSE top - d[c] + 1
    BY <2>2
  <2>5. next[u] = c
    BY DEF c
  <2> HIDE DEF high, next
  <2> QED
    BY <2>2, <2>3, <2>4, <2>5
<1> HIDE DEF high, stop, next, base, join
<1>6. PICK g \in [D -> R] : WalkOf(g, D, stop, next, base, join)
  <2> HIDE DEF D, R
  <2> QED
    BY <1>2, <1>3, <1>4, <1>5, WalksExist
<1>7. ASSUME NEW u \in D
      PROVE  g[u] = IF u = NULL THEN {} ELSE {u} \cup g[leftmost_child(m, u)]
  <2>1. g[u] = IF stop[u] THEN base[u] ELSE join[<<u, g[next[u]]>>]
    BY <1>6 DEF WalkOf
  <2>2. CASE u = NULL
    BY <2>1, <2>2 DEF stop, base
  <2>3. CASE u # NULL
    <3>1. ~stop[u] /\ next[u] = leftmost_child(m, u)
      BY <2>3 DEF stop, next
    <3>2. g[next[u]] \in R
      BY <1>5, <3>1
    <3>3. join[<<u, g[next[u]]>>] = {u} \cup g[next[u]]
      BY <3>2 DEF join
    <3> QED
      BY <2>1, <2>3, <3>1, <3>3
  <2> QED
    BY <2>2, <2>3
<1>8. PathOf(m, g)
  <2>1. g = [u \in D |-> g[u]]
    BY <1>6
  <2> QED
    BY <1>7, <2>1 DEF PathOf, Nodes
<1> DEFINE p == Path(m)
<1>9. PathOf(m, p)
  BY <1>8 DEF Path
<1> HIDE DEF p
<1>10. p[NULL] = {}
  BY <1>9 DEF PathOf
<1>11. ASSUME NEW t \in Nodes(m)
       PROVE  p[t] = {t} \cup p[leftmost_child(m, t)] /\ leftmost_child(m, t) \in Nodes(m) \cup {NULL}
  BY <1>0, <1>1, <1>9 DEF PathOf, Nodes
<1> QED
  BY <1>10, <1>11 DEF p

(* Two sizes that agree down to a bit are in the order of that bit.         *)
LEMMA BitsOrder ==
    ASSUME NEW s \in Sizes, NEW t \in Sizes, NEW u, NEW b \in Int,
           Agree(s, u, b), Agree(t, u, b), Bit(s, b) # Bit(t, b)
    PROVE  Bit(t, b) = 1 => s < t /\ Bit(s, b) = 0
<1>1. Agree(s, t, b)
  BY DEF Agree
<1>2. Bit(s, b) \in 0 .. 1
  BY SizesAreBounded, BitsAreBits
<1> QED
  BY <1>1, <1>2, FirstBitDecides

(* leftmost_child comes past the least size of a tree.                      *)
LeastOf(m, d, t, P) ==
    /\ t \in P /\ P \subseteq Under(m, d, t)
    /\ \A y \in Under(m, d, t) : \E p \in P : ChunkSize(m, p) <= ChunkSize(m, y)

LEMMA LeftmostIsLeast ==
    ASSUME NEW m, NEW d, NEW top, TreesFit(m, d, top), NEW t, IsTreed(m, t)
    PROVE  LeastOf(m, d, t, LeftmostPath(m, t))
<1> DEFINE P == Path(m)
           Good(x) == LeastOf(m, d, x, P[x])
           Bad == {n \in Nat : \E x : IsTreed(m, x) /\ ~Good(x) /\ top - d[x] = n}
<1>1. LeftmostPath(m, t) = P[t]
  BY DEF LeftmostPath, Path, PathOf
<1>2. \A x : IsTreed(m, x) => /\ x \in Nodes(m) /\ d[x] \in Nat /\ top \in Nat /\ top - d[x] \in Nat
                              /\ Branch(m, d, x) \in Int
  BY BranchIsInt DEF IsTreed
<1>3. SUFFICES ASSUME Bad # {} PROVE FALSE
  <2>1. Bad = {} => Good(t)
    <3> HIDE DEF Good
    <3> QED
      BY <1>2
  <2> QED
    BY <1>1, <1>3, <2>1
<1>4. PICK n \in Bad : \A k \in Bad : n <= k
  <2>1. Bad \in SUBSET Nat
    OBVIOUS
  <2> HIDE DEF Bad
  <2> QED
    BY <1>3, <2>1, LeastNat
<1>5. PICK x : IsTreed(m, x) /\ ~Good(x) /\ top - d[x] = n
  BY <1>4
<1> DEFINE c == leftmost_child(m, x)
           b == Branch(m, d, x)
<1>6. P[x] = {x} \cup P[c] /\ P[NULL] = {} /\ x \in Nodes(m) /\ b \in Int
  BY <1>2, <1>5, PathExists
<1>7. /\ x \in Under(m, d, x)
      /\ \A z \in 0 .. 1 : m.node[x].child[z] # NULL =>
            /\ IsTreed(m, m.node[x].child[z]) /\ ChildFits(m, d, x, z, m.node[x].child[z])
            /\ \A y \in Under(m, d, m.node[x].child[z]) : y \in Under(m, d, x)
  BY <1>5, ChildrenAreUnder
<1>8. BinsTyped(m) /\ \A y \in Nodes(m) : ChunkSize(m, y) \in Sizes /\ ChunkSize(m, y) \in Nat
  <2>1. BinsTyped(m)
    BY DEF TreesFit
  <2> QED
    BY <2>1, NodeTypes
<1>9. ASSUME NEW y \in Under(m, d, x)
      PROVE  /\ y \in Nodes(m) /\ ChunkSize(m, y) \in Sizes
             /\ Agree(ChunkSize(m, y), ChunkSize(m, x), b) /\ Bit(ChunkSize(m, y), b) \in 0 .. 1
  BY <1>8, BitsAreBits DEF Under, IsTreed
<1> HIDE DEF P
<1>10. CASE c = NULL
  <2>1. m.node[x].child[0] = NULL /\ m.node[x].child[1] = NULL
    BY <1>10 DEF leftmost_child
  <2>2. ASSUME NEW y \in Under(m, d, x), y # x PROVE FALSE
    <3>1. m.node[x].child[Bit(ChunkSize(m, y), b)] # NULL
      BY <1>5, <2>2, UnderAChild DEF Toward
    <3> QED
      BY <1>9, <2>1, <3>1
  <2>3. P[x] = {x}
    BY <1>6, <1>10
  <2>4. Good(x)
    BY <1>6, <1>7, <1>8, <2>2, <2>3 DEF LeastOf
  <2> QED
    BY <1>5, <2>4
<1>11. CASE c # NULL
  <2> DEFINE z == IF m.node[x].child[0] # NULL THEN 0 ELSE 1
  <2>1. c = m.node[x].child[z] /\ z \in 0 .. 1
    BY DEF leftmost_child
  <2>2. IsTreed(m, c) /\ ChildFits(m, d, x, z, c) /\ \A y \in Under(m, d, c) : y \in Under(m, d, x)
    <3> HIDE DEF c, z
    <3> QED
      BY <1>7, <1>11, <2>1
  <2>3. d[c] = d[x] + 1 /\ c \in Nodes(m)
    BY <1>2, <2>2 DEF ChildFits
  <2>4. Good(c)
    <3>1. SUFFICES ASSUME ~Good(c) PROVE FALSE
      OBVIOUS
    <3>2. top - d[c] \in Bad
      BY <1>2, <2>2, <3>1
    <3> HIDE DEF Bad, c
    <3> QED
      BY <1>2, <1>4, <1>5, <2>2, <2>3, <3>2
  <2> HIDE DEF c
  <2>5. P[x] \subseteq Under(m, d, x) /\ x \in P[x]
    BY <1>6, <1>7, <2>2, <2>4 DEF LeastOf
  <2>6. ASSUME NEW y \in Under(m, d, x) PROVE \E p \in P[x] : ChunkSize(m, p) <= ChunkSize(m, y)
    <3>1. CASE y = x
      BY <1>6, <1>8, <3>1
    <3>2. CASE y # x
      <4> DEFINE e == Bit(ChunkSize(m, y), b)
                 k == m.node[x].child[e]
      <4>1. k # NULL /\ y \in Under(m, d, k) /\ e \in 0 .. 1
        BY <1>5, <1>9, <3>2, UnderAChild DEF Toward
      <4>2. CASE e = z
        <5>1. k = c
          BY <2>1, <4>2
        <5>2. y \in Under(m, d, c)
          BY <4>1, <5>1, Zenon
        <5> QED
          BY <1>6, <2>4, <5>2 DEF LeastOf
      <4>3. CASE e # z
        <5>1. z = 0 /\ e = 1
          BY <4>1, <4>3
        <5>2. Bit(ChunkSize(m, c), b) = 0 /\ Agree(ChunkSize(m, c), ChunkSize(m, x), b)
          BY <2>2, <5>1 DEF ChildFits
        <5>3. ChunkSize(m, c) < ChunkSize(m, y)
          <6> DEFINE sc == ChunkSize(m, c)
                     sy == ChunkSize(m, y)
                     sx == ChunkSize(m, x)
          <6>1. /\ sc \in Sizes /\ sy \in Sizes /\ Agree(sc, sx, b) /\ Agree(sy, sx, b)
                /\ Bit(sc, b) = 0 /\ Bit(sy, b) = 1
            BY <1>8, <1>9, <2>3, <5>1, <5>2
          <6> HIDE DEF sc, sy, sx, b
          <6>2. sc < sy
            BY <1>6, <6>1, BitsOrder
          <6> QED
            BY <6>2 DEF sc, sy
        <5>4. c \in P[x]
          BY <1>6, <2>4 DEF LeastOf
        <5>5. ChunkSize(m, c) \in Nat /\ ChunkSize(m, y) \in Nat
          BY <1>8, <1>9, <2>3
        <5> QED
          BY <5>3, <5>4, <5>5
      <4> QED
        BY <4>2, <4>3
    <3> QED
      BY <3>1, <3>2
  <2>7. Good(x)
    BY <2>5, <2>6 DEF LeastOf
  <2> QED
    BY <1>5, <2>7
<1> QED
  BY <1>10, <1>11
-----------------------------------------------------------------------------
(* The walk of Search.                                                      *)
Way(m, nb, t, next, below) ==
    LET right == m.node[t].child[1] IN
    [path   |-> {t} \cup below.path,
     passed |-> IF below.passed = NULL /\ right # next THEN right ELSE below.passed]

SearchOf(m, nb, g) ==
    g = [v \in ((DOMAIN m.node) \cup {NULL}) \X Int |->
          LET t == v[1] IN
          IF t = NULL THEN [path |-> {}, passed |-> NULL]
          ELSE IF ChunkSize(m, t) = nb THEN [path |-> {t}, passed |-> NULL]
          ELSE LET right == m.node[t].child[1]
                   next  == m.node[t].child[Bit(nb, v[2])]
                   below == g[<<next, v[2] - 1>>]
               IN  [path   |-> {t} \cup below.path,
                    passed |-> IF below.passed = NULL /\ right # next
                               THEN right ELSE below.passed]]

Walk(m, nb) == CHOOSE g : SearchOf(m, nb, g)

(* There is such a walk.                                                    *)
LEMMA SearchExists ==
    ASSUME NEW m, NEW d, NEW top, TreesFit(m, d, top), NEW nb \in Sizes
    PROVE  /\ \A b \in Int : Walk(m, nb)[<<NULL, b>>] = [path |-> {}, passed |-> NULL]
           /\ \A t \in Nodes(m) : \A b \in Int :
                 LET next == m.node[t].child[Bit(nb, b)] IN
                 Walk(m, nb)[<<t, b>>] =
                    IF ChunkSize(m, t) = nb THEN [path |-> {t}, passed |-> NULL]
                    ELSE Way(m, nb, t, next, Walk(m, nb)[<<next, b - 1>>])
<1> DEFINE N == Nodes(m) \cup {NULL}
           D == N \X Int
           R == [path : SUBSET N, passed : N]
           none == [path |-> {}, passed |-> NULL]
           stop == [v \in D |-> v[1] = NULL \/ ChunkSize(m, v[1]) = nb]
           next == [v \in D |-> <<m.node[v[1]].child[Bit(nb, v[2])], v[2] - 1>>]
           base == [v \in D |-> IF v[1] = NULL THEN none ELSE [path |-> {v[1]}, passed |-> NULL]]
           join == [p \in D \X R |->
                      IF p[1][1] = NULL THEN none
                      ELSE Way(m, nb, p[1][1], m.node[p[1][1]].child[Bit(nb, p[1][2])], p[2])]
           high == [v \in D |-> IF v[1] = NULL THEN 0 ELSE top - d[v[1]] + 1]
<1>0. NULL \notin Nodes(m) /\ nb \in Nat
  BY SizesAreBounded DEF TreesFit, BinsTyped
<1>1. ASSUME NEW t \in Nodes(m), NEW z \in 0 .. 1
      PROVE  LET c == m.node[t].child[z] IN
             /\ c \in N /\ top - d[t] \in Nat
             /\ c # NULL => top - d[c] \in Nat /\ top - d[c] < top - d[t]
  <2> DEFINE c == m.node[t].child[z]
  <2>1. /\ c \in Nodes(m) \cup {NULL}
        /\ c # NULL => d[c] = d[t] + 1 /\ top - d[c] \in Nat
        /\ d[t] \in Nat /\ top - d[t] \in Nat /\ top \in Nat
    BY ChildIsDeeper
  <2> HIDE DEF c
  <2>2. c \in N /\ top - d[t] \in Nat /\ (c # NULL => top - d[c] \in Nat /\ top - d[c] < top - d[t])
    BY <2>1
  <2> QED
    BY <2>2 DEF c
<1>2. high \in [D -> Nat]
  <2>1. \A t \in Nodes(m) : top - d[t] \in Nat
    BY BranchIsInt
  <2> QED
    BY <2>1
<1>3. \A v \in D : base[v] \in R
  OBVIOUS
<1>4. \A v \in D : \A e \in R : join[<<v, e>>] \in R
  <2> SUFFICES ASSUME NEW v \in D, NEW e \in R PROVE join[<<v, e>>] \in R
    OBVIOUS
  <2>1. none \in R
    OBVIOUS
  <2>2. CASE v[1] = NULL
    <3>1. join[<<v, e>>] = none
      BY <2>2
    <3> QED
      BY <2>1, <3>1
  <2>3. CASE v[1] # NULL
    <3> DEFINE t == v[1]
               right == m.node[t].child[1]
               n == m.node[t].child[Bit(nb, v[2])]
    <3>1. t \in Nodes(m)
      BY <2>3
    <3>2. right \in N
      BY <1>1, <3>1
    <3>3. join[<<v, e>>] = Way(m, nb, t, n, e)
      BY <2>3
    <3> HIDE DEF n, join
    <3>4. Way(m, nb, t, n, e) \in R
      BY <3>1, <3>2 DEF Way
    <3> QED
      BY <3>3, <3>4
  <2> QED
    BY <2>2, <2>3
<1>5. ASSUME NEW v \in D, ~stop[v] PROVE next[v] \in D /\ high[next[v]] < high[v]
  <2>0. v[1] # NULL /\ v[1] \in Nodes(m) /\ v[2] \in Int
    <3>1. v[1] # NULL
      BY <1>5
    <3>2. v[1] \in N /\ v[2] \in Int
      OBVIOUS
    <3> QED
      BY <3>1, <3>2
  <2> DEFINE t == v[1]
             z == Bit(nb, v[2])
             c == m.node[t].child[z]
  <2>1. t # NULL /\ t \in Nodes(m) /\ v[2] - 1 \in Int
    BY <2>0
  <2>2. z \in 0 .. 1
    BY <1>0, BitsAreBits
  <2>3. /\ c \in N /\ top - d[t] \in Nat
        /\ c # NULL => top - d[c] \in Nat /\ top - d[c] < top - d[t]
    <3> HIDE DEF t, z
    <3> QED
      BY <1>1, <2>1, <2>2
  <2>4. next[v] = <<c, v[2] - 1>>
    OBVIOUS
  <2>5. high[v] = top - d[t] + 1
    BY <2>1
  <2> HIDE DEF c, t
  <2>6. high[<<c, v[2] - 1>>] = IF c = NULL THEN 0 ELSE top - d[c] + 1
    BY <2>1, <2>3
  <2>7. <<c, v[2] - 1>> \in D
    BY <2>1, <2>3
  <2> HIDE DEF high, next, D
  <2>8. next[v] \in D /\ high[next[v]] = IF c = NULL THEN 0 ELSE top - d[c] + 1
    BY <2>4, <2>6, <2>7
  <2> QED
    BY <2>3, <2>5, <2>8
<1> HIDE DEF high, stop, next, base, join
<1>6. PICK g \in [D -> R] : WalkOf(g, D, stop, next, base, join)
  <2> HIDE DEF D, R
  <2> QED
    BY <1>2, <1>3, <1>4, <1>5, WalksExist
<1>7. ASSUME NEW v \in D
      PROVE  g[v] = IF v[1] = NULL THEN none
                    ELSE IF ChunkSize(m, v[1]) = nb THEN [path |-> {v[1]}, passed |-> NULL]
                    ELSE LET n == m.node[v[1]].child[Bit(nb, v[2])] IN
                         Way(m, nb, v[1], n, g[<<n, v[2] - 1>>])
  <2>1. g[v] = IF stop[v] THEN base[v] ELSE join[<<v, g[next[v]]>>]
    BY <1>6 DEF WalkOf
  <2>2. CASE stop[v]
    <3>1. v[1] = NULL \/ ChunkSize(m, v[1]) = nb
      BY <2>2 DEF stop
    <3>2. base[v] = IF v[1] = NULL THEN none ELSE [path |-> {v[1]}, passed |-> NULL]
      BY DEF base
    <3> QED
      BY <2>1, <2>2, <3>1, <3>2
  <2>3. CASE ~stop[v]
    <3> DEFINE n == m.node[v[1]].child[Bit(nb, v[2])]
    <3>1. v[1] # NULL /\ ChunkSize(m, v[1]) # nb
      BY <2>3 DEF stop
    <3>2. next[v] = <<n, v[2] - 1>> /\ next[v] \in D
      BY <1>5, <2>3 DEF next
    <3>3. g[next[v]] \in R
      BY <1>6, <3>2
    <3>4. join[<<v, g[next[v]]>>] = Way(m, nb, v[1], n, g[next[v]])
      <4> DEFINE e == g[next[v]]
      <4>1. e \in R
        BY <3>3
      <4> HIDE DEF e
      <4>2. join[<<v, e>>] = Way(m, nb, v[1], n, e)
        BY <3>1, <4>1 DEF join
      <4> QED
        BY <4>2 DEF e
    <3>5. g[v] = Way(m, nb, v[1], n, g[<<n, v[2] - 1>>])
      BY <2>1, <2>3, <3>2, <3>4, Zenon
    <3> HIDE DEF n
    <3> QED
      BY <3>1, <3>5 DEF n
  <2> QED
    BY <2>2, <2>3
<1>8. SearchOf(m, nb, g)
  <2>1. g = [v \in D |-> g[v]]
    BY <1>6
  <2> QED
    BY <1>7, <2>1 DEF SearchOf, Way, Nodes
<1> DEFINE h == Walk(m, nb)
<1>9. SearchOf(m, nb, h)
  BY <1>8 DEF Walk
<1> HIDE DEF h
<1>10. ASSUME NEW b \in Int PROVE h[<<NULL, b>>] = [path |-> {}, passed |-> NULL]
  BY <1>9 DEF SearchOf
<1>11. ASSUME NEW t \in Nodes(m), NEW b \in Int
       PROVE  LET n == m.node[t].child[Bit(nb, b)] IN
              h[<<t, b>>] = IF ChunkSize(m, t) = nb THEN [path |-> {t}, passed |-> NULL]
                            ELSE Way(m, nb, t, n, h[<<n, b - 1>>])
  <2>1. t # NULL /\ <<t, b>> \in ((DOMAIN m.node) \cup {NULL}) \X Int
    BY <1>0 DEF Nodes
  <2> QED
    BY <1>9, <2>1 DEF SearchOf, Way
<1> QED
  BY <1>10, <1>11 DEF h
(* What the search in the subtree at t has to find for size nb: a path of   *)
(* it and a part of it in which all is larger, such that whatever holds nb  *)
(* is no smaller than some chunk of them that does.                         *)
LargerThan(m, d, t, nb, p) ==
    IsTreed(m, p) /\ \A y \in Under(m, d, p) : y \in Under(m, d, t) /\ ChunkSize(m, y) > nb

Covered(m, d, nb, f, y) ==
    \/ \E c \in f.path : nb <= ChunkSize(m, c) /\ ChunkSize(m, c) <= ChunkSize(m, y)
    \/ f.passed # NULL /\ \E c \in Under(m, d, f.passed) : ChunkSize(m, c) <= ChunkSize(m, y)

Finds(m, d, t, nb, f) ==
    /\ t \in f.path /\ f.path \subseteq Under(m, d, t)
    /\ f.passed # NULL => LargerThan(m, d, t, nb, f.passed)
    /\ \A y \in Under(m, d, t) : ChunkSize(m, y) >= nb => Covered(m, d, nb, f, y)

(* What is found below the child on the way to nb, with the node above it   *)
(* and its right child, is what is found for the node above.                *)
LEMMA SearchStep ==
    ASSUME NEW m, NEW d, NEW top, TreesFit(m, d, top), NEW t, IsTreed(m, t), NEW nb \in Sizes,
           Agree(nb, ChunkSize(m, t), Branch(m, d, t)), NEW f,
           Toward(m, d, t, nb) = NULL => f.path = {} /\ f.passed = NULL,
           Toward(m, d, t, nb) # NULL => Finds(m, d, Toward(m, d, t, nb), nb, f)
    PROVE  Finds(m, d, t, nb, Way(m, nb, t, Toward(m, d, t, nb), f))
<1> DEFINE b == Branch(m, d, t)
           z == Bit(nb, b)
           c == Toward(m, d, t, nb)
           right == m.node[t].child[1]
           h == Way(m, nb, t, c, f)
           st == ChunkSize(m, t)
<1>1. t \in Nodes(m) /\ b \in Int /\ nb \in Nat /\ z \in 0 .. 1 /\ Agree(nb, st, b)
  BY SizesAreBounded, BitsAreBits, BranchIsInt DEF IsTreed
<1>2. \A y \in Nodes(m) : ChunkSize(m, y) \in Sizes /\ ChunkSize(m, y) \in Nat /\ y # NULL
  <2>1. BinsTyped(m)
    BY DEF TreesFit
  <2> QED
    BY <2>1, NodeTypes
<1>3. \A y \in Under(m, d, t) :
         /\ y \in Nodes(m) /\ Agree(ChunkSize(m, y), st, b)
         /\ Bit(ChunkSize(m, y), b) \in 0 .. 1
  BY <1>2, BitsAreBits DEF Under
<1>4. /\ t \in Under(m, d, t)
      /\ \A k \in 0 .. 1 : m.node[t].child[k] # NULL =>
            /\ IsTreed(m, m.node[t].child[k])
            /\ \A y \in Under(m, d, m.node[t].child[k]) :
                  y \in Under(m, d, t) /\ Bit(ChunkSize(m, y), b) = k
  BY ChildrenAreUnder
<1>5. h.path = {t} \cup f.path
      /\ h.passed = IF f.passed = NULL /\ right # c THEN right ELSE f.passed
  BY DEF Way
<1>6. c = m.node[t].child[z]
  BY DEF Toward
<1>7. c # NULL => /\ f.path \subseteq Under(m, d, c)
                  /\ f.passed # NULL => LargerThan(m, d, c, nb, f.passed)
                  /\ \A y \in Under(m, d, c) : ChunkSize(m, y) >= nb => Covered(m, d, nb, f, y)
  BY DEF Finds
<1>8. c # NULL => /\ IsTreed(m, c)
                  /\ \A y \in Under(m, d, c) : y \in Under(m, d, t) /\ Bit(ChunkSize(m, y), b) = z
  BY <1>1, <1>4, <1>6
<1>9. c = NULL => f.path = {} /\ f.passed = NULL
  OBVIOUS
<1>10. \A y \in Under(m, d, t) : Bit(ChunkSize(m, y), b) = 1 /\ z = 0 => nb < ChunkSize(m, y)
  <2> SUFFICES ASSUME NEW y \in Under(m, d, t), Bit(ChunkSize(m, y), b) = 1, z = 0
               PROVE  nb < ChunkSize(m, y)
    OBVIOUS
  <2> DEFINE sy == ChunkSize(m, y)
  <2>1. sy \in Sizes /\ Agree(sy, st, b) /\ Bit(sy, b) = 1 /\ Bit(nb, b) = 0
    BY <1>2, <1>3
  <2> HIDE DEF sy, b, st
  <2>2. nb \in Sizes /\ b \in Int /\ Agree(nb, st, b) /\ Bit(nb, b) # Bit(sy, b)
    BY <1>1, <2>1
  <2>3. nb < sy
    BY <2>1, <2>2, BitsOrder, Zenon
  <2> QED
    BY <2>3 DEF sy
<1>11. \A y \in Under(m, d, t) : Bit(ChunkSize(m, y), b) = 0 /\ z = 1 => ChunkSize(m, y) < nb
  <2> SUFFICES ASSUME NEW y \in Under(m, d, t), Bit(ChunkSize(m, y), b) = 0, z = 1
               PROVE  ChunkSize(m, y) < nb
    OBVIOUS
  <2> DEFINE sy == ChunkSize(m, y)
  <2>1. sy \in Sizes /\ Agree(sy, st, b) /\ Bit(sy, b) = 0 /\ Bit(nb, b) = 1
    BY <1>2, <1>3
  <2> HIDE DEF sy, b, st
  <2>2. nb \in Sizes /\ b \in Int /\ Agree(nb, st, b) /\ Bit(sy, b) # Bit(nb, b)
    BY <1>1, <2>1
  <2>3. sy < nb
    BY <2>1, <2>2, BitsOrder, Zenon
  <2> QED
    BY <2>3 DEF sy
<1>12. \A y \in Under(m, d, t), p \in Under(m, d, t) :
          Bit(ChunkSize(m, y), b) = 1 /\ Bit(ChunkSize(m, p), b) = 0
          => ChunkSize(m, p) <= ChunkSize(m, y)
  <2> SUFFICES ASSUME NEW y \in Under(m, d, t), NEW p \in Under(m, d, t),
                      Bit(ChunkSize(m, y), b) = 1, Bit(ChunkSize(m, p), b) = 0
               PROVE  ChunkSize(m, p) <= ChunkSize(m, y)
    OBVIOUS
  <2> DEFINE sy == ChunkSize(m, y)
             sp == ChunkSize(m, p)
  <2>1. /\ sy \in Sizes /\ Agree(sy, st, b) /\ Bit(sy, b) = 1
        /\ sp \in Sizes /\ Agree(sp, st, b) /\ Bit(sp, b) = 0 /\ sy \in Nat /\ sp \in Nat
    BY <1>2, <1>3
  <2> HIDE DEF sy, b, st, sp
  <2>2. sp < sy
    BY <1>1, <2>1, BitsOrder
  <2> QED
    BY <2>1, <2>2 DEF sy, sp
<1> HIDE DEF c, h, b, z, st
<1>13. t \in h.path /\ h.path \subseteq Under(m, d, t)
  BY <1>4, <1>5, <1>7, <1>8, <1>9
<1>14. ASSUME h.passed # NULL PROVE LargerThan(m, d, t, nb, h.passed)
  <2>1. CASE f.passed # NULL
    <3>1. h.passed = f.passed /\ c # NULL
      BY <1>5, <1>9, <2>1
    <3>2. LargerThan(m, d, c, nb, f.passed)
      BY <1>7, <2>1, <3>1
    <3>3. LargerThan(m, d, t, nb, f.passed)
      BY <1>8, <3>1, <3>2 DEF LargerThan
    <3> QED
      BY <3>1, <3>3
  <2>2. CASE f.passed = NULL
    <3>1. h.passed = right /\ right # NULL /\ right # c
      BY <1>5, <1>14, <2>2
    <3>2. z = 0
      BY <1>1, <1>6, <3>1
    <3>3. IsTreed(m, right) /\ \A y \in Under(m, d, right) :
              y \in Under(m, d, t) /\ Bit(ChunkSize(m, y), b) = 1
      BY <1>4, <3>1
    <3>4. LargerThan(m, d, t, nb, right)
      BY <1>1, <1>2, <1>3, <1>10, <3>2, <3>3 DEF LargerThan
    <3> QED
      BY <3>1, <3>4
  <2> QED
    BY <2>1, <2>2
<1>15. ASSUME NEW y \in Under(m, d, t), ChunkSize(m, y) >= nb
       PROVE  Covered(m, d, nb, h, y)
  <2> DEFINE e == Bit(ChunkSize(m, y), b)
             k == m.node[t].child[e]
  <2>0. y \in Nodes(m) /\ e \in 0 .. 1 /\ ChunkSize(m, y) \in Nat
    BY <1>2, <1>3
  <2>1. CASE y = t
    BY <1>13, <1>15, <2>0, <2>1 DEF Covered
  <2>2. CASE y # t /\ e = z
    <3>1. k # NULL /\ y \in Under(m, d, k)
      BY <2>2, UnderAChild DEF Toward, b
    <3>2. k = c
      BY <1>6, <2>2
    <3>3. Covered(m, d, nb, f, y)
      BY <1>7, <1>15, <3>1, <3>2
    <3>4. f.passed # NULL => h.passed = f.passed
      BY <1>5
    <3> QED
      BY <1>5, <3>3, <3>4 DEF Covered
  <2>3. CASE y # t /\ e # z
    <3>1. k # NULL /\ y \in Under(m, d, k)
      BY <2>3, UnderAChild DEF Toward, b
    <3>2. e = 1 /\ z = 0
      <4>1. e = 1 \/ (e = 0 /\ z = 1)
        BY <1>1, <2>0, <2>3
      <4>2. nb <= ChunkSize(m, y)
        BY <1>15
      <4> QED
        BY <1>1, <1>11, <2>0, <2>3, <4>1, <4>2
    <3>3. right # NULL /\ y \in Under(m, d, right) /\ k = right
      BY <3>1, <3>2
    <3>4. right # c
      <4>1. c # NULL => \A u \in Under(m, d, c) : Bit(ChunkSize(m, u), b) = 0
        BY <1>8, <3>2
      <4>2. Bit(ChunkSize(m, y), b) = 1
        BY <3>2
      <4> QED
        BY <3>3, <4>1, <4>2
    <3>5. CASE f.passed = NULL
      <4>1. h.passed = right
        BY <1>5, <3>4, <3>5
      <4> QED
        BY <2>0, <3>3, <4>1 DEF Covered
    <3>6. CASE f.passed # NULL
      <4> DEFINE p == f.passed
      <4>1. h.passed = p /\ c # NULL /\ p # NULL
        BY <1>5, <1>9, <3>6
      <4>2. IsTreed(m, p) /\ \A u \in Under(m, d, p) : u \in Under(m, d, c)
        BY <1>7, <3>6, <4>1 DEF LargerThan
      <4>3. p \in Under(m, d, p)
        BY <4>2, ChildrenAreUnder
      <4>4. p \in Under(m, d, t) /\ Bit(ChunkSize(m, p), b) = 0
        BY <1>8, <3>2, <4>1, <4>2, <4>3
      <4>5. ChunkSize(m, p) <= ChunkSize(m, y)
        BY <1>12, <3>2, <4>4
      <4> QED
        BY <4>1, <4>3, <4>5 DEF Covered
    <3> QED
      BY <3>5, <3>6
  <2> QED
    BY <2>1, <2>2, <2>3
<1>16. Finds(m, d, t, nb, h)
  BY <1>13, <1>14, <1>15 DEF Finds
<1> QED
  BY <1>16 DEF h, c

(* The walk of Search finds what there is to find in a subtree.             *)
LEMMA SearchFinds ==
    ASSUME NEW m, NEW d, NEW top, TreesFit(m, d, top), NEW nb \in Sizes, NEW t, IsTreed(m, t),
           Agree(nb, ChunkSize(m, t), Branch(m, d, t))
    PROVE  Finds(m, d, t, nb, Walk(m, nb)[<<t, Branch(m, d, t)>>])
<1> DEFINE w == Walk(m, nb)
           OnWay(x) == IsTreed(m, x) /\ Agree(nb, ChunkSize(m, x), Branch(m, d, x))
           Good(x) == Finds(m, d, x, nb, w[<<x, Branch(m, d, x)>>])
           Bad == {n \in Nat : \E x : OnWay(x) /\ ~Good(x) /\ top - d[x] = n}
<1>1. \A x : IsTreed(m, x) => /\ x \in Nodes(m) /\ d[x] \in Nat /\ top \in Nat /\ top - d[x] \in Nat
                              /\ Branch(m, d, x) \in Int
  BY BranchIsInt DEF IsTreed
<1>2. SUFFICES ASSUME Bad # {} PROVE FALSE
  <2>1. Bad = {} => Good(t)
    <3> HIDE DEF Good
    <3> QED
      BY <1>1
  <2> QED
    BY <2>1
<1>3. PICK n \in Bad : \A k \in Bad : n <= k
  <2>1. Bad \in SUBSET Nat
    OBVIOUS
  <2> HIDE DEF Bad
  <2> QED
    BY <1>2, <2>1, LeastNat
<1>4. PICK x : OnWay(x) /\ ~Good(x) /\ top - d[x] = n
  BY <1>3
<1> DEFINE b == Branch(m, d, x)
           c == Toward(m, d, x, nb)
           sx == ChunkSize(m, x)
<1>5. IsTreed(m, x) /\ Agree(nb, sx, b) /\ x \in Nodes(m) /\ b \in Int
  BY <1>1, <1>4
<1>6. w[<<x, b>>] = IF sx = nb THEN [path |-> {x}, passed |-> NULL]
                    ELSE Way(m, nb, x, c, w[<<c, b - 1>>])
  <2> HIDE DEF b
  <2>1. LET next == m.node[x].child[Bit(nb, b)] IN
        w[<<x, b>>] = IF ChunkSize(m, x) = nb THEN [path |-> {x}, passed |-> NULL]
                      ELSE Way(m, nb, x, next, w[<<next, b - 1>>])
    BY <1>5, SearchExists
  <2> QED
    BY <2>1 DEF Toward, b
<1>7. w[<<NULL, b - 1>>] = [path |-> {}, passed |-> NULL]
  <2>1. b - 1 \in Int
    BY <1>5
  <2> HIDE DEF b
  <2> QED
    BY <2>1, SearchExists
<1> HIDE DEF w
<1>8. sx \in Nat /\ nb \in Nat
  BY <1>5, SizesAreBounded DEF TreesFit, BinsTyped
<1>9. CASE sx = nb
  <2> DEFINE f == [path |-> {x}, passed |-> NULL]
  <2>1. w[<<x, b>>] = f
    BY <1>6, <1>9
  <2>2. x \in Under(m, d, x)
    BY <1>5, ChildrenAreUnder
  <2>3. ASSUME NEW y \in Under(m, d, x), ChunkSize(m, y) >= nb PROVE Covered(m, d, nb, f, y)
    <3>1. ChunkSize(m, y) \in Nat
      BY SizesAreBounded DEF TreesFit, BinsTyped, Under
    <3> QED
      BY <1>8, <1>9, <2>3, <3>1 DEF Covered
  <2>4. Finds(m, d, x, nb, f)
    BY <2>2, <2>3 DEF Finds
  <2> HIDE DEF f
  <2>5. Good(x)
    BY <2>1, <2>4
  <2> QED
    BY <1>4, <2>5
<1>10. CASE sx # nb
  <2> DEFINE f == w[<<c, b - 1>>]
  <2>1. c = NULL => f.path = {} /\ f.passed = NULL
    BY <1>7
  <2>2. ASSUME c # NULL PROVE Finds(m, d, c, nb, f)
    <3> DEFINE z == Bit(nb, b)
               sc == ChunkSize(m, c)
    <3>1. z \in 0 .. 1 /\ c = m.node[x].child[z]
      BY <1>8, BitsAreBits DEF Toward
    <3>2. IsTreed(m, c) /\ ChildFits(m, d, x, z, c) /\ Branch(m, d, c) = b - 1
      <4> HIDE DEF z, b
      <4> QED
        BY <1>5, <2>2, <3>1, ChildrenAreUnder DEF b
    <3>3. d[c] = d[x] + 1 /\ Agree(sc, sx, b) /\ Bit(sc, b) = z
      BY <3>2 DEF ChildFits
    <3>4. Agree(nb, sc, Branch(m, d, c))
      <4> HIDE DEF b, sc, sx
      <4>1. Agree(sx, sc, b)
        BY <1>5, <3>3, AgreeOn
      <4>2. Agree(nb, sc, b)
        BY <1>5, <4>1, AgreeOn
      <4>3. Agree(nb, sc, b - 1)
        BY <1>5, <3>3, <4>2, AgreeBelow
      <4> QED
        BY <3>2, <4>3
    <3>5. Good(c)
      <4>1. SUFFICES ASSUME ~Good(c) PROVE FALSE
        OBVIOUS
      <4>2. top - d[c] \in Bad
        BY <1>1, <3>2, <3>4, <4>1
      <4>3. n <= top - d[c]
        BY <1>3, <4>2
      <4> HIDE DEF Bad, c
      <4> QED
        BY <1>1, <1>4, <1>5, <3>2, <3>3, <4>3
    <3> QED
      BY <3>2, <3>5
  <2> HIDE DEF f
  <2>3. Finds(m, d, x, nb, Way(m, nb, x, c, f))
    BY <1>5, <2>1, <2>2, SearchStep
  <2>4. Good(x)
    BY <1>6, <1>10, <2>3 DEF f
  <2> QED
    BY <1>4, <2>4
<1> QED
  BY <1>9, <1>10

(* The bin of a chunk of a tree is that of its size.                        *)
LEMMA BinOfANode ==
    ASSUME NEW m, NEW d, NEW top, TreesFit(m, d, top), NEW x \in Nodes(m)
    PROVE  /\ m.node[x].index = compute_tree_index(ChunkSize(m, x))
           /\ ChunkSize(m, x) \in Sizes /\ ChunkSize(m, x) \in Nat
           /\ m.node[x].index \in 0 .. 31 /\ x # NULL
BY NodeTypes DEF TreesFit, NodeFits

(* What Search finds is all in the bin of nb, and covers that bin.          *)
LEMMA SearchInBin ==
    ASSUME NEW m, NEW d, NEW top, TreesFit(m, d, top), NEW nb \in Sizes
    PROVE  LET i == compute_tree_index(nb)
               found == Search(m, i, nb)
           IN  /\ \A c \in found.path : c \in Nodes(m) /\ m.node[c].index = i
               /\ found.passed # NULL =>
                     /\ IsTreed(m, found.passed)
                     /\ \A y \in Under(m, d, found.passed) :
                           y \in Nodes(m) /\ m.node[y].index = i /\ ChunkSize(m, y) > nb
               /\ \A y : IsTreed(m, y) /\ m.node[y].index = i /\ ChunkSize(m, y) >= nb
                         => Covered(m, d, nb, found, y)
<1> DEFINE i == compute_tree_index(nb)
           r == m.treebin[i]
           found == Search(m, i, nb)
<1>1. found = Walk(m, nb)[<<r, bit_for_tree_index(i)>>]
  BY DEF Search, Walk, SearchOf
<1>2. i \in 0 .. 31 /\ BinsTyped(m)
  BY IndexInRange DEF TreesFit
<1>3. CASE r = NULL
  <2>1. bit_for_tree_index(i) \in Int
    BY <1>2 DEF bit_for_tree_index, NTREEBINS, SIZE_T_BITSIZE, TREEBIN_SHIFT
  <2> HIDE DEF i
  <2>2. Walk(m, nb)[<<NULL, bit_for_tree_index(i)>>] = [path |-> {}, passed |-> NULL]
    BY <2>1, SearchExists
  <2>3. found = [path |-> {}, passed |-> NULL]
    BY <1>1, <1>3, <2>2, Zenon
  <2>4. ASSUME NEW y, IsTreed(m, y), m.node[y].index = i PROVE FALSE
    BY <1>3, <2>4, RootsAreOver
  <2> HIDE DEF found
  <2> QED
    BY <2>3, <2>4 DEF found, i
<1>4. CASE r # NULL
  <2>1. i \in m.treemap
    BY <1>2, <1>4 DEF BinsTyped
  <2>2. /\ r \in Nodes(m) /\ IsTreed(m, r) /\ m.node[r].index = i
        /\ Branch(m, d, r) = bit_for_tree_index(i)
    BY <2>1, RootsAreTreed
  <2>3. Agree(nb, ChunkSize(m, r), Branch(m, d, r))
    <3>1. ChunkSize(m, r) \in Sizes /\ compute_tree_index(ChunkSize(m, r)) = i
      BY <2>2, BinOfANode
    <3> QED
      BY <2>2, <3>1, BinsAgree
  <2>4. Finds(m, d, r, nb, found)
    <3> HIDE DEF found, r
    <3>1. Finds(m, d, r, nb, Walk(m, nb)[<<r, Branch(m, d, r)>>])
      BY <2>2, <2>3, SearchFinds
    <3> QED
      BY <1>1, <2>2, <3>1
  <2>5. \A y \in Under(m, d, r) : y \in Nodes(m) /\ m.node[y].index = i
    BY <2>2 DEF Under
  <2>6. ASSUME NEW y, IsTreed(m, y), m.node[y].index = i PROVE y \in Under(m, d, r)
    BY <2>6, RootsAreOver
  <2> HIDE DEF found, r, i
  <2>7. \A c \in found.path : c \in Nodes(m) /\ m.node[c].index = i
    BY <2>4, <2>5 DEF Finds
  <2>8. found.passed # NULL =>
           /\ IsTreed(m, found.passed)
           /\ \A y \in Under(m, d, found.passed) :
                 y \in Nodes(m) /\ m.node[y].index = i /\ ChunkSize(m, y) > nb
    BY <2>4, <2>5 DEF Finds, LargerThan
  <2>9. \A y : IsTreed(m, y) /\ m.node[y].index = i /\ ChunkSize(m, y) >= nb
               => Covered(m, d, nb, found, y)
    BY <2>4, <2>6 DEF Finds
  <2> QED
    BY <2>7, <2>8, <2>9 DEF found, i
<1> QED
  BY <1>3, <1>4

(* A smaller bin has smaller sizes.                                         *)
LEMMA SizesInOrder ==
    ASSUME NEW s \in Sizes, NEW t \in Sizes, compute_tree_index(s) < compute_tree_index(t)
    PROVE  s < t /\ s <= t
<1>1. s \in Nat /\ t \in Nat
  BY SizesAreBounded
<1>2. compute_tree_index(s) \in Int /\ compute_tree_index(t) \in Int
  BY IndexInRange
<1>3. t <= s => compute_tree_index(t) <= compute_tree_index(s)
  BY IndexGrows
<1> QED
  BY <1>1, <1>2, <1>3

(* There is a smallest of some chunks.                                      *)
LEMMA SmallestIsLeast ==
    ASSUME NEW m, NEW S, S # {}, \A x \in S : ChunkSize(m, x) \in Nat
    PROVE  /\ Smallest(m, S) \in S
           /\ \A y \in S : ChunkSize(m, Smallest(m, S)) <= ChunkSize(m, y)
<1> DEFINE T == {ChunkSize(m, x) : x \in S}
<1>1. T \in SUBSET Nat /\ T # {}
  OBVIOUS
<1>2. PICK n \in T : \A k \in T : n <= k
  <2> HIDE DEF T
  <2> QED
    BY <1>1, LeastNat
<1>3. \E x \in S : \A y \in S : ChunkSize(m, x) <= ChunkSize(m, y)
  BY <1>2
<1> QED
  BY <1>3 DEF Smallest

(* The least of the bins above one.                                         *)
LEMMA LeastBin ==
    ASSUME NEW S \in SUBSET (0 .. 31), S # {}
    PROVE  Min(S) \in S /\ \A k \in S : Min(S) <= k
<1>1. \E x \in S : \A y \in S : x <= y
  BY LeastNat
<1> QED
  BY <1>1 DEF Min

Holders(m, nb) == {y \in Nodes(m) : ChunkSize(m, y) >= nb}

BestOf(m, S, x) ==
    IF S = {} THEN x = NULL
    ELSE x \in S /\ \A y \in S : ChunkSize(m, x) <= ChunkSize(m, y)

(* The subtree in which best_fit goes on after the way to nb.               *)
Start(m, nb, found) ==
    LET above == {j \in m.treemap : j > compute_tree_index(nb)} IN
    IF found.passed # NULL THEN found.passed
    ELSE IF Fits(m, found.path, nb) = {} /\ above # {}
    THEN m.treebin[Min(above)]
    ELSE NULL

(* Every chunk of a size is as good as the one of them that is in the tree. *)
LEMMA TreedOfSize ==
    ASSUME NEW m, NEW q, RingsFit(m, q), NEW y \in Nodes(m)
    PROVE  \E x : IsTreed(m, x) /\ ChunkSize(m, x) = ChunkSize(m, y)
<1> DEFINE s == ChunkSize(m, y)
<1>1. s \in DOMAIN q
  BY PlaceInRing
<1>2. Len(q[s]) > 0
  BY <1>1, RingOfASize
<1>3. IsTreed(m, q[s][1]) /\ ChunkSize(m, q[s][1]) = s
  BY <1>1, <1>2, RingOfASize
<1> QED
  BY <1>3

(* The subtree that is searched last is one of larger sizes, or there is    *)
(* none because a chunk that holds nb was on the way or no bin above has    *)
(* any.                                                                     *)
LEMMA StartIsLarger ==
    ASSUME NEW m, NEW d, NEW top, TreesFit(m, d, top), NEW nb \in Sizes
    PROVE  LET i == compute_tree_index(nb)
               found == Search(m, i, nb)
               start == Start(m, nb, found)
           IN  /\ start # NULL =>
                     /\ IsTreed(m, start)
                     /\ \A y \in Under(m, d, start) :
                           y \in Nodes(m) /\ ChunkSize(m, y) >= nb
               /\ \A y : IsTreed(m, y) /\ m.node[y].index > i =>
                     \/ \E c \in Fits(m, found.path, nb) : m.node[c].index = i
                     \/ /\ start # NULL
                        /\ \/ m.node[start].index < m.node[y].index
                           \/ y \in Under(m, d, start)
<1> DEFINE i == compute_tree_index(nb)
           found == Search(m, i, nb)
           start == Start(m, nb, found)
           above == {j \in m.treemap : j > i}
           k == Min(above)
<1>1. /\ \A c \in found.path : c \in Nodes(m) /\ m.node[c].index = i
      /\ found.passed # NULL =>
            /\ IsTreed(m, found.passed)
            /\ \A y \in Under(m, d, found.passed) :
                  y \in Nodes(m) /\ m.node[y].index = i /\ ChunkSize(m, y) > nb
  BY SearchInBin
<1>2. nb \in Nat /\ i \in 0 .. 31
  BY SizesAreBounded, IndexInRange
<1>3. start = IF found.passed # NULL THEN found.passed
              ELSE IF Fits(m, found.path, nb) = {} /\ above # {} THEN m.treebin[k]
              ELSE NULL
  BY DEF Start
<1>4. above \in SUBSET (0 .. 31)
  BY DEF TreesFit, BinsTyped
<1>5. above # {} => k \in above /\ \A j \in above : k <= j
  <2> HIDE DEF above
  <2> QED
    BY <1>4, LeastBin
<1>6. above # {} => /\ IsTreed(m, m.treebin[k]) /\ m.node[m.treebin[k]].index = k
                    /\ m.treebin[k] # NULL /\ k > i /\ k \in 0 .. 31
  <2>1. above # {} => k \in m.treemap /\ k > i
    BY <1>5
  <2> HIDE DEF above, k
  <2>2. above # {} => LET r == m.treebin[k] IN
           k \in 0 .. 31 /\ r \in Nodes(m) /\ IsTreed(m, r) /\ m.node[r].index = k
    BY <2>1, RootsAreTreed
  <2> QED
    BY <2>1, <2>2, BinOfANode
<1> HIDE DEF found, start, i
<1>7. \A y : IsTreed(m, y) /\ m.node[y].index > i =>
         m.node[y].index \in above /\ y \in Under(m, d, m.treebin[m.node[y].index])
  <2> SUFFICES ASSUME NEW y, IsTreed(m, y), m.node[y].index > i
               PROVE  m.node[y].index \in above /\ y \in Under(m, d, m.treebin[m.node[y].index])
    OBVIOUS
  <2>1. m.treebin[m.node[y].index] # NULL /\ y \in Under(m, d, m.treebin[m.node[y].index])
    BY RootsAreOver
  <2>2. m.node[y].index \in 0 .. 31
    BY BinOfANode DEF IsTreed
  <2>3. m.node[y].index \in m.treemap
    BY <2>1, <2>2 DEF TreesFit, BinsTyped
  <2> QED
    BY <2>1, <2>3
<1> HIDE DEF above, k
<1>8. CASE found.passed # NULL
  <2>1. start = found.passed
    BY <1>3, <1>8
  <2>2. /\ IsTreed(m, start)
        /\ \A y \in Under(m, d, start) :
              y \in Nodes(m) /\ m.node[y].index = i /\ ChunkSize(m, y) > nb
    BY <1>1, <1>8, <2>1
  <2>3. start \in Under(m, d, start)
    BY <2>2, ChildrenAreUnder
  <2>4. \A y \in Under(m, d, start) : ChunkSize(m, y) >= nb
    BY <1>2, <2>2, BinOfANode
  <2> QED
    BY <1>8, <2>1, <2>2, <2>3, <2>4 DEF start, i, found
<1>9. CASE found.passed = NULL /\ Fits(m, found.path, nb) = {} /\ above # {}
  <2>1. start = m.treebin[k]
    BY <1>3, <1>9
  <2>2. IsTreed(m, start) /\ m.node[start].index = k /\ start # NULL /\ k > i /\ k \in 0 .. 31
    BY <1>6, <1>9, <2>1
  <2>3. ASSUME NEW y \in Under(m, d, start) PROVE y \in Nodes(m) /\ ChunkSize(m, y) >= nb
    <3>1. y \in Nodes(m) /\ m.node[y].index = k
      BY <2>2 DEF Under
    <3>2. compute_tree_index(ChunkSize(m, y)) = k /\ ChunkSize(m, y) \in Sizes
      BY <3>1, BinOfANode
    <3>3. nb <= ChunkSize(m, y)
      BY <2>2, <3>2, SizesInOrder DEF i
    <3> QED
      BY <3>1, <3>3
  <2>4. ASSUME NEW y, IsTreed(m, y), m.node[y].index > i
        PROVE  m.node[start].index < m.node[y].index \/ y \in Under(m, d, start)
    <3> DEFINE j == m.node[y].index
    <3>1. j \in above /\ y \in Under(m, d, m.treebin[j])
      BY <1>7, <2>4
    <3>2. k <= j /\ j \in 0 .. 31
      BY <1>4, <1>5, <3>1
    <3>3. CASE k = j
      BY <2>1, <3>1, <3>3
    <3>4. CASE k < j
      BY <2>2, <3>4
    <3> HIDE DEF j
    <3> QED
      BY <2>2, <3>2, <3>3, <3>4
  <2> QED
    BY <2>2, <2>3, <2>4 DEF start, i, found
<1>10. CASE found.passed = NULL /\ (Fits(m, found.path, nb) # {} \/ above = {})
  <2>1. start = NULL
    BY <1>3, <1>10
  <2>2. ASSUME NEW y, IsTreed(m, y), m.node[y].index > i
        PROVE  \E c \in Fits(m, found.path, nb) : m.node[c].index = i
    <3>1. above # {}
      BY <1>7, <2>2
    <3>2. PICK c \in Fits(m, found.path, nb) : TRUE
      BY <1>10, <3>1
    <3>3. c \in found.path
      BY <3>2 DEF Fits
    <3> QED
      BY <1>1, <3>2, <3>3
  <2> QED
    BY <2>1, <2>2 DEF start, i, found
<1> QED
  BY <1>8, <1>9, <1>10

(* What best_fit chooses from holds nb, and for every chunk that holds nb   *)
(* there is one among it that is no larger.                                 *)
LEMMA ChoiceCovers ==
    ASSUME NEW m, NEW d, NEW top, TreesFit(m, d, top), NEW q, RingsFit(m, q), NEW nb \in Sizes
    PROVE  LET found == Search(m, compute_tree_index(nb), nb)
               C == Fits(m, found.path \cup LeftmostPath(m, Start(m, nb, found)), nb)
           IN  /\ C \subseteq Holders(m, nb)
               /\ \A y \in Holders(m, nb) : \E c \in C : ChunkSize(m, c) <= ChunkSize(m, y)
<1> DEFINE i == compute_tree_index(nb)
           found == Search(m, i, nb)
           start == Start(m, nb, found)
           L == LeftmostPath(m, start)
           C == Fits(m, found.path \cup L, nb)
<1>1. /\ \A c \in found.path : c \in Nodes(m) /\ m.node[c].index = i
      /\ \A y : IsTreed(m, y) /\ m.node[y].index = i /\ ChunkSize(m, y) >= nb
                => Covered(m, d, nb, found, y)
  BY SearchInBin
<1>2. /\ start # NULL =>
            /\ IsTreed(m, start)
            /\ \A y \in Under(m, d, start) : y \in Nodes(m) /\ ChunkSize(m, y) >= nb
      /\ \A y : IsTreed(m, y) /\ m.node[y].index > i =>
            \/ \E c \in Fits(m, found.path, nb) : m.node[c].index = i
            \/ /\ start # NULL
               /\ \/ m.node[start].index < m.node[y].index
                  \/ y \in Under(m, d, start)
  BY StartIsLarger
<1>3. found.passed # NULL => start = found.passed
  BY DEF Start
<1>4. nb \in Nat /\ i \in 0 .. 31 /\ nb \in Sizes
  BY SizesAreBounded, IndexInRange
<1> HIDE DEF found, start
<1>5. start = NULL => L = {}
  <2>1. L = Path(m)[start]
    BY DEF LeftmostPath, Path, PathOf
  <2> QED
    BY <2>1, PathExists
<1>6. start # NULL => LeastOf(m, d, start, L)
  BY <1>2, LeftmostIsLeast
<1>7. \A c \in L : c \in Nodes(m) /\ ChunkSize(m, c) >= nb
  BY <1>2, <1>5, <1>6 DEF LeastOf
<1> HIDE DEF L, i
<1>8. C \subseteq Holders(m, nb)
  BY <1>1, <1>7 DEF Fits, Holders
<1>9. \A c : (c \in found.path /\ ChunkSize(m, c) >= nb) \/ c \in L => c \in C
  BY <1>7 DEF Fits
<1>10. Fits(m, found.path, nb) \subseteq C
  BY DEF Fits
<1> HIDE DEF C
<1>11. \A x, y \in Nodes(m) : m.node[x].index < m.node[y].index => ChunkSize(m, x) <= ChunkSize(m, y)
  BY BinOfANode, SizesInOrder
<1>12. ASSUME NEW y, IsTreed(m, y), ChunkSize(m, y) >= nb
       PROVE  \E c \in C : ChunkSize(m, c) <= ChunkSize(m, y)
  <2>1. /\ y \in Nodes(m) /\ m.node[y].index = compute_tree_index(ChunkSize(m, y))
        /\ ChunkSize(m, y) \in Sizes /\ ChunkSize(m, y) \in Nat /\ m.node[y].index \in 0 .. 31
    BY <1>12, BinOfANode DEF IsTreed
  <2>2. i <= m.node[y].index
    <3>1. nb <= ChunkSize(m, y)
      BY <1>12
    <3>2. compute_tree_index(nb) <= compute_tree_index(ChunkSize(m, y))
      BY <2>1, <3>1, IndexGrows
    <3> QED
      BY <2>1, <3>2 DEF i
  <2>3. CASE m.node[y].index = i
    <3>1. Covered(m, d, nb, found, y)
      BY <1>1, <1>12, <2>3
    <3>2. CASE \E c \in found.path : nb <= ChunkSize(m, c) /\ ChunkSize(m, c) <= ChunkSize(m, y)
      <4>1. PICK c \in found.path : nb <= ChunkSize(m, c) /\ ChunkSize(m, c) <= ChunkSize(m, y)
        BY <3>2
      <4>2. ChunkSize(m, c) >= nb
        BY <4>1
      <4> QED
        BY <1>9, <4>1, <4>2
    <3>3. CASE found.passed # NULL /\ \E c \in Under(m, d, found.passed) :
                  ChunkSize(m, c) <= ChunkSize(m, y)
      <4>1. start # NULL /\ start = found.passed
        BY <1>3, <3>3
      <4>2. PICK c \in Under(m, d, start) : ChunkSize(m, c) <= ChunkSize(m, y)
        BY <3>3, <4>1
      <4>3. PICK p \in L : ChunkSize(m, p) <= ChunkSize(m, c)
        BY <1>6, <4>1, <4>2 DEF LeastOf
      <4>4. c \in Nodes(m) /\ p \in Nodes(m)
        BY <1>2, <1>7, <4>1
      <4>5. ChunkSize(m, p) \in Nat /\ ChunkSize(m, c) \in Nat
        BY <4>4, BinOfANode
      <4>6. ChunkSize(m, p) <= ChunkSize(m, y)
        BY <2>1, <4>2, <4>3, <4>5
      <4> QED
        BY <1>9, <4>6
    <3> QED
      BY <3>1, <3>2, <3>3 DEF Covered
  <2>4. CASE m.node[y].index # i
    <3>1. m.node[y].index > i
      BY <1>4, <2>1, <2>2, <2>4
    <3>2. CASE \E c \in Fits(m, found.path, nb) : m.node[c].index = i
      <4>1. PICK c \in Fits(m, found.path, nb) : m.node[c].index = i
        BY <3>2
      <4>2. c \in C /\ c \in Nodes(m)
        BY <1>8, <1>10, <4>1 DEF Holders
      <4>3. m.node[c].index < m.node[y].index
        BY <1>4, <2>1, <3>1, <4>1
      <4> QED
        BY <1>11, <2>1, <4>2, <4>3
    <3>3. CASE start # NULL /\ m.node[start].index < m.node[y].index
      <4>1. start \in L
        BY <1>6, <3>3 DEF LeastOf
      <4> QED
        BY <1>7, <1>9, <1>11, <2>1, <3>3, <4>1
    <3>4. CASE start # NULL /\ y \in Under(m, d, start)
      BY <1>6, <1>9, <3>4 DEF LeastOf
    <3> QED
      BY <1>2, <1>12, <3>1, <3>2, <3>3, <3>4
  <2> QED
    BY <2>3, <2>4
<1>13. ASSUME NEW y \in Holders(m, nb) PROVE \E c \in C : ChunkSize(m, c) <= ChunkSize(m, y)
  <2>1. y \in Nodes(m) /\ ChunkSize(m, y) >= nb
    BY DEF Holders
  <2>2. PICK x : IsTreed(m, x) /\ ChunkSize(m, x) = ChunkSize(m, y)
    BY <2>1, TreedOfSize
  <2>3. ChunkSize(m, x) >= nb
    BY <2>1, <2>2, Zenon
  <2>4. PICK c \in C : ChunkSize(m, c) <= ChunkSize(m, x)
    BY <1>12, <2>2, <2>3
  <2> QED
    BY <2>2, <2>4, Zenon
<1> QED
  BY <1>8, <1>13 DEF C, L, start, found, i

(* best_fit finds a smallest chunk of those that hold nb, out of all there  *)
(* are, and nothing when there is none.                                     *)
LEMMA BestFitFits ==
    ASSUME NEW m, NEW d, NEW top, TreesFit(m, d, top), NEW q, RingsFit(m, q), NEW nb \in Sizes
    PROVE  BestOf(m, Holders(m, nb), best_fit(m, nb))
<1> DEFINE found == Search(m, compute_tree_index(nb), nb)
           C == Fits(m, found.path \cup LeftmostPath(m, Start(m, nb, found)), nb)
           x == Smallest(m, C)
<1>1. /\ C \subseteq Holders(m, nb)
      /\ \A y \in Holders(m, nb) : \E c \in C : ChunkSize(m, c) <= ChunkSize(m, y)
  BY ChoiceCovers
<1>2. best_fit(m, nb) = x
  BY DEF best_fit, Start
<1>3. \A y \in Holders(m, nb) : y \in Nodes(m) /\ ChunkSize(m, y) \in Nat
  BY BinOfANode DEF Holders
<1> HIDE DEF C
<1>4. C = {} => x = NULL
  BY DEF Smallest
<1>5. C # {} => x \in C /\ \A y \in C : ChunkSize(m, x) <= ChunkSize(m, y)
  <2>1. \A y \in C : ChunkSize(m, y) \in Nat
    BY <1>1, <1>3
  <2> QED
    BY <2>1, SmallestIsLeast
<1> HIDE DEF x
<1>6. CASE Holders(m, nb) = {}
  BY <1>1, <1>2, <1>4, <1>6 DEF BestOf
<1>7. CASE Holders(m, nb) # {}
  <2>1. x \in C /\ x \in Holders(m, nb) /\ \A y \in C : ChunkSize(m, x) <= ChunkSize(m, y)
    BY <1>1, <1>5, <1>7
  <2>2. ASSUME NEW y \in Holders(m, nb) PROVE ChunkSize(m, x) <= ChunkSize(m, y)
    <3>1. PICK c \in C : ChunkSize(m, c) <= ChunkSize(m, y)
      BY <1>1
    <3>2. /\ ChunkSize(m, x) <= ChunkSize(m, c)
          /\ ChunkSize(m, x) \in Nat /\ ChunkSize(m, c) \in Nat /\ ChunkSize(m, y) \in Nat
      BY <1>1, <1>3, <2>1
    <3> QED
      BY <3>1, <3>2
  <2> QED
    BY <1>2, <1>7, <2>1, <2>2 DEF BestOf
<1> QED
  BY <1>6, <1>7

(* least_chunk finds a smallest chunk of all there are.                     *)
LEMMA LeastChunkFits ==
    ASSUME NEW m, NEW d, NEW top, TreesFit(m, d, top), NEW q, RingsFit(m, q), Nodes(m) # {}
    PROVE  BestOf(m, Nodes(m), least_chunk(m))
<1> DEFINE k == Min(m.treemap)
           r == m.treebin[k]
           L == LeftmostPath(m, r)
           x == Smallest(m, L)
<1>1. least_chunk(m) = x
  BY DEF least_chunk
<1>2. m.treemap \in SUBSET (0 .. 31)
  BY DEF TreesFit, BinsTyped
<1>3. \A y : IsTreed(m, y) => y \in Nodes(m) /\ m.node[y].index \in m.treemap
                              /\ y \in Under(m, d, m.treebin[m.node[y].index])
  <2> SUFFICES ASSUME NEW y, IsTreed(m, y)
               PROVE  y \in Nodes(m) /\ m.node[y].index \in m.treemap
                      /\ y \in Under(m, d, m.treebin[m.node[y].index])
    OBVIOUS
  <2>1. m.treebin[m.node[y].index] # NULL /\ y \in Under(m, d, m.treebin[m.node[y].index])
    BY RootsAreOver
  <2>2. m.node[y].index \in 0 .. 31 /\ y \in Nodes(m)
    BY BinOfANode DEF IsTreed
  <2> QED
    BY <2>1, <2>2 DEF TreesFit, BinsTyped
<1>4. m.treemap # {}
  <2>1. PICK y \in Nodes(m) : TRUE
    OBVIOUS
  <2>2. \E z : IsTreed(m, z)
    BY TreedOfSize
  <2> QED
    BY <1>3, <2>2
<1>5. k \in m.treemap /\ \A j \in m.treemap : k <= j
  BY <1>2, <1>4, LeastBin
<1> HIDE DEF k
<1>6. IsTreed(m, r) /\ m.node[r].index = k /\ r \in Nodes(m) /\ k \in 0 .. 31
  BY <1>5, RootsAreTreed
<1>7. LeastOf(m, d, r, L)
  BY <1>6, LeftmostIsLeast
<1>8. L \subseteq Nodes(m) /\ L # {} /\ r \in L
  BY <1>7 DEF LeastOf, Under
<1>9. x \in L /\ \A y \in L : ChunkSize(m, x) <= ChunkSize(m, y)
  <2>1. \A y \in L : ChunkSize(m, y) \in Nat
    BY <1>8, BinOfANode
  <2> HIDE DEF L
  <2> QED
    BY <1>8, <2>1, SmallestIsLeast
<1> HIDE DEF x, L
<1>10. ASSUME NEW y, IsTreed(m, y) PROVE \E p \in L : ChunkSize(m, p) <= ChunkSize(m, y)
  <2> DEFINE j == m.node[y].index
  <2>1. j \in m.treemap /\ k <= j /\ y \in Under(m, d, m.treebin[j]) /\ y \in Nodes(m)
    BY <1>3, <1>5, <1>10
  <2>2. CASE j = k
    BY <1>7, <2>1, <2>2 DEF LeastOf
  <2>3. CASE j # k
    <3>1. k < j
      <4>1. j \in 0 .. 31
        BY <1>2, <2>1
      <4> HIDE DEF j
      <4> QED
        BY <1>6, <2>1, <2>3, <4>1
    <3>2. ChunkSize(m, r) <= ChunkSize(m, y)
      <4>1. /\ compute_tree_index(ChunkSize(m, r)) = k /\ ChunkSize(m, r) \in Sizes
            /\ compute_tree_index(ChunkSize(m, y)) = j /\ ChunkSize(m, y) \in Sizes
        BY <1>6, <2>1, BinOfANode
      <4> QED
        BY <3>1, <4>1, SizesInOrder
    <3> QED
      BY <1>8, <3>2
  <2> QED
    BY <2>2, <2>3
<1>11. ASSUME NEW y \in Nodes(m) PROVE ChunkSize(m, x) <= ChunkSize(m, y)
  <2>1. PICK z : IsTreed(m, z) /\ ChunkSize(m, z) = ChunkSize(m, y)
    BY TreedOfSize
  <2>2. PICK p \in L : ChunkSize(m, p) <= ChunkSize(m, z)
    BY <1>10, <2>1
  <2>3. ChunkSize(m, p) <= ChunkSize(m, y)
    BY <2>1, <2>2, Zenon
  <2>4. /\ ChunkSize(m, x) <= ChunkSize(m, p)
        /\ ChunkSize(m, x) \in Nat /\ ChunkSize(m, p) \in Nat /\ ChunkSize(m, y) \in Nat
    BY <1>8, <1>9, BinOfANode
  <2> QED
    BY <2>3, <2>4
<1> QED
  BY <1>1, <1>8, <1>9, <1>11 DEF BestOf
(* Bins in which nothing but what is not a node of them has changed.        *)
SameBins(m, w) ==
    /\ {"head", "node", "treemap", "treebin"} \subseteq DOMAIN w
    /\ w.node = m.node /\ w.treemap = m.treemap /\ w.treebin = m.treebin
    /\ \A y \in Nodes(m) : ChunkSize(w, y) = ChunkSize(m, y)

(* They are as sound as they were.                                          *)
LEMMA SameBinsFit ==
    ASSUME NEW m, NEW w, SameBins(m, w), NEW d, NEW top
    PROVE  /\ Nodes(w) = Nodes(m)
           /\ TreesFit(m, d, top) => TreesFit(w, d, top)
           /\ \A q : RingsFit(m, q) => RingsFit(w, q)
<1>1. /\ Nodes(w) = Nodes(m) /\ w.node = m.node /\ w.treemap = m.treemap
      /\ w.treebin = m.treebin /\ \A y \in Nodes(m) : ChunkSize(w, y) = ChunkSize(m, y)
      /\ {"head", "node", "treemap", "treebin"} \subseteq DOMAIN w
  BY DEF SameBins, Nodes
<1>2. ASSUME TreesFit(m, d, top) PROVE TreesFit(w, d, top)
  <2>1. /\ BinsTyped(m) /\ top \in Nat /\ d \in [Nodes(m) -> 0 .. top]
        /\ \A x \in Nodes(m) : NodeFits(m, d, x)
        /\ \A i \in 0 .. 31 : m.treebin[i] # NULL => m.node[m.treebin[i]].index = i
    BY <1>2 DEF TreesFit
  <2>2. BinsTyped(w)
    <3>1. \A x \in Nodes(w) : ChunkSize(w, x) \in Sizes
      BY <1>1, <2>1 DEF BinsTyped
    <3> QED
      BY <1>1, <2>1, <3>1 DEF BinsTyped
  <2>3. \A x : Branch(w, d, x) = Branch(m, d, x) /\ (IsTreed(w, x) <=> IsTreed(m, x))
    BY <1>1 DEF Branch, IsTreed
  <2>4. ASSUME NEW x \in Nodes(w) PROVE NodeFits(w, d, x)
    <3>1. NodeFits(m, d, x) /\ x \in Nodes(m)
      BY <1>1, <2>1
    <3>2. ASSUME NEW z \in 0 .. 1, w.node[x].child[z] # NULL
          PROVE  ChildFits(w, d, x, z, w.node[x].child[z])
      <4> DEFINE c == m.node[x].child[z]
      <4>1. ChildFits(m, d, x, z, c) /\ w.node[x].child[z] = c /\ c # NULL
        BY <1>1, <3>1, <3>2 DEF NodeFits
      <4>2. c \in Nodes(m)
        BY <2>1, <3>1, <4>1, NodeTypes
      <4> HIDE DEF c
      <4>3. ChunkSize(w, c) = ChunkSize(m, c) /\ ChunkSize(w, x) = ChunkSize(m, x)
        BY <1>1, <3>1, <4>2
      <4>4. ChildFits(w, d, x, z, c)
        BY <1>1, <2>3, <4>1, <4>3 DEF ChildFits
      <4> QED
        BY <4>1, <4>4
    <3>3. ChunkSize(w, x) = ChunkSize(m, x)
      BY <1>1, <3>1
    <3> QED
      BY <1>1, <3>1, <3>2, <3>3 DEF NodeFits
  <2> QED
    BY <1>1, <2>1, <2>2, <2>4 DEF TreesFit
<1>3. ASSUME NEW q, RingsFit(m, q) PROVE RingsFit(w, q)
  <2>1. ASSUME NEW s \in DOMAIN q, NEW k \in 1 .. Len(q[s]) PROVE InRing(w, q[s], s, k)
    <3>1. q[s] \in Seq(Nodes(m)) /\ InRing(m, q[s], s, k)
      BY <1>3 DEF RingsFit
    <3>2. q[s][k] \in Nodes(m)
      BY <3>1
    <3> QED
      BY <1>1, <3>1, <3>2 DEF InRing
  <2>2. \A s \in DOMAIN q : q[s] \in Seq(Nodes(w))
    BY <1>1, <1>3 DEF RingsFit
  <2>3. ASSUME NEW x \in Nodes(w)
        PROVE  /\ ChunkSize(w, x) \in DOMAIN q
               /\ \E k \in 1 .. Len(q[ChunkSize(w, x)]) : q[ChunkSize(w, x)][k] = x
    <3>1. ChunkSize(w, x) = ChunkSize(m, x) /\ x \in Nodes(m)
      BY <1>1
    <3>2. /\ ChunkSize(m, x) \in DOMAIN q
          /\ \E k \in 1 .. Len(q[ChunkSize(m, x)]) : q[ChunkSize(m, x)][k] = x
      BY <1>3, <3>1 DEF RingsFit
    <3> QED
      BY <3>1, <3>2, Zenon
  <2> QED
    BY <2>1, <2>2, <2>3 DEF RingsFit
<1> QED
  BY <1>1, <1>2, <1>3

(* insert_large_chunk adds one node and leaves the sizes.                   *)
LEMMA InsertAdds ==
    ASSUME NEW m, {"head", "node", "treemap", "treebin"} \subseteq DOMAIN m, NEW x, NEW s
    PROVE  LET w == insert_large_chunk(m, x, s) IN
           Nodes(w) = Nodes(m) \cup {x} /\ w.head = m.head
<1> DEFINE i == compute_tree_index(s)
           place == Descend(m, i, s)
           w == insert_large_chunk(m, x, s)
<1>1. CASE i \in m.treemap
  <2>1. w = Attach(m, x, s, i, place)
    BY <1>1 DEF insert_large_chunk
  <2> HIDE DEF place, i
  <2>2. LET v == Attach(m, x, s, i, place) IN
        DOMAIN v.node = DOMAIN m.node \cup {x} /\ v.head = m.head
    BY DEF Attach, JoinRing, Put
  <2> HIDE DEF w
  <2> QED
    BY <2>1, <2>2 DEF Nodes, w
<1>2. CASE i \notin m.treemap
  BY <1>2 DEF insert_large_chunk, Put, Nodes
<1> QED
  BY <1>1, <1>2
-----------------------------------------------------------------------------
(* The bins of a state m that are sound: each small bin has chunks of its   *)
(* one size, each once, and the trees are sound.                            *)
BinFields == {"node", "treemap", "treebin", "smallmap", "smallbin"}

RingFits(m, a, i) ==
    /\ a \in Seq(Int)
    /\ \A j, k \in 1 .. Len(a) : a[j] = a[k] => j = k
    /\ \A k \in 1 .. Len(a) : ChunkSize(m, a[k]) = 8 * i

SmallsFit(m) ==
    /\ {"head", "smallmap", "smallbin"} \subseteq DOMAIN m
    /\ m.smallmap \subseteq 0 .. 31 /\ DOMAIN m.smallbin = 0 .. 31
    /\ \A i \in 0 .. 31 : /\ RingFits(m, m.smallbin[i], i)
                          /\ i \in m.smallmap <=> m.smallbin[i] # <<>>

MembersOf(a) == {a[k] : k \in 1 .. Len(a)}

BinsFit(m) == SmallsFit(m) /\ \E q : Fit(m, q) /\ DOMAIN q = Sizes

Binned(m) == SmallBinned(m) \cup Nodes(m)

(* From m to w only the bins change.                                        *)
OnlyBins(m, w) ==
    DOMAIN w = DOMAIN m /\ \A f \in DOMAIN m : f \notin BinFields => w[f] = m[f]

(* A chunk in a small bin is in the bin of its size.                        *)
LEMMA SmallMembers ==
    ASSUME NEW m, SmallsFit(m)
    PROVE  /\ \A p : p \in SmallBinned(m) <=> \E i \in 0 .. 31 : p \in MembersOf(m.smallbin[i])
           /\ \A i \in 0 .. 31 : \A p \in MembersOf(m.smallbin[i]) : ChunkSize(m, p) = 8 * i
<1>1. ASSUME NEW i \in 0 .. 31
      PROVE  /\ Range(m.smallbin[i]) = MembersOf(m.smallbin[i])
             /\ i \notin m.smallmap => MembersOf(m.smallbin[i]) = {}
             /\ \A p \in MembersOf(m.smallbin[i]) : ChunkSize(m, p) = 8 * i
  <2> DEFINE a == m.smallbin[i]
  <2>1. RingFits(m, a, i) /\ (i \in m.smallmap <=> a # <<>>)
    BY DEF SmallsFit
  <2> HIDE DEF a
  <2>2. a \in Seq(Int) /\ DOMAIN a = 1 .. Len(a)
    BY <2>1 DEF RingFits
  <2>3. Range(a) = MembersOf(a)
    BY <2>2 DEF Range, MembersOf
  <2>4. a = <<>> => MembersOf(a) = {}
    BY DEF MembersOf
  <2>5. \A p \in MembersOf(a) : ChunkSize(m, p) = 8 * i
    BY <2>1 DEF RingFits, MembersOf
  <2> QED
    BY <2>1, <2>3, <2>4, <2>5 DEF a
<1>2. m.smallmap \subseteq 0 .. 31
  BY DEF SmallsFit
<1> QED
  BY <1>1, <1>2 DEF SmallBinned

RingPut(m, w, i, b) ==
    /\ {"head", "smallmap", "smallbin"} \subseteq DOMAIN w
    /\ w.head = m.head /\ w.smallbin = [m.smallbin EXCEPT ![i] = b]
    /\ w.smallmap = IF b = <<>> THEN m.smallmap \ {i} ELSE m.smallmap \cup {i}

(* When one ring is changed, what is binned changes by its members.         *)
LEMMA OneRing ==
    ASSUME NEW m, SmallsFit(m), NEW i \in 0 .. 31, NEW b, RingFits(m, b, i),
           NEW w, RingPut(m, w, i, b)
    PROVE  /\ SmallsFit(w)
           /\ SmallBinned(w) = (SmallBinned(m) \ MembersOf(m.smallbin[i])) \cup MembersOf(b)
<1>m. /\ {"head", "smallmap", "smallbin"} \subseteq DOMAIN w
      /\ w.head = m.head /\ w.smallbin = [m.smallbin EXCEPT ![i] = b]
      /\ w.smallmap = IF b = <<>> THEN m.smallmap \ {i} ELSE m.smallmap \cup {i}
  BY DEF RingPut
<1>1. DOMAIN m.smallbin = 0 .. 31 /\ m.smallmap \subseteq 0 .. 31
  BY DEF SmallsFit
<1>2. w.smallbin[i] = b /\ \A j \in 0 .. 31 : j # i => w.smallbin[j] = m.smallbin[j]
  BY <1>1, <1>m
<1>3. DOMAIN w.smallbin = 0 .. 31 /\ w.smallmap \subseteq 0 .. 31
  <2>1. m.smallmap \ {i} \subseteq 0 .. 31 /\ m.smallmap \cup {i} \subseteq 0 .. 31
    BY <1>1
  <2>2. w.smallmap \subseteq 0 .. 31
    BY <2>1, <1>m, Zenon
  <2> QED
    BY <1>1, <1>m, <2>2
<1>4. \A p : ChunkSize(w, p) = ChunkSize(m, p)
  BY <1>m DEF ChunkSize
<1>5. \A a, j : RingFits(m, a, j) => RingFits(w, a, j)
  BY <1>4 DEF RingFits
<1>6. ASSUME NEW j \in 0 .. 31
      PROVE  RingFits(w, w.smallbin[j], j) /\ (j \in w.smallmap <=> w.smallbin[j] # <<>>)
  <2>1. CASE j = i
    <3>1. i \in w.smallmap <=> b # <<>>
      BY <1>m
    <3> QED
      BY <2>1, <3>1, <1>2, <1>5
  <2>2. CASE j # i
    <3>1. RingFits(m, m.smallbin[j], j) /\ (j \in m.smallmap <=> m.smallbin[j] # <<>>)
      BY DEF SmallsFit
    <3>2. j \in w.smallmap <=> j \in m.smallmap
      BY <2>2, <1>m
    <3> QED
      BY <2>2, <3>1, <3>2, <1>2, <1>5
  <2> QED
    BY <2>1, <2>2
<1>7. SmallsFit(w)
  BY <1>m, <1>3, <1>6 DEF SmallsFit
<1>8. \A p : p \in SmallBinned(w) <=> \E j \in 0 .. 31 : p \in MembersOf(w.smallbin[j])
  BY <1>7, SmallMembers
<1>9. /\ \A p : p \in SmallBinned(m) <=> \E j \in 0 .. 31 : p \in MembersOf(m.smallbin[j])
      /\ \A j \in 0 .. 31 : \A p \in MembersOf(m.smallbin[j]) : ChunkSize(m, p) = 8 * j
  BY SmallMembers
<1>10. ASSUME NEW p
       PROVE  p \in SmallBinned(w) <=>
                (p \in SmallBinned(m) /\ p \notin MembersOf(m.smallbin[i])) \/ p \in MembersOf(b)
  <2>1. p \in SmallBinned(w) <=>
          p \in MembersOf(b) \/ \E j \in 0 .. 31 : j # i /\ p \in MembersOf(m.smallbin[j])
    BY <1>2, <1>8
  <2>2. ASSUME NEW j \in 0 .. 31, j # i, p \in MembersOf(m.smallbin[j])
        PROVE  p \notin MembersOf(m.smallbin[i])
    <3> SUFFICES ASSUME p \in MembersOf(m.smallbin[i]) PROVE FALSE
      OBVIOUS
    <3>1. 8 * j = 8 * i
      BY <2>2, <1>9
    <3> QED
      BY <3>1, <2>2
  <2> QED
    BY <2>1, <2>2, <1>9
<1> QED
  BY <1>7, <1>10

(* A chunk that goes to the front of a ring.                                *)
LEMMA PushFits ==
    ASSUME NEW m, NEW a, NEW i, RingFits(m, a, i), NEW p \in Int, p \notin MembersOf(a),
           ChunkSize(m, p) = 8 * i
    PROVE  LET b == <<p>> \o a IN
           RingFits(m, b, i) /\ b # <<>> /\ MembersOf(b) = MembersOf(a) \cup {p}
<1> DEFINE b == <<p>> \o a
<1>1. a \in Seq(Int) /\ Len(a) \in Nat
  BY DEF RingFits
<1>2. b \in Seq(Int) /\ Len(b) = Len(a) + 1 /\ b[1] = p
      /\ \A k \in 1 .. Len(a) : b[k + 1] = a[k]
  BY <1>1
<1> HIDE DEF b
<1>3. \A k \in 1 .. Len(b) : k = 1 \/ (k - 1 \in 1 .. Len(a) /\ b[k] = a[k - 1])
  <2> SUFFICES ASSUME NEW k \in 1 .. Len(b), k # 1
               PROVE  k - 1 \in 1 .. Len(a) /\ b[k] = a[k - 1]
    OBVIOUS
  <2>1. k - 1 \in 1 .. Len(a) /\ (k - 1) + 1 = k
    BY <1>1, <1>2
  <2> QED
    BY <2>1, <1>2
<1>4. MembersOf(b) = MembersOf(a) \cup {p}
  <2>1. \A k \in 1 .. Len(b) : b[k] \in MembersOf(a) \cup {p}
    BY <1>2, <1>3 DEF MembersOf
  <2>2. \A k \in 1 .. Len(a) : k + 1 \in 1 .. Len(b) /\ b[k + 1] = a[k]
    BY <1>1, <1>2
  <2>3. 1 \in 1 .. Len(b)
    BY <1>1, <1>2
  <2>4. MembersOf(b) \subseteq MembersOf(a) \cup {p}
    BY <2>1, Zenon DEF MembersOf
  <2>5. p \in MembersOf(b)
    BY <2>3, <1>2, Zenon DEF MembersOf
  <2>6. MembersOf(a) \subseteq MembersOf(b)
    BY <2>2, Zenon DEF MembersOf
  <2> QED
    BY <2>4, <2>5, <2>6
<1>5. ASSUME NEW k \in 1 .. Len(b) PROVE ChunkSize(m, b[k]) = 8 * i
  <2>1. CASE k = 1
    BY <2>1, <1>2, Zenon
  <2>2. CASE k # 1
    <3>1. k - 1 \in 1 .. Len(a) /\ b[k] = a[k - 1]
      BY <2>2, <1>3
    <3>2. ChunkSize(m, a[k - 1]) = 8 * i
      BY <3>1 DEF RingFits
    <3> QED
      BY <3>1, <3>2, Zenon
  <2> QED
    BY <2>1, <2>2
<1>6. ASSUME NEW j \in 1 .. Len(b), NEW k \in 1 .. Len(b), b[j] = b[k] PROVE j = k
  <2>1. CASE j = 1
    BY <2>1, <1>2, <1>3, <1>6 DEF MembersOf
  <2>2. CASE k = 1
    BY <2>2, <1>2, <1>3, <1>6 DEF MembersOf
  <2>3. CASE j # 1 /\ k # 1
    <3>1. j - 1 \in 1 .. Len(a) /\ k - 1 \in 1 .. Len(a) /\ a[j - 1] = a[k - 1]
      BY <2>3, <1>3, <1>6
    <3>2. j - 1 = k - 1
      BY <3>1 DEF RingFits
    <3> QED
      BY <3>2
  <2> QED
    BY <2>1, <2>2, <2>3
<1>7. b # <<>>
  BY <1>1, <1>2
<1> QED
  BY <1>2, <1>4, <1>5, <1>6, <1>7 DEF RingFits, b

(* A chunk that is taken out of a ring.                                     *)
LEMMA RemoveFits ==
    ASSUME NEW m, NEW a, NEW i, RingFits(m, a, i), NEW p \in MembersOf(a)
    PROVE  LET b == Removed(a, p) IN
           /\ RingFits(m, b, i) /\ MembersOf(b) = MembersOf(a) \ {p}
           /\ b = <<>> <=> a = <<p>>
<1> DEFINE k == CHOOSE j \in DOMAIN a : a[j] = p
           b == Removed(a, p)
           n == Len(a)
<1>1. a \in Seq(Int) /\ n \in Nat /\ DOMAIN a = 1 .. n /\ \A j \in 1 .. n : a[j] \in Int
  BY DEF RingFits
<1>2. k \in 1 .. n /\ a[k] = p
  BY <1>1 DEF MembersOf
<1>3. b = [j \in 1 .. n - 1 |-> a[IF j < k THEN j ELSE j + 1]]
  BY DEF Removed
<1> HIDE DEF k, n
<1>4. n - 1 \in Nat
  BY <1>1, <1>2
<1> HIDE DEF b
<1>5. b \in Seq(Int) /\ Len(b) = n - 1
  <2>1. \A j \in 1 .. n - 1 : (IF j < k THEN j ELSE j + 1) \in 1 .. n
    BY <1>1, <1>2, <1>4
  <2>2. b \in [1 .. n - 1 -> Int]
    BY <1>1, <1>3, <2>1
  <2> QED
    BY <1>4, <2>2
<1>6. /\ \A j \in 1 .. n - 1 : j < k => b[j] = a[j]
      /\ \A j \in 1 .. n - 1 : j >= k => b[j] = a[j + 1]
  BY <1>2, <1>3
<1>7. \A j, l \in 1 .. n : a[j] = a[l] => j = l
  BY DEF RingFits, n
<1>8. ASSUME NEW j \in 1 .. n - 1
      PROVE  \E l \in 1 .. n : l # k /\ b[j] = a[l] /\ l = IF j < k THEN j ELSE j + 1
  <2>1. CASE j < k
    <3>1. j \in 1 .. n /\ j # k /\ b[j] = a[j]
      BY <2>1, <1>1, <1>2, <1>6
    <3> QED
      BY <2>1, <3>1
  <2>2. CASE ~(j < k)
    <3>1. j + 1 \in 1 .. n /\ j + 1 # k /\ b[j] = a[j + 1]
      BY <2>2, <1>1, <1>2, <1>6
    <3> QED
      BY <2>2, <3>1
  <2> QED
    BY <2>1, <2>2
<1>9. \A l \in 1 .. n : l # k => \E j \in 1 .. n - 1 : b[j] = a[l]
  <2> SUFFICES ASSUME NEW l \in 1 .. n, l # k PROVE \E j \in 1 .. n - 1 : b[j] = a[l]
    OBVIOUS
  <2>1. CASE l < k
    <3>1. l \in 1 .. n - 1
      BY <2>1, <1>1, <1>2
    <3> QED
      BY <2>1, <3>1, <1>6
  <2>2. CASE l > k
    <3>1. l - 1 \in 1 .. n - 1 /\ l - 1 >= k /\ (l - 1) + 1 = l
      BY <2>2, <1>1, <1>2
    <3> QED
      BY <3>1, <1>6
  <2> QED
    BY <2>1, <2>2, <1>1, <1>2
<1>10. MembersOf(b) = MembersOf(a) \ {p}
  <2>1. MembersOf(a) = {a[j] : j \in 1 .. n} /\ MembersOf(b) = {b[j] : j \in 1 .. n - 1}
    BY <1>5 DEF MembersOf, n
  <2> QED
    BY <2>1, <1>2, <1>7, <1>8, <1>9
<1>11. \A j \in 1 .. n - 1 : ChunkSize(m, b[j]) = 8 * i
  BY <1>8 DEF RingFits, n
<1>12. ASSUME NEW j \in 1 .. n - 1, NEW l \in 1 .. n - 1, b[j] = b[l] PROVE j = l
  <2> DEFINE x == IF j < k THEN j ELSE j + 1
             y == IF l < k THEN l ELSE l + 1
  <2>1. x \in 1 .. n /\ y \in 1 .. n /\ a[x] = a[y]
    BY <1>8, <1>12
  <2>2. x = y
    BY <2>1, <1>7
  <2> QED
    BY <2>2, <1>2, <1>4
<1>13. RingFits(m, b, i)
  BY <1>5, <1>11, <1>12 DEF RingFits
<1>14. b = <<>> <=> a = <<p>>
  <2>1. b = <<>> => n = 1
    BY <1>1, <1>5
  <2>2. n = 1 => a = <<p>>
    BY <1>1, <1>2 DEF n
  <2>3. a = <<p>> => n = 1
    BY DEF n
  <2>4. n = 1 => b = <<>>
    BY <1>5
  <2> QED
    BY <2>1, <2>2, <2>3, <2>4
<1> QED
  BY <1>10, <1>13, <1>14 DEF b

(* What the soundness of the bins reads.                                    *)
LEMMA SmallsStay ==
    ASSUME NEW m, SmallsFit(m), NEW w, {"head", "smallmap", "smallbin"} \subseteq DOMAIN w,
           w.smallmap = m.smallmap, w.smallbin = m.smallbin,
           \A p \in SmallBinned(m) : ChunkSize(w, p) = ChunkSize(m, p)
    PROVE  SmallsFit(w) /\ SmallBinned(w) = SmallBinned(m)
<1>1. m.smallmap \subseteq 0 .. 31 /\ DOMAIN m.smallbin = 0 .. 31
  BY DEF SmallsFit
<1>2. ASSUME NEW i \in 0 .. 31
      PROVE  RingFits(w, w.smallbin[i], i) /\ (i \in w.smallmap <=> w.smallbin[i] # <<>>)
  <2> DEFINE a == m.smallbin[i]
  <2>1. RingFits(m, a, i) /\ (i \in m.smallmap <=> a # <<>>)
    BY DEF SmallsFit
  <2>2. \A k \in 1 .. Len(a) : a[k] \in SmallBinned(m)
    BY SmallMembers DEF MembersOf
  <2>3. w.smallbin[i] = a
    OBVIOUS
  <2> HIDE DEF a
  <2>4. RingFits(w, a, i)
    BY <2>1, <2>2 DEF RingFits
  <2> QED
    BY <2>1, <2>3, <2>4
<1>3. SmallsFit(w)
  BY <1>1, <1>2 DEF SmallsFit
<1>4. SmallBinned(w) = SmallBinned(m)
  BY DEF SmallBinned
<1> QED
  BY <1>3, <1>4

(* Only the sizes of binned chunks matter to the bins.                      *)
LEMMA BinsStay ==
    ASSUME NEW m, BinsFit(m), NEW w,
           {"head"} \cup BinFields \subseteq DOMAIN w,
           \A f \in BinFields : w[f] = m[f],
           \A p \in Binned(m) : ChunkSize(w, p) = ChunkSize(m, p)
    PROVE  BinsFit(w) /\ Binned(w) = Binned(m)
<1>1. /\ w.node = m.node /\ w.treemap = m.treemap /\ w.treebin = m.treebin
      /\ w.smallmap = m.smallmap /\ w.smallbin = m.smallbin
      /\ {"head", "node", "treemap", "treebin"} \subseteq DOMAIN w
      /\ {"head", "smallmap", "smallbin"} \subseteq DOMAIN w
  BY DEF BinFields
<1>2. SmallsFit(w) /\ SmallBinned(w) = SmallBinned(m)
  BY <1>1, SmallsStay DEF BinsFit, Binned
<1>3. SameBins(m, w)
  BY <1>1 DEF SameBins, Binned
<1>4. PICK q : Fit(m, q) /\ DOMAIN q = Sizes
  BY DEF BinsFit
<1>5. Fit(w, q) /\ Nodes(w) = Nodes(m)
  BY <1>3, <1>4, SameBinsFit DEF Fit
<1> QED
  BY <1>2, <1>4, <1>5 DEF BinsFit, Binned

(* The small sizes and the large ones.                                      *)
LEMMA SmallOrLarge ==
    ASSUME NEW s \in Nat
    PROVE  /\ is_small(s) <=> s < 256
           /\ s % 8 = 0 /\ s < 256 => small_index(s) \in 0 .. 31 /\ s = 8 * small_index(s)
           /\ \A i \in 0 .. 31 : s = 8 * i => is_small(s) /\ small_index(s) = i
           /\ s \in Sizes <=> s >= 256 /\ s < Pow(30)
<1>1. is_small(s) <=> s < 256
  BY DEF is_small, SMALLBIN_WIDTH, NSMALLBINS
<1>2. s % 8 = 0 /\ s < 256 => small_index(s) \in 0 .. 31 /\ s = 8 * small_index(s)
  BY DEF small_index, SMALLBIN_WIDTH
<1>3. \A i \in 0 .. 31 : s = 8 * i => is_small(s) /\ small_index(s) = i
  BY <1>1 DEF small_index, SMALLBIN_WIDTH
<1>4. s \in Sizes <=> s >= 256 /\ s < Pow(30)
  BY SMT DEF Sizes, MIN_LARGE_SIZE, TREEBIN_SHIFT, Pow
<1> QED
  BY <1>1, <1>2, <1>3, <1>4

(* Putting a large chunk into the bins and taking one out of them is after  *)
(* no other field.                                                          *)
LEMMA LargeOnlyBins ==
    ASSUME NEW m, NEW x, NEW s
    PROVE  OnlyBins(m, insert_large_chunk(m, x, s)) /\ OnlyBins(m, unlink_large_chunk(m, x))
<1>1. OnlyBins(m, insert_large_chunk(m, x, s))
  <2> DEFINE i == compute_tree_index(s)
             place == Descend(m, i, s)
  <2>1. insert_large_chunk(m, x, s) =
          IF i \in m.treemap THEN Attach(m, x, s, i, place)
          ELSE [m EXCEPT !.treemap = @ \cup {i}, !.treebin[i] = x,
                         !.node = Put(@, x, NewNode(x, x, IN_BIN, i))]
    BY DEF insert_large_chunk
  <2> HIDE DEF place, i
  <2>2. OnlyBins(m, Attach(m, x, s, i, place))
    BY DEF Attach, JoinRing, OnlyBins, BinFields
  <2> DEFINE e == NewNode(x, x, IN_BIN, i)
  <2> HIDE DEF e
  <2>3. OnlyBins(m, [m EXCEPT !.treemap = @ \cup {i}, !.treebin[i] = x, !.node = Put(@, x, e)])
    BY DEF OnlyBins, BinFields
  <2> QED
    BY <2>1, <2>2, <2>3 DEF e
<1>2. \A nodes, r : OnlyBins(m, Replace(m, nodes, x, r))
  <2> SUFFICES ASSUME NEW nodes, NEW r PROVE OnlyBins(m, Replace(m, nodes, x, r))
    OBVIOUS
  <2> DEFINE n == nodes[x]
  <2>1. \A f, b, t : OnlyBins(m, [m EXCEPT !.node = f, !.treebin[n.index] = b, !.treemap = t])
    BY DEF OnlyBins, BinFields
  <2> QED
    BY <2>1 DEF Replace
<1>3. OnlyBins(m, unlink_large_chunk(m, x))
  <2> DEFINE link == LeafLink(m, x)
             n == m.node[x]
             near == [m.node EXCEPT ![n.fd].bk = n.bk, ![n.bk].fd = n.fd]
  <2>1. unlink_large_chunk(m, x) =
          IF n.bk = x THEN WithLeaf(m, x, link) ELSE Replace(m, near, x, n.bk)
    BY DEF unlink_large_chunk
  <2> HIDE DEF link, near
  <2>2. OnlyBins(m, WithLeaf(m, x, link))
    BY <1>2 DEF WithLeaf
  <2> QED
    BY <1>2, <2>1, <2>2
<1> QED
  BY <1>1, <1>3

SizeFits(s) == s \in Nat /\ s % 16 = 0 /\ s >= 32 /\ s < Pow(30)

(* The members of the two kinds of bins differ in size.                     *)
LEMMA BinnedBySize ==
    ASSUME NEW m, BinsFit(m), NEW p \in Binned(m)
    PROVE  /\ ChunkSize(m, p) \in Nat
           /\ p \in SmallBinned(m) <=> is_small(ChunkSize(m, p))
           /\ p \in Nodes(m) <=> ~is_small(ChunkSize(m, p))
<1>1. PICK q : Fit(m, q) /\ DOMAIN q = Sizes
  BY DEF BinsFit
<1>2. p \in Nodes(m) => ChunkSize(m, p) \in Sizes
  BY <1>1 DEF Fit, TreesFit, BinsTyped
<1>3. p \in SmallBinned(m) => \E i \in 0 .. 31 : ChunkSize(m, p) = 8 * i
  BY SmallMembers DEF BinsFit
<1>4. p \in SmallBinned(m) => ChunkSize(m, p) \in Nat /\ is_small(ChunkSize(m, p))
  <2> SUFFICES ASSUME p \in SmallBinned(m)
               PROVE  ChunkSize(m, p) \in Nat /\ is_small(ChunkSize(m, p))
    OBVIOUS
  <2>1. PICK i \in 0 .. 31 : ChunkSize(m, p) = 8 * i
    BY <1>3
  <2>2. ChunkSize(m, p) \in Nat
    BY <2>1
  <2> QED
    BY <2>1, <2>2, SmallOrLarge
<1>5. p \in Nodes(m) => ChunkSize(m, p) \in Nat /\ ~is_small(ChunkSize(m, p))
  <2> SUFFICES ASSUME p \in Nodes(m)
               PROVE  ChunkSize(m, p) \in Nat /\ ~is_small(ChunkSize(m, p))
    OBVIOUS
  <2>1. ChunkSize(m, p) \in Nat /\ ChunkSize(m, p) >= 256
    BY <1>2, SizesAreBounded
  <2> QED
    BY <2>1, SmallOrLarge
<1> QED
  BY <1>4, <1>5 DEF Binned

(* A chunk that is put into its bin is in the bins.                         *)
LEMMA InsertBins ==
    ASSUME NEW m, BinsFit(m), NEW p \in Int, p \notin Binned(m), p # NULL, p # IN_BIN,
           SizeFits(ChunkSize(m, p))
    PROVE  LET w == insert_chunk(m, p, ChunkSize(m, p)) IN
           BinsFit(w) /\ Binned(w) = Binned(m) \cup {p} /\ OnlyBins(m, w)
<1> DEFINE s == ChunkSize(m, p)
           w == insert_chunk(m, p, s)
<1>1. SmallsFit(m) /\ {"head", "smallmap", "smallbin"} \subseteq DOMAIN m
  BY DEF BinsFit, SmallsFit
<1>2. PICK q : Fit(m, q) /\ DOMAIN q = Sizes
  BY DEF BinsFit
<1>3. PICK d, top : TreesFit(m, d, top)
  BY <1>2 DEF Fit
<1>4. RingsFit(m, q) /\ {"head", "node", "treemap", "treebin"} \subseteq DOMAIN m
  BY <1>2, <1>3 DEF Fit, TreesFit, BinsTyped
<1>5. s \in Nat /\ s % 8 = 0 /\ s < Pow(30)
  <2>1. \A t \in Nat : t % 16 = 0 => t % 8 = 0
    OBVIOUS
  <2> QED
    BY <2>1 DEF SizeFits
<1>6. p \notin SmallBinned(m) /\ p \notin Nodes(m)
  BY DEF Binned
<1>7. CASE is_small(s)
  <2> DEFINE i == small_index(s)
             a == m.smallbin[i]
             b == <<p>> \o a
  <2>1. i \in 0 .. 31 /\ s = 8 * i
    BY <1>5, <1>7, SmallOrLarge
  <2> HIDE DEF i
  <2>2. RingFits(m, a, i) /\ (i \in m.smallmap <=> a # <<>>) /\ DOMAIN m.smallbin = 0 .. 31
    BY <1>1, <2>1 DEF SmallsFit
  <2>3. p \notin MembersOf(a)
    BY <1>1, <1>6, <2>1, SmallMembers
  <2>p. ChunkSize(m, p) = 8 * i
    BY <2>1
  <2> HIDE DEF a
  <2>4. RingFits(m, b, i) /\ b # <<>> /\ MembersOf(b) = MembersOf(a) \cup {p}
    <3>1. RingFits(m, a, i)
      BY <2>2
    <3>2. RingFits(m, <<p>> \o a, i)
      BY <3>1, <2>3, <2>p, PushFits
    <3>3. <<p>> \o a # <<>>
      BY <3>1, <2>3, <2>p, PushFits
    <3> QED
      BY <3>1, <2>3, <2>p, PushFits
  <2>5. (IF i \in m.smallmap THEN b ELSE <<p>>) = b
    <3>1. i \notin m.smallmap => a = <<>>
      BY <2>2
    <3>2. <<p>> \o <<>> = <<p>>
      OBVIOUS
    <3> QED
      BY <3>1, <3>2, Zenon
  <2>6. w = [m EXCEPT !.smallmap = @ \cup {i}, !.smallbin[i] = IF i \in m.smallmap THEN b ELSE <<p>>]
    BY <1>7 DEF insert_chunk, insert_small_chunk, i, a
  <2> HIDE DEF w, b, s, a
  <2>7. w = [m EXCEPT !.smallmap = @ \cup {i}, !.smallbin[i] = b]
    BY <2>5, <2>6, Zenon
  <2>8. /\ OnlyBins(m, w)
        /\ w.smallmap = m.smallmap \cup {i} /\ w.smallbin = [m.smallbin EXCEPT ![i] = b]
        /\ w.node = m.node /\ w.treemap = m.treemap /\ w.treebin = m.treebin
        /\ w.head = m.head
        /\ {"head", "smallmap", "smallbin"} \subseteq DOMAIN w
        /\ {"head", "node", "treemap", "treebin"} \subseteq DOMAIN w
    BY <2>7, <1>1, <1>4 DEF OnlyBins, BinFields
  <2>9. /\ SmallsFit(w)
        /\ SmallBinned(w) = (SmallBinned(m) \ MembersOf(a)) \cup MembersOf(b)
    <3>1. w.smallmap = IF b = <<>> THEN m.smallmap \ {i} ELSE m.smallmap \cup {i}
      BY <2>4, <2>8
    <3>2. /\ SmallsFit(w)
          /\ SmallBinned(w) = (SmallBinned(m) \ MembersOf(m.smallbin[i])) \cup MembersOf(b)
      <4>1. RingFits(m, b, i)
        BY <2>4
      <4>2. w.head = m.head /\ w.smallbin = [m.smallbin EXCEPT ![i] = b]
            /\ {"head", "smallmap", "smallbin"} \subseteq DOMAIN w
        BY <2>8
      <4>3. RingPut(m, w, i, b)
        BY <3>1, <4>2, Zenon DEF RingPut
      <4> QED
        BY <1>1, <2>1, <4>1, <4>3, OneRing
    <3> QED
      BY <3>2 DEF a
  <2>10. SmallBinned(w) = SmallBinned(m) \cup {p}
    <3>1. MembersOf(a) \subseteq SmallBinned(m)
      BY <1>1, <2>1, SmallMembers DEF a
    <3> QED
      BY <2>4, <2>9, <3>1
  <2>11. SameBins(m, w)
    BY <2>8 DEF SameBins, ChunkSize
  <2>12. Fit(w, q) /\ Nodes(w) = Nodes(m)
    BY <2>11, <1>2, SameBinsFit DEF Fit
  <2>13. BinsFit(w) /\ Binned(w) = Binned(m) \cup {p}
    BY <2>9, <2>10, <2>12, <1>2 DEF BinsFit, Binned
  <2> QED
    BY <2>8, <2>13 DEF w, s
<1>8. CASE ~is_small(s)
  <2>1. s \in Sizes
    BY <1>5, <1>8, SmallOrLarge
  <2>2. w = insert_large_chunk(m, p, s)
    BY <1>8 DEF insert_chunk
  <2>3. IsNew(m, d, top, q, p, s)
    BY <1>2, <1>3, <1>4, <1>6, <2>1 DEF IsNew
  <2>4. Fit(w, [q EXCEPT ![s] = Append(@, p)])
    BY <2>2, <2>3, InsertFits
  <2>5. Nodes(w) = Nodes(m) \cup {p} /\ w.head = m.head
    BY <1>4, <2>2, InsertAdds
  <2>6. OnlyBins(m, w)
    BY <2>2, LargeOnlyBins
  <2>7. w.smallmap = m.smallmap /\ w.smallbin = m.smallbin
    <3> DEFINE k == compute_tree_index(s)
               place == Descend(m, k, s)
    <3>1. w = IF k \in m.treemap THEN Attach(m, p, s, k, place)
              ELSE [m EXCEPT !.treemap = @ \cup {k}, !.treebin[k] = p,
                             !.node = Put(@, p, NewNode(p, p, IN_BIN, k))]
      BY <2>2 DEF insert_large_chunk
    <3> HIDE DEF w, k, place
    <3>2. LET v == Attach(m, p, s, k, place) IN
          v.smallmap = m.smallmap /\ v.smallbin = m.smallbin
      BY <1>1 DEF Attach, JoinRing
    <3> QED
      BY <1>1, <3>1, <3>2
  <2> HIDE DEF w
  <2>8. DOMAIN [q EXCEPT ![s] = Append(@, p)] = Sizes
    BY <1>2
  <2>9. {"head", "smallmap", "smallbin"} \subseteq DOMAIN w
    BY <1>1, <2>6 DEF OnlyBins
  <2>10. SmallsFit(w) /\ SmallBinned(w) = SmallBinned(m)
    <3>1. \A x : ChunkSize(w, x) = ChunkSize(m, x)
      BY <2>5 DEF ChunkSize
    <3> QED
      BY <1>1, <2>7, <2>9, <3>1, SmallsStay
  <2>11. BinsFit(w) /\ Binned(w) = Binned(m) \cup {p}
    BY <2>4, <2>5, <2>8, <2>10 DEF BinsFit, Binned
  <2> QED
    BY <2>6, <2>11 DEF w
<1> QED
  BY <1>7, <1>8

(* A chunk that is taken out of its bin is in none.                         *)
LEMMA UnlinkBins ==
    ASSUME NEW m, BinsFit(m), NEW p \in Binned(m)
    PROVE  LET w == unlink_chunk(m, p, ChunkSize(m, p)) IN
           BinsFit(w) /\ Binned(w) = Binned(m) \ {p} /\ OnlyBins(m, w)
<1> DEFINE s == ChunkSize(m, p)
           w == unlink_chunk(m, p, s)
<1>1. SmallsFit(m) /\ {"head", "smallmap", "smallbin"} \subseteq DOMAIN m
  BY DEF BinsFit, SmallsFit
<1>2. PICK q : Fit(m, q) /\ DOMAIN q = Sizes
  BY DEF BinsFit
<1>3. PICK d, top : TreesFit(m, d, top)
  BY <1>2 DEF Fit
<1>4. RingsFit(m, q) /\ {"head", "node", "treemap", "treebin"} \subseteq DOMAIN m
  BY <1>2, <1>3 DEF Fit, TreesFit, BinsTyped
<1>5. /\ s \in Nat /\ (p \in SmallBinned(m) <=> is_small(s)) /\ (p \in Nodes(m) <=> ~is_small(s))
  BY BinnedBySize
<1>6. CASE is_small(s)
  <2>1. PICK j \in 0 .. 31 : p \in MembersOf(m.smallbin[j])
    BY <1>1, <1>5, <1>6, SmallMembers
  <2> DEFINE i == small_index(s)
             a == m.smallbin[i]
             b == Removed(a, p)
  <2>2. j = i
    <3>1. s = 8 * j
      BY <1>1, <2>1, SmallMembers
    <3> QED
      BY <1>5, <3>1, SmallOrLarge
  <2>3. i \in 0 .. 31 /\ p \in MembersOf(a)
    BY <2>1, <2>2, Zenon
  <2> HIDE DEF i
  <2>4. RingFits(m, a, i) /\ (i \in m.smallmap <=> a # <<>>) /\ DOMAIN m.smallbin = 0 .. 31
    BY <1>1, <2>3 DEF SmallsFit
  <2> HIDE DEF a
  <2>5. RingFits(m, b, i) /\ MembersOf(b) = MembersOf(a) \ {p} /\ (b = <<>> <=> a = <<p>>)
    BY <2>3, <2>4, RemoveFits
  <2>6. i \in m.smallmap
    <3>1. a # <<>>
      BY <2>3 DEF MembersOf
    <3> QED
      BY <2>4, <3>1
  <2>7. w = IF a = <<p>> THEN [m EXCEPT !.smallmap = @ \ {i}, !.smallbin[i] = <<>>]
            ELSE [m EXCEPT !.smallbin[i] = Removed(@, p)]
    BY <1>6 DEF unlink_chunk, unlink_small_chunk, i, a
  <2>8. [m EXCEPT !.smallbin[i] = Removed(@, p)] = [m EXCEPT !.smallbin[i] = b]
    BY <1>1, <2>3, <2>4 DEF a
  <2> HIDE DEF w, b, s, a
  <2>9. w = IF b = <<>> THEN [m EXCEPT !.smallmap = @ \ {i}, !.smallbin[i] = b]
            ELSE [m EXCEPT !.smallbin[i] = b]
    BY <2>5, <2>7, <2>8, Zenon
  <2>10. /\ OnlyBins(m, w)
        /\ w.smallmap = (IF b = <<>> THEN m.smallmap \ {i} ELSE m.smallmap)
        /\ w.smallbin = [m.smallbin EXCEPT ![i] = b]
        /\ w.node = m.node /\ w.treemap = m.treemap /\ w.treebin = m.treebin
        /\ w.head = m.head
        /\ {"head", "smallmap", "smallbin"} \subseteq DOMAIN w
        /\ {"head", "node", "treemap", "treebin"} \subseteq DOMAIN w
    <3>1. CASE b = <<>>
      BY <3>1, <2>9, <1>1, <1>4 DEF OnlyBins, BinFields
    <3>2. CASE b # <<>>
      BY <3>2, <2>9, <1>1, <1>4 DEF OnlyBins, BinFields
    <3> QED
      BY <3>1, <3>2
  <2>11. /\ SmallsFit(w)
        /\ SmallBinned(w) = (SmallBinned(m) \ MembersOf(a)) \cup MembersOf(b)
    <3>1. w.smallmap = IF b = <<>> THEN m.smallmap \ {i} ELSE m.smallmap \cup {i}
      BY <2>6, <2>10
    <3>2. /\ SmallsFit(w)
          /\ SmallBinned(w) = (SmallBinned(m) \ MembersOf(m.smallbin[i])) \cup MembersOf(b)
      <4>1. RingFits(m, b, i) /\ i \in 0 .. 31
        BY <2>3, <2>5
      <4>2. w.head = m.head /\ w.smallbin = [m.smallbin EXCEPT ![i] = b]
            /\ {"head", "smallmap", "smallbin"} \subseteq DOMAIN w
        BY <2>10
      <4>3. RingPut(m, w, i, b)
        BY <3>1, <4>2, Zenon DEF RingPut
      <4> QED
        BY <1>1, <4>1, <4>3, OneRing
    <3> QED
      BY <3>2 DEF a
  <2>12. SmallBinned(w) = SmallBinned(m) \ {p}
    <3>1. MembersOf(a) \subseteq SmallBinned(m)
      BY <1>1, <2>3, SmallMembers DEF a
    <3> QED
      BY <2>3, <2>5, <2>11, <3>1
  <2>13. SameBins(m, w)
    BY <2>10 DEF SameBins, ChunkSize
  <2>14. Fit(w, q) /\ Nodes(w) = Nodes(m)
    BY <2>13, <1>2, SameBinsFit DEF Fit
  <2>15. BinsFit(w) /\ Binned(w) = Binned(m) \ {p}
    BY <2>11, <2>12, <2>14, <1>2, <1>5, <1>6 DEF BinsFit, Binned, s
  <2> QED
    BY <2>10, <2>15 DEF w, s
<1>7. CASE ~is_small(s)
  <2>1. w = unlink_large_chunk(m, p)
    BY <1>7 DEF unlink_chunk
  <2> DEFINE r == [q EXCEPT ![s] = Removed(@, p)]
  <2>2. Fit(w, r) /\ Nodes(w) = Nodes(m) \ {p} /\ w.head = m.head
    BY <1>3, <1>4, <1>5, <1>7, <2>1, UnlinkFits
  <2>3. OnlyBins(m, w)
    BY <2>1, LargeOnlyBins
  <2>4. w.smallmap = m.smallmap /\ w.smallbin = m.smallbin
    <3> DEFINE link == LeafLink(m, p)
               n == m.node[p]
               near == [m.node EXCEPT ![n.fd].bk = n.bk, ![n.bk].fd = n.fd]
    <3>1. w = IF n.bk = p THEN WithLeaf(m, p, link) ELSE Replace(m, near, p, n.bk)
      BY <2>1 DEF unlink_large_chunk
    <3> HIDE DEF w, link, near
    <3>2. ASSUME NEW nodes, NEW x
          PROVE  LET v == Replace(m, nodes, p, x) IN
                 v.smallmap = m.smallmap /\ v.smallbin = m.smallbin
      <4> DEFINE k == nodes[p].index
      <4>1. \A f, b, t : LET v == [m EXCEPT !.node = f, !.treebin[k] = b, !.treemap = t] IN
                         v.smallmap = m.smallmap /\ v.smallbin = m.smallbin
        BY <1>1
      <4> QED
        BY <4>1 DEF Replace
    <3> QED
      BY <3>1, <3>2 DEF WithLeaf
  <2> HIDE DEF w
  <2>5. DOMAIN r = Sizes
    BY <1>2
  <2>6. {"head", "smallmap", "smallbin"} \subseteq DOMAIN w
    BY <1>1, <2>3 DEF OnlyBins
  <2>7. SmallsFit(w) /\ SmallBinned(w) = SmallBinned(m)
    <3>1. \A x : ChunkSize(w, x) = ChunkSize(m, x)
      BY <2>2 DEF ChunkSize
    <3> QED
      BY <1>1, <2>4, <2>6, <3>1, SmallsStay
  <2> HIDE DEF r
  <2>8. BinsFit(w) /\ Binned(w) = Binned(m) \ {p}
    BY <2>2, <2>5, <2>7, <1>5, <1>7 DEF BinsFit, Binned
  <2> QED
    BY <2>3, <2>8 DEF w
<1> QED
  BY <1>6, <1>7

-----------------------------------------------------------------------------
(* The sum of the sizes of the chunks in S. The module's own sum is a fold  *)
(* that picks an element at a time; its equation has a solution, ...        *)
Total(h, S) == MapThenSumSet(LAMBDA q : h[q].size, S)

PickOf(S) == CHOOSE x \in S : TRUE

SumOf(h, S, g) ==
    g = [s \in SUBSET S |->
           IF s = {} THEN 0 ELSE h[PickOf(s)].size + g[s \ {PickOf(s)}]]

(* A solution of that equation.                                             *)
LEMMA SumExists ==
    ASSUME NEW h, NEW S, IsFiniteSet(S), \A x \in S : h[x].size \in Nat
    PROVE  \E g \in [SUBSET S -> Nat] : SumOf(h, S, g)
<1> DEFINE D == SUBSET S
           R == Nat
           stop == [s \in D |-> s = {}]
           next == [s \in D |-> s \ {PickOf(s)}]
           base == [s \in D |-> 0]
           join == [p \in D \X R |-> (IF p[1] = {} THEN 0 ELSE h[PickOf(p[1])].size) + p[2]]
           high == [s \in D |-> Cardinality(s)]
<1>1. \A s \in D : IsFiniteSet(s) /\ (s # {} => PickOf(s) \in s)
  <2>1. \A s \in D : IsFiniteSet(s)
    BY FS_Subset
  <2> QED
    BY <2>1 DEF PickOf
<1>2. high \in [D -> Nat]
  BY <1>1, FS_CardinalityType
<1>3. \A s \in D : base[s] \in R
  OBVIOUS
<1>4. \A s \in D : \A e \in R : join[<<s, e>>] \in R
  <2>1. SUFFICES ASSUME NEW s \in D, NEW e \in R PROVE join[<<s, e>>] \in R
    OBVIOUS
  <2>2. s # {} => h[PickOf(s)].size \in Nat
    BY <1>1
  <2> QED
    BY <2>2
<1>5. ASSUME NEW s \in D, ~stop[s] PROVE next[s] \in D /\ high[next[s]] < high[s]
  <2>1. s # {} /\ PickOf(s) \in s /\ IsFiniteSet(s)
    BY <1>1, <1>5
  <2>2. next[s] = s \ {PickOf(s)} /\ next[s] \in D
    OBVIOUS
  <2>3. Cardinality(s \ {PickOf(s)}) = Cardinality(s) - 1 /\ Cardinality(s) \in Nat
    BY <2>1, FS_RemoveElement, FS_CardinalityType
  <2> QED
    BY <2>2, <2>3
<1> HIDE DEF high, stop, next, base, join
<1>6. PICK g \in [D -> R] : WalkOf(g, D, stop, next, base, join)
  <2> HIDE DEF D, R
  <2> QED
    BY <1>2, <1>3, <1>4, <1>5, WalksExist
<1>7. SumOf(h, S, g)
  <2>1. ASSUME NEW s \in D
        PROVE  (IF stop[s] THEN base[s] ELSE join[<<s, g[next[s]]>>]) =
               IF s = {} THEN 0 ELSE h[PickOf(s)].size + g[s \ {PickOf(s)}]
    <3>1. CASE s = {}
      BY <3>1 DEF stop, base
    <3>2. CASE s # {}
      <4>1. ~stop[s] /\ next[s] = s \ {PickOf(s)} /\ next[s] \in D
        BY <3>2 DEF stop, next
      <4>2. g[next[s]] \in R
        BY <4>1
      <4>3. join[<<s, g[next[s]]>>] = h[PickOf(s)].size + g[s \ {PickOf(s)}]
        BY <3>2, <4>1, <4>2 DEF join
      <4> QED
        BY <3>2, <4>1, <4>3
    <3> QED
      BY <3>1, <3>2
  <2> QED
    BY <1>6, <2>1 DEF WalkOf, SumOf
<1> QED
  BY <1>7

(* ... and only one, ...                                                    *)
LEMMA SumIsUnique ==
    ASSUME NEW h, NEW S, IsFiniteSet(S), NEW T \in SUBSET S,
           NEW f, SumOf(h, S, f), NEW g, SumOf(h, T, g)
    PROVE  \A s \in SUBSET T : f[s] = g[s]
<1> DEFINE Bad == {n \in Nat : \E s \in SUBSET T : Cardinality(s) = n /\ f[s] # g[s]}
<1>1. \A s \in SUBSET T : IsFiniteSet(s) /\ Cardinality(s) \in Nat
  <2>1. \A s \in SUBSET T : IsFiniteSet(s)
    BY FS_Subset
  <2> QED
    BY <2>1, FS_CardinalityType
<1>2. Bad = {}
  <2>1. SUFFICES ASSUME Bad # {} PROVE FALSE
    OBVIOUS
  <2>2. PICK n \in Bad : \A k \in Bad : n <= k
    <3>1. Bad \in SUBSET Nat
      OBVIOUS
    <3> HIDE DEF Bad
    <3> QED
      BY <2>1, <3>1, LeastNat
  <2>3. PICK s \in SUBSET T : Cardinality(s) = n /\ f[s] # g[s]
    OBVIOUS
  <2>4. /\ f[s] = IF s = {} THEN 0 ELSE h[PickOf(s)].size + f[s \ {PickOf(s)}]
        /\ g[s] = IF s = {} THEN 0 ELSE h[PickOf(s)].size + g[s \ {PickOf(s)}]
    <3>1. s \in SUBSET S
      OBVIOUS
    <3> QED
      BY <2>3, <3>1 DEF SumOf
  <2>5. s # {}
    BY <2>3, <2>4
  <2> DEFINE r == s \ {PickOf(s)}
  <2>6. PickOf(s) \in s
    BY <2>5 DEF PickOf
  <2>7. Cardinality(r) = n - 1 /\ n \in Nat
    BY <1>1, <2>3, <2>6, FS_RemoveElement
  <2>8. r \in SUBSET T /\ Cardinality(r) \in Nat
    BY <1>1
  <2>9. f[r] = g[r]
    <3>1. n - 1 \notin Bad
      BY <2>2, <2>7
    <3> QED
      BY <2>7, <2>8, <3>1
  <2> QED
    BY <2>3, <2>4, <2>9
<1> QED
  BY <1>1, <1>2

(* ... and it is what the fold gives: a fold over a subset is a value of    *)
(* the fold over the set.                                                   *)
LEMMA TotalIs ==
    ASSUME NEW h, NEW S, IsFiniteSet(S), \A x \in S : h[x].size \in Nat
    PROVE  /\ Total(h, S) \in Nat
           /\ S = {} => Total(h, S) = 0
           /\ S # {} => /\ PickOf(S) \in S
                        /\ Total(h, S) = h[PickOf(S)].size + Total(h, S \ {PickOf(S)})
<1> DEFINE G(T) == CHOOSE g : SumOf(h, T, g)
<1>1. \A T : Total(h, T) = G(T)[T]
  BY DEF Total, MapThenSumSet, MapThenFoldSet, SumOf, PickOf
<1>2. PICK g \in [SUBSET S -> Nat] : SumOf(h, S, g)
  BY SumExists
<1>3. ASSUME NEW T \in SUBSET S
      PROVE  Total(h, T) = g[T]
  <2>1. IsFiniteSet(T) /\ \A x \in T : h[x].size \in Nat
    BY FS_Subset
  <2>2. \E f \in [SUBSET T -> Nat] : SumOf(h, T, f)
    BY <2>1, SumExists
  <2> DEFINE f == G(T)
  <2>3. SumOf(h, T, f)
    BY <2>2
  <2> HIDE DEF f
  <2>4. g[T] = f[T]
    BY <1>2, <2>3, SumIsUnique
  <2> QED
    BY <1>1, <2>4 DEF f
<1> HIDE DEF G
<1>4. Total(h, S) = g[S] /\ g[S] \in Nat
  BY <1>2, <1>3
<1>5. g[S] = IF S = {} THEN 0 ELSE h[PickOf(S)].size + g[S \ {PickOf(S)}]
  BY <1>2 DEF SumOf
<1>6. CASE S = {}
  BY <1>4, <1>5, <1>6
<1>7. CASE S # {}
  <2>1. PickOf(S) \in S
    BY <1>7 DEF PickOf
  <2>2. Total(h, S \ {PickOf(S)}) = g[S \ {PickOf(S)}]
    BY <1>3
  <2> QED
    BY <1>4, <1>5, <1>7, <2>1, <2>2
<1> QED
  BY <1>6, <1>7

(* One chunk more, ...                                                      *)
LEMMA TotalAdds ==
    ASSUME NEW h, NEW S, IsFiniteSet(S), \A x \in S : h[x].size \in Nat,
           NEW x, x \notin S, h[x].size \in Nat
    PROVE  Total(h, S \cup {x}) = h[x].size + Total(h, S)
<1> DEFINE Bad == {n \in Nat : \E y \in S \cup {x} : \E s \in SUBSET ((S \cup {x}) \ {y}) :
                      Cardinality(s) = n /\ Total(h, s \cup {y}) # h[y].size + Total(h, s)}
<1>1. IsFiniteSet(S \cup {x}) /\ \A y \in S \cup {x} : h[y].size \in Nat
  BY FS_AddElement
<1>2. \A s \in SUBSET (S \cup {x}) :
         /\ IsFiniteSet(s) /\ Cardinality(s) \in Nat
         /\ \A y \in s : h[y].size \in Nat
  <2>1. \A s \in SUBSET (S \cup {x}) : IsFiniteSet(s)
    BY <1>1, FS_Subset
  <2> QED
    BY <1>1, <2>1, FS_CardinalityType
<1>3. \A s \in SUBSET (S \cup {x}) : s # {} =>
         /\ PickOf(s) \in s
         /\ Total(h, s) = h[PickOf(s)].size + Total(h, s \ {PickOf(s)})
  BY <1>2, TotalIs
<1>4. \A s \in SUBSET (S \cup {x}) : Total(h, s) \in Nat
  BY <1>2, TotalIs
<1>5. Bad = {}
  <2>1. SUFFICES ASSUME Bad # {} PROVE FALSE
    OBVIOUS
  <2>2. PICK n \in Bad : \A k \in Bad : n <= k
    <3>1. Bad \in SUBSET Nat
      OBVIOUS
    <3> HIDE DEF Bad
    <3> QED
      BY <2>1, <3>1, LeastNat
  <2>3. PICK y \in S \cup {x} : \E s \in SUBSET ((S \cup {x}) \ {y}) :
           Cardinality(s) = n /\ Total(h, s \cup {y}) # h[y].size + Total(h, s)
    OBVIOUS
  <2>4. PICK s \in SUBSET ((S \cup {x}) \ {y}) :
           Cardinality(s) = n /\ Total(h, s \cup {y}) # h[y].size + Total(h, s)
    BY <2>3
  <2> DEFINE t == s \cup {y}
             c == PickOf(t)
             r == s \ {c}
  <2>5. t \in SUBSET (S \cup {x}) /\ t # {} /\ s \in SUBSET (S \cup {x}) /\ y \notin s
    OBVIOUS
  <2>6. c \in t /\ Total(h, t) = h[c].size + Total(h, t \ {c})
    BY <1>3, <2>5
  <2> HIDE DEF t, c
  <2>7. c # y
    <3>1. SUFFICES ASSUME c = y PROVE FALSE
      OBVIOUS
    <3>2. t \ {c} = s
      BY <2>5, <3>1 DEF t
    <3> QED
      BY <2>4, <2>6, <3>1, <3>2 DEF t
  <2>8. c \in s
    BY <2>6, <2>7 DEF t
  <2>9. Cardinality(r) = n - 1 /\ n \in Nat
    BY <1>2, <2>4, <2>5, <2>8, FS_RemoveElement
  <2>10. /\ r \in SUBSET (S \cup {x}) /\ Cardinality(r) \in Nat
        /\ r \in SUBSET ((S \cup {x}) \ {y}) /\ r \in SUBSET ((S \cup {x}) \ {c})
    <3>1. r \in SUBSET (S \cup {x})
      BY <2>5
    <3>2. r \in SUBSET ((S \cup {x}) \ {y}) /\ r \in SUBSET ((S \cup {x}) \ {c})
      BY <2>5
    <3>3. Cardinality(r) \in Nat
      BY <1>2, <3>1
    <3> QED
      BY <3>1, <3>2, <3>3
  <2>11. n - 1 \notin Bad /\ n - 1 \in Nat
    <3>1. n - 1 \in Nat
      BY <2>9, <2>10
    <3> HIDE DEF Bad
    <3>2. n - 1 \notin Bad
      BY <2>2, <2>9
    <3> QED
      BY <3>1, <3>2
  <2>12. c \in S \cup {x}
    BY <2>5, <2>8
  <2>13. t \ {c} = r \cup {y} /\ s = r \cup {c}
    BY <2>5, <2>7, <2>8 DEF t
  <2> HIDE DEF r
  <2>14. Total(h, r \cup {y}) = h[y].size + Total(h, r)
    BY <2>9, <2>10, <2>11
  <2>15. Total(h, r \cup {c}) = h[c].size + Total(h, r)
    BY <2>9, <2>10, <2>11, <2>12
  <2> DEFINE a == Total(h, r)
             u == Total(h, s)
             v == Total(h, t)
             w == h[c].size
             z == h[y].size
  <2>16. u = w + a
    BY <2>13, <2>15
  <2>17. v = w + (z + a)
    BY <2>6, <2>13, <2>14
  <2>18. a \in Nat /\ w \in Nat /\ z \in Nat /\ v # z + u
    BY <1>1, <1>4, <2>4, <2>10, <2>12 DEF t
  <2> HIDE DEF a, u, v, w, z
  <2> QED
    BY <2>16, <2>17, <2>18
<1>6. S \in SUBSET ((S \cup {x}) \ {x}) /\ Cardinality(S) \in Nat
  BY FS_CardinalityType
<1> QED
  BY <1>5, <1>6

(* ... and chunks of the same sizes.                                        *)
LEMMA TotalStays ==
    ASSUME NEW h, NEW g, NEW S, IsFiniteSet(S),
           \A x \in S : h[x].size \in Nat /\ g[x].size = h[x].size
    PROVE  Total(g, S) = Total(h, S)
<1> DEFINE Bad == {n \in Nat : \E s \in SUBSET S :
                                  Cardinality(s) = n /\ Total(g, s) # Total(h, s)}
<1>1. \A s \in SUBSET S :
         /\ IsFiniteSet(s) /\ Cardinality(s) \in Nat
         /\ \A y \in s : h[y].size \in Nat /\ g[y].size \in Nat
  <2>1. \A s \in SUBSET S : IsFiniteSet(s)
    BY FS_Subset
  <2> QED
    BY <2>1, FS_CardinalityType
<1>2. Bad = {}
  <2>1. SUFFICES ASSUME Bad # {} PROVE FALSE
    OBVIOUS
  <2>2. PICK n \in Bad : \A k \in Bad : n <= k
    <3>1. Bad \in SUBSET Nat
      OBVIOUS
    <3> HIDE DEF Bad
    <3> QED
      BY <2>1, <3>1, LeastNat
  <2>3. PICK s \in SUBSET S : Cardinality(s) = n /\ Total(g, s) # Total(h, s)
    OBVIOUS
  <2> DEFINE c == PickOf(s)
             r == s \ {c}
  <2>4. IsFiniteSet(s) /\ \A y \in s : h[y].size \in Nat /\ g[y].size \in Nat
    BY <1>1
  <2>5. s # {}
    BY <2>3, <2>4, TotalIs
  <2>6. c \in s /\ Total(h, s) = h[c].size + Total(h, r)
    BY <2>4, <2>5, TotalIs
  <2>7. Total(g, s) = g[c].size + Total(g, r)
    BY <2>4, <2>5, TotalIs
  <2> HIDE DEF c
  <2>8. Cardinality(r) = n - 1 /\ n \in Nat
    BY <1>1, <2>3, <2>6, FS_RemoveElement
  <2>9. r \in SUBSET S /\ Cardinality(r) \in Nat
    BY <1>1
  <2>10. n - 1 \notin Bad
    BY <2>2, <2>8
  <2>11. Total(g, r) = Total(h, r)
    BY <2>8, <2>9, <2>10
  <2>12. g[c].size = h[c].size
    BY <2>6
  <2> HIDE DEF r
  <2> QED
    BY <2>3, <2>6, <2>7, <2>11, <2>12, Zenon
<1>3. S \in SUBSET S /\ Cardinality(S) \in Nat
  BY FS_CardinalityType
<1> QED
  BY <1>2, <1>3
=============================================================================
