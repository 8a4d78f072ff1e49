---------------------------- MODULE VarintProofs ----------------------------
(***************************************************************************)
(* For every group size, length and word width: the writer and the reader  *)
(* of varint.go are inverse to each other, the writer is minimal, and      *)
(* zigzag is a bijection.                                                  *)
(***************************************************************************)
EXTENDS MCVarint, SeqLemmas

(***************************************************************************)
(* Arithmetic                                                              *)
(***************************************************************************)
LEMMA Euclid ==
  ASSUME NEW v \in Nat, NEW b \in Nat \ {0}
  PROVE  v \div b \in Nat /\ v % b \in 0 .. b - 1 /\ v = b * (v \div b) + (v % b)
OBVIOUS

LEMMA Quotient ==
  ASSUME NEW b \in Nat \ {0}, NEW q \in Nat, NEW r \in 0 .. b - 1
  PROVE  (b * q + r) \div b = q /\ (b * q + r) % b = r
OBVIOUS

(* A remainder in a larger unit: q units of b and r, and s of the b.        *)
LEMMA Nested ==
  ASSUME NEW b \in Nat \ {0}, NEW c \in Nat \ {0}, NEW r \in 0 .. b - 1, NEW s \in 0 .. c - 1
  PROVE  r + s * b \in 0 .. c * b - 1 /\ c * b \in Nat \ {0} /\ s * b \in Nat
<1>1. s * b \in Nat /\ s * b + b <= c * b /\ c * b \in Nat
  OBVIOUS
<1> QED BY <1>1

(***************************************************************************)
(* The weights of the groups                                               *)
(***************************************************************************)
Shifts(f, k) == f = [j \in 0 .. k |-> IF j = 0 THEN 1 ELSE Cont * f[j - 1]]

LEMMA ShiftsExists == ASSUME NEW k \in Nat PROVE \E f : Shifts(f, k)
<1> DEFINE Without == {m \in Nat : ~ \E f : Shifts(f, m)}
<1>1. SUFFICES ASSUME Without # {} PROVE FALSE
  OBVIOUS
<1>2. PICK x \in Without : \A y \in Without : x <= y
  <2> HIDE DEF Without
  <2>1. Without \subseteq Nat
    BY DEF Without
  <2> QED BY <1>1, <2>1, LeastNatural
<1>3. x # 0
  <2>1. Shifts([j \in 0 .. 0 |-> 1], 0)
    <3>1. \A j \in 0 .. 0 : j = 0
      OBVIOUS
    <3> QED BY <3>1 DEF Shifts
  <2> QED BY <2>1
<1>4. x - 1 \in Nat /\ ~(x <= x - 1)
  BY <1>3
<1>5. PICK f : Shifts(f, x - 1)
  BY <1>2, <1>4
<1> DEFINE g == [j \in 0 .. x |-> IF j = x THEN Cont * f[x - 1] ELSE f[j]]
<1>6. ASSUME NEW j \in 0 .. x
      PROVE  g[j] = IF j = 0 THEN 1 ELSE Cont * g[j - 1]
  <2>1. CASE j = 0
    <3>1. 0 \in 0 .. x /\ 0 \in 0 .. x - 1
      BY <1>4
    <3> QED BY <1>3, <1>5, <2>1, <3>1 DEF Shifts
  <2>2. CASE j = x
    <3>1. x - 1 \in 0 .. x /\ x - 1 # x
      BY <1>4
    <3>2. g[x - 1] = f[x - 1]
      BY <3>1
    <3> QED BY <1>3, <2>2, <3>2
  <2>3. CASE j # 0 /\ j # x
    <3>1. j \in 0 .. x - 1 /\ j - 1 \in 0 .. x /\ j - 1 # x
      BY <1>4, <2>3
    <3>2. g[j] = f[j] /\ g[j - 1] = f[j - 1]
      BY <2>3, <3>1
    <3>3. f[j] = Cont * f[j - 1]
      BY <1>5, <2>3, <3>1 DEF Shifts
    <3> QED BY <2>3, <3>2, <3>3
  <2> QED BY <2>1, <2>2, <2>3
<1>7. Shifts(g, x)
  <2>1. g = [j \in 0 .. x |-> g[j]]
    OBVIOUS
  <2> HIDE DEF g
  <2> QED BY <1>6, <2>1 DEF Shifts
<1> QED BY <1>7

LEMMA WeightShifts == ASSUME NEW k \in Nat PROVE \E f : Shifts(f, k) /\ Weight(k) = f[k]
<1> DEFINE f == CHOOSE h : Shifts(h, k)
<1>1. Shifts(f, k)
  BY ShiftsExists
<1>2. Weight(k) = f[k]
  BY Zenon DEF Weight, Shifts
<1> HIDE DEF f
<1> QED BY <1>1, <1>2

LEMMA ShiftsAgree ==
  ASSUME NEW k \in Nat, NEW m \in Nat, NEW f, NEW g, Shifts(f, k), Shifts(g, m),
         NEW n \in Nat, n <= k, n <= m
  PROVE  f[n] = g[n]
<1> DEFINE Differ == {j \in 0 .. n : f[j] # g[j]}
<1>1. SUFFICES ASSUME Differ # {} PROVE FALSE
  OBVIOUS
<1>2. PICK x \in Differ : \A y \in Differ : x <= y
  <2>1. Differ \subseteq Nat
    OBVIOUS
  <2> HIDE DEF Differ
  <2> QED BY <1>1, <2>1, LeastNatural
<1>3. x \in 0 .. k /\ x \in 0 .. m
  OBVIOUS
<1>4. CASE x = 0
  BY <1>3, <1>4 DEF Shifts
<1>5. CASE x # 0
  <2>1. x - 1 \in 0 .. n /\ ~(x <= x - 1)
    BY <1>5
  <2>2. f[x - 1] = g[x - 1]
    BY <1>2, <2>1
  <2>3. f[x] = Cont * f[x - 1] /\ g[x] = Cont * g[x - 1]
    BY <1>3, <1>5 DEF Shifts
  <2> QED BY <2>1, <2>2, <2>3
<1> QED BY <1>4, <1>5

LEMMA WeightZero == Weight(0) = 1
<1>1. PICK f : Shifts(f, 0) /\ Weight(0) = f[0]
  BY WeightShifts
<1> QED BY <1>1 DEF Shifts

LEMMA WeightNext == ASSUME NEW k \in Nat PROVE Weight(k + 1) = Cont * Weight(k)
<1>1. PICK f : Shifts(f, k) /\ Weight(k) = f[k]
  BY WeightShifts
<1>2. k + 1 \in Nat
  OBVIOUS
<1>3. PICK g : Shifts(g, k + 1) /\ Weight(k + 1) = g[k + 1]
  BY <1>2, WeightShifts
<1>4. g[k + 1] = Cont * g[k]
  <2>1. k + 1 \in 0 .. k + 1 /\ k + 1 # 0 /\ (k + 1) - 1 = k
    OBVIOUS
  <2> QED BY <1>3, <2>1 DEF Shifts
<1>5. f[k] = g[k]
  <2>1. k <= k /\ k <= k + 1
    OBVIOUS
  <2> QED BY ONLY <1>1, <1>2, <1>3, <2>1, k \in Nat, ShiftsAgree
<1> QED BY <1>1, <1>3, <1>4, <1>5

(* Every weight is a positive number.                                      *)
LEMMA WeightNat == ASSUME NEW k \in Nat PROVE Weight(k) \in Nat \ {0}
<1> DEFINE Wrong == {j \in Nat : Weight(j) \notin Nat \ {0}}
<1>1. SUFFICES ASSUME Wrong # {} PROVE FALSE
  OBVIOUS
<1>2. PICK x \in Wrong : \A y \in Wrong : x <= y
  <2>1. Wrong \subseteq Nat
    OBVIOUS
  <2> HIDE DEF Wrong
  <2> QED BY <1>1, <2>1, LeastNatural
<1>3. x # 0
  BY WeightZero
<1>4. x - 1 \in Nat /\ ~(x <= x - 1) /\ (x - 1) + 1 = x
  BY <1>3
<1>5. Weight(x - 1) \in Nat \ {0}
  BY <1>2, <1>4
<1>6. Weight(x) = Cont * Weight(x - 1)
  BY <1>4, WeightNext
<1> QED BY <1>5, <1>6, VarintAssumption

(* The weights grow.                                                       *)
LEMMA WeightGrows == ASSUME NEW k \in Nat, NEW j \in 0 .. k PROVE Weight(j) <= Weight(k)
<1> DEFINE Wrong == {d \in Nat : \E i \in Nat : ~(Weight(i) <= Weight(i + d))}
<1>1. Wrong = {}
  <2> SUFFICES ASSUME Wrong # {} PROVE FALSE
    OBVIOUS
  <2>1. PICK x \in Wrong : \A y \in Wrong : x <= y
    <3>1. Wrong \subseteq Nat
      OBVIOUS
    <3> HIDE DEF Wrong
    <3> QED BY <3>1, LeastNatural
  <2>2. PICK i \in Nat : ~(Weight(i) <= Weight(i + x))
    OBVIOUS
  <2>3. x # 0
    <3>1. Weight(i) <= Weight(i) /\ i + 0 = i
      BY WeightNat
    <3> QED BY <2>2, <3>1
  <2>4. x - 1 \in Nat /\ ~(x <= x - 1) /\ i + (x - 1) \in Nat /\ (i + (x - 1)) + 1 = i + x
    BY <2>3
  <2>5. Weight(i) <= Weight(i + (x - 1))
    BY <2>1, <2>4
  <2>6. Weight(i + x) = Cont * Weight(i + (x - 1))
    BY <2>4, WeightNext
  <2>7. Weight(i) \in Nat /\ Weight(i + (x - 1)) \in Nat
    BY <2>4, WeightNat
  <2>8. \A w \in Nat : w <= Cont * w
    BY VarintAssumption
  <2>9. Weight(i + (x - 1)) <= Weight(i + x) /\ Weight(i + x) \in Int
    BY <2>6, <2>7, <2>8, VarintAssumption
  <2> QED BY <2>2, <2>5, <2>7, <2>9
<1>2. k - j \in Nat /\ j \in Nat /\ j + (k - j) = k
  OBVIOUS
<1>3. ~(k - j \in Wrong)
  <2> HIDE DEF Wrong
  <2> QED BY <1>1
<1> QED BY <1>2, <1>3

(***************************************************************************)
(* The sum of the groups                                                   *)
(***************************************************************************)
Sums(f, s, k) ==
  f = [j \in 0 .. k |-> IF j = 0 THEN 0 ELSE f[j - 1] + (s[j] % Cont) * Weight(j - 1)]

LEMMA SumsExists == ASSUME NEW s, NEW k \in Nat PROVE \E f : Sums(f, s, k)
<1> DEFINE Without == {m \in Nat : ~ \E f : Sums(f, s, m)}
<1>1. SUFFICES ASSUME Without # {} PROVE FALSE
  OBVIOUS
<1>2. PICK x \in Without : \A y \in Without : x <= y
  <2>1. Without \subseteq Nat
    OBVIOUS
  <2> HIDE DEF Without
  <2> QED BY <1>1, <2>1, LeastNatural
<1>3. x # 0
  <2>1. Sums([j \in 0 .. 0 |-> 0], s, 0)
    <3>1. \A j \in 0 .. 0 : j = 0
      OBVIOUS
    <3> QED BY <3>1 DEF Sums
  <2> QED BY <2>1
<1>4. x - 1 \in Nat /\ ~(x <= x - 1)
  BY <1>3
<1>5. PICK f : Sums(f, s, x - 1)
  BY <1>2, <1>4
<1> DEFINE Group(j) == (s[j] % Cont) * Weight(j - 1)
           g == [j \in 0 .. x |-> IF j = x THEN f[x - 1] + Group(x) ELSE f[j]]
<1>6. ASSUME NEW j \in 0 .. x
      PROVE  g[j] = IF j = 0 THEN 0 ELSE g[j - 1] + Group(j)
  <2>1. CASE j = 0
    <3>1. 0 \in 0 .. x /\ 0 \in 0 .. x - 1
      BY <1>4
    <3>2. f[0] = 0
      BY <1>5, <3>1, Zenon DEF Sums
    <3> QED BY <1>3, <2>1, <3>1, <3>2, Zenon
  <2>2. CASE j = x
    <3>1. x - 1 \in 0 .. x /\ x - 1 # x /\ x \in 0 .. x
      BY <1>4
    <3>2. g[x - 1] = f[x - 1]
      BY <3>1, Zenon
    <3> QED BY <1>3, <2>2, <3>1, <3>2, Zenon
  <2>3. CASE j # 0 /\ j # x
    <3>1. j \in 0 .. x - 1 /\ j - 1 \in 0 .. x /\ j - 1 # x
      BY <1>4, <2>3
    <3>2. g[j] = f[j] /\ g[j - 1] = f[j - 1]
      BY <2>3, <3>1, Zenon
    <3>3. f[j] = f[j - 1] + Group(j)
      BY <1>5, <2>3, <3>1, Zenon DEF Sums
    <3> QED BY <2>3, <3>2, <3>3, Zenon
  <2> QED BY <2>1, <2>2, <2>3
<1>7. Sums(g, s, x)
  <2>1. g = [j \in 0 .. x |-> g[j]]
    OBVIOUS
  <2> HIDE DEF g
  <2> QED BY <1>6, <2>1 DEF Sums
<1> QED BY <1>7

LEMMA GroupSumSums ==
  ASSUME NEW s, NEW k \in Nat PROVE \E f : Sums(f, s, k) /\ GroupSum(s, k) = f[k]
<1> DEFINE f == CHOOSE h : Sums(h, s, k)
<1>1. Sums(f, s, k)
  BY SumsExists
<1>2. GroupSum(s, k) = f[k]
  BY Zenon DEF GroupSum, Sums
<1> HIDE DEF f
<1> QED BY <1>1, <1>2

(* Two sums of the same groups.                                            *)
LEMMA SumsAgree ==
  ASSUME NEW k \in Nat, NEW m \in Nat, NEW s, NEW t, NEW f, NEW g, Sums(f, s, k), Sums(g, t, m),
         NEW n \in Nat, n <= k, n <= m, \A j \in 1 .. n : s[j] % Cont = t[j] % Cont
  PROVE  f[n] = g[n]
<1> DEFINE Differ == {j \in 0 .. n : f[j] # g[j]}
<1>1. SUFFICES ASSUME Differ # {} PROVE FALSE
  OBVIOUS
<1>2. PICK x \in Differ : \A y \in Differ : x <= y
  <2>1. Differ \subseteq Nat
    OBVIOUS
  <2> HIDE DEF Differ
  <2> QED BY <1>1, <2>1, LeastNatural
<1>3. x \in 0 .. k /\ x \in 0 .. m
  OBVIOUS
<1>4. CASE x = 0
  <2>1. f[0] = 0 /\ g[0] = 0
    BY <1>3, <1>4, Zenon DEF Sums
  <2> QED BY <1>4, <2>1
<1>5. CASE x # 0
  <2>1. x - 1 \in 0 .. n /\ ~(x <= x - 1) /\ x \in 1 .. n
    BY <1>5
  <2>2. f[x - 1] = g[x - 1]
    BY <1>2, <2>1
  <2>3. /\ f[x] = f[x - 1] + (s[x] % Cont) * Weight(x - 1)
        /\ g[x] = g[x - 1] + (t[x] % Cont) * Weight(x - 1)
    BY <1>3, <1>5, Zenon DEF Sums
  <2>4. s[x] % Cont = t[x] % Cont
    BY <2>1
  <2>5. f[x] = g[x]
    BY <2>2, <2>3, <2>4, Zenon
  <2> QED BY <2>5
<1> QED BY <1>4, <1>5

LEMMA GroupSumZero == ASSUME NEW s PROVE GroupSum(s, 0) = 0
<1>1. PICK f : Sums(f, s, 0) /\ GroupSum(s, 0) = f[0]
  BY GroupSumSums
<1>2. 0 \in 0 .. 0
  OBVIOUS
<1> QED BY <1>1, <1>2, Zenon DEF Sums

LEMMA GroupSumNext ==
  ASSUME NEW s, NEW k \in Nat
  PROVE  GroupSum(s, k + 1) = GroupSum(s, k) + (s[k + 1] % Cont) * Weight(k)
<1>1. PICK f : Sums(f, s, k) /\ GroupSum(s, k) = f[k]
  BY GroupSumSums
<1>2. k + 1 \in Nat
  OBVIOUS
<1>3. PICK g : Sums(g, s, k + 1) /\ GroupSum(s, k + 1) = g[k + 1]
  BY <1>2, GroupSumSums
<1>4. g[k + 1] = g[k] + (s[k + 1] % Cont) * Weight(k)
  <2>1. k + 1 \in 0 .. k + 1 /\ k + 1 # 0 /\ (k + 1) - 1 = k
    OBVIOUS
  <2>2. g[k + 1] = g[(k + 1) - 1] + (s[k + 1] % Cont) * Weight((k + 1) - 1)
    BY <1>3, <2>1, Zenon DEF Sums
  <2> QED BY <2>1, <2>2, Zenon
<1>5. f[k] = g[k]
  <2>1. k <= k /\ k <= k + 1 /\ \A j \in 1 .. k : s[j] % Cont = s[j] % Cont
    OBVIOUS
  <2> QED BY ONLY <1>1, <1>2, <1>3, <2>1, k \in Nat, SumsAgree
<1> QED BY <1>1, <1>3, <1>4, <1>5, Zenon

(* Only the groups up to the k-th count.                                   *)
LEMMA GroupSumLocal ==
  ASSUME NEW s, NEW t, NEW k \in Nat, \A j \in 1 .. k : s[j] % Cont = t[j] % Cont
  PROVE  GroupSum(s, k) = GroupSum(t, k)
<1>1. PICK f : Sums(f, s, k) /\ GroupSum(s, k) = f[k]
  BY GroupSumSums
<1>2. PICK g : Sums(g, t, k) /\ GroupSum(t, k) = g[k]
  BY GroupSumSums
<1>3. k <= k
  OBVIOUS
<1>4. f[k] = g[k]
  BY <1>1, <1>2, <1>3, SumsAgree
<1> QED BY <1>1, <1>2, <1>4

(* k groups make a number below the weight of the next one.                 *)
LEMMA GroupSumBound ==
  ASSUME NEW s, NEW k \in Nat, \A j \in 1 .. k : s[j] % Cont \in 0 .. Cont - 1
  PROVE  GroupSum(s, k) \in 0 .. Weight(k) - 1
<1> DEFINE Wrong == {j \in 0 .. k : GroupSum(s, j) \notin 0 .. Weight(j) - 1}
<1>1. SUFFICES ASSUME Wrong # {} PROVE FALSE
  OBVIOUS
<1>2. PICK x \in Wrong : \A y \in Wrong : x <= y
  <2>1. Wrong \subseteq Nat
    OBVIOUS
  <2> HIDE DEF Wrong
  <2> QED BY <1>1, <2>1, LeastNatural
<1>3. x # 0
  BY GroupSumZero, WeightZero
<1>4. x - 1 \in Nat /\ ~(x <= x - 1) /\ (x - 1) + 1 = x /\ x - 1 \in 0 .. k /\ x \in 1 .. k
  BY <1>3
<1> DEFINE w == Weight(x - 1)
           r == GroupSum(s, x - 1)
           d == s[x] % Cont
<1>5. r \in 0 .. w - 1
  BY <1>2, <1>4
<1>6. w \in Nat \ {0}
  BY <1>4, WeightNat
<1>7. d \in 0 .. Cont - 1
  BY <1>4
<1>8. GroupSum(s, x) = r + d * w
  <2>1. GroupSum(s, (x - 1) + 1) = r + (s[(x - 1) + 1] % Cont) * w
    BY <1>4, GroupSumNext
  <2> QED BY <1>4, <2>1, Zenon
<1>9. Weight(x) = Cont * w
  BY <1>4, WeightNext
<1>10. r + d * w \in 0 .. Cont * w - 1
  <2> HIDE DEF r, d, w
  <2> QED BY <1>5, <1>6, <1>7, Nested, VarintAssumption
<1> QED BY <1>8, <1>9, <1>10

(***************************************************************************)
(* The groups of a word                                                    *)
(***************************************************************************)
LEMMA ShrNat ==
  ASSUME NEW v \in Nat, NEW k \in Nat \ {0}
  PROVE  /\ Shr(v, k) \in Nat
         /\ v = Weight(k - 1) * Shr(v, k) + (v % Weight(k - 1))
         /\ v % Weight(k - 1) \in 0 .. Weight(k - 1) - 1
<1>1. k - 1 \in Nat
  OBVIOUS
<1>2. Weight(k - 1) \in Nat \ {0}
  BY <1>1, WeightNat
<1> QED BY <1>2, Euclid DEF Shr

(* A shift by one group more.                                              *)
LEMMA ShrNext ==
  ASSUME NEW v \in Nat, NEW k \in Nat \ {0}
  PROVE  Shr(v, k + 1) = Shr(v, k) \div Cont
<1> DEFINE w == Weight(k - 1)
           a == Shr(v, k)
           r == v % w
<1>1. k - 1 \in Nat /\ (k - 1) + 1 = k /\ (k + 1) - 1 = k
  OBVIOUS
<1>2. a \in Nat /\ v = w * a + r /\ r \in 0 .. w - 1
  BY ShrNat
<1>3. w \in Nat \ {0} /\ Weight(k) = Cont * w
  BY <1>1, WeightNat, WeightNext
<1> HIDE DEF w, a, r
<1>4. a \div Cont \in Nat /\ a % Cont \in 0 .. Cont - 1 /\ a = Cont * (a \div Cont) + (a % Cont)
  BY <1>2, VarintAssumption, Euclid
<1>5. /\ r + (a % Cont) * w \in 0 .. Cont * w - 1
      /\ Cont * w \in Nat \ {0} /\ (a % Cont) * w \in Nat
  BY <1>2, <1>3, <1>4, VarintAssumption, Nested
<1>6. v = (Cont * w) * (a \div Cont) + (r + (a % Cont) * w)
  <2> DEFINE q == a \div Cont
             d == a % Cont
  <2>1. a = Cont * q + d /\ q \in Nat /\ d \in Nat
    BY <1>4
  <2> HIDE DEF q, d
  <2>2. w * (Cont * q + d) = (Cont * w) * q + d * w
    BY <1>3, <2>1, VarintAssumption
  <2>3. v = (Cont * w) * q + d * w + r
    BY <1>2, <2>1, <2>2
  <2>4. v = (Cont * w) * q + (r + d * w)
    BY <1>2, <1>3, <2>1, <2>3, VarintAssumption
  <2> QED BY <2>4 DEF q, d
<1>7. v \div (Cont * w) = a \div Cont
  <2> DEFINE q == a \div Cont
             b == Cont * w
             e == r + (a % Cont) * w
  <2>1. q \in Nat /\ b \in Nat \ {0} /\ e \in 0 .. b - 1 /\ v = b * q + e
    BY <1>4, <1>5, <1>6
  <2> HIDE DEF q, b, e
  <2>2. v \div b = q
    BY <2>1, Quotient
  <2> QED BY <2>2 DEF q, b
<1>8. Shr(v, k + 1) = v \div Weight(k)
  BY <1>1 DEF Shr
<1> QED BY <1>3, <1>7, <1>8 DEF a

(* k groups and what is left of the word when they are shifted out.         *)
LEMMA GroupsOfWord ==
  ASSUME NEW v \in Nat, NEW s, NEW k \in Nat, \A j \in 1 .. k : s[j] % Cont = Shr(v, j) % Cont
  PROVE  v = Weight(k) * Shr(v, k + 1) + GroupSum(s, k)
<1> DEFINE Wrong == {j \in 0 .. k : v # Weight(j) * Shr(v, j + 1) + GroupSum(s, j)}
<1>1. SUFFICES ASSUME Wrong # {} PROVE FALSE
  OBVIOUS
<1>2. PICK x \in Wrong : \A y \in Wrong : x <= y
  <2>1. Wrong \subseteq Nat
    OBVIOUS
  <2> HIDE DEF Wrong
  <2> QED BY <1>1, <2>1, LeastNatural
<1>3. x # 0
  <2>1. Shr(v, 1) = v
    <3>1. Weight(1 - 1) = 1
      BY WeightZero
    <3>2. v \div 1 = v
      OBVIOUS
    <3> QED BY <3>1, <3>2 DEF Shr
  <2>2. v = Weight(0) * Shr(v, 0 + 1) + GroupSum(s, 0)
    BY <2>1, GroupSumZero, WeightZero
  <2> QED BY <1>2, <2>2
<1>4. x - 1 \in Nat /\ ~(x <= x - 1) /\ (x - 1) + 1 = x /\ x - 1 \in 0 .. k /\ x \in 1 .. k
  BY <1>3
<1> DEFINE w == Weight(x - 1)
           a == Shr(v, x)
           g == GroupSum(s, x - 1)
<1>5. v = w * a + g
  BY <1>2, <1>4
<1>6. Weight(x) = Cont * w /\ w \in Nat \ {0}
  BY <1>4, WeightNat, WeightNext
<1>7. GroupSum(s, x) = g + (a % Cont) * w
  <2>1. GroupSum(s, (x - 1) + 1) = g + (s[(x - 1) + 1] % Cont) * w
    BY <1>4, GroupSumNext
  <2> QED BY <1>4, <2>1, Zenon
<1>8. Shr(v, x + 1) = a \div Cont /\ a \in Nat
  BY <1>4, ShrNat, ShrNext
<1>9. v # Weight(x) * Shr(v, x + 1) + GroupSum(s, x)
  BY <1>2
<1> HIDE DEF w, a, g
<1> DEFINE q == a \div Cont
           d == a % Cont
<1>10. a = Cont * q + d /\ q \in Nat /\ d \in Nat
  <2>1. a \in Nat /\ Cont \in Nat \ {0}
    BY <1>8, VarintAssumption
  <2>2. /\ a \div Cont \in Nat /\ a % Cont \in 0 .. Cont - 1
        /\ a = Cont * (a \div Cont) + (a % Cont)
    BY <2>1, Euclid
  <2>3. a % Cont \in Nat
    BY <2>1, <2>2
  <2> QED BY <2>2, <2>3
<1>11. v # (Cont * w) * q + (g + d * w)
  BY <1>6, <1>7, <1>8, <1>9
<1> HIDE DEF q, d
<1>12. w * (Cont * q + d) = (Cont * w) * q + d * w
  BY <1>6, <1>10, VarintAssumption
<1>13. g \in Int
  <2>1. \A j \in 1 .. x - 1 : s[j] % Cont \in 0 .. Cont - 1
    <3> SUFFICES ASSUME NEW j \in 1 .. x - 1 PROVE s[j] % Cont \in 0 .. Cont - 1
      OBVIOUS
    <3>1. s[j] % Cont = Shr(v, j) % Cont /\ j \in Nat \ {0}
      BY <1>4
    <3>2. Shr(v, j) \in Nat
      BY <3>1, ShrNat
    <3>3. \A n \in Nat : n % Cont \in 0 .. Cont - 1
      BY VarintAssumption
    <3> QED BY <3>1, <3>2, <3>3
  <2>2. GroupSum(s, x - 1) \in 0 .. Weight(x - 1) - 1
    BY <1>4, <2>1, GroupSumBound
  <2> QED BY <1>6, <2>2 DEF g, w
<1> QED BY <1>5, <1>6, <1>10, <1>11, <1>12, <1>13, VarintAssumption

(***************************************************************************)
(* How long a word's varint is                                             *)
(***************************************************************************)
Enough(v, k) ==
  /\ k \in 1 .. MaxVarintLen
  /\ k = MaxVarintLen \/ v < Weight(k)
  /\ \A j \in 1 .. k - 1 : ~(v < Weight(j))

LEMMA VarintLenEnough == ASSUME NEW v \in Nat PROVE Enough(v, VarintLen(v))
<1> DEFINE Lens == {k \in 1 .. MaxVarintLen : k = MaxVarintLen \/ v < Weight(k)}
<1>1. MaxVarintLen \in Lens
  BY VarintAssumption
<1>2. PICK k \in Lens : \A j \in Lens : k <= j
  <2>1. Lens \subseteq Nat /\ Lens # {}
    BY <1>1
  <2> HIDE DEF Lens
  <2> QED BY <2>1, LeastNatural
<1>3. Enough(v, k)
  <2> SUFFICES ASSUME NEW j \in 1 .. k - 1, v < Weight(j) PROVE FALSE
    BY DEF Enough
  <2>1. j \in Lens /\ ~(k <= j)
    BY VarintAssumption
  <2> QED BY <1>2, <2>1
<1>4. VarintLen(v) = CHOOSE j \in 1 .. MaxVarintLen : Enough(v, j)
  BY Zenon DEF VarintLen, Enough
<1>5. k \in 1 .. MaxVarintLen
  OBVIOUS
<1> HIDE DEF Lens
<1> QED BY <1>3, <1>4, <1>5, Zenon

(* A word below the k-th weight needs at most k bytes.                     *)
LEMMA VarintLenLeast ==
  ASSUME NEW v \in Nat, NEW k \in 1 .. MaxVarintLen, k = MaxVarintLen \/ v < Weight(k)
  PROVE  VarintLen(v) <= k
<1>1. Enough(v, VarintLen(v))
  BY VarintLenEnough
<1>2. SUFFICES ASSUME VarintLen(v) > k PROVE FALSE
  BY <1>1, VarintAssumption DEF Enough
<1>3. k \in 1 .. VarintLen(v) - 1 /\ VarintLen(v) <= MaxVarintLen /\ VarintLen(v) \in Nat
  BY <1>1, <1>2, VarintAssumption DEF Enough
<1>4. ~(v < Weight(k))
  BY <1>1, <1>3 DEF Enough
<1>5. k # MaxVarintLen
  BY <1>2, <1>3, VarintAssumption
<1> QED BY <1>4, <1>5

(***************************************************************************)
(* The writer                                                              *)
(***************************************************************************)
(* What is left at the last byte fits it: a whole group, or a single bit in *)
(* the byte that has nothing else.                                         *)
LEMMA LastByte ==
  ASSUME NEW v \in Word
  PROVE  LET L == VarintLen(v) IN
         /\ Shr(v, L) \in 0 .. Cont - 1
         /\ L # MaxVarintLen => v < Weight(L)
         /\ L = MaxVarintLen => Shr(v, L) \in {0, 1}
<1> DEFINE L == VarintLen(v)
<1>1. v \in Nat /\ v < 2 * TopWeight
  BY VarintAssumption DEF Word
<1>2. Enough(v, L)
  BY <1>1, VarintLenEnough
<1>3. L \in 1 .. MaxVarintLen /\ L \in Nat \ {0}
  BY <1>2, VarintAssumption DEF Enough
<1> DEFINE w == Weight(L - 1)
           a == Shr(v, L)
           r == v % w
<1>4. a \in Nat /\ v = w * a + r /\ r \in 0 .. w - 1
  BY <1>1, <1>3, ShrNat
<1>5. w \in Nat \ {0}
  <2>1. L - 1 \in Nat
    BY <1>3
  <2> QED BY <2>1, WeightNat
<1>6. CASE L # MaxVarintLen
  <2>1. v < Weight(L)
    BY <1>2, <1>6 DEF Enough
  <2>2. Weight(L) = Cont * w
    <3>1. L - 1 \in Nat /\ (L - 1) + 1 = L
      BY <1>3
    <3> QED BY <3>1, WeightNext
  <2>3. a < Cont
    <3> HIDE DEF w, a, r, L
    <3>1. SUFFICES ASSUME a >= Cont PROVE FALSE
      BY <1>4, VarintAssumption
    <3>2. w * a >= w * Cont
      BY <1>4, <1>5, <3>1, VarintAssumption
    <3>3. w * a \in Nat /\ w * Cont \in Nat /\ w * Cont = Cont * w
      BY <1>4, <1>5, VarintAssumption
    <3> QED BY <1>1, <1>4, <2>1, <2>2, <3>2, <3>3
  <2> QED BY <1>4, <1>6, <2>1, <2>3, VarintAssumption
<1>7. CASE L = MaxVarintLen
  <2>1. w = TopWeight
    BY <1>7, TopWeightAssumption
  <2>2. a < 2
    <3> HIDE DEF w, a, r, L
    <3>1. SUFFICES ASSUME a >= 2 PROVE FALSE
      BY <1>4
    <3>2. w * a >= w * 2
      BY <1>4, <1>5, <3>1
    <3>3. w * a \in Nat
      BY <1>4, <1>5
    <3> QED BY <1>1, <1>4, <1>5, <2>1, <3>2, <3>3
  <2> QED BY <1>4, <1>7, <2>2, VarintAssumption
<1> QED BY <1>6, <1>7

(* The bytes putUvarint writes, wherever they stand.                       *)
Spells(s, v) ==
  LET L == VarintLen(v) IN
  /\ \A j \in 1 .. L : s[j] \in Byte /\ s[j] % Cont = Shr(v, j) % Cont
  /\ \A j \in 1 .. L - 1 : s[j] >= Cont
  /\ s[L] = Shr(v, L) /\ s[L] < Cont

LEMMA PutSpells == ASSUME NEW v \in Word PROVE Spells(PutUvarint(v), v)
<1> DEFINE L == VarintLen(v)
           p == PutUvarint(v)
<1>1. v \in Nat
  BY VarintAssumption DEF Word
<1>2. L \in Nat \ {0}
  BY <1>1, VarintLenEnough, VarintAssumption DEF Enough
<1>3. Shr(v, L) \in 0 .. Cont - 1
  BY LastByte
<1>4. /\ \A j \in 1 .. L - 1 : p[j] = Cont + (Shr(v, j) % Cont)
      /\ p[L] = Shr(v, L)
  <2>1. p = [j \in 1 .. L |-> IF j < L THEN Cont + (Shr(v, j) % Cont) ELSE Shr(v, j)]
    BY DEF PutUvarint
  <2> HIDE DEF p, L
  <2> QED BY <1>2, <2>1
<1> HIDE DEF p, L
<1>5. ASSUME NEW j \in 1 .. L - 1
      PROVE  p[j] \in Byte /\ p[j] % Cont = Shr(v, j) % Cont /\ p[j] >= Cont
  <2>1. j \in Nat \ {0}
    BY <1>2
  <2>2. Shr(v, j) \in Nat
    BY <1>1, <2>1, ShrNat
  <2>3. Shr(v, j) % Cont \in 0 .. Cont - 1
    BY <2>2, VarintAssumption
  <2>4. \A d \in 0 .. Cont - 1 : Cont + d \in Byte /\ (Cont + d) % Cont = d /\ Cont + d >= Cont
    BY VarintAssumption DEF Byte
  <2> QED BY <1>4, <2>3, <2>4
<1>6. p[L] \in Byte /\ p[L] < Cont
  BY <1>3, <1>4, VarintAssumption DEF Byte
<1>7. \A j \in 1 .. L : j \in 1 .. L - 1 \/ j = L
  BY <1>2
<1>8. \A j \in 1 .. L : p[j] \in Byte /\ p[j] % Cont = Shr(v, j) % Cont
  BY <1>4, <1>5, <1>6, <1>7
<1> QED BY <1>4, <1>5, <1>6, <1>8 DEF Spells, L, p

(***************************************************************************)
(* The reader                                                              *)
(***************************************************************************)
(* The places where a window may stop before its last byte.                *)
Stops(s) == {k \in 1 .. MaxVarintLen - 1 : s[k] < Cont /\ \A j \in 1 .. k - 1 : s[j] >= Cont}

LEMMA FastStops ==
  ASSUME NEW s
  PROVE  /\ \A k : Stops(s) = {k} => UvarintFast(s) = [ok |-> TRUE, v |-> GroupSum(s, k), n |-> k]
         /\ Stops(s) = {} /\ s[MaxVarintLen] > 1 => UvarintFast(s) = Nothing
         /\ Stops(s) = {} /\ ~(s[MaxVarintLen] > 1) =>
              UvarintFast(s) = [ok |-> TRUE, n |-> MaxVarintLen,
                v |-> GroupSum(s, MaxVarintLen - 1) + s[MaxVarintLen] * TopWeight]
<1> DEFINE stop == CHOOSE k \in Stops(s) : TRUE
<1>1. UvarintFast(s) =
        CASE Stops(s) # {} -> [ok |-> TRUE, v |-> GroupSum(s, stop), n |-> stop]
          [] Stops(s) = {} /\ s[MaxVarintLen] > 1 -> [ok |-> FALSE, v |-> 0, n |-> 0]
          [] OTHER -> [ok |-> TRUE,
                       v  |-> GroupSum(s, MaxVarintLen - 1) + s[MaxVarintLen] * TopWeight,
                       n  |-> MaxVarintLen]
  BY Zenon DEF UvarintFast, Stops
<1>2. ASSUME NEW k, Stops(s) = {k}
      PROVE  UvarintFast(s) = [ok |-> TRUE, v |-> GroupSum(s, k), n |-> k]
  <2>1. stop = k
    BY <1>2
  <2> HIDE DEF stop
  <2> QED BY <1>1, <1>2, <2>1
<1>3. Stops(s) = {} /\ s[MaxVarintLen] > 1 => UvarintFast(s) = Nothing
  BY <1>1 DEF Nothing
<1>4. Stops(s) = {} /\ ~(s[MaxVarintLen] > 1) =>
        UvarintFast(s) = [ok |-> TRUE, n |-> MaxVarintLen,
          v |-> GroupSum(s, MaxVarintLen - 1) + s[MaxVarintLen] * TopWeight]
  BY <1>1
<1> QED BY <1>2, <1>3, <1>4

(* A window stops at one place.                                            *)
LEMMA OneStop ==
  ASSUME NEW s, \A j \in 1 .. MaxVarintLen : s[j] \in Byte, NEW k \in Stops(s)
  PROVE  Stops(s) = {k}
<1> SUFFICES ASSUME NEW m \in Stops(s), m # k PROVE FALSE
  OBVIOUS
<1>1. /\ k \in 1 .. MaxVarintLen - 1 /\ m \in 1 .. MaxVarintLen - 1
      /\ s[k] < Cont /\ s[m] < Cont
      /\ \A j \in 1 .. k - 1 : s[j] >= Cont
      /\ \A j \in 1 .. m - 1 : s[j] >= Cont
  BY DEF Stops
<1>2. s[k] \in Int /\ s[m] \in Int
  BY <1>1, VarintAssumption DEF Byte
<1>3. m \in 1 .. k - 1 \/ k \in 1 .. m - 1
  BY <1>1, VarintAssumption
<1> QED BY <1>1, <1>2, <1>3, VarintAssumption

(* A window that stops nowhere has its flag on every byte but the last.     *)
LEMMA NoStop ==
  ASSUME NEW s, \A j \in 1 .. MaxVarintLen : s[j] \in Byte, Stops(s) = {}
  PROVE  \A j \in 1 .. MaxVarintLen - 1 : s[j] >= Cont
<1> DEFINE Bare == {j \in 1 .. MaxVarintLen - 1 : ~(s[j] >= Cont)}
<1>1. SUFFICES ASSUME Bare # {} PROVE FALSE
  OBVIOUS
<1>2. PICK k \in Bare : \A j \in Bare : k <= j
  <2>1. Bare \subseteq Nat
    BY VarintAssumption
  <2> HIDE DEF Bare
  <2> QED BY <1>1, <2>1, LeastNatural
<1>3. s[k] < Cont
  <2>1. k \in 1 .. MaxVarintLen
    BY VarintAssumption
  <2>2. s[k] \in Int
    BY <2>1, VarintAssumption DEF Byte
  <2> QED BY <2>2, VarintAssumption
<1>4. \A j \in 1 .. k - 1 : s[j] >= Cont
  <2> SUFFICES ASSUME NEW j \in 1 .. k - 1, ~(s[j] >= Cont) PROVE FALSE
    OBVIOUS
  <2>1. j \in Bare /\ ~(k <= j)
    BY VarintAssumption
  <2> QED BY <1>2, <2>1
<1>5. k \in Stops(s)
  BY <1>3, <1>4 DEF Stops
<1> QED BY <1>5

(* What is written is read back, whatever comes behind it.                 *)
LEMMA SpelledIsRead ==
  ASSUME NEW v \in Word, NEW s, \A j \in 1 .. MaxVarintLen : s[j] \in Byte, Spells(s, v)
  PROVE  UvarintFast(s) = [ok |-> TRUE, v |-> v, n |-> VarintLen(v)]
<1> DEFINE L == VarintLen(v)
<1>1. v \in Nat
  BY VarintAssumption DEF Word
<1>2. L \in 1 .. MaxVarintLen /\ L \in Nat \ {0}
  BY <1>1, VarintLenEnough, VarintAssumption DEF Enough
<1>3. /\ \A j \in 1 .. L : s[j] % Cont = Shr(v, j) % Cont
      /\ \A j \in 1 .. L - 1 : s[j] >= Cont
      /\ s[L] = Shr(v, L) /\ s[L] < Cont
  BY DEF Spells
<1>4. CASE L # MaxVarintLen
  <2>1. L \in Stops(s)
    BY <1>2, <1>3, <1>4, VarintAssumption DEF Stops
  <2>2. Stops(s) = {L}
    BY <2>1, OneStop
  <2>3. UvarintFast(s) = [ok |-> TRUE, v |-> GroupSum(s, L), n |-> L]
    BY <2>1, <2>2, FastStops
  <2>4. v = Weight(L) * Shr(v, L + 1) + GroupSum(s, L)
    BY <1>1, <1>2, <1>3, GroupsOfWord
  <2>5. Shr(v, L + 1) = 0
    <3>1. v < Weight(L)
      BY <1>4, LastByte
    <3>2. Weight((L + 1) - 1) = Weight(L)
      BY <1>2
    <3>3. Weight(L) \in Nat \ {0}
      BY <1>2, WeightNat
    <3>4. v \div Weight(L) = 0
      BY <1>1, <3>1, <3>3
    <3> QED BY <3>2, <3>4 DEF Shr
  <2>6. GroupSum(s, L) = v
    <3>1. GroupSum(s, L) \in Int
      <4>1. \A j \in 1 .. L : s[j] % Cont \in 0 .. Cont - 1
        BY <1>2, VarintAssumption DEF Byte
      <4>2. GroupSum(s, L) \in 0 .. Weight(L) - 1
        BY <1>2, <4>1, GroupSumBound
      <4> QED BY <4>2
    <3>2. Weight(L) \in Nat
      BY <1>2, WeightNat
    <3>3. Weight(L) * 0 = 0
      BY <3>2
    <3> QED BY <2>4, <2>5, <3>1, <3>3
  <2> QED BY <2>3, <2>6
<1>5. CASE L = MaxVarintLen
  <2> DEFINE k == MaxVarintLen - 1
  <2>1. k \in Nat /\ k + 1 = L /\ \A j \in 1 .. k : j \in 1 .. L /\ j \in 1 .. L - 1
    BY <1>5, VarintAssumption
  <2>2. Stops(s) = {}
    <3> SUFFICES ASSUME NEW m \in Stops(s) PROVE FALSE
      OBVIOUS
    <3>1. m \in 1 .. k /\ s[m] < Cont
      BY DEF Stops
    <3>2. s[m] >= Cont /\ s[m] \in Int
      BY <1>3, <2>1, <3>1, VarintAssumption DEF Byte
    <3> QED BY <3>1, <3>2, VarintAssumption
  <2>3. s[MaxVarintLen] = Shr(v, L) /\ Shr(v, L) \in {0, 1}
    BY <1>3, <1>5, LastByte
  <2>4. ~(s[MaxVarintLen] > 1)
    BY <2>3
  <2>5. UvarintFast(s) = [ok |-> TRUE, n |-> MaxVarintLen,
                           v |-> GroupSum(s, k) + s[MaxVarintLen] * TopWeight]
    BY <2>2, <2>4, FastStops
  <2>6. v = Weight(k) * Shr(v, k + 1) + GroupSum(s, k)
    <3>1. \A j \in 1 .. k : s[j] % Cont = Shr(v, j) % Cont
      BY <1>3, <2>1
    <3> HIDE DEF k
    <3> QED BY <1>1, <2>1, <3>1, GroupsOfWord
  <2>7. GroupSum(s, k) \in Int
    <3>1. \A j \in 1 .. k : s[j] % Cont \in 0 .. Cont - 1
      BY <2>1, <1>2, VarintAssumption DEF Byte
    <3>2. GroupSum(s, k) \in 0 .. Weight(k) - 1
      BY <2>1, <3>1, GroupSumBound
    <3> QED BY <3>2
  <2>8. v = TopWeight * s[MaxVarintLen] + GroupSum(s, k)
    BY <2>1, <2>3, <2>6, TopWeightAssumption
  <2>9. v = GroupSum(s, k) + s[MaxVarintLen] * TopWeight
    <3> HIDE DEF k
    <3> QED BY <2>3, <2>7, <2>8, VarintAssumption
  <2> QED BY <1>5, <2>5, <2>9
<1> QED BY <1>4, <1>5

(* What is accepted is a word, and the writer would not spell it longer.    *)
LEMMA ReadIsWord ==
  ASSUME NEW s, \A j \in 1 .. MaxVarintLen : s[j] \in Byte
  PROVE  LET g == UvarintFast(s) IN
         IF g.ok THEN g.v \in Word /\ VarintLen(g.v) <= g.n
         ELSE /\ \A k \in 1 .. MaxVarintLen - 1 : s[k] >= Cont
              /\ s[MaxVarintLen] > 1
<1>1. \A j \in 1 .. MaxVarintLen : s[j] % Cont \in 0 .. Cont - 1
  BY VarintAssumption DEF Byte
<1>2. CASE Stops(s) # {}
  <2>1. PICK k \in Stops(s) : TRUE
    BY <1>2
  <2>2. Stops(s) = {k} /\ k \in 1 .. MaxVarintLen - 1
    BY OneStop DEF Stops
  <2>3. UvarintFast(s) = [ok |-> TRUE, v |-> GroupSum(s, k), n |-> k]
    BY <2>2, FastStops
  <2>4. k \in 1 .. MaxVarintLen /\ k \in Nat /\ k <= MaxVarintLen - 1 /\ MaxVarintLen - 1 \in Nat
    BY <2>2, VarintAssumption
  <2>5. \A j \in 1 .. k : s[j] % Cont \in 0 .. Cont - 1
    BY <1>1, <2>4, VarintAssumption
  <2>6. GroupSum(s, k) \in 0 .. Weight(k) - 1
    BY <2>4, <2>5, GroupSumBound
  <2>7. Weight(k) <= TopWeight /\ Weight(k) \in Nat
    <3>1. k \in 0 .. MaxVarintLen - 1
      BY <2>4
    <3> QED BY <2>4, <3>1, WeightGrows, WeightNat, TopWeightAssumption
  <2>8. GroupSum(s, k) \in Word /\ GroupSum(s, k) \in Nat /\ GroupSum(s, k) < Weight(k)
    BY <2>6, <2>7, VarintAssumption DEF Word
  <2>9. VarintLen(GroupSum(s, k)) <= k
    BY <2>4, <2>8, VarintLenLeast
  <2> QED BY <2>3, <2>8, <2>9
<1>3. CASE Stops(s) = {} /\ s[MaxVarintLen] > 1
  BY <1>3, FastStops, NoStop DEF Nothing
<1>4. CASE Stops(s) = {} /\ ~(s[MaxVarintLen] > 1)
  <2> DEFINE g == GroupSum(s, MaxVarintLen - 1)
             l == s[MaxVarintLen]
  <2>1. UvarintFast(s) = [ok |-> TRUE, n |-> MaxVarintLen, v |-> g + l * TopWeight]
    BY <1>4, FastStops
  <2>2. MaxVarintLen \in 1 .. MaxVarintLen /\ MaxVarintLen - 1 \in Nat
    BY VarintAssumption
  <2>3. l \in {0, 1}
    BY <1>4, <2>2, VarintAssumption DEF Byte
  <2>4. g \in 0 .. TopWeight - 1
    <3>1. \A j \in 1 .. MaxVarintLen - 1 : s[j] % Cont \in 0 .. Cont - 1
      BY <1>1, VarintAssumption
    <3> QED BY <2>2, <3>1, GroupSumBound, TopWeightAssumption
  <2>5. g + l * TopWeight \in Word
    <3> HIDE DEF g, l
    <3> QED BY <2>3, <2>4, VarintAssumption DEF Word
  <2>6. g + l * TopWeight \in Nat
    BY <2>5, VarintAssumption DEF Word
  <2>7. VarintLen(g + l * TopWeight) <= MaxVarintLen
    <3> HIDE DEF g, l
    <3> QED BY <2>2, <2>6, VarintLenLeast
  <2> HIDE DEF g, l
  <2> QED BY <2>1, <2>5, <2>7
<1> QED BY <1>2, <1>3, <1>4

(***************************************************************************)
(* The specification                                                       *)
(***************************************************************************)
(* What every state of the round trip knows of its word and its bytes.      *)
CodingInv ==
  /\ at \in {"word", "bytes", "value"} /\ word \in Word
  /\ at # "word" => \A j \in 1 .. MaxVarintLen : bytes[j] \in Byte
  /\ at # "word" /\ sent => Spells(bytes, word)
  /\ at = "value" => got = UvarintFast(bytes)

(* A varint in front of other bytes: a full window, and it starts with it.  *)
LEMMA SentInFront ==
  ASSUME NEW v \in Word, NEW t \in Trails
  PROVE  /\ \A j \in 1 .. MaxVarintLen : (PutUvarint(v) \o t)[j] \in Byte
         /\ Spells(PutUvarint(v) \o t, v)
<1> DEFINE L == VarintLen(v)
           p == PutUvarint(v)
           s == p \o t
<1>1. L \in 1 .. MaxVarintLen /\ L \in Nat \ {0}
  <2>1. v \in Nat
    BY VarintAssumption DEF Word
  <2> QED BY <2>1, VarintLenEnough, VarintAssumption DEF Enough
<1>2. Spells(p, v)
  BY PutSpells
<1>3. Listed(p) /\ Len(p) = L
  <2>1. p = [j \in 1 .. L |-> p[j]]
    BY DEF PutUvarint
  <2>2. L \in Nat
    BY <1>1
  <2> HIDE DEF p, L
  <2> QED BY <2>1, <2>2, TabulatedIsListed
<1>4. Listed(t) /\ Len(t) = MaxVarintLen /\ \A j \in 1 .. MaxVarintLen : t[j] \in Byte
  <2>1. t = [j \in 1 .. MaxVarintLen |-> t[j]] /\ MaxVarintLen \in Nat
    BY VarintAssumption DEF Trails
  <2>2. \A j \in 1 .. MaxVarintLen : t[j] \in {0, Cont, 2 * Cont - 1}
    BY DEF Trails
  <2>3. {0, Cont, 2 * Cont - 1} \subseteq Byte
    BY VarintAssumption DEF Byte
  <2>4. Listed(t) /\ Len(t) = MaxVarintLen
    BY <2>1, TabulatedIsListed
  <2> QED BY <2>2, <2>3, <2>4
<1>5. /\ \A j \in 1 .. L : s[j] = p[j]
      /\ \A j \in 1 .. MaxVarintLen : s[L + j] = t[j]
  <2> HIDE DEF p, L
  <2> QED BY <1>3, <1>4, ConcatListed
<1> HIDE DEF s, p, L
<1>6. Spells(s, v)
  <2>1. /\ \A j \in 1 .. L : j \in 1 .. L /\ s[j] = p[j]
        /\ \A j \in 1 .. L - 1 : j \in 1 .. L /\ s[j] = p[j]
        /\ s[L] = p[L]
    BY <1>1, <1>5
  <2> QED BY <1>2, <2>1 DEF Spells, L
<1>7. ASSUME NEW j \in 1 .. MaxVarintLen PROVE s[j] \in Byte
  <2>1. CASE j <= L
    <3>1. j \in 1 .. L
      BY <1>1, <2>1
    <3> QED BY <1>6, <3>1 DEF Spells, L
  <2>2. CASE ~(j <= L)
    <3>1. j - L \in 1 .. MaxVarintLen /\ L + (j - L) = j
      BY <1>1, <2>2, VarintAssumption
    <3> QED BY <1>4, <1>5, <3>1
  <2> QED BY <2>1, <2>2
<1> QED BY <1>6, <1>7 DEF s, p

LEMMA CodingInit == Init => CodingInv
BY DEF Init, CodingInv

LEMMA CodingNext == CodingInv /\ [Next]_vars => CodingInv'
<1> SUFFICES ASSUME CodingInv, [Next]_vars PROVE CodingInv'
  OBVIOUS
<1>1. CASE Encode
  <2>1. PICK t \in Trails : bytes' = PutUvarint(word) \o t
    BY <1>1 DEF Encode
  <2>2. word \in Word
    BY DEF CodingInv
  <2>3. /\ \A j \in 1 .. MaxVarintLen : bytes'[j] \in Byte
        /\ Spells(bytes', word)
    BY <2>1, <2>2, SentInFront
  <2>4. at' = "bytes" /\ word' = word
    BY <1>1 DEF Encode
  <2> QED BY <2>2, <2>3, <2>4 DEF CodingInv, Spells
<1>2. CASE Receive
  <2>1. \A j \in 1 .. MaxVarintLen : bytes'[j] \in Byte
    BY <1>2 DEF Receive, Windows
  <2> QED BY <1>2, <2>1 DEF Receive, CodingInv
<1>3. CASE Decode
  <2>1. \A j \in 1 .. MaxVarintLen : bytes[j] \in Byte
    BY <1>3 DEF Decode, CodingInv
  <2> QED BY <1>3, <2>1 DEF Decode, CodingInv, Spells
<1>4. CASE Again
  <2>1. at' = "word" /\ word' = IF got.ok THEN got.v ELSE 0
    BY <1>4 DEF Again
  <2>2. got.ok => got.v \in Word
    <3>1. /\ \A j \in 1 .. MaxVarintLen : bytes[j] \in Byte
          /\ got = UvarintFast(bytes)
      BY <1>4 DEF Again, CodingInv
    <3> QED BY <3>1, ReadIsWord
  <2>3. 0 \in Word
    BY VarintAssumption DEF Word
  <2> QED BY <2>1, <2>2, <2>3 DEF CodingInv
<1>5. CASE UNCHANGED vars
  BY <1>5 DEF vars, CodingInv, Spells
<1> QED BY <1>1, <1>2, <1>3, <1>4, <1>5 DEF Next

LEMMA CodingAlways == Spec => []CodingInv
BY CodingInit, CodingNext, PTL DEF Spec

(* For every group size and every number of bytes to a varint: a word that  *)
(* putUvarint wrote is what uvarintFast reads, in as many bytes, whatever   *)
(* bytes follow it.                                                        *)
THEOREM WordsAlwaysSurvive == Spec => []WordsSurvive
<1>1. CodingInv => WordsSurvive
  BY SpelledIsRead DEF CodingInv, WordsSurvive
<1> QED BY <1>1, CodingAlways, PTL

(* Every window uvarintFast accepts denotes a word of the code's width that *)
(* putUvarint spells in no more bytes, and it refuses a window only when    *)
(* the window spells more bits than a word has.                            *)
THEOREM AlwaysTolerantAndMinimal == Spec => []TolerantAndMinimal
<1>1. CodingInv => TolerantAndMinimal
  BY ReadIsWord DEF CodingInv, TolerantAndMinimal
<1> QED BY <1>1, CodingAlways, PTL

(* zigzag is a bijection between the signed and the unsigned words, and     *)
(* sends the small magnitudes to the words of one byte.                     *)
THEOREM ZigzagAlwaysInverse == Spec => []ZigzagInverse
<1>1. ASSUME NEW w \in Word
      PROVE  /\ ZigzagDecode(w) \in Signed
             /\ ZigzagEncode(ZigzagDecode(w)) = w
             /\ w < Cont => ZigzagDecode(w) \in -(Cont \div 2) .. Cont \div 2 - 1
  <2> DEFINE h == w \div 2
  <2>1. h \in Nat /\ w = 2 * h + (w % 2) /\ w % 2 \in {0, 1} /\ h < TopWeight
    BY VarintAssumption DEF Word
  <2>2. Cont \div 2 \in Nat /\ Cont = 2 * (Cont \div 2)
    BY VarintAssumption
  <2>3. ZigzagDecode(w) = IF w % 2 = 0 THEN h ELSE -h - 1
    BY DEF ZigzagDecode
  <2> HIDE DEF h
  <2>4. ZigzagDecode(w) \in Signed
    BY <2>1, <2>3, VarintAssumption DEF Signed
  <2>5. ZigzagEncode(ZigzagDecode(w)) = w
    BY <2>1, <2>3 DEF ZigzagEncode
  <2>6. w < Cont => ZigzagDecode(w) \in -(Cont \div 2) .. Cont \div 2 - 1
    BY <2>1, <2>2, <2>3
  <2> QED BY <2>4, <2>5, <2>6
<1>2. CodingInv => ZigzagInverse
  BY <1>1 DEF CodingInv, ZigzagInverse
<1> QED BY <1>2, CodingAlways, PTL
=============================================================================
