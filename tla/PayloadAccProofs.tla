-------------------------- MODULE PayloadAccProofs --------------------------
(***************************************************************************)
(* For every caller of PayloadAcc, every chunk size and every growth of    *)
(* append: the buffer is well formed, and what was handed out is never     *)
(* written again.  HandedUntouched and TypeOK are inductive together: that *)
(* the window given away has its bytes needs the capacity, and that append *)
(* spares it needs the accumulator's buffer to be another one.             *)
(***************************************************************************)
EXTENDS PayloadAcc, SeqLemmas

(* A function on 1 .. n is a sequence of length n. *)
LEMMA FunctionIsSeq ==
  ASSUME NEW S, NEW n \in Nat, NEW f \in [1 .. n -> S]
  PROVE  f \in Seq(S) /\ Len(f) = n
OBVIOUS

(* A growth factor of at least one grows. *)
LEMMA Grows ==
  ASSUME NEW g \in Nat, g >= 1, NEW n \in Nat
  PROVE  g * n \in Nat /\ g * n >= n
<1>1. PICK k \in Nat : g = k + 1
  BY g - 1 \in Nat
<1>2. (k + 1) * n = k * n + n /\ k * n \in Nat
  OBVIOUS
<1> QED
  BY <1>1, <1>2

(* Copying a chunk into a buffer keeps its size and its type. *)
LEMMA WrittenKeepsSize ==
  ASSUME NEW s \in Seq(Nat), NEW at \in Nat, NEW c \in Seq(Nat)
  PROVE  Written(s, at, c) \in Seq(Nat) /\ Len(Written(s, at, c)) = Len(s)
<1> DEFINE w == Written(s, at, c)
<1>1. w = [i \in 1 .. Len(s) |-> IF i - at \in 1 .. Len(c) THEN c[i - at] ELSE s[i]]
  BY DEF Written
<1>2. \A i \in 1 .. Len(s) : w[i] \in Nat
  <2> SUFFICES ASSUME NEW i \in 1 .. Len(s) PROVE w[i] \in Nat
    OBVIOUS
  <2>1. CASE i - at \in 1 .. Len(c)
    BY <1>1, <2>1
  <2>2. CASE i - at \notin 1 .. Len(c)
    BY <1>1, <2>2
  <2> QED
    BY <2>1, <2>2
<1>3. w \in [1 .. Len(s) -> Nat] /\ Len(s) \in Nat
  BY <1>1, <1>2
<1> HIDE DEF w
<1>4. w \in Seq(Nat) /\ Len(w) = Len(s)
  BY <1>3, FunctionIsSeq
<1> QED
  BY <1>4 DEF w

(* What append does to memory: the buffer it returns holds the old bytes    *)
(* and the chunk, it is the one it was given or a new one, and no other     *)
(* buffer changes.                                                         *)
LEMMA AppendedSparesOthers ==
  ASSUME PayloadAssumption,
         NEW m \in Seq(Seq(Nat)), NEW b \in 0 .. Len(m), NEW at \in 0 .. Cap(m, b),
         NEW c \in Seq(Nat), NEW a \in Appended(m, b, at, c)
  PROVE  /\ a.mem \in Seq(Seq(Nat)) /\ Len(a.mem) >= Len(m)
         /\ a.buf \in 0 .. Len(a.mem) /\ at + Len(c) <= Cap(a.mem, a.buf)
         /\ a.buf = b \/ a.buf > Len(m)
         /\ \A i \in 1 .. Len(m) : i # b => a.mem[i] = m[i]
<1> DEFINE n == at + Len(c)
<1>0. at \in Nat /\ n \in Nat /\ Cap(m, b) \in Nat /\ Len(m) \in Nat
  BY DEF Cap
<1>1. CASE n <= Cap(m, b) /\ b = 0
  <2>1. a = [mem |-> m, buf |-> 0]
    BY <1>1 DEF Appended
  <2> QED
    BY <1>0, <1>1, <2>1
<1>2. CASE n <= Cap(m, b) /\ b # 0
  <2> DEFINE w == Written(m[b], at, c)
  <2>1. m[b] \in Seq(Nat) /\ b \in 1 .. Len(m)
    BY <1>2
  <2>2. w \in Seq(Nat) /\ Len(w) = Len(m[b])
    BY <1>0, <2>1, WrittenKeepsSize
  <2>3. a = [mem |-> [m EXCEPT ![b] = w], buf |-> b]
    BY <1>2 DEF Appended
  <2>4. a.mem \in Seq(Seq(Nat)) /\ Len(a.mem) = Len(m) /\ a.buf = b /\ a.mem[b] = w
    BY <2>1, <2>2, <2>3
  <2>5. \A i \in 1 .. Len(m) : i # b => a.mem[i] = m[i]
    BY <2>1, <2>3
  <2>6. n <= Cap(a.mem, a.buf)
    BY <1>2, <2>2, <2>4 DEF Cap
  <2> HIDE DEF w
  <2>7. Len(a.mem) >= Len(m) /\ a.buf \in 0 .. Len(a.mem)
    BY <1>0, <2>1, <2>4
  <2> QED
    BY <2>4, <2>5, <2>6, <2>7
<1>3. CASE n > Cap(m, b)
  <2>1. PICK cap \in {n, Growth * n} :
          a = [mem |-> Grown(m, b, at, c, cap), buf |-> Len(m) + 1]
    BY <1>0, <1>3 DEF Appended
  <2>2. cap \in Nat /\ cap >= n
    <3>1. Growth \in Nat /\ Growth >= 1
      BY DEF PayloadAssumption
    <3>2. Growth * n \in Nat /\ Growth * n >= n
      BY <1>0, <3>1, Grows
    <3> QED
      BY <1>0, <2>1, <3>2
  <2> DEFINE old == [i \in 1 .. cap |-> IF i <= at THEN m[b][i] ELSE 0]
             w == Written(old, at, c)
  <2>3. old \in Seq(Nat) /\ Len(old) = cap
    <3>1. \A i \in 1 .. cap : old[i] \in Nat
      <4> SUFFICES ASSUME NEW i \in 1 .. cap PROVE old[i] \in Nat
        OBVIOUS
      <4>1. CASE i <= at
        <5>1. b # 0 /\ m[b] \in Seq(Nat) /\ i \in 1 .. Len(m[b])
          BY <1>0, <2>2, <4>1 DEF Cap
        <5> QED
          BY <4>1, <5>1
      <4>2. CASE ~(i <= at)
        BY <4>2
      <4> QED
        BY <4>1, <4>2
    <3>2. old \in [1 .. cap -> Nat]
      BY <3>1
    <3> QED
      BY <2>2, <3>2
  <2> HIDE DEF old
  <2>4. w \in Seq(Nat) /\ Len(w) = cap
    BY <1>0, <2>3, WrittenKeepsSize
  <2>5. a.mem = Append(m, w) /\ a.buf = Len(m) + 1
    BY <2>1 DEF Grown, old
  <2> HIDE DEF w
  <2>6. a.mem \in Seq(Seq(Nat)) /\ Len(a.mem) = Len(m) + 1 /\ a.mem[Len(m) + 1] = w
    BY <2>4, <2>5
  <2>7. \A i \in 1 .. Len(m) : a.mem[i] = m[i]
    BY <2>4, <2>5
  <2>8. n <= Cap(a.mem, a.buf)
    BY <1>0, <2>2, <2>4, <2>5, <2>6 DEF Cap
  <2> QED
    BY <1>0, <2>5, <2>6, <2>7, <2>8
<1> QED
  BY <1>0, <1>1, <1>2, <1>3

-----------------------------------------------------------------------------
(* Memory m and buffer b are in order: nothing handed out lives in b. *)
Spared(m, b) ==
  /\ handed \subseteq [buf : 1 .. Len(m), payload : Seq(Nat)]
  /\ \A h \in handed : /\ h.buf # b
                       /\ SubSeq(m[h.buf], 1, Len(h.payload)) = h.payload

IInv == TypeOK /\ HandedUntouched

(* The end of Take keeps the invariant, whichever buffer it is given. *)
LEMMA FillKeepsInvariant ==
  ASSUME PayloadAssumption,
         NEW m \in Seq(Seq(Nat)), NEW b \in 0 .. Len(m), NEW at \in 0 .. Cap(m, b),
         NEW t \in Nat, NEW c \in Seq(Nat), at < t,
         Spared(m, b), Fill(m, b, at, t, c)
  PROVE  IInv'
<1>1. PICK a \in Appended(m, b, at, c) :
        /\ mem' = a.mem
        /\ IF at + Len(c) < t THEN Outstanding(a.buf, at + Len(c), t)
           ELSE HandOver(a.buf, SubSeq(a.mem[a.buf], 1, t))
  BY DEF Fill
<1> DEFINE n == at + Len(c)
<1>2. /\ a.mem \in Seq(Seq(Nat)) /\ Len(a.mem) >= Len(m)
      /\ a.buf \in 0 .. Len(a.mem) /\ n <= Cap(a.mem, a.buf)
      /\ a.buf = b \/ a.buf > Len(m)
      /\ \A i \in 1 .. Len(m) : i # b => a.mem[i] = m[i]
  BY AppendedSparesOthers
<1>3. at \in Nat /\ n \in Nat /\ Len(m) \in Nat /\ Len(a.mem) \in Nat
  BY <1>2 DEF Cap
<1>4. /\ handed \subseteq [buf : 1 .. Len(a.mem), payload : Seq(Nat)]
      /\ \A h \in handed : /\ h.buf # a.buf
                           /\ SubSeq(a.mem[h.buf], 1, Len(h.payload)) = h.payload
  <2>1. ASSUME NEW h \in handed
        PROVE  /\ h \in [buf : 1 .. Len(a.mem), payload : Seq(Nat)]
               /\ h.buf # a.buf
               /\ SubSeq(a.mem[h.buf], 1, Len(h.payload)) = h.payload
    <3>1. /\ h \in [buf : 1 .. Len(m), payload : Seq(Nat)] /\ h.buf # b
          /\ SubSeq(m[h.buf], 1, Len(h.payload)) = h.payload
      BY DEF Spared
    <3>2. h.buf \in 1 .. Len(m) /\ a.mem[h.buf] = m[h.buf]
      BY <1>2, <3>1
    <3>3. h.buf \in 1 .. Len(a.mem)
      BY <1>2, <1>3, <3>2, SMTT(30)
    <3>4. h.buf # a.buf
      <4>1. CASE a.buf = b
        BY <3>1, <4>1
      <4>2. CASE a.buf > Len(m)
        BY <1>3, <3>2, <4>2
      <4> QED
        BY <1>2, <4>1, <4>2
    <3> QED
      BY <3>1, <3>2, <3>3, <3>4
  <2> QED
    BY <2>1
<1>5. CASE n < t
  <2>1. /\ mem' = a.mem /\ buf' = a.buf /\ len' = n /\ total' = t
        /\ ret' = NotYet /\ handed' = handed
    BY <1>1, <1>5 DEF Outstanding
  <2>2. TypeOK'
    <3>1. n \in 0 .. Cap(a.mem, a.buf)
      BY <1>2, <1>3 DEF Cap
    <3>2. len' \in 0 .. Cap(mem', buf')
      BY <2>1, <3>1
    <3> QED
      BY <1>2, <1>4, <1>5, <2>1, <3>2 DEF TypeOK, NotYet
  <2>3. HandedUntouched'
    BY <1>4, <2>1 DEF HandedUntouched
  <2> QED
    BY <2>2, <2>3 DEF IInv
<1>6. CASE n >= t
  <2> DEFINE p == SubSeq(a.mem[a.buf], 1, t)
  <2>1. /\ mem' = a.mem /\ buf' = 0 /\ len' = 0 /\ total' = 0 /\ ret' = Whole(p)
        /\ handed' = handed \cup {[buf |-> a.buf, payload |-> p]}
    BY <1>1, <1>3, <1>6 DEF HandOver
  <2>2. a.buf \in 1 .. Len(a.mem) /\ a.mem[a.buf] \in Seq(Nat) /\ t <= Len(a.mem[a.buf])
    <3>0. Cap(a.mem, a.buf) \in Nat
      <4>1. CASE a.buf = 0
        BY <4>1 DEF Cap
      <4>2. CASE a.buf # 0
        <5>1. a.mem[a.buf] \in Seq(Nat)
          BY <1>2, <1>3, <4>2, SMTT(30)
        <5> QED
          BY <4>2, <5>1 DEF Cap
      <4> QED
        BY <4>1, <4>2
    <3>1. Cap(a.mem, a.buf) >= t /\ t > 0
      BY <1>2, <1>3, <1>6, <3>0
    <3>2. a.buf # 0
      BY <3>1 DEF Cap
    <3>3. a.buf \in 1 .. Len(a.mem)
      BY <1>2, <1>3, <3>2
    <3> QED
      BY <1>2, <3>1, <3>2, <3>3, SMTT(30) DEF Cap
  <2> DEFINE s == a.mem[a.buf]
  <2> HIDE DEF s
  <2>3. p \in Seq(Nat) /\ Len(p) = t
    <3>1. s \in Seq(Nat) /\ t <= Len(s)
      BY <2>2 DEF s
    <3>2. SubSeq(s, 1, t) \in Seq(Nat) /\ Len(SubSeq(s, 1, t)) = t
      BY <3>1
    <3> QED
      BY <3>2 DEF s
  <2> HIDE DEF p
  <2>4. handed' \subseteq [buf : 1 .. Len(a.mem), payload : Seq(Nat)]
    BY <1>4, <2>1, <2>2, <2>3
  <2>5. TypeOK'
    BY <1>2, <2>1, <2>3, <2>4 DEF TypeOK, Whole, Cap
  <2>6. HandedUntouched'
    <3> SUFFICES ASSUME NEW h \in handed'
                 PROVE  h.buf # 0 /\ SubSeq(a.mem[h.buf], 1, Len(h.payload)) = h.payload
      BY <2>1 DEF HandedUntouched
    <3>1. CASE h \in handed
      BY <1>4, <3>1
    <3>2. CASE h = [buf |-> a.buf, payload |-> p]
      BY <2>2, <2>3, <3>2 DEF p
    <3> QED
      BY <2>1, <3>1, <3>2
  <2> QED
    BY <2>5, <2>6 DEF IInv
<1> QED
  BY <1>3, <1>5, <1>6

LEMMA InvariantInit == Init => IInv
BY DEF Init, IInv, TypeOK, HandedUntouched, Cap, NotYet

LEMMA InvariantStep ==
  ASSUME PayloadAssumption, IInv, [Next]_vars
  PROVE  IInv'
<1> USE DEF IInv
<1>0. /\ mem \in Seq(Seq(Nat)) /\ buf \in 0 .. Len(mem) /\ Len(mem) \in Nat
      /\ Cap(mem, buf) \in Nat /\ len \in 0 .. Cap(mem, buf) /\ total \in Nat
      /\ len > 0 => len < total
  BY DEF TypeOK, Cap
<1>1. Spared(mem, buf)
  BY DEF TypeOK, HandedUntouched, Spared
<1>2. ASSUME Discard, UNCHANGED <<mem, handed>>,
             ret' \in [done : BOOLEAN, payload : Seq(Nat)]
      PROVE  IInv'
  <2>1. Cap(mem', buf') \in Nat
    BY <1>0, <1>2 DEF Discard
  <2>2. TypeOK'
    BY <1>0, <1>2, <2>1 DEF TypeOK, Discard
  <2>3. HandedUntouched'
    BY <1>2 DEF HandedUntouched, Discard
  <2> QED
    BY <2>2, <2>3
<1>3. NotYet \in [done : BOOLEAN, payload : Seq(Nat)]
  BY DEF NotYet
<1>4. ASSUME NEW p \in Pieces, Take(p)
      PROVE  IInv'
  <2> DEFINE t == p.total
             o == p.offset
             c == p.chunk
  <2>1. t \in Int /\ o \in Int /\ c \in Seq(Nat)
    BY DEF PayloadAssumption
  <2> HIDE DEF t, o, c
  <2>2. CASE TakeRefused(t, o, c)
    BY <1>2, <1>3, <2>2 DEF TakeRefused
  <2>3. CASE TakeAtOnce(t, o, c)
    <3>1. SubSeq(c, 1, t) \in Seq(Nat)
      BY <2>1, <2>3 DEF TakeAtOnce
    <3> QED
      BY <1>2, <2>3, <3>1 DEF TakeAtOnce, Whole
  <2>4. CASE TakeFirst(t, o, c)
    <3>1. t \in Nat /\ 0 < t
      BY <2>1, <2>4 DEF TakeFirst
    <3>2. CASE Cap(mem, buf) = 0
      <4> DEFINE new == Opening(t)
                 m == Append(mem, new)
      <4>1. Less(t, AccChunk) \in Nat
        BY <3>1 DEF Less, PayloadAssumption
      <4>2. new \in Seq(Nat)
        BY <4>1 DEF Opening
      <4> HIDE DEF new
      <4>3. m \in Seq(Seq(Nat)) /\ Len(m) = Len(mem) + 1
        BY <1>0, <4>2
      <4>4. \A i \in 1 .. Len(mem) : m[i] = mem[i]
        BY <1>0, <4>2
      <4>5. Fill(m, Len(mem) + 1, 0, t, c)
        BY <2>4, <3>2 DEF TakeFirst, new
      <4> HIDE DEF m
      <4>6. Spared(m, Len(mem) + 1)
        <5>1. ASSUME NEW h \in handed
              PROVE  /\ h \in [buf : 1 .. Len(m), payload : Seq(Nat)]
                     /\ h.buf # Len(mem) + 1
                     /\ SubSeq(m[h.buf], 1, Len(h.payload)) = h.payload
          <6>1. /\ h \in [buf : 1 .. Len(mem), payload : Seq(Nat)]
                /\ SubSeq(mem[h.buf], 1, Len(h.payload)) = h.payload
            BY <1>1 DEF Spared
          <6>2. h.buf \in 1 .. Len(mem) /\ m[h.buf] = mem[h.buf]
            BY <4>4, <6>1
          <6> QED
            BY <1>0, <4>3, <6>1, <6>2, SMTT(30)
        <5> QED
          BY <5>1 DEF Spared
      <4>7. Len(mem) + 1 \in 0 .. Len(m) /\ 0 \in 0 .. Cap(m, Len(mem) + 1)
        BY <1>0, <4>3 DEF Cap
      <4> QED
        BY <2>1, <3>1, <4>3, <4>5, <4>6, <4>7, FillKeepsInvariant
    <3>3. CASE Cap(mem, buf) # 0
      <4>1. Fill(mem, buf, 0, t, c)
        BY <2>4, <3>3 DEF TakeFirst
      <4> QED
        BY <1>0, <1>1, <2>1, <3>1, <4>1, FillKeepsInvariant
    <3> QED
      BY <3>2, <3>3
  <2>5. CASE TakeNext(t, o, c)
    <3>1. t \in Nat /\ len < t /\ Fill(mem, buf, len, t, c)
      BY <1>0, <2>1, <2>5 DEF TakeNext, Continues
    <3> QED
      BY <1>0, <1>1, <2>1, <3>1, FillKeepsInvariant
  <2> QED
    BY <1>4, <2>2, <2>3, <2>4, <2>5 DEF Take, t, o, c
<1>5. CASE Reset
  BY <1>2, <1>3, <1>5 DEF Reset
<1>6. CASE Renew
  BY <1>6 DEF Renew, TypeOK, HandedUntouched, Cap, NotYet
<1>7. CASE UNCHANGED vars
  BY <1>7 DEF vars, TypeOK, HandedUntouched, Cap
<1> QED
  BY <1>4, <1>5, <1>6, <1>7 DEF Next

(* The accumulator's buffer, length and announced total fit each other      *)
(* after any calls (PayloadAcc).                                           *)
THEOREM AccumulatorTypeCorrect == Spec => []TypeOK
<1>1. IInv /\ [Next]_vars => IInv'
  BY InvariantStep, PayloadAssumption
<1>2. IInv => TypeOK
  BY DEF IInv
<1> QED
  BY InvariantInit, <1>1, <1>2, PTL DEF Spec

(* A payload that was handed over keeps its bytes, whatever the accumulator *)
(* is given afterwards (Take, Reset).                                      *)
THEOREM HandedStaysUntouched == Spec => []HandedUntouched
<1>1. IInv /\ [Next]_vars => IInv'
  BY InvariantStep, PayloadAssumption
<1>2. IInv => HandedUntouched
  BY DEF IInv
<1> QED
  BY InvariantInit, <1>1, <1>2, PTL DEF Spec

-----------------------------------------------------------------------------
(***************************************************************************)
(* What arrived                                                            *)
(***************************************************************************)
(* The recursion of Arrived, as an equation for its function.              *)
Joins(f, s, k) == f = [j \in 0 .. k |-> IF j = 0 THEN <<>> ELSE f[j - 1] \o s[j].chunk]

(* The equation has a solution for every number of calls: the solution for  *)
(* one call less, and one entry more.                                      *)
LEMMA JoinsExists == ASSUME NEW s, NEW k \in Nat PROVE \E f : Joins(f, s, k)
<1> DEFINE Without == {m \in Nat : ~ \E f : Joins(f, s, m)}
<1>1. SUFFICES ASSUME Without # {} PROVE FALSE
  OBVIOUS
<1>2. PICK x \in Without : \A y \in Without : x <= y
  <2> HIDE DEF Without
  <2>1. Without \subseteq Nat
    BY DEF Without
  <2> QED BY <1>1, <2>1, LeastNatural
<1>3. x # 0
  <2>1. Joins([j \in 0 .. 0 |-> <<>>], s, 0)
    <3>1. \A j \in 0 .. 0 : j = 0
      OBVIOUS
    <3> QED BY <3>1 DEF Joins
  <2> QED BY <2>1
<1>4. x - 1 \in Nat /\ ~(x <= x - 1)
  BY <1>3
<1>5. PICK f : Joins(f, s, x - 1)
  BY <1>2, <1>4
<1> DEFINE g == [j \in 0 .. x |-> IF j = x THEN f[x - 1] \o s[x].chunk ELSE f[j]]
<1>6. ASSUME NEW j \in 0 .. x
      PROVE  g[j] = IF j = 0 THEN <<>> ELSE g[j - 1] \o s[j].chunk
  <2>1. CASE j = 0
    <3>1. 0 \in 0 .. x /\ 0 \in 0 .. x - 1
      BY <1>4
    <3> QED BY <1>3, <1>5, <2>1, <3>1 DEF Joins
  <2>2. CASE j = x
    <3>1. x - 1 \in 0 .. x /\ x - 1 # x
      BY <1>4
    <3>2. g[x - 1] = f[x - 1]
      BY <3>1
    <3> QED BY <1>3, <2>2, <3>2
  <2>3. CASE j # 0 /\ j # x
    <3>1. j \in 0 .. x - 1 /\ j - 1 \in 0 .. x /\ j - 1 # x
      BY <1>4, <2>3
    <3>2. g[j] = f[j] /\ g[j - 1] = f[j - 1]
      BY <2>3, <3>1
    <3>3. f[j] = f[j - 1] \o s[j].chunk
      BY <1>5, <2>3, <3>1 DEF Joins
    <3> QED BY <2>3, <3>2, <3>3
  <2> QED BY <2>1, <2>2, <2>3
<1>7. Joins(g, s, x)
  <2>1. g = [j \in 0 .. x |-> g[j]]
    OBVIOUS
  <2> HIDE DEF g
  <2> QED BY <1>6, <2>1 DEF Joins
<1> QED BY <1>7

LEMMA ArrivedJoins ==
  ASSUME NEW s, NEW k \in Nat
  PROVE  \E f : Joins(f, s, k) /\ Arrived(s, k) = f[k]
<1> DEFINE f == CHOOSE h : Joins(h, s, k)
<1>1. Joins(f, s, k)
  BY JoinsExists
<1>2. Arrived(s, k) = f[k]
  BY Zenon DEF Arrived, Joins
<1> HIDE DEF f
<1> QED BY <1>1, <1>2

(* The solution depends on nothing but the calls it joins.                 *)
LEMMA JoinsAgree ==
  ASSUME NEW s, NEW r, NEW k \in Nat, NEW m \in Nat, NEW f, NEW g,
         Joins(f, s, k), Joins(g, r, m),
         NEW n \in Nat, n <= k, n <= m, \A i \in 1 .. n : s[i] = r[i]
  PROVE  f[n] = g[n]
<1> DEFINE Differ == {j \in 0 .. n : f[j] # g[j]}
<1>1. SUFFICES ASSUME Differ # {} PROVE FALSE
  OBVIOUS
<1>2. PICK x \in Differ : \A y \in Differ : x <= y
  <2>1. Differ \subseteq Nat
    OBVIOUS
  <2> HIDE DEF Differ
  <2> QED BY <1>1, <2>1, LeastNatural
<1>3. x \in 0 .. k /\ x \in 0 .. m
  OBVIOUS
<1>4. CASE x = 0
  BY <1>3, <1>4 DEF Joins
<1>5. CASE x # 0
  <2>1. x - 1 \in 0 .. n /\ ~(x <= x - 1) /\ x \in 1 .. n
    BY <1>5
  <2>2. f[x - 1] = g[x - 1]
    BY <1>2, <2>1
  <2>3. f[x] = f[x - 1] \o s[x].chunk /\ g[x] = g[x - 1] \o r[x].chunk
    BY <1>3, <1>5 DEF Joins
  <2> QED BY <2>1, <2>2, <2>3
<1> QED BY <1>4, <1>5

(* Before the first call nothing arrived.                                  *)
LEMMA NoneArrived == ASSUME NEW s PROVE Arrived(s, 0) = <<>>
<1>1. PICK f : Joins(f, s, 0) /\ Arrived(s, 0) = f[0]
  BY ArrivedJoins
<1> QED BY <1>1 DEF Joins

(* Every call adds its chunk.                                              *)
LEMMA OneMoreArrived ==
  ASSUME NEW s, NEW k \in Nat
  PROVE  Arrived(s, k + 1) = Arrived(s, k) \o s[k + 1].chunk
<1>1. PICK f : Joins(f, s, k) /\ Arrived(s, k) = f[k]
  BY ArrivedJoins
<1>2. k + 1 \in Nat
  OBVIOUS
<1>3. PICK g : Joins(g, s, k + 1) /\ Arrived(s, k + 1) = g[k + 1]
  BY <1>2, ArrivedJoins
<1>4. g[k + 1] = g[k] \o s[k + 1].chunk
  <2>1. k + 1 \in 0 .. k + 1 /\ k + 1 # 0 /\ (k + 1) - 1 = k
    OBVIOUS
  <2> QED BY <1>3, <2>1 DEF Joins
<1>5. f[k] = g[k]
  <2>1. k <= k /\ k <= k + 1 /\ \A i \in 1 .. k : s[i] = s[i]
    OBVIOUS
  <2> QED BY ONLY <1>1, <1>2, <1>3, <2>1, k \in Nat, JoinsAgree
<1> QED BY <1>1, <1>3, <1>4, <1>5

(* Later calls do not change what arrived before.                          *)
LEMMA ArrivedBefore ==
  ASSUME NEW s, NEW r, NEW k \in Nat, \A i \in 1 .. k : s[i] = r[i]
  PROVE  Arrived(s, k) = Arrived(r, k)
<1>1. PICK f : Joins(f, s, k) /\ Arrived(s, k) = f[k]
  BY ArrivedJoins
<1>2. PICK g : Joins(g, r, k) /\ Arrived(r, k) = g[k]
  BY ArrivedJoins
<1>3. f[k] = g[k]
  <2>1. k <= k
    OBVIOUS
  <2> QED BY <1>1, <1>2, <2>1, JoinsAgree
<1> QED BY <1>1, <1>2, <1>3

(* What arrived is bytes.                                                  *)
LEMMA ArrivedBytes ==
  ASSUME NEW s, NEW n \in Nat, \A i \in 1 .. n : s[i].chunk \in Seq(Nat), NEW k \in 0 .. n
  PROVE  Arrived(s, k) \in Seq(Nat)
<1> DEFINE Wrong == {j \in 0 .. n : Arrived(s, j) \notin Seq(Nat)}
<1>1. SUFFICES ASSUME Wrong # {} PROVE FALSE
  OBVIOUS
<1>2. PICK x \in Wrong : \A y \in Wrong : x <= y
  <2>1. Wrong \subseteq Nat
    OBVIOUS
  <2> HIDE DEF Wrong
  <2> QED BY <1>1, <2>1, LeastNatural
<1>3. x # 0
  BY NoneArrived, EmptySeq
<1>4. x - 1 \in 0 .. n /\ x - 1 \in Nat /\ ~(x <= x - 1) /\ x \in 1 .. n /\ (x - 1) + 1 = x
  BY <1>3
<1>5. Arrived(s, x - 1) \in Seq(Nat)
  BY <1>2, <1>4
<1>6. Arrived(s, x) = Arrived(s, x - 1) \o s[x].chunk
  BY <1>4, OneMoreArrived
<1>7. Arrived(s, x) \in Seq(Nat)
  BY <1>4, <1>5, <1>6, ConcatProperties
<1> QED BY <1>7

(* The bytes of all calls since offset 0.                                  *)
Bytes(s) == Arrived(s, Len(s))
Piece == [total : Int, offset : Int, chunk : Seq(Nat)]

LEMMA BytesAreBytes == ASSUME NEW s \in Seq(Piece) PROVE Bytes(s) \in Seq(Nat)
<1>1. Len(s) \in Nat /\ Len(s) \in 0 .. Len(s) /\ \A i \in 1 .. Len(s) : s[i].chunk \in Seq(Nat)
  <2>1. \A i \in 1 .. Len(s) : s[i] \in Piece
    BY ElementOfSeq
  <2> QED BY <2>1, LenProperties DEF Piece
<1> QED BY <1>1, ArrivedBytes DEF Bytes

(* One call is a piece of a payload when it begins one.                    *)
LEMMA OneCall ==
  ASSUME NEW p \in Piece
  PROVE  /\ Bytes(<<p>>) = p.chunk
         /\ OnePayload(<<p>>) <=> p.total >= 0 /\ p.offset = 0
<1>1. Len(<<p>>) = 1 /\ <<p>>[1] = p /\ <<p>> # <<>>
  OBVIOUS
<1>2. Arrived(<<p>>, 0) = <<>> /\ Len(<<>>) = 0
  BY NoneArrived, EmptySeq
<1>3. Bytes(<<p>>) = p.chunk
  <2>0. 0 + 1 = 1 /\ Bytes(<<p>>) = Arrived(<<p>>, 1)
    BY <1>1 DEF Bytes
  <2>1. Arrived(<<p>>, 1) = Arrived(<<p>>, 0) \o <<p>>[1].chunk
    <3>1. Arrived(<<p>>, 0 + 1) = Arrived(<<p>>, 0) \o <<p>>[0 + 1].chunk
      BY OneMoreArrived
    <3> QED BY <2>0, <3>1
  <2>2. p.chunk \in Seq(Nat)
    BY DEF Piece
  <2>3. <<>> \o p.chunk = p.chunk
    BY <2>2, ConcatEmptySeq
  <2> QED BY <1>1, <1>2, <2>0, <2>1, <2>3
<1>4. \A k \in 1 .. 1 : k = 1 /\ k - 1 = 0 /\ ~(k > 1)
  OBVIOUS
<1>5. 1 \in 1 .. 1
  OBVIOUS
<1>6. OnePayload(<<p>>) <=> p.total >= 0 /\ p.offset = 0
  BY <1>1, <1>2, <1>4, <1>5 DEF OnePayload
<1> QED BY <1>3, <1>6

(* One more call continues a payload when it is of the same one and begins  *)
(* where it ended.                                                         *)
LEMMA OneMoreCall ==
  ASSUME NEW s \in Seq(Piece), s # <<>>, NEW p \in Piece
  PROVE  /\ Bytes(Append(s, p)) = Bytes(s) \o p.chunk
         /\ Append(s, p)[1] = s[1]
         /\ OnePayload(Append(s, p)) <=>
              /\ OnePayload(s) /\ p.total = s[1].total
              /\ p.offset = Len(Bytes(s)) /\ p.offset < s[1].total
<1> DEFINE r == Append(s, p)
           n == Len(s)
<1>1. /\ n \in Nat \ {0} /\ Len(r) = n + 1 /\ r[n + 1] = p /\ r # <<>>
      /\ \A i \in 1 .. n : r[i] = s[i]
  BY AppendProperties, EmptySeq, LenProperties
<1> HIDE DEF r, n
<1>2. \A k \in 0 .. n : Arrived(r, k) = Arrived(s, k)
  <2> SUFFICES ASSUME NEW k \in 0 .. n PROVE Arrived(r, k) = Arrived(s, k)
    OBVIOUS
  <2>1. k \in Nat /\ \A i \in 1 .. k : r[i] = s[i]
    BY <1>1
  <2> QED BY <2>1, ArrivedBefore
<1>3. Bytes(r) = Bytes(s) \o p.chunk
  <2>1. Arrived(r, n + 1) = Arrived(r, n) \o r[n + 1].chunk
    BY <1>1, OneMoreArrived
  <2>2. n \in 0 .. n
    BY <1>1
  <2> QED BY <1>1, <1>2, <2>1, <2>2 DEF Bytes, n
<1>4. r[1] = s[1]
  BY <1>1
<1>5. ASSUME OnePayload(s), p.total = s[1].total, p.offset = Len(Bytes(s)), p.offset < s[1].total
      PROVE  OnePayload(r)
  <2>1. ASSUME NEW k \in 1 .. n + 1
        PROVE  /\ r[k].total = r[1].total /\ r[k].offset = Len(Arrived(r, k - 1))
               /\ k > 1 => r[k].offset < r[1].total
    <3>1. CASE k = n + 1
      <4>1. k - 1 = n /\ n \in 0 .. n
        BY <1>1, <3>1
      <4> QED BY <1>1, <1>2, <1>4, <1>5, <3>1, <4>1 DEF Bytes, n
    <3>2. CASE k # n + 1
      <4>1. k \in 1 .. n /\ k - 1 \in 0 .. n
        BY <1>1, <3>2
      <4> QED BY <1>1, <1>2, <1>4, <1>5, <4>1 DEF OnePayload, n
    <3> QED BY <3>1, <3>2
  <2> QED BY <1>1, <1>4, <1>5, <2>1 DEF OnePayload
<1>6. ASSUME OnePayload(r)
      PROVE  /\ OnePayload(s) /\ p.total = s[1].total
             /\ p.offset = Len(Bytes(s)) /\ p.offset < s[1].total
  <2>1. /\ r[1].total >= 0
        /\ \A k \in 1 .. n + 1 : /\ r[k].total = r[1].total /\ r[k].offset = Len(Arrived(r, k - 1))
                                 /\ k > 1 => r[k].offset < r[1].total
    BY <1>1, <1>6 DEF OnePayload
  <2>2. n + 1 \in 1 .. n + 1 /\ (n + 1) - 1 = n /\ n \in 0 .. n /\ n + 1 > 1
    BY <1>1
  <2>3. p.total = s[1].total /\ p.offset = Len(Bytes(s)) /\ p.offset < s[1].total
    BY <1>1, <1>2, <1>4, <2>1, <2>2 DEF Bytes, n
  <2>4. ASSUME NEW k \in 1 .. n
        PROVE  /\ s[k].total = s[1].total /\ s[k].offset = Len(Arrived(s, k - 1))
               /\ k > 1 => s[k].offset < s[1].total
    <3>1. k \in 1 .. n + 1 /\ k - 1 \in 0 .. n
      BY <1>1
    <3> QED BY <1>1, <1>2, <1>4, <2>1, <3>1
  <2>5. OnePayload(s)
    BY <1>4, <2>1, <2>4 DEF OnePayload, n
  <2> QED BY <2>3, <2>5
<1> QED BY <1>3, <1>4, <1>5, <1>6 DEF r

(* Copying a chunk behind the first at bytes: those bytes and the chunk.    *)
LEMMA WrittenContents ==
  ASSUME NEW s \in Seq(Nat), NEW at \in Nat, NEW c \in Seq(Nat), at + Len(c) <= Len(s)
  PROVE  SubSeq(Written(s, at, c), 1, at + Len(c)) = SubSeq(s, 1, at) \o c
<1> DEFINE w == Written(s, at, c)
           n == at + Len(c)
           l == SubSeq(w, 1, n)
           r == SubSeq(s, 1, at) \o c
<1>1. Len(c) \in Nat /\ n \in Nat /\ Len(s) \in Nat /\ at \in 0 .. Len(s)
  BY LenProperties
<1>2. w \in Seq(Nat) /\ Len(w) = Len(s)
  BY WrittenKeepsSize
<1>3. \A i \in 1 .. n : w[i] = IF i - at \in 1 .. Len(c) THEN c[i - at] ELSE s[i]
  <2>1. \A i \in 1 .. n : i \in 1 .. Len(s)
    BY <1>1
  <2> QED BY <2>1 DEF Written
<1> HIDE DEF w
<1>4. Listed(l) /\ Len(l) = n /\ \A i \in 1 .. n : l[i] = w[i]
  <2>1. Listed(w) /\ n \in 0 .. Len(w)
    BY <1>1, <1>2, SeqIsListed
  <2> HIDE DEF n
  <2> QED BY <2>1, FirstListed
<1>5. /\ Listed(SubSeq(s, 1, at)) /\ Len(SubSeq(s, 1, at)) = at
      /\ \A i \in 1 .. at : SubSeq(s, 1, at)[i] = s[i]
  <2>1. Listed(s)
    BY SeqIsListed
  <2> QED BY <1>1, <2>1, FirstListed
<1>6. /\ Listed(r) /\ Len(r) = n /\ \A i \in 1 .. at : r[i] = s[i]
      /\ \A i \in 1 .. Len(c) : r[at + i] = c[i]
  <2>1. Listed(c)
    BY SeqIsListed
  <2>2. /\ Listed(r) /\ Len(r) = Len(SubSeq(s, 1, at)) + Len(c)
        /\ \A i \in 1 .. Len(SubSeq(s, 1, at)) : r[i] = SubSeq(s, 1, at)[i]
        /\ \A i \in 1 .. Len(c) : r[Len(SubSeq(s, 1, at)) + i] = c[i]
    BY <1>5, <2>1, ConcatListed
  <2> QED BY <1>5, <2>2
<1>7. ASSUME NEW i \in 1 .. n PROVE l[i] = r[i]
  <2>1. CASE i <= at
    <3>1. i \in 1 .. at /\ i - at \notin 1 .. Len(c)
      BY <1>1, <2>1
    <3> QED BY <1>3, <1>4, <1>6, <3>1
  <2>2. CASE ~(i <= at)
    <3>1. i - at \in 1 .. Len(c) /\ at + (i - at) = i
      BY <1>1, <2>2
    <3>2. r[at + (i - at)] = c[i - at]
      BY <1>6, <3>1
    <3>3. l[i] = c[i - at]
      BY <1>3, <1>4, <3>1
    <3> QED BY <3>1, <3>2, <3>3
  <2> QED BY <2>1, <2>2
<1> QED
  <2> HIDE DEF l, r, n
  <2>1. l = r
    BY <1>4, <1>6, <1>7, SameListed
  <2> QED BY <2>1 DEF l, r, n, w

(* What append returns: the old bytes and the chunk.                       *)
LEMMA AppendedContents ==
  ASSUME PayloadAssumption,
         NEW m \in Seq(Seq(Nat)), NEW b \in 0 .. Len(m), NEW at \in 0 .. Cap(m, b),
         NEW c \in Seq(Nat), NEW a \in Appended(m, b, at, c), a.buf # 0
  PROVE  SubSeq(a.mem[a.buf], 1, at + Len(c)) = SubSeq(m[b], 1, at) \o c
<1> DEFINE n == at + Len(c)
<1>0. at \in Nat /\ n \in Nat /\ Cap(m, b) \in Nat /\ Len(m) \in Nat /\ Len(c) \in Nat
  BY LenProperties DEF Cap
<1>1. CASE n <= Cap(m, b) /\ b = 0
  BY <1>1 DEF Appended
<1>2. CASE n <= Cap(m, b) /\ b # 0
  <2>1. m[b] \in Seq(Nat) /\ b \in 1 .. Len(m) /\ n <= Len(m[b])
    BY <1>2 DEF Cap
  <2>2. a.mem[a.buf] = Written(m[b], at, c)
    BY <1>2, <2>1 DEF Appended
  <2> DEFINE old == m[b]
  <2>3. old \in Seq(Nat) /\ at + Len(c) <= Len(old)
    BY <2>1
  <2> HIDE DEF old
  <2>4. SubSeq(Written(old, at, c), 1, at + Len(c)) = SubSeq(old, 1, at) \o c
    BY <1>0, <2>3, WrittenContents
  <2> QED BY <2>2, <2>4 DEF old
<1>3. CASE n > Cap(m, b)
  <2>1. PICK cap \in {n, Growth * n} :
          a = [mem |-> Grown(m, b, at, c, cap), buf |-> Len(m) + 1]
    BY <1>0, <1>3 DEF Appended
  <2>2. cap \in Nat /\ cap >= n
    <3>1. Growth \in Nat /\ Growth >= 1
      BY DEF PayloadAssumption
    <3>2. Growth * n \in Nat /\ Growth * n >= n
      BY <1>0, <3>1, Grows
    <3> QED BY <1>0, <2>1, <3>2
  <2> DEFINE old == [i \in 1 .. cap |-> IF i <= at THEN m[b][i] ELSE 0]
             w == Written(old, at, c)
  <2>3. \A i \in 1 .. at : b # 0 /\ m[b] \in Seq(Nat) /\ i \in 1 .. Len(m[b]) /\ m[b][i] \in Nat
    <3> SUFFICES ASSUME NEW i \in 1 .. at
                 PROVE  b # 0 /\ m[b] \in Seq(Nat) /\ i \in 1 .. Len(m[b]) /\ m[b][i] \in Nat
      OBVIOUS
    <3>1. b # 0
      BY <1>0 DEF Cap
    <3>2. b \in 1 .. Len(m)
      BY <3>1
    <3>3. m[b] \in Seq(Nat) /\ i \in 1 .. Len(m[b])
      BY <1>0, <3>1, <3>2 DEF Cap
    <3> QED BY <3>1, <3>3, ElementOfSeq
  <2>4. old \in Seq(Nat) /\ Len(old) = cap
    <3>1. \A i \in 1 .. cap : old[i] \in Nat
      BY <1>0, <2>3
    <3>2. old \in [1 .. cap -> Nat]
      BY <3>1
    <3> QED BY <2>2, <3>2, FunctionIsSeq
  <2>5. \A i \in 1 .. at : old[i] = m[b][i]
    BY <1>0, <2>2
  <2> HIDE DEF old
  <2>6. w \in Seq(Nat)
    BY <1>0, <2>4, WrittenKeepsSize
  <2>7. a.mem[a.buf] = w
    <3>1. a.mem = Append(m, w) /\ a.buf = Len(m) + 1
      BY <2>1 DEF Grown, old
    <3> QED BY <2>6, <3>1, AppendProperties
  <2>8. SubSeq(w, 1, n) = SubSeq(old, 1, at) \o c
    BY <1>0, <2>2, <2>4, WrittenContents
  <2>9. SubSeq(old, 1, at) = SubSeq(m[b], 1, at)
    <3>1. CASE at = 0
      <4>1. \A s : SubSeq(s, 1, 0) = <<>>
        BY SubSeqEmpty
      <4> QED BY <3>1, <4>1
    <3>2. CASE at # 0
      <4>1. 1 \in 1 .. at
        BY <1>0, <3>2
      <4>2. b # 0 /\ m[b] \in Seq(Nat) /\ at <= Len(m[b])
        BY <2>3, <4>1 DEF Cap
      <4>3. at <= Len(old)
        BY <1>0, <2>2, <2>4
      <4>4. \A i \in 1 .. at : old[i] \in Nat /\ m[b][i] \in Nat
        BY <2>3, <2>5
      <4>5. /\ Len(SubSeq(old, 1, at)) = at - 1 + 1 /\ SubSeq(old, 1, at) \in Seq(Nat)
            /\ \A i \in 1 .. at - 1 + 1 : SubSeq(old, 1, at)[i] = old[1 + i - 1]
        BY <1>0, <4>1, <4>4, SubSeqProperties
      <4>6. /\ Len(SubSeq(m[b], 1, at)) = at - 1 + 1 /\ SubSeq(m[b], 1, at) \in Seq(Nat)
            /\ \A i \in 1 .. at - 1 + 1 : SubSeq(m[b], 1, at)[i] = m[b][1 + i - 1]
        BY <1>0, <4>1, <4>4, SubSeqProperties
      <4>7. \A i \in 1 .. at - 1 + 1 : 1 + i - 1 \in 1 .. at
        BY <1>0
      <4>8. \A i \in 1 .. at - 1 + 1 : SubSeq(old, 1, at)[i] = SubSeq(m[b], 1, at)[i]
        BY <2>5, <4>5, <4>6, <4>7
      <4> QED BY <4>5, <4>6, <4>8, SeqEqual
    <3> QED BY <3>1, <3>2
  <2> QED BY <2>7, <2>8, <2>9
<1>4. n <= Cap(m, b) \/ n > Cap(m, b)
  BY <1>0
<1> QED BY <1>1, <1>2, <1>3, <1>4, Zenon

(* A beginning of a beginning.                                             *)
LEMMA BeginningOf ==
  ASSUME NEW s \in Seq(Nat), NEW n \in 0 .. Len(s), NEW t \in 0 .. n
  PROVE  SubSeq(s, 1, t) = SubSeq(SubSeq(s, 1, n), 1, t)
<1> DEFINE whole == SubSeq(s, 1, n)
<1>1. /\ Listed(s) /\ Len(s) \in Nat /\ n \in Nat /\ t \in 0 .. Len(s)
      /\ \A i \in 1 .. t : i \in 1 .. n
  BY SeqIsListed, LenProperties
<1>2. Listed(whole) /\ Len(whole) = n /\ \A i \in 1 .. n : whole[i] = s[i]
  BY <1>1, FirstListed
<1> HIDE DEF whole
<1>3. t \in 0 .. Len(whole)
  BY <1>2
<1>4. /\ Listed(SubSeq(whole, 1, t)) /\ Len(SubSeq(whole, 1, t)) = t
      /\ \A i \in 1 .. t : SubSeq(whole, 1, t)[i] = whole[i]
  BY <1>2, <1>3, FirstListed
<1>5. /\ Listed(SubSeq(s, 1, t)) /\ Len(SubSeq(s, 1, t)) = t
      /\ \A i \in 1 .. t : SubSeq(s, 1, t)[i] = s[i]
  BY <1>1, FirstListed
<1>6. \A i \in 1 .. t : SubSeq(s, 1, t)[i] = SubSeq(whole, 1, t)[i]
  BY <1>1, <1>2, <1>4, <1>5
<1>7. SubSeq(s, 1, t) = SubSeq(whole, 1, t)
  BY <1>4, <1>5, <1>6, SameListed
<1> QED BY <1>7 DEF whole

(* What Take is left with: all of it arrived, and there may be more to come. *)
Gathers(all, t) ==
  \/ /\ Len(all) < t /\ ret' = NotYet /\ len' = Len(all) /\ total' = t
     /\ len' > 0 => SubSeq(mem'[buf'], 1, len') = all
  \/ /\ Len(all) >= t /\ ret' = Whole(SubSeq(all, 1, t))
     /\ len' = 0 /\ total' = 0

(* The end of Take, by what is there: old and the chunk behind it.         *)
LEMMA FillGathers ==
  ASSUME PayloadAssumption,
         NEW m \in Seq(Seq(Nat)), NEW b \in 0 .. Len(m), NEW at \in 0 .. Cap(m, b),
         NEW t \in Nat, NEW c \in Seq(Nat), at < t, Fill(m, b, at, t, c),
         NEW old \in Seq(Nat), SubSeq(m[b], 1, at) = old, Len(old) = at
  PROVE  Gathers(old \o c, t)
<1>1. PICK a \in Appended(m, b, at, c) :
        /\ mem' = a.mem
        /\ IF at + Len(c) < t THEN Outstanding(a.buf, at + Len(c), t)
           ELSE HandOver(a.buf, SubSeq(a.mem[a.buf], 1, t))
  BY DEF Fill
<1> DEFINE n == at + Len(c)
<1>2. /\ a.mem \in Seq(Seq(Nat)) /\ a.buf \in 0 .. Len(a.mem) /\ n <= Cap(a.mem, a.buf)
  BY AppendedSparesOthers
<1>3. at \in Nat /\ n \in Nat /\ Len(c) \in Nat /\ Len(old \o c) = n /\ old \o c \in Seq(Nat)
  <2>1. at \in Nat /\ Len(c) \in Nat
    BY LenProperties
  <2>2. Len(old \o c) = Len(old) + Len(c) /\ old \o c \in Seq(Nat)
    BY ConcatProperties
  <2> QED BY <2>1, <2>2
<1>4. n > 0 => /\ a.buf # 0 /\ a.mem[a.buf] \in Seq(Nat) /\ n <= Len(a.mem[a.buf])
               /\ SubSeq(a.mem[a.buf], 1, n) = old \o c
  <2>1. n > 0 => a.buf # 0
    BY <1>2, <1>3 DEF Cap
  <2>2. a.buf # 0 => SubSeq(a.mem[a.buf], 1, n) = old \o c
    <3> SUFFICES ASSUME a.buf # 0 PROVE SubSeq(a.mem[a.buf], 1, n) = old \o c
      OBVIOUS
    <3>1. SubSeq(a.mem[a.buf], 1, at + Len(c)) = SubSeq(m[b], 1, at) \o c
      BY ONLY PayloadAssumption, m \in Seq(Seq(Nat)), b \in 0 .. Len(m), at \in 0 .. Cap(m, b),
              c \in Seq(Nat), a \in Appended(m, b, at, c), a.buf # 0, AppendedContents, Zenon
    <3> QED BY <3>1
  <2>3. a.buf # 0 => a.mem[a.buf] \in Seq(Nat) /\ n <= Len(a.mem[a.buf])
    <3> SUFFICES ASSUME a.buf # 0 PROVE a.mem[a.buf] \in Seq(Nat) /\ n <= Len(a.mem[a.buf])
      OBVIOUS
    <3>1. a.buf \in 1 .. Len(a.mem)
      BY <1>2, LenProperties
    <3> QED BY <1>2, <3>1, ElementOfSeq DEF Cap
  <2> QED BY <2>1, <2>2, <2>3
<1>5. CASE n < t
  BY <1>1, <1>3, <1>4, <1>5 DEF Outstanding, Gathers
<1>6. CASE ~(n < t)
  <2>1. n > 0 /\ n >= t
    BY <1>3, <1>6
  <2>2. SubSeq(a.mem[a.buf], 1, t) = SubSeq(old \o c, 1, t)
    <3>1. n \in 0 .. Len(a.mem[a.buf]) /\ t \in 0 .. n
      BY <1>3, <1>4, <2>1, LenProperties
    <3> HIDE DEF n
    <3>2. SubSeq(a.mem[a.buf], 1, t) = SubSeq(SubSeq(a.mem[a.buf], 1, n), 1, t)
      BY <1>4, <2>1, <3>1, BeginningOf
    <3> QED BY <1>4, <2>1, <3>2
  <2> QED BY <1>1, <1>3, <1>6, <2>1, <2>2 DEF HandOver, Gathers
<1> QED BY <1>5, <1>6

(* What is in the buffer is what arrived since the last call at offset 0,   *)
(* when that is a payload begun; and a payload begun is in the buffer,      *)
(* unless nothing of it arrived yet or all of it did.                      *)
HoldsPayload ==
  /\ len > 0 => /\ OnePayload(since) /\ since[1].total = total
                /\ SubSeq(mem[buf], 1, len) = Bytes(since)
  /\ len = 0 => ~(OnePayload(since) /\ Len(Bytes(since)) \in 1 .. since[1].total - 1)

GatherInv == since \in Seq(Piece) /\ HoldsPayload /\ AssemblesPayloads

(* A call that leaves nothing in the buffer and returns no payload is right *)
(* about a payload begun when there is none.                               *)
LEMMA NothingGathered ==
  ASSUME NEW s \in Seq(Piece), since' = s, ~OnePayload(s), len' = 0, ret' = NotYet
  PROVE  GatherInv'
<1>1. HoldsPayload'
  BY DEF HoldsPayload
<1>2. AssemblesPayloads'
  BY DEF AssemblesPayloads, NotYet
<1> QED BY <1>1, <1>2 DEF GatherInv

(* The end of Take, when old arrived before: the invariant holds for old    *)
(* and the chunk.                                                          *)
LEMMA FillKeepsGathered ==
  ASSUME PayloadAssumption,
         NEW m \in Seq(Seq(Nat)), NEW b \in 0 .. Len(m), NEW at \in 0 .. Cap(m, b),
         NEW t \in Nat, NEW c \in Seq(Nat), at < t, Fill(m, b, at, t, c),
         NEW old \in Seq(Nat), SubSeq(m[b], 1, at) = old, Len(old) = at,
         NEW s \in Seq(Piece), since' = s, OnePayload(s), s[1].total = t, Bytes(s) = old \o c
  PROVE  GatherInv'
<1>1. \/ /\ Len(Bytes(s)) < t /\ ret' = NotYet /\ len' = Len(Bytes(s)) /\ total' = t
         /\ len' > 0 => SubSeq(mem'[buf'], 1, len') = Bytes(s)
      \/ /\ Len(Bytes(s)) >= t /\ ret' = Whole(SubSeq(Bytes(s), 1, t))
         /\ len' = 0 /\ total' = 0
  <2>1. Gathers(old \o c, t)
    BY FillGathers
  <2> QED BY <2>1 DEF Gathers
<1>2. Len(Bytes(s)) \in Nat
  BY BytesAreBytes, LenProperties
<1>3. HoldsPayload'
  <2> DEFINE bytes == Bytes(s)
  <2>1. Len(bytes) \in 1 .. t - 1 => Len(bytes) > 0 /\ Len(bytes) < t
    BY <1>2
  <2>2. len' > 0 => total' = t /\ SubSeq(mem'[buf'], 1, len') = bytes
    <3>1. ~(0 > 0)
      OBVIOUS
    <3> QED BY <1>1, <3>1, Zenon
  <2>3. len' = 0 => ~(Len(bytes) > 0 /\ Len(bytes) < t)
    BY <1>1, <1>2
  <2>4. Bytes(s) = bytes
    OBVIOUS
  <2> HIDE DEF bytes
  <2> QED BY <2>1, <2>2, <2>3, <2>4 DEF HoldsPayload
<1>4. AssemblesPayloads'
  BY <1>1, <1>2 DEF AssemblesPayloads, Bytes, NotYet, Whole
<1> QED BY <1>3, <1>4 DEF GatherInv

(* A piece that continues the payload: what is in the buffer is what        *)
(* arrived, and the piece comes behind it.                                 *)
LEMMA NextArrives ==
  ASSUME PayloadAssumption, TypeOK, GatherInv, NEW p \in Piece,
         TakeNext(p.total, p.offset, p.chunk)
  PROVE  /\ buf # 0 /\ p.total \in Nat /\ len > 0 /\ len < p.total
         /\ Fill(mem, buf, len, p.total, p.chunk)
         /\ Bytes(since) \in Seq(Nat) /\ Len(Bytes(since)) = len
         /\ SubSeq(mem[buf], 1, len) = Bytes(since)
         /\ OnePayload(Append(since, p)) /\ Append(since, p)[1].total = p.total
         /\ Bytes(Append(since, p)) = Bytes(since) \o p.chunk
<1>1. p.total \in Int /\ p.offset \in Int /\ since \in Seq(Piece)
  BY DEF Piece, GatherInv
<1>2. /\ mem \in Seq(Seq(Nat)) /\ buf \in 0 .. Len(mem) /\ Len(mem) \in Nat
      /\ len \in 0 .. Cap(mem, buf) /\ Cap(mem, buf) \in Nat
      /\ len > 0 => len < total
  BY DEF TypeOK, Cap
<1>3. /\ p.total \in Nat /\ len > 0 /\ len < p.total /\ p.offset = len /\ p.total = total
      /\ Fill(mem, buf, len, p.total, p.chunk)
  BY <1>1, <1>2 DEF TakeNext, Continues
<1>4. OnePayload(since) /\ since[1].total = total /\ SubSeq(mem[buf], 1, len) = Bytes(since)
  BY <1>3 DEF GatherInv, HoldsPayload
<1>5. buf # 0 /\ mem[buf] \in Seq(Nat) /\ len \in 0 .. Len(mem[buf])
  <2>1. buf # 0
    BY <1>2, <1>3 DEF Cap
  <2> QED BY <1>2, <2>1 DEF Cap
<1>6. Bytes(since) \in Seq(Nat) /\ Len(Bytes(since)) = len
  <2>1. Len(SubSeq(mem[buf], 1, len)) = len
    BY <1>3, <1>5
  <2> QED BY <1>1, <1>4, <2>1, BytesAreBytes
<1>7. since # <<>>
  BY <1>4 DEF OnePayload
<1>8. p.total = since[1].total /\ p.offset = Len(Bytes(since)) /\ p.offset < since[1].total
  BY <1>3, <1>4, <1>6
<1>9. /\ OnePayload(Append(since, p)) /\ Append(since, p)[1].total = p.total
      /\ Bytes(Append(since, p)) = Bytes(since) \o p.chunk
  BY <1>1, <1>4, <1>7, <1>8, OneMoreCall
<1> QED BY <1>3, <1>4, <1>5, <1>6, <1>9

(* Take, by its outcomes.                                                  *)
LEMMA TakeKeepsGathered ==
  ASSUME PayloadAssumption, TypeOK, GatherInv, NEW p \in Pieces, Take(p)
  PROVE  GatherInv'
<1> DEFINE t == p.total
           o == p.offset
           c == p.chunk
           s == IF o = 0 THEN <<p>> ELSE Append(since, p)
<1>1. p \in Piece /\ t \in Int /\ o \in Int /\ c \in Seq(Nat)
  BY DEF PayloadAssumption, Piece
<1>2. since' = s /\ s \in Seq(Piece) /\ since \in Seq(Piece)
  <2>1. <<p>> \in Seq(Piece) /\ Append(since, p) \in Seq(Piece)
    BY <1>1 DEF GatherInv
  <2> QED BY <2>1 DEF Take, Noted, GatherInv
<1>3. /\ mem \in Seq(Seq(Nat)) /\ buf \in 0 .. Len(mem) /\ Len(mem) \in Nat
      /\ Cap(mem, buf) \in Nat /\ len \in 0 .. Cap(mem, buf) /\ total \in Nat
      /\ len > 0 => len < total
  BY DEF TypeOK, Cap
<1>4. CASE o = 0
  <2>1. s = <<p>> /\ Bytes(s) = c /\ s[1] = p /\ (OnePayload(s) <=> t >= 0)
    BY <1>1, <1>4, OneCall
  <2>2. CASE TakeRefused(t, o, c)
    <3>1. ~OnePayload(s) /\ len' = 0 /\ ret' = NotYet
      BY <1>1, <1>4, <2>1, <2>2 DEF TakeRefused, Discard
    <3> HIDE DEF s
    <3> QED BY <1>2, <3>1, NothingGathered
  <2>3. CASE TakeAtOnce(t, o, c)
    <3>1. t >= 0 /\ Len(c) >= t /\ len' = 0 /\ ret' = Whole(SubSeq(c, 1, t)) /\ Len(c) \in Nat
      BY <1>1, <2>3, LenProperties DEF TakeAtOnce, Discard
    <3> HIDE DEF s, c
    <3>2. HoldsPayload'
      BY <1>1, <1>2, <2>1, <3>1 DEF HoldsPayload
    <3>3. AssemblesPayloads'
      BY <1>1, <1>2, <2>1, <3>1 DEF AssemblesPayloads, Bytes, Whole
    <3> QED BY <1>2, <3>2, <3>3 DEF GatherInv
  <2>4. CASE TakeFirst(t, o, c)
    <3>1. t \in Nat /\ 0 < t /\ OnePayload(s) /\ s[1].total = t
      BY <1>1, <2>1, <2>4, LenProperties DEF TakeFirst
    <3>2. <<>> \in Seq(Nat) /\ Len(<<>>) = 0 /\ Bytes(s) = <<>> \o c /\ \A x : SubSeq(x, 1, 0) = <<>>
      BY <1>1, <2>1, EmptySeq, ConcatEmptySeq, SubSeqEmpty
    <3>3. CASE Cap(mem, buf) = 0
      <4> DEFINE new == Opening(t)
                 m == Append(mem, new)
                 b == Len(mem) + 1
      <4>1. Less(t, AccChunk) \in Nat
        BY <3>1 DEF Less, PayloadAssumption
      <4>2. new \in Seq(Nat)
        BY <4>1 DEF Opening
      <4>3. Fill(m, b, 0, t, c)
        BY <2>4, <3>3 DEF TakeFirst
      <4> HIDE DEF new
      <4>4. m \in Seq(Seq(Nat)) /\ Len(m) = Len(mem) + 1
        BY <1>3, <4>2
      <4> HIDE DEF m
      <4>5. b \in 0 .. Len(m) /\ 0 \in 0 .. Cap(m, b)
        BY <1>3, <4>4 DEF Cap
      <4> HIDE DEF s, t, c, b
      <4> QED BY <1>1, <1>2, <3>1, <3>2, <4>3, <4>4, <4>5, FillKeepsGathered
    <3>4. CASE Cap(mem, buf) # 0
      <4>1. Fill(mem, buf, 0, t, c) /\ 0 \in 0 .. Cap(mem, buf)
        BY <1>3, <2>4, <3>4 DEF TakeFirst
      <4> HIDE DEF s, t, c
      <4> QED BY <1>1, <1>2, <1>3, <3>1, <3>2, <4>1, FillKeepsGathered
    <3> QED BY <3>3, <3>4
  <2>5. CASE TakeNext(t, o, c)
    BY <1>4, <2>5 DEF TakeNext
  <2> QED BY <2>2, <2>3, <2>4, <2>5 DEF Take
<1>5. CASE o # 0
  <2>1. s = Append(since, p)
    BY <1>5
  <2>2. ASSUME OnePayload(s)
        PROVE  Continues(t, o) /\ t >= 0 /\ o > 0
    <3>1. since # <<>>
      <4> SUFFICES ASSUME since = <<>> PROVE FALSE
        OBVIOUS
      <4>1. s = <<p>>
        BY <2>1
      <4> QED BY <1>1, <1>5, <2>2, <4>1, OneCall
    <3>2. /\ OnePayload(since) /\ t = since[1].total /\ o = Len(Bytes(since)) /\ o < since[1].total
      BY <1>1, <1>2, <2>1, <2>2, <3>1, OneMoreCall
    <3>3. Len(Bytes(since)) \in Nat
      BY <1>2, BytesAreBytes, LenProperties
    <3>4. len > 0
      BY <1>1, <1>3, <1>5, <3>2, <3>3 DEF GatherInv, HoldsPayload
    <3>5. total = since[1].total /\ SubSeq(mem[buf], 1, len) = Bytes(since)
      BY <3>4 DEF GatherInv, HoldsPayload
    <3>6. buf # 0 /\ mem[buf] \in Seq(Nat) /\ len \in 0 .. Len(mem[buf])
      <4>1. buf # 0
        BY <1>3, <3>4 DEF Cap
      <4> QED BY <1>3, <4>1 DEF Cap
    <3>7. Len(SubSeq(mem[buf], 1, len)) = len
      BY <3>4, <3>6
    <3>8. t = total /\ o = len
      BY <3>2, <3>5, <3>7
    <3>9. t >= 0 /\ o > 0
      BY <1>1, <1>3, <1>5, <3>4, <3>8
    <3> QED BY <3>8, <3>9 DEF Continues
  <2>3. CASE TakeRefused(t, o, c)
    <3>1. ~OnePayload(s) /\ len' = 0 /\ ret' = NotYet
      BY <1>1, <2>2, <2>3 DEF TakeRefused, Discard
    <3> HIDE DEF s
    <3> QED BY <1>2, <3>1, NothingGathered
  <2>4. CASE TakeNext(t, o, c)
    <3>1. /\ t \in Nat /\ len < t /\ Fill(mem, buf, len, t, c)
          /\ Bytes(since) \in Seq(Nat) /\ Len(Bytes(since)) = len
          /\ SubSeq(mem[buf], 1, len) = Bytes(since)
          /\ OnePayload(s) /\ s[1].total = t /\ Bytes(s) = Bytes(since) \o c
      BY <1>1, <2>1, <2>4, NextArrives
    <3> HIDE DEF s, t, c
    <3> QED BY <1>1, <1>2, <1>3, <3>1, FillKeepsGathered
  <2>5. CASE TakeAtOnce(t, o, c) \/ TakeFirst(t, o, c)
    BY <1>5, <2>5 DEF TakeAtOnce, TakeFirst
  <2> QED BY <2>3, <2>4, <2>5 DEF Take
<1> QED BY <1>4, <1>5

LEMMA StepKeepsGathered ==
  ASSUME PayloadAssumption, TypeOK, GatherInv, [Next]_vars
  PROVE  GatherInv'
<1>1. <<>> \in Seq(Piece) /\ ~OnePayload(<<>>)
  BY DEF OnePayload
<1>2. CASE Reset \/ Renew
  <2>1. since' = <<>> /\ len' = 0 /\ ret' = NotYet
    BY <1>2 DEF Reset, Renew, Discard
  <2> QED BY <1>1, <2>1, NothingGathered
<1>3. CASE UNCHANGED vars
  BY <1>3 DEF vars, GatherInv, HoldsPayload, AssemblesPayloads
<1>4. ASSUME NEW p \in Pieces, Take(p) PROVE GatherInv'
  BY <1>4, TakeKeepsGathered
<1> QED BY <1>2, <1>3, <1>4 DEF Next

(* Take reports a payload exactly when every call since offset 0 was the    *)
(* next piece of it and the last one completes it, and returns those bytes, *)
(* for a caller that loses, repeats and reorders pieces as it likes (Take). *)
THEOREM PayloadsAreAssembled == Spec => []AssemblesPayloads
<1>1. Init => IInv /\ GatherInv
  <2>1. Init => GatherInv
    BY DEF Init, GatherInv, HoldsPayload, AssemblesPayloads, OnePayload, NotYet
  <2> QED BY <2>1, InvariantInit
<1>2. IInv /\ GatherInv /\ [Next]_vars => (IInv /\ GatherInv)'
  BY InvariantStep, StepKeepsGathered, PayloadAssumption DEF IInv
<1>3. GatherInv => AssemblesPayloads
  BY DEF GatherInv
<1> QED BY <1>1, <1>2, <1>3, PTL DEF Spec

(***************************************************************************)
(* What is allocated                                                       *)
(***************************************************************************)
(* append allocates at most one buffer, no larger than the growth of what   *)
(* it holds, and leaves every other at its size.                           *)
LEMMA AppendedAllocates ==
  ASSUME PayloadAssumption,
         NEW m \in Seq(Seq(Nat)), NEW b \in 0 .. Len(m), NEW at \in 0 .. Cap(m, b),
         NEW c \in Seq(Nat), NEW a \in Appended(m, b, at, c)
  PROVE  /\ \A x \in Len(m) + 1 .. Len(a.mem) : Len(a.mem[x]) <= Growth * (at + Len(c))
         /\ \A x \in 1 .. Len(m) : Len(a.mem[x]) = Len(m[x])
<1> DEFINE n == at + Len(c)
<1>0. at \in Nat /\ n \in Nat /\ Cap(m, b) \in Nat /\ Len(m) \in Nat
  BY LenProperties DEF Cap
<1>1. CASE n <= Cap(m, b) /\ b = 0
  <2>1. a.mem = m
    BY <1>1 DEF Appended
  <2> QED BY <1>0, <2>1
<1>2. CASE n <= Cap(m, b) /\ b # 0
  <2> DEFINE w == Written(m[b], at, c)
  <2>1. m[b] \in Seq(Nat) /\ b \in 1 .. Len(m)
    BY <1>2
  <2>2. w \in Seq(Nat) /\ Len(w) = Len(m[b])
    BY <1>0, <2>1, WrittenKeepsSize
  <2>3. a.mem = [m EXCEPT ![b] = w]
    BY <1>2 DEF Appended
  <2> HIDE DEF w
  <2>4. Len(a.mem) = Len(m) /\ \A x \in 1 .. Len(m) : a.mem[x] = IF x = b THEN w ELSE m[x]
    BY <2>1, <2>2, <2>3, ExceptSeq
  <2>5. \A x \in 1 .. Len(m) : Len(a.mem[x]) = Len(m[x])
    BY <2>2, <2>4
  <2> QED BY <1>0, <2>4, <2>5
<1>3. CASE n > Cap(m, b)
  <2>1. PICK cap \in {n, Growth * n} :
          a = [mem |-> Grown(m, b, at, c, cap), buf |-> Len(m) + 1]
    BY <1>0, <1>3 DEF Appended
  <2>2. cap \in Nat /\ cap >= n /\ cap <= Growth * n
    <3>1. Growth \in Nat /\ Growth >= 1
      BY DEF PayloadAssumption
    <3>2. Growth * n \in Nat /\ Growth * n >= n
      BY <1>0, <3>1, Grows
    <3> QED BY <1>0, <2>1, <3>2
  <2> DEFINE old == [i \in 1 .. cap |-> IF i <= at THEN m[b][i] ELSE 0]
             w == Written(old, at, c)
  <2>3. old \in Seq(Nat) /\ Len(old) = cap
    <3>1. \A i \in 1 .. cap : old[i] \in Nat
      <4> SUFFICES ASSUME NEW i \in 1 .. cap PROVE old[i] \in Nat
        OBVIOUS
      <4>1. CASE i <= at
        <5>1. b # 0 /\ m[b] \in Seq(Nat) /\ i \in 1 .. Len(m[b])
          BY <1>0, <2>2, <4>1 DEF Cap
        <5> QED BY <4>1, <5>1
      <4>2. CASE ~(i <= at)
        BY <4>2
      <4> QED BY <4>1, <4>2
    <3>2. old \in [1 .. cap -> Nat]
      BY <3>1
    <3> QED BY <2>2, <3>2, FunctionIsSeq
  <2> HIDE DEF old
  <2>4. w \in Seq(Nat) /\ Len(w) = cap
    BY <1>0, <2>3, WrittenKeepsSize
  <2>5. a.mem = Append(m, w)
    BY <2>1 DEF Grown, old
  <2> HIDE DEF w
  <2>6. Len(a.mem) = Len(m) + 1 /\ a.mem[Len(m) + 1] = w /\ \A x \in 1 .. Len(m) : a.mem[x] = m[x]
    BY <2>4, <2>5, AppendProperties
  <2>7. \A x \in Len(m) + 1 .. Len(a.mem) : x = Len(m) + 1
    BY <1>0, <2>6
  <2> QED BY <2>2, <2>4, <2>6, <2>7
<1>4. n <= Cap(m, b) \/ n > Cap(m, b)
  BY <1>0
<1> QED BY <1>1, <1>2, <1>3, <1>4, Zenon

(* A step allocates no more than all and the opening allow.                *)
Allocates(all) ==
  \A x \in Len(mem) + 1 .. Len(mem') : Len(mem'[x]) <= Bigger(AccChunk, Growth * Len(all))

(* Take, by its outcomes.                                                  *)
LEMMA TakeAllocates ==
  ASSUME PayloadAssumption, TypeOK, GatherInv, NEW p \in Pieces, Take(p)
  PROVE  Allocates(Bytes(since'))
<1> DEFINE t == p.total
           o == p.offset
           c == p.chunk
<1>1. p \in Piece /\ t \in Int /\ o \in Int /\ c \in Seq(Nat) /\ Len(c) \in Nat
  BY LenProperties DEF PayloadAssumption, Piece
<1>2. /\ mem \in Seq(Seq(Nat)) /\ buf \in 0 .. Len(mem) /\ Len(mem) \in Nat
      /\ len \in 0 .. Cap(mem, buf) /\ Cap(mem, buf) \in Nat
  BY DEF TypeOK, Cap
<1>3. AccChunk \in Nat /\ \A k \in Nat : Growth * k \in Nat
  BY DEF PayloadAssumption
<1>4. CASE mem' = mem
  BY <1>2, <1>4 DEF Allocates
<1>5. CASE TakeFirst(t, o, c)
  <2>1. since' = <<p>> /\ Bytes(<<p>>) = c /\ t \in Nat
    BY <1>1, <1>5, OneCall DEF Take, Noted, TakeFirst
  <2>2. CASE Cap(mem, buf) = 0
    <3> DEFINE new == Opening(t)
               m == Append(mem, new)
               b == Len(mem) + 1
    <3>1. Less(t, AccChunk) \in Nat /\ Less(t, AccChunk) <= AccChunk
      BY <1>3, <2>1 DEF Less
    <3>2. new \in Seq(Nat) /\ Len(new) <= AccChunk
      BY <3>1 DEF Opening
    <3>3. Fill(m, b, 0, t, c)
      BY <1>5, <2>2 DEF TakeFirst
    <3> HIDE DEF new
    <3>4. m \in Seq(Seq(Nat)) /\ Len(m) = Len(mem) + 1 /\ m[Len(mem) + 1] = new
      BY <1>2, <3>2, AppendProperties
    <3> HIDE DEF m
    <3>5. b \in 0 .. Len(m) /\ 0 \in 0 .. Cap(m, b)
      BY <1>2, <3>4 DEF Cap
    <3>6. PICK a \in Appended(m, b, 0, c) : mem' = a.mem
      BY <3>3 DEF Fill
    <3> HIDE DEF b
    <3>7. /\ \A x \in Len(m) + 1 .. Len(mem') : Len(mem'[x]) <= Growth * (0 + Len(c))
          /\ \A x \in 1 .. Len(m) : Len(mem'[x]) = Len(m[x])
      BY <1>1, <3>4, <3>5, <3>6, AppendedAllocates
    <3>8. 0 + Len(c) = Len(c) /\ Growth * Len(c) \in Nat
      BY <1>1, <1>3
    <3>9. ASSUME NEW x \in Len(mem) + 1 .. Len(mem')
          PROVE  Len(mem'[x]) <= AccChunk \/ Len(mem'[x]) <= Growth * Len(c)
      <4>1. CASE x = Len(mem) + 1
        <5>1. x \in 1 .. Len(m) /\ Len(m[x]) <= AccChunk
          BY <1>2, <3>2, <3>4, <4>1
        <5> QED BY <3>7, <5>1
      <4>2. CASE x # Len(mem) + 1
        <5>1. x \in Len(m) + 1 .. Len(mem')
          BY <1>2, <3>4, <4>2
        <5> QED BY <3>7, <3>8, <5>1
      <4> QED BY <4>1, <4>2
    <3>10. \A x \in Len(mem) + 1 .. Len(mem') : Len(mem'[x]) \in Nat
      <4>1. a.mem \in Seq(Seq(Nat))
        BY <1>1, <3>4, <3>5, AppendedSparesOthers
      <4> QED BY <1>2, <3>6, <4>1, SMTT(30)
    <3>11. \A x \in Len(mem) + 1 .. Len(mem') : Len(mem'[x]) <= Bigger(AccChunk, Growth * Len(c))
      BY <1>3, <3>8, <3>9, <3>10 DEF Bigger
    <3> QED BY <2>1, <3>11 DEF Allocates
  <2>3. CASE Cap(mem, buf) # 0
    <3>1. PICK a \in Appended(mem, buf, 0, c) : mem' = a.mem
      BY <1>5, <2>3 DEF TakeFirst, Fill
    <3>2. 0 \in 0 .. Cap(mem, buf) /\ 0 + Len(c) = Len(c) /\ Growth * Len(c) \in Nat
      BY <1>1, <1>2, <1>3
    <3>3. \A x \in Len(mem) + 1 .. Len(mem') : Len(mem'[x]) <= Growth * (0 + Len(c))
      BY <1>1, <1>2, <3>1, <3>2, AppendedAllocates
    <3>4. \A x \in Len(mem) + 1 .. Len(mem') : Len(mem'[x]) \in Nat
      <4>1. a.mem \in Seq(Seq(Nat))
        BY <1>1, <1>2, <3>2, AppendedSparesOthers
      <4> QED BY <1>2, <3>1, <4>1, SMTT(30)
    <3>5. \A x \in Len(mem) + 1 .. Len(mem') : Len(mem'[x]) <= Bigger(AccChunk, Growth * Len(c))
      BY <1>3, <3>2, <3>3, <3>4 DEF Bigger
    <3> QED BY <2>1, <3>5 DEF Allocates
  <2> QED BY <2>2, <2>3
<1>6. CASE TakeNext(t, o, c)
  <2>1. since' = Append(since, p)
    BY <1>1, <1>6 DEF Take, Noted, TakeNext
  <2>2. /\ Fill(mem, buf, len, t, c) /\ Bytes(since) \in Seq(Nat) /\ Len(Bytes(since)) = len
        /\ Bytes(since') = Bytes(since) \o c
    BY <1>1, <1>6, <2>1, NextArrives
  <2>3. Len(Bytes(since) \o c) = len + Len(c) /\ len + Len(c) \in Nat
    <3>1. Len(Bytes(since) \o c) = Len(Bytes(since)) + Len(c)
      BY <1>1, <2>2, ConcatProperties
    <3> QED BY <1>1, <1>2, <2>2, <3>1
  <2>4. PICK a \in Appended(mem, buf, len, c) : mem' = a.mem
    BY <2>2 DEF Fill
  <2>5. \A x \in Len(mem) + 1 .. Len(mem') : Len(mem'[x]) <= Growth * (len + Len(c))
    BY <1>1, <1>2, <2>4, AppendedAllocates
  <2>6. \A x \in Len(mem) + 1 .. Len(mem') : Len(mem'[x]) \in Nat
    <3>1. a.mem \in Seq(Seq(Nat))
      BY <1>1, <1>2, AppendedSparesOthers
    <3> QED BY <1>2, <2>4, <3>1, SMTT(30)
  <2>7. Growth * (len + Len(c)) \in Nat
    BY <1>3, <2>3
  <2>8. \A x \in Len(mem) + 1 .. Len(mem') :
          Len(mem'[x]) <= Bigger(AccChunk, Growth * (len + Len(c)))
    BY <1>3, <2>5, <2>6, <2>7 DEF Bigger
  <2> QED BY <2>2, <2>3, <2>8 DEF Allocates
<1>7. \/ mem' = mem \/ TakeFirst(t, o, c) \/ TakeNext(t, o, c)
  BY DEF Take, TakeRefused, TakeAtOnce
<1> QED BY <1>4, <1>5, <1>6, <1>7

(* A call allocates no buffer larger than accChunk and the growth of what   *)
(* has arrived, whatever length was announced (Take).                      *)
THEOREM AnnouncedIsNotAllocated == Spec => AllocatesWhatArrived
<1>1. Init => IInv /\ GatherInv
  <2>1. Init => GatherInv
    BY DEF Init, GatherInv, HoldsPayload, AssemblesPayloads, OnePayload, NotYet
  <2> QED BY <2>1, InvariantInit
<1>2. IInv /\ GatherInv /\ [Next]_vars => (IInv /\ GatherInv)'
  BY InvariantStep, StepKeepsGathered, PayloadAssumption DEF IInv
<1>3. IInv /\ GatherInv /\ [Next]_vars =>
        [\A b \in Len(mem) + 1 .. Len(mem') :
           Len(mem'[b]) <= Bigger(AccChunk, Growth * Len(Arrived(since', Len(since'))))]_vars
  <2> SUFFICES ASSUME IInv, GatherInv, [Next]_vars
               PROVE  Allocates(Bytes(since')) \/ UNCHANGED vars
    BY DEF Allocates, Bytes
  <2>1. mem \in Seq(Seq(Nat)) /\ Len(mem) \in Nat
    BY DEF IInv, TypeOK
  <2>2. CASE Reset \/ Renew
    <3>1. Len(mem') <= Len(mem) /\ Len(mem') \in Nat
      BY <2>1, <2>2, EmptySeq DEF Reset, Renew
    <3> QED BY <2>1, <3>1 DEF Allocates
  <2>3. ASSUME NEW p \in Pieces, Take(p) PROVE Allocates(Bytes(since'))
    BY <2>3, TakeAllocates, PayloadAssumption DEF IInv
  <2> QED BY <2>2, <2>3 DEF Next
<1> QED BY <1>1, <1>2, <1>3, PTL DEF Spec, AllocatesWhatArrived
=============================================================================
