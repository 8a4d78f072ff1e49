---------------------------- MODULE SlicesProofs ----------------------------
(***************************************************************************)
(* What the storage helpers of Slices do to a memory: which buffers they   *)
(* may change, what the slice they return holds, and what is then read of  *)
(* the elements and rows in it.                                            *)
(***************************************************************************)
EXTENDS Slices, SeqLemmas

(* A memory is a sequence of sequences, whatever the cells hold.           *)
Memory(m) == Listed(m) /\ \A b \in 1 .. Len(m) : Listed(m[b])

(* A slice of that memory, inside its buffer.                              *)
SliceIn(m, s) ==
  /\ s = [buf |-> s.buf, len |-> s.len]
  /\ s.buf \in 0 .. Len(m) /\ s.len \in 0 .. Cap(m, s)

(* A pointer to a cell.                                                    *)
PointsIn(m, p) == p.buf \in 1 .. Len(m) /\ p.i \in 1 .. Len(m[p.buf])

(* Buffers are added and none shrinks, and only those of W change.         *)
Kept(m, t, W) ==
  /\ Memory(t) /\ Len(t) >= Len(m)
  /\ \A b \in 1 .. Len(m) : Len(t[b]) = Len(m[b]) /\ (b \notin W => t[b] = m[b])

(* One entry of a sequence is replaced.                                    *)
LEMMA UpdatedListed ==
  ASSUME NEW s, Listed(s), NEW i \in 1 .. Len(s), NEW v
  PROVE  LET t == [s EXCEPT ![i] = v] IN
         /\ Listed(t) /\ Len(t) = Len(s) /\ t[i] = v
         /\ \A j \in 1 .. Len(s) : j # i => t[j] = s[j]
<1> DEFINE t == [s EXCEPT ![i] = v]
<1>1. Len(s) \in Nat /\ DOMAIN s = 1 .. Len(s)
  <2>1. Len(s) \in Nat /\ s = [j \in 1 .. Len(s) |-> s[j]]
    BY DEF Listed
  <2>2. DOMAIN [j \in 1 .. Len(s) |-> s[j]] = 1 .. Len(s)
    OBVIOUS
  <2> QED BY <2>1, <2>2, Zenon
<1>2. t = [j \in 1 .. Len(s) |-> IF j = i THEN v ELSE s[j]]
  BY <1>1
<1> HIDE DEF t
<1>3. /\ \A j \in 1 .. Len(s) : t[j] = IF j = i THEN v ELSE s[j]
      /\ t = [j \in 1 .. Len(s) |-> t[j]]
  BY <1>2
<1>4. Listed(t) /\ Len(t) = Len(s)
  BY <1>1, <1>3, TabulatedIsListed
<1> QED BY <1>3, <1>4 DEF t

(* A cell of the memory is written.                                        *)
Written(m, b, i, v) == [m EXCEPT ![b][i] = v]
OneCell(m, t, b, i, v) ==
  /\ Kept(m, t, {b}) /\ Len(t) = Len(m) /\ t[b][i] = v
  /\ \A j \in 1 .. Len(m[b]) : j # i => t[b][j] = m[b][j]

(* Writing a cell changes that one.                                        *)
LEMMA CellWritten ==
  ASSUME NEW m, Memory(m), NEW b \in 1 .. Len(m), NEW i \in 1 .. Len(m[b]), NEW v
  PROVE  OneCell(m, Written(m, b, i, v), b, i, v)
<1> DEFINE c == [m[b] EXCEPT ![i] = v]
           t == [m EXCEPT ![b] = c]
<1>1. Listed(m) /\ Listed(m[b])
  BY DEF Memory
<1>2. /\ Listed(c) /\ Len(c) = Len(m[b]) /\ c[i] = v
      /\ \A j \in 1 .. Len(m[b]) : j # i => c[j] = m[b][j]
  BY <1>1, UpdatedListed
<1> HIDE DEF c
<1>3. /\ Listed(t) /\ Len(t) = Len(m) /\ t[b] = c
      /\ \A j \in 1 .. Len(m) : j # b => t[j] = m[j]
  BY <1>1, UpdatedListed
<1> HIDE DEF t
<1>4. Memory(t)
  BY <1>2, <1>3 DEF Memory
<1>5. Kept(m, t, {b})
  <2>1. \A j \in 1 .. Len(m) : Len(t[j]) = Len(m[j]) /\ (j \notin {b} => t[j] = m[j])
    BY <1>2, <1>3
  <2>2. Len(t) >= Len(m)
    BY <1>1, <1>3 DEF Listed
  <2> QED BY <1>4, <2>1, <2>2 DEF Kept
<1>6. t = Written(m, b, i, v)
  BY DEF Written, t, c
<1>7. OneCell(m, t, b, i, v)
  BY <1>2, <1>3, <1>5 DEF OneCell
<1> QED BY <1>6, <1>7

(* A pointer is written through.                                           *)
LEMMA Saved ==
  ASSUME NEW m, Memory(m), NEW p, PointsIn(m, p), NEW v
  PROVE  OneCell(m, Save(m, p, v), p.buf, p.i, v)
<1>1. p.buf \in 1 .. Len(m) /\ p.i \in 1 .. Len(m[p.buf])
  BY DEF PointsIn
<1>2. Save(m, p, v) = Written(m, p.buf, p.i, v)
  BY Zenon DEF Save, Written
<1>3. OneCell(m, Written(m, p.buf, p.i, v), p.buf, p.i, v)
  BY <1>1, CellWritten
<1> QED BY <1>2, <1>3

(* A new buffer.                                                           *)
LEMMA MadeNew ==
  ASSUME NEW m, Memory(m), NEW cells, Listed(cells), NEW cap \in Nat, Len(cells) <= cap, NEW zero
  PROVE  LET r == Made(m, cells, cap, zero) IN
         /\ Kept(m, r.mem, {}) /\ Len(r.mem) = Len(m) + 1
         /\ r.val = [buf |-> Len(m) + 1, len |-> Len(cells)]
         /\ Len(r.mem[Len(m) + 1]) = cap
         /\ \A i \in 1 .. Len(cells) : r.mem[Len(m) + 1][i] = cells[i]
         /\ \A i \in Len(cells) + 1 .. cap : r.mem[Len(m) + 1][i] = zero
<1> DEFINE k == cap - Len(cells)
           rest == [j \in 1 .. k |-> zero]
           new == cells \o rest
           t == Append(m, new)
<1>1. k \in Nat /\ Len(cells) \in Nat /\ Len(m) \in Nat /\ Listed(m)
  BY DEF Listed, Memory
<1>2. Listed(rest) /\ Len(rest) = k /\ \A j \in 1 .. k : rest[j] = zero
  <2> HIDE DEF k
  <2>1. rest = [j \in 1 .. k |-> rest[j]]
    OBVIOUS
  <2> QED BY <1>1, <2>1, TabulatedIsListed
<1> HIDE DEF rest
<1>3. /\ Listed(new) /\ Len(new) = Len(cells) + Len(rest)
      /\ \A j \in 1 .. Len(cells) : new[j] = cells[j]
      /\ \A j \in 1 .. Len(rest) : new[Len(cells) + j] = rest[j]
  BY <1>2, ConcatListed
<1> HIDE DEF new
<1>4. \A j \in Len(cells) + 1 .. cap : new[j] = zero
  <2> SUFFICES ASSUME NEW j \in Len(cells) + 1 .. cap PROVE new[j] = zero
    OBVIOUS
  <2>1. j - Len(cells) \in 1 .. k /\ Len(cells) + (j - Len(cells)) = j
    BY <1>1
  <2> QED BY <1>2, <1>3, <2>1
<1>5. Len(new) = cap
  BY <1>1, <1>2, <1>3
<1>6. /\ Listed(t) /\ Len(t) = Len(m) + 1
      /\ \A j \in 1 .. Len(m) : t[j] = m[j]
      /\ t[Len(m) + 1] = new
  BY <1>1, AppendListed
<1> HIDE DEF t
<1>7. Memory(t)
  <2>1. \A b \in 1 .. Len(t) : b \in 1 .. Len(m) \/ b = Len(m) + 1
    BY <1>1, <1>6
  <2> QED BY <1>3, <1>6, <2>1 DEF Memory
<1>8. Kept(m, t, {})
  BY <1>1, <1>6, <1>7 DEF Kept
<1>9. Made(m, cells, cap, zero) = [mem |-> t, val |-> [buf |-> Len(m) + 1, len |-> Len(cells)]]
  BY DEF Made, t, new, rest, k
<1> QED BY <1>3, <1>4, <1>5, <1>6, <1>8, <1>9

(* What is kept twice is kept.                                             *)
LEMMA KeptTwice ==
  ASSUME NEW m, NEW t, NEW u, NEW W, NEW X, Len(m) \in Nat, Kept(m, t, W), Kept(t, u, X)
  PROVE  Kept(m, u, W \cup X)
<1>1. Len(t) \in Nat /\ Len(u) \in Nat
  BY DEF Kept, Memory, Listed
<1>2. \A b \in 1 .. Len(m) : b \in 1 .. Len(t)
  BY <1>1 DEF Kept
<1> QED BY <1>1, <1>2 DEF Kept

(* Nothing is kept by doing nothing.                                       *)
LEMMA KeptAsIs == ASSUME NEW m, Memory(m), NEW W PROVE Kept(m, m, W)
BY DEF Kept, Memory, Listed

(* More may be let go.                                                     *)
LEMMA KeptLess ==
  ASSUME NEW m, NEW t, NEW W, NEW X, Kept(m, t, W), \A b \in 1 .. Len(m) : b \in W => b \in X
  PROVE  Kept(m, t, X)
BY DEF Kept

(* The contents of a slice.                                                *)
LEMMA ContentsListed ==
  ASSUME NEW m, Memory(m), NEW s, SliceIn(m, s)
  PROVE  /\ Listed(Contents(m, s)) /\ Len(Contents(m, s)) = s.len
         /\ \A i \in 1 .. s.len : Contents(m, s)[i] = m[s.buf][i]
<1>1. CASE s.buf = 0
  <2>1. s.len = 0 /\ Contents(m, s) = <<>>
    BY <1>1 DEF SliceIn, Cap, Contents
  <2> QED BY <2>1, EmptyListed
<1>2. CASE s.buf # 0
  <2>1. s.buf \in 1 .. Len(m) /\ s.len \in 0 .. Len(m[s.buf])
    BY <1>2 DEF SliceIn, Cap
  <2>2. Listed(m[s.buf])
    BY <2>1 DEF Memory
  <2>3. Contents(m, s) = SubSeq(m[s.buf], 1, s.len)
    BY <1>2 DEF Contents
  <2> QED BY <2>1, <2>2, <2>3, FirstListed
<1> QED BY <1>1, <1>2

(* The first k of vs are behind what s holds, in its buffer or in a new    *)
(* one; past the length is what was there, or zero.                        *)
Longer(m, s, t, r, vs, k, zero) ==
  /\ Kept(m, t, {s.buf}) /\ SliceIn(t, r) /\ r.len = s.len + k
  /\ r.buf = s.buf \/ r.buf \in Len(m) + 1 .. Len(t)
  /\ \A i \in 1 .. s.len : t[r.buf][i] = m[s.buf][i]
  /\ \A i \in 1 .. k : t[r.buf][s.len + i] = vs[i]
  /\ \A i \in s.len + k + 1 .. Cap(t, r) :
       t[r.buf][i] = zero \/ (r.buf = s.buf /\ t[r.buf][i] = m[s.buf][i])

(* It is a new buffer only for want of room.                               *)
Appended(m, s, t, r, vs, k, zero) ==
  /\ Longer(m, s, t, r, vs, k, zero)
  /\ s.len + k <= Cap(m, s) => r.buf = s.buf /\ Len(t) = Len(m)

(* append(s, v)                                                            *)
LEMMA AppendedOne ==
  ASSUME NEW m, Memory(m), NEW s, SliceIn(m, s), NEW v, NEW zero
  PROVE  LET r == AppendTo(m, s, v, zero) IN
         /\ r = [mem |-> r.mem, val |-> r.val] /\ r.val.buf # 0
         /\ Appended(m, s, r.mem, r.val, <<v>>, 1, zero)
<1> DEFINE r == AppendTo(m, s, v, zero)
           cap == Cap(m, s)
<1>1. /\ Listed(m) /\ Len(m) \in Nat
      /\ s.buf \in 0 .. Len(m) /\ s.len \in 0 .. cap /\ cap \in Nat
      /\ s.buf # 0 => s.buf \in 1 .. Len(m) /\ cap = Len(m[s.buf])
  BY DEF Memory, Listed, SliceIn, Cap
<1>2. CASE s.len < cap
  <2>1. s.buf \in 1 .. Len(m) /\ cap = Len(m[s.buf]) /\ s.len + 1 \in 1 .. Len(m[s.buf])
    <3>1. s.buf # 0
      BY <1>1, <1>2 DEF Cap
    <3> QED BY <1>1, <1>2, <3>1
  <2> DEFINE t == Written(m, s.buf, s.len + 1, v)
  <2>2. /\ Kept(m, t, {s.buf}) /\ Len(t) = Len(m) /\ t[s.buf][s.len + 1] = v
        /\ \A j \in 1 .. Len(m[s.buf]) : j # s.len + 1 => t[s.buf][j] = m[s.buf][j]
    <3>1. OneCell(m, t, s.buf, s.len + 1, v)
      BY <2>1, CellWritten
    <3> HIDE DEF t
    <3> QED BY <3>1 DEF OneCell
  <2>3. r = [mem |-> t, val |-> [s EXCEPT !.len = @ + 1]]
    BY <1>2 DEF AppendTo, Written
  <2>4. [s EXCEPT !.len = @ + 1] = [buf |-> s.buf, len |-> s.len + 1]
    BY DEF SliceIn
  <2> HIDE DEF t, r
  <2>5. r.mem = t /\ r.val = [buf |-> s.buf, len |-> s.len + 1]
    BY <2>3, <2>4
  <2>6. Len(t[s.buf]) = Len(m[s.buf])
    BY <2>1, <2>2 DEF Kept
  <2>7. SliceIn(t, r.val)
    BY <1>1, <2>1, <2>2, <2>5, <2>6 DEF SliceIn, Cap
  <2>8. /\ \A i \in 1 .. s.len : i \in 1 .. Len(m[s.buf]) /\ i # s.len + 1
        /\ \A i \in s.len + 1 + 1 .. Len(m[s.buf]) : i \in 1 .. Len(m[s.buf]) /\ i # s.len + 1
        /\ \A i \in 1 .. 1 : i = 1
    BY <1>1, <2>1
  <2>9. Cap(t, r.val) = Len(m[s.buf]) /\ r.val.buf = s.buf /\ r.val.len = s.len + 1 /\ s.buf # 0
    BY <1>1, <2>1, <2>5, <2>6 DEF Cap
  <2>10. <<v>>[1] = v
    OBVIOUS
  <2>11. Appended(m, s, r.mem, r.val, <<v>>, 1, zero)
    BY <2>2, <2>5, <2>7, <2>8, <2>9, <2>10, Zenon DEF Appended, Longer
  <2> QED BY <2>3, <2>5, <2>9, <2>11 DEF r
<1>3. CASE ~(s.len < cap)
  <2> DEFINE cells == Append(Contents(m, s), v)
             g == Grown(cap)
  <2>1. s.len = cap
    BY <1>1, <1>3
  <2>2. g \in Nat /\ g > cap
    BY <1>1, SlicesAssumption DEF Grown
  <2>3. /\ Listed(Contents(m, s)) /\ Len(Contents(m, s)) = s.len
        /\ \A i \in 1 .. s.len : Contents(m, s)[i] = m[s.buf][i]
    BY ContentsListed
  <2>4. /\ Listed(cells) /\ Len(cells) = s.len + 1 /\ cells[s.len + 1] = v
        /\ \A i \in 1 .. s.len : cells[i] = m[s.buf][i]
    BY <2>3, AppendListed
  <2> HIDE DEF cells, g
  <2>5. Len(cells) <= g
    BY <1>1, <2>1, <2>2, <2>4
  <2> DEFINE d == Made(m, cells, g, zero)
  <2>6. /\ Kept(m, d.mem, {}) /\ Len(d.mem) = Len(m) + 1
        /\ d.val = [buf |-> Len(m) + 1, len |-> Len(cells)]
        /\ Len(d.mem[Len(m) + 1]) = g
        /\ \A i \in 1 .. Len(cells) : d.mem[Len(m) + 1][i] = cells[i]
        /\ \A i \in Len(cells) + 1 .. g : d.mem[Len(m) + 1][i] = zero
    BY <2>2, <2>4, <2>5, MadeNew
  <2>7. r = d
    BY <1>3 DEF AppendTo, cells, g
  <2> HIDE DEF d, r
  <2>8. r.val.buf = Len(m) + 1 /\ r.val.len = s.len + 1 /\ r.val = [buf |-> r.val.buf, len |-> r.val.len]
    BY <2>4, <2>6, <2>7
  <2>9. SliceIn(r.mem, r.val) /\ r.val.buf \in 1 .. Len(r.mem)
    BY <1>1, <2>4, <2>5, <2>6, <2>7, <2>8 DEF SliceIn, Cap
  <2>10. Kept(m, r.mem, {s.buf})
    BY <2>6, <2>7, KeptLess
  <2>11. /\ \A i \in 1 .. s.len : i \in 1 .. Len(cells)
         /\ s.len + 1 \in 1 .. Len(cells)
         /\ Len(cells) = s.len + 1
         /\ \A i \in 1 .. 1 : i = 1
         /\ Len(m) + 1 \in Len(m) + 1 .. Len(m) + 1
         /\ ~(s.len + 1 <= cap)
    BY <1>1, <2>1, <2>4
  <2>12. Cap(r.mem, r.val) = g /\ r.val.buf # 0
    BY <1>1, <2>6, <2>7, <2>8 DEF Cap
  <2>13. <<v>>[1] = v
    OBVIOUS
  <2>14. r.mem = d.mem /\ r.val.buf = Len(m) + 1
    BY <2>7, <2>8
  <2>15. Appended(m, s, r.mem, r.val, <<v>>, 1, zero)
    <3>1. \A i \in 1 .. s.len : r.mem[r.val.buf][i] = m[s.buf][i]
      BY <2>4, <2>6, <2>11, <2>14, Zenon
    <3>2. \A i \in 1 .. 1 : r.mem[r.val.buf][s.len + i] = <<v>>[i]
      BY <2>4, <2>6, <2>11, <2>13, <2>14, Zenon
    <3>3. \A i \in s.len + 1 + 1 .. Cap(r.mem, r.val) : r.mem[r.val.buf][i] = zero
      BY <2>6, <2>11, <2>12, <2>14, Zenon
    <3>4. r.val.buf \in Len(m) + 1 .. Len(r.mem)
      BY <2>6, <2>11, <2>14, Zenon
    <3> QED BY <2>8, <2>9, <2>10, <2>11, <3>1, <3>2, <3>3, <3>4, Zenon DEF Appended, Longer, cap
  <2>16. r = [mem |-> r.mem, val |-> r.val]
    BY <2>7 DEF d, Made
  <2> QED BY <2>12, <2>15, <2>16 DEF r
<1> QED BY <1>2, <1>3

(* One more after k.                                                       *)
LEMMA AppendedMore ==
  ASSUME NEW m, Memory(m), NEW s, SliceIn(m, s), NEW vs, NEW k \in Nat, NEW zero,
         NEW t, NEW r, Appended(m, s, t, r, vs, k, zero),
         NEW u, NEW q, NEW v, Appended(t, r, u, q, <<v>>, 1, zero), v = vs[k + 1], q.buf # 0
  PROVE  Appended(m, s, u, q, vs, k + 1, zero)
<1>1. /\ Len(m) \in Nat /\ s.buf \in 0 .. Len(m) /\ s.len \in Nat
      /\ Len(t) \in Nat /\ r.len = s.len + k /\ r.len \in Nat /\ Len(t) >= Len(m)
      /\ q.len = r.len + 1 /\ q.len = s.len + (k + 1) /\ SliceIn(t, r) /\ SliceIn(u, q)
      /\ Len(u) \in Nat /\ Len(u) >= Len(t)
  <2>1. Cap(m, s) \in Nat
    BY DEF Memory, Listed, SliceIn, Cap
  <2>2. /\ Kept(m, t, {s.buf}) /\ Kept(t, u, {r.buf}) /\ SliceIn(t, r) /\ SliceIn(u, q)
        /\ r.len = s.len + k /\ q.len = r.len + 1
    BY DEF Appended, Longer
  <2>3. Len(m) \in Nat /\ Len(t) \in Nat /\ Len(t) >= Len(m) /\ Len(u) \in Nat /\ Len(u) >= Len(t)
    BY <2>2 DEF Kept, Memory, Listed
  <2>4. s.buf \in 0 .. Len(m) /\ s.len \in Nat
    BY <2>1 DEF SliceIn
  <2> QED BY <2>2, <2>3, <2>4
<1>2. /\ r.buf = s.buf \/ r.buf \in Len(m) + 1 .. Len(t)
      /\ q.buf = r.buf \/ q.buf \in Len(t) + 1 .. Len(u)
  BY DEF Appended, Longer
<1>3. q.buf = s.buf \/ q.buf \in Len(m) + 1 .. Len(u)
  BY <1>1, <1>2
<1>4. Kept(m, u, {s.buf})
  <2>1. Kept(m, t, {s.buf}) /\ Kept(t, u, {r.buf})
    BY DEF Appended, Longer
  <2>2. Kept(m, u, {s.buf} \cup {r.buf})
    BY <1>1, <2>1, KeptTwice
  <2>3. \A b \in 1 .. Len(m) : b \in {s.buf} \cup {r.buf} => b \in {s.buf}
    BY <1>1, <1>2
  <2> QED BY <2>2, <2>3, KeptLess
<1>5. ASSUME s.len + (k + 1) <= Cap(m, s) PROVE q.buf = s.buf /\ Len(u) = Len(m)
  <2>1. Cap(m, s) \in Nat /\ s.len + k <= Cap(m, s) /\ r.len + 1 <= Cap(m, s) /\ Cap(m, s) # 0
    <3>1. Cap(m, s) \in Nat
      BY DEF Memory, Listed, SliceIn, Cap
    <3> QED BY <1>1, <1>5, <3>1
  <2>2. r.buf = s.buf /\ Len(t) = Len(m)
    BY <2>1 DEF Appended, Longer
  <2>3. Cap(t, r) = Cap(m, s)
    <3>1. s.buf \in 1 .. Len(m)
      BY <1>1, <2>1 DEF Cap
    <3>2. Len(t[s.buf]) = Len(m[s.buf])
      BY <3>1 DEF Appended, Longer, Kept
    <3> QED BY <2>2, <3>2 DEF Cap
  <2> QED BY <2>1, <2>2, <2>3 DEF Appended, Longer
<1>6. /\ \A i \in 1 .. s.len : t[r.buf][i] = m[s.buf][i]
      /\ \A i \in 1 .. k : t[r.buf][s.len + i] = vs[i]
      /\ \A i \in r.len + 1 .. Cap(t, r) :
           t[r.buf][i] = zero \/ (r.buf = s.buf /\ t[r.buf][i] = m[s.buf][i])
  BY <1>1 DEF Appended, Longer
<1>7. /\ \A i \in 1 .. r.len : u[q.buf][i] = t[r.buf][i]
      /\ u[q.buf][r.len + 1] = v
      /\ \A i \in q.len + 1 .. Cap(u, q) :
           u[q.buf][i] = zero \/ (q.buf = r.buf /\ u[q.buf][i] = t[r.buf][i])
  <2>1. <<v>>[1] = v /\ 1 \in 1 .. 1
    OBVIOUS
  <2> QED BY <1>1, <2>1 DEF Appended, Longer
<1>8. \A i \in 1 .. s.len : u[q.buf][i] = m[s.buf][i]
  <2>1. \A i \in 1 .. s.len : i \in 1 .. r.len
    BY <1>1
  <2> QED BY <1>6, <1>7, <2>1, Zenon
<1>9. \A i \in 1 .. k + 1 : u[q.buf][s.len + i] = vs[i]
  <2> SUFFICES ASSUME NEW i \in 1 .. k + 1 PROVE u[q.buf][s.len + i] = vs[i]
    OBVIOUS
  <2>1. CASE i = k + 1
    <3>1. s.len + i = r.len + 1
      BY <1>1, <2>1
    <3> QED BY <1>7, <2>1, <3>1, Zenon
  <2>2. CASE i # k + 1
    <3>1. i \in 1 .. k /\ s.len + i \in 1 .. r.len
      BY <1>1, <2>2
    <3> QED BY <1>6, <1>7, <3>1, Zenon
  <2> QED BY <2>1, <2>2
<1>10. \A i \in s.len + (k + 1) + 1 .. Cap(u, q) :
         u[q.buf][i] = zero \/ (q.buf = s.buf /\ u[q.buf][i] = m[s.buf][i])
  <2> SUFFICES ASSUME NEW i \in q.len + 1 .. Cap(u, q), u[q.buf][i] # zero
               PROVE  q.buf = s.buf /\ u[q.buf][i] = m[s.buf][i]
    BY <1>1
  <2>1. q.buf = r.buf /\ u[q.buf][i] = t[r.buf][i]
    BY <1>7
  <2>2. i \in r.len + 1 .. Cap(t, r)
    <3>1. r.buf \in 1 .. Len(t)
      BY <1>1, <2>1 DEF SliceIn
    <3>2. Len(u[r.buf]) = Len(t[r.buf])
      BY <3>1 DEF Appended, Longer, Kept
    <3>3. Cap(u, q) = Cap(t, r) /\ Cap(t, r) \in Nat
      <4>1. Cap(u, q) = Cap(t, r) /\ Cap(t, r) = Len(t[r.buf])
        BY <2>1, <3>1, <3>2 DEF Cap
      <4>2. Memory(t)
        BY DEF Appended, Longer, Kept
      <4> QED BY <3>1, <4>1, <4>2 DEF Memory, Listed
    <3> QED BY <1>1, <3>3
  <2>3. r.buf = s.buf /\ t[r.buf][i] = m[s.buf][i]
    BY <1>6, <2>1, <2>2
  <2> QED BY <2>1, <2>3
<1> QED BY <1>1, <1>3, <1>4, <1>5, <1>8, <1>9, <1>10 DEF Appended, Longer

(* append, one cell after the other: what AppendAll's fold is up to k.     *)
Piled(f, m, s, vs, k, zero) ==
  f = [j \in 0 .. k |->
         IF j = 0 THEN [mem |-> m, val |-> s]
         ELSE LET before == f[j - 1] IN AppendTo(before.mem, before.val, vs[j], zero)]

(* There is a memory after each entry put behind the slice.                *)
LEMMA PiledExists ==
  ASSUME NEW m, NEW s, NEW vs, NEW zero, NEW k \in Nat PROVE \E f : Piled(f, m, s, vs, k, zero)
<1> DEFINE Without == {w \in Nat : ~ \E f : Piled(f, m, s, vs, w, zero)}
<1>1. SUFFICES ASSUME Without # {} PROVE FALSE
  OBVIOUS
<1>2. PICK x \in Without : \A y \in Without : x <= y
  <2>1. Without \subseteq Nat
    OBVIOUS
  <2> HIDE DEF Without
  <2> QED BY <1>1, <2>1, LeastNatural
<1>3. x # 0
  <2>1. Piled([j \in 0 .. 0 |-> [mem |-> m, val |-> s]], m, s, vs, 0, zero)
    BY DEF Piled
  <2> QED BY <2>1
<1>4. x - 1 \in Nat /\ ~(x <= x - 1)
  BY <1>3
<1>5. PICK f : Piled(f, m, s, vs, x - 1, zero)
  BY <1>2, <1>4
<1> DEFINE more == AppendTo(f[x - 1].mem, f[x - 1].val, vs[x], zero)
           g == [j \in 0 .. x |-> IF j = x THEN more ELSE f[j]]
<1>6. ASSUME NEW j \in 0 .. x
      PROVE  g[j] = IF j = 0 THEN [mem |-> m, val |-> s]
                    ELSE AppendTo(g[j - 1].mem, g[j - 1].val, vs[j], zero)
  <2>1. CASE j = x
    <3>1. x - 1 \in 0 .. x /\ x - 1 # x /\ x \in 0 .. x
      BY <1>4
    <3>2. g[x - 1] = f[x - 1] /\ g[x] = more
      BY <3>1, Zenon
    <3> QED BY <1>3, <2>1, <3>2, Zenon
  <2>2. CASE j # x
    <3>1. j \in 0 .. x - 1 /\ (j # 0 => j - 1 \in 0 .. x /\ j - 1 # x)
      BY <1>4, <2>2
    <3>2. f[j] = IF j = 0 THEN [mem |-> m, val |-> s]
                 ELSE AppendTo(f[j - 1].mem, f[j - 1].val, vs[j], zero)
      BY <1>5, <3>1, Zenon DEF Piled
    <3>3. g[j] = f[j] /\ (j # 0 => g[j - 1] = f[j - 1])
      BY <2>2, <3>1, Zenon
    <3> QED BY <3>2, <3>3, Zenon
  <2> QED BY <2>1, <2>2
<1>7. Piled(g, m, s, vs, x, zero)
  <2>1. g = [j \in 0 .. x |-> g[j]]
    OBVIOUS
  <2> HIDE DEF g
  <2> QED BY <1>6, <2>1 DEF Piled
<1> QED BY <1>7

(* AppendAll gives the last of them.                                       *)
LEMMA AppendAllPiled ==
  ASSUME NEW m, NEW s, NEW vs, NEW zero, Len(vs) \in Nat
  PROVE  \E f : Piled(f, m, s, vs, Len(vs), zero) /\ AppendAll(m, s, vs, zero) = f[Len(vs)]
<1> DEFINE f == CHOOSE h : Piled(h, m, s, vs, Len(vs), zero)
<1>1. Piled(f, m, s, vs, Len(vs), zero)
  BY PiledExists
<1>2. AppendAll(m, s, vs, zero) = f[Len(vs)]
  BY Zenon DEF AppendAll, Piled
<1> HIDE DEF f
<1> QED BY <1>1, <1>2

(* append(s, vs...)                                                        *)
LEMMA AppendedAll ==
  ASSUME NEW m, Memory(m), NEW s, SliceIn(m, s), NEW vs, Len(vs) \in Nat, NEW zero
  PROVE  LET r == AppendAll(m, s, vs, zero) IN
         /\ r = [mem |-> r.mem, val |-> r.val]
         /\ Appended(m, s, r.mem, r.val, vs, Len(vs), zero)
<1>1. PICK f : Piled(f, m, s, vs, Len(vs), zero) /\ AppendAll(m, s, vs, zero) = f[Len(vs)]
  BY AppendAllPiled
<1> DEFINE Good(k) == /\ f[k] = [mem |-> f[k].mem, val |-> f[k].val]
                      /\ Appended(m, s, f[k].mem, f[k].val, vs, k, zero)
           Bad == {k \in 0 .. Len(vs) : ~Good(k)}
<1>2. SUFFICES ASSUME Bad # {} PROVE FALSE
  <2>1. Len(vs) \in 0 .. Len(vs)
    OBVIOUS
  <2> QED BY <1>1, <1>2, <2>1
<1>3. PICK x \in Bad : \A y \in Bad : x <= y
  <2>1. Bad \subseteq Nat
    OBVIOUS
  <2> HIDE DEF Bad
  <2> QED BY <1>2, <2>1, LeastNatural
<1>4. x \in 0 .. Len(vs) /\ x \in Nat /\ ~Good(x)
  BY <1>3
<1> HIDE DEF Good
<1>5. CASE x = 0
  <2>1. f[0] = [mem |-> m, val |-> s]
    BY <1>1, <1>4, <1>5, Zenon DEF Piled
  <2>2. Appended(m, s, m, s, vs, 0, zero)
    <3>1. Cap(m, s) \in Nat /\ s.len \in Nat /\ Len(m) \in Nat /\ s.len + 0 = s.len
      BY DEF Memory, Listed, SliceIn, Cap
    <3>2. Kept(m, m, {s.buf})
      BY KeptAsIs
    <3>3. \A i \in 1 .. 0 : m[s.buf][s.len + i] = vs[i]
      OBVIOUS
    <3> QED BY <3>1, <3>2, <3>3, Zenon DEF Appended, Longer
  <2> QED BY <1>4, <1>5, <2>1, <2>2 DEF Good
<1>6. CASE x # 0
  <2>1. x - 1 \in 0 .. Len(vs) /\ x - 1 \in Nat /\ ~(x <= x - 1) /\ (x - 1) + 1 = x
    BY <1>4, <1>6
  <2>2. Good(x - 1)
    BY <1>3, <2>1
  <2> DEFINE t == f[x - 1].mem
             q == f[x - 1].val
  <2>3. f[x] = AppendTo(t, q, vs[x], zero)
    BY <1>1, <1>4, <1>6, Zenon DEF Piled
  <2>4. Appended(m, s, t, q, vs, x - 1, zero)
    BY <2>2 DEF Good
  <2>5. Memory(t) /\ SliceIn(t, q)
    BY <2>4 DEF Appended, Longer, Kept
  <2> HIDE DEF t, q
  <2> DEFINE r == AppendTo(t, q, vs[x], zero)
  <2>6. /\ r = [mem |-> r.mem, val |-> r.val] /\ r.val.buf # 0
        /\ Appended(t, q, r.mem, r.val, <<vs[x]>>, 1, zero)
    BY <2>5, AppendedOne
  <2> HIDE DEF r
  <2>7. Appended(m, s, r.mem, r.val, vs, (x - 1) + 1, zero)
    <3>1. vs[x] = vs[(x - 1) + 1]
      BY <2>1
    <3> QED BY <2>1, <2>4, <2>6, <3>1, AppendedMore
  <2>8. Good(x)
    BY <2>1, <2>3, <2>6, <2>7 DEF Good, r
  <2> QED BY <1>4, <2>8
<1> QED BY <1>5, <1>6

(* The slice behind a pointer holds k cells now, the new ones fill; nothing *)
(* else changed than its buffer and the cell of its header.                *)
Lengthened(m, t, p, k, fill, zero) ==
  LET s == Load(m, p)
      r == Load(t, p)
  IN  /\ Kept(m, t, {p.buf, s.buf}) /\ SliceIn(t, r) /\ r.len = k /\ s.len <= k
      /\ \A j \in 1 .. Len(m[p.buf]) : j # p.i => t[p.buf][j] = m[p.buf][j]
      /\ r.buf = s.buf \/ r.buf \in Len(m) + 1 .. Len(t)
      /\ \A i \in 1 .. s.len : t[r.buf][i] = m[s.buf][i]
      /\ \A i \in s.len + 1 .. k : t[r.buf][i] = fill
      /\ \A i \in k + 1 .. Cap(t, r) :
           t[r.buf][i] = zero \/ (r.buf = s.buf /\ t[r.buf][i] = m[s.buf][i])

(* A pointer to a slice of another buffer.                                 *)
Holds(m, p) == PointsIn(m, p) /\ SliceIn(m, Load(m, p)) /\ Load(m, p).buf # p.buf

(* Nothing is done.                                                        *)
LEMMA LengthenedNot ==
  ASSUME NEW m, Memory(m), NEW p, Holds(m, p), NEW fill, NEW zero
  PROVE  Lengthened(m, m, p, Load(m, p).len, fill, zero)
<1> DEFINE s == Load(m, p)
<1>1. SliceIn(m, s) /\ Kept(m, m, {p.buf, s.buf})
  BY KeptAsIs DEF Holds
<1>2. s.len \in Nat
  <2>1. Cap(m, s) \in Nat
    BY <1>1 DEF Memory, Listed, SliceIn, Cap
  <2> QED BY <1>1, <2>1 DEF SliceIn
<1> HIDE DEF s
<1>3. s.len <= s.len /\ \A i \in s.len + 1 .. s.len : FALSE
  BY <1>2
<1>4. s = Load(m, p)
  BY DEF s
<1> QED BY <1>1, <1>3, <1>4, Zenon DEF Lengthened

(* A longer slice is stored.                                               *)
LEMMA LongerStored ==
  ASSUME NEW m, Memory(m), NEW p, Holds(m, p), NEW t, NEW r, NEW vs, NEW k \in Nat, NEW fill, NEW zero,
         Longer(m, Load(m, p), t, r, vs, k, zero), \A i \in 1 .. k : vs[i] = fill
  PROVE  Lengthened(m, Save(t, p, r), p, Load(m, p).len + k, fill, zero)
<1> DEFINE s == Load(m, p)
           u == Save(t, p, r)
<1>1. /\ p.buf \in 1 .. Len(m) /\ p.i \in 1 .. Len(m[p.buf])
      /\ SliceIn(m, s) /\ s.buf # p.buf /\ Len(m) \in Nat
  BY DEF Holds, PointsIn, Memory, Listed
<1>2. s.len \in Nat /\ s.buf \in 0 .. Len(m)
  <2>1. Cap(m, s) \in Nat
    BY <1>1 DEF Memory, Listed, SliceIn, Cap
  <2> QED BY <1>1, <2>1 DEF SliceIn
<1>3. /\ Kept(m, t, {s.buf}) /\ SliceIn(t, r) /\ r.len = s.len + k
      /\ r.buf = s.buf \/ r.buf \in Len(m) + 1 .. Len(t)
      /\ \A i \in 1 .. s.len : t[r.buf][i] = m[s.buf][i]
      /\ \A i \in 1 .. k : t[r.buf][s.len + i] = vs[i]
      /\ \A i \in s.len + k + 1 .. Cap(t, r) :
           t[r.buf][i] = zero \/ (r.buf = s.buf /\ t[r.buf][i] = m[s.buf][i])
  BY Zenon DEF Longer
<1> HIDE DEF s
<1>4. Memory(t) /\ Len(t) >= Len(m) /\ Len(t) \in Nat /\ t[p.buf] = m[p.buf]
  <2>1. Memory(t) /\ Len(t) >= Len(m) /\ t[p.buf] = m[p.buf]
    BY <1>1, <1>3 DEF Kept
  <2> QED BY <2>1 DEF Memory, Listed
<1>5. OneCell(t, u, p.buf, p.i, r)
  <2>1. PointsIn(t, p)
    BY <1>1, <1>4 DEF PointsIn
  <2> QED BY <1>4, <2>1, Saved
<1> HIDE DEF u
<1>6. /\ Kept(t, u, {p.buf}) /\ Len(u) = Len(t) /\ u[p.buf][p.i] = r
      /\ \A j \in 1 .. Len(m[p.buf]) : j # p.i => u[p.buf][j] = m[p.buf][j]
  BY <1>4, <1>5, Zenon DEF OneCell
<1>7. Kept(m, u, {p.buf, s.buf})
  <2>1. Kept(m, u, {s.buf} \cup {p.buf})
    BY <1>1, <1>3, <1>6, KeptTwice
  <2>2. {s.buf} \cup {p.buf} = {p.buf, s.buf}
    OBVIOUS
  <2> QED BY <2>1, <2>2
<1>8. r.buf \in 0 .. Len(t) /\ r.buf # p.buf
  BY <1>1, <1>3, <1>4 DEF SliceIn
<1>9. r.buf # 0 => u[r.buf] = t[r.buf]
  BY <1>6, <1>8, <1>4 DEF Kept
<1>10. Cap(u, r) = Cap(t, r) /\ SliceIn(u, r)
  <2>1. Cap(u, r) = Cap(t, r)
    BY <1>9 DEF Cap
  <2> QED BY <1>3, <1>6, <2>1 DEF SliceIn
<1>11. \A i : i \in 1 .. Cap(t, r) => u[r.buf][i] = t[r.buf][i]
  <2>1. CASE r.buf = 0
    BY <2>1 DEF Cap
  <2>2. CASE r.buf # 0
    BY <2>2, <1>9
  <2> QED BY <2>1, <2>2
<1>12. r.len \in 0 .. Cap(t, r) /\ Cap(t, r) \in Nat
  <2>1. Cap(t, r) \in Nat
    BY <1>4, <1>8 DEF Memory, Listed, Cap
  <2> QED BY <1>3, <2>1 DEF SliceIn
<1>13. \A i \in 1 .. s.len : u[r.buf][i] = m[s.buf][i]
  <2>1. \A i \in 1 .. s.len : i \in 1 .. Cap(t, r)
    BY <1>2, <1>3, <1>12
  <2> QED BY <1>3, <1>11, <2>1, Zenon
<1>14. \A i \in s.len + 1 .. s.len + k : u[r.buf][i] = fill
  <2> SUFFICES ASSUME NEW i \in s.len + 1 .. s.len + k PROVE u[r.buf][i] = fill
    OBVIOUS
  <2>1. i - s.len \in 1 .. k /\ s.len + (i - s.len) = i /\ i \in 1 .. Cap(t, r)
    BY <1>2, <1>3, <1>12
  <2>2. t[r.buf][s.len + (i - s.len)] = vs[i - s.len] /\ vs[i - s.len] = fill
    BY <1>3, <2>1, Zenon
  <2> QED BY <1>11, <2>1, <2>2
<1>15. \A i \in s.len + k + 1 .. Cap(u, r) :
          u[r.buf][i] = zero \/ (r.buf = s.buf /\ u[r.buf][i] = m[s.buf][i])
  <2>1. \A i \in s.len + k + 1 .. Cap(u, r) : i \in 1 .. Cap(t, r)
    BY <1>2, <1>10, <1>12
  <2> QED BY <1>3, <1>10, <1>11, <2>1, Zenon
<1>16. s.len <= s.len + k /\ (r.buf = s.buf \/ r.buf \in Len(m) + 1 .. Len(u))
  BY <1>2, <1>3, <1>6
<1>17. Load(u, p) = r /\ Load(m, p) = s
  BY <1>6, Zenon DEF Load, s
<1> QED BY <1>3, <1>6, <1>7, <1>10, <1>13, <1>14, <1>15, <1>16, <1>17, Zenon DEF Lengthened, u

(* Nothing is longer by a copy with more room.                             *)
LEMMA CopiedLonger ==
  ASSUME NEW m, Memory(m), NEW s, SliceIn(m, s), NEW count \in Nat, s.len <= count, NEW zero, NEW vs
  PROVE  LET r == Made(m, Contents(m, s), count, zero) IN Longer(m, s, r.mem, r.val, vs, 0, zero)
<1> DEFINE c == Contents(m, s)
           r == Made(m, c, count, zero)
<1>1. Listed(c) /\ Len(c) = s.len /\ \A i \in 1 .. s.len : c[i] = m[s.buf][i]
  BY ContentsListed
<1>2. Len(m) \in Nat /\ s.len \in Nat
  BY <1>1 DEF Memory, Listed
<1> HIDE DEF c
<1>3. /\ Kept(m, r.mem, {}) /\ Len(r.mem) = Len(m) + 1
      /\ r.val = [buf |-> Len(m) + 1, len |-> Len(c)]
      /\ Len(r.mem[Len(m) + 1]) = count
      /\ \A i \in 1 .. Len(c) : r.mem[Len(m) + 1][i] = c[i]
      /\ \A i \in Len(c) + 1 .. count : r.mem[Len(m) + 1][i] = zero
  BY <1>1, MadeNew
<1> HIDE DEF r
<1>4. r.val.buf = Len(m) + 1 /\ r.val.len = s.len /\ r.val = [buf |-> r.val.buf, len |-> r.val.len]
  BY <1>1, <1>3
<1>5. Cap(r.mem, r.val) = count /\ r.val.buf \in Len(m) + 1 .. Len(r.mem)
  BY <1>2, <1>3, <1>4 DEF Cap
<1>6. SliceIn(r.mem, r.val)
  BY <1>2, <1>3, <1>4, <1>5 DEF SliceIn
<1>7. Kept(m, r.mem, {s.buf})
  BY <1>3, KeptLess
<1>8. s.len + 0 = s.len /\ \A i \in 1 .. 0 : r.mem[r.val.buf][s.len + i] = vs[i]
  BY <1>2
<1> QED BY <1>1, <1>3, <1>4, <1>5, <1>6, <1>7, <1>8, Zenon DEF Longer, r, c

(* What is lengthened twice.                                               *)
LEMMA LengthenedTwice ==
  ASSUME NEW m, Memory(m), NEW p, Holds(m, p), NEW t, NEW u, NEW k, NEW fill, NEW zero,
         Lengthened(m, t, p, Load(m, p).len, fill, zero), Lengthened(t, u, p, k, fill, zero)
  PROVE  Lengthened(m, u, p, k, fill, zero)
<1> DEFINE s == Load(m, p)
           r == Load(t, p)
           q == Load(u, p)
<1>1. /\ p.buf \in 1 .. Len(m) /\ p.i \in 1 .. Len(m[p.buf])
      /\ SliceIn(m, s) /\ s.buf # p.buf /\ Len(m) \in Nat
  BY DEF Holds, PointsIn, Memory, Listed
<1>2. s.len \in Nat /\ s.buf \in 0 .. Len(m)
  <2>1. Cap(m, s) \in Nat
    BY <1>1 DEF Memory, Listed, SliceIn, Cap
  <2> QED BY <1>1, <2>1 DEF SliceIn
<1>3. /\ Kept(m, t, {p.buf, s.buf}) /\ SliceIn(t, r) /\ r.len = s.len
      /\ \A j \in 1 .. Len(m[p.buf]) : j # p.i => t[p.buf][j] = m[p.buf][j]
      /\ r.buf = s.buf \/ r.buf \in Len(m) + 1 .. Len(t)
      /\ \A i \in 1 .. s.len : t[r.buf][i] = m[s.buf][i]
      /\ \A i \in s.len + 1 .. Cap(t, r) :
           t[r.buf][i] = zero \/ (r.buf = s.buf /\ t[r.buf][i] = m[s.buf][i])
  BY Zenon DEF Lengthened
<1>4. /\ Kept(t, u, {p.buf, r.buf}) /\ SliceIn(u, q) /\ q.len = k /\ r.len <= k
      /\ \A j \in 1 .. Len(t[p.buf]) : j # p.i => u[p.buf][j] = t[p.buf][j]
      /\ q.buf = r.buf \/ q.buf \in Len(t) + 1 .. Len(u)
      /\ \A i \in 1 .. r.len : u[q.buf][i] = t[r.buf][i]
      /\ \A i \in r.len + 1 .. k : u[q.buf][i] = fill
      /\ \A i \in k + 1 .. Cap(u, q) :
           u[q.buf][i] = zero \/ (q.buf = r.buf /\ u[q.buf][i] = t[r.buf][i])
  BY Zenon DEF Lengthened
<1> HIDE DEF s, r, q
<1>5. /\ Len(t) \in Nat /\ Len(t) >= Len(m) /\ Len(u) \in Nat /\ Len(u) >= Len(t)
      /\ Len(t[p.buf]) = Len(m[p.buf]) /\ Memory(t) /\ Memory(u)
  BY <1>1, <1>3, <1>4 DEF Kept, Memory, Listed
<1>6. Kept(m, u, {p.buf, s.buf})
  <2>1. Kept(m, u, {p.buf, s.buf} \cup {p.buf, r.buf})
    BY <1>1, <1>3, <1>4, KeptTwice
  <2>2. \A b \in 1 .. Len(m) : b \in {p.buf, s.buf} \cup {p.buf, r.buf} => b \in {p.buf, s.buf}
    BY <1>1, <1>3, <1>5
  <2> QED BY <2>1, <2>2, KeptLess
<1>7. q.buf = s.buf \/ q.buf \in Len(m) + 1 .. Len(u)
  BY <1>1, <1>3, <1>4, <1>5
<1>8. \A j \in 1 .. Len(m[p.buf]) : j # p.i => u[p.buf][j] = m[p.buf][j]
  BY <1>3, <1>4, <1>5
<1>9. \A i \in k + 1 .. Cap(u, q) :
        u[q.buf][i] = zero \/ (q.buf = s.buf /\ u[q.buf][i] = m[s.buf][i])
  <2> SUFFICES ASSUME NEW i \in k + 1 .. Cap(u, q), u[q.buf][i] # zero
               PROVE  q.buf = s.buf /\ u[q.buf][i] = m[s.buf][i]
    OBVIOUS
  <2>1. q.buf = r.buf /\ u[q.buf][i] = t[r.buf][i]
    BY <1>4
  <2>2. i \in s.len + 1 .. Cap(t, r)
    <3>1. q.buf # 0 /\ r.buf \in 1 .. Len(t)
      <4>1. r.buf \in 0 .. Len(t) /\ k \in 0 .. Cap(u, q)
        BY <1>3, <1>4 DEF SliceIn
      <4>2. ASSUME q.buf = 0 PROVE FALSE
        <5>1. Cap(u, q) = 0
          BY <4>2 DEF Cap
        <5> QED BY <4>1, <5>1
      <4> QED BY <1>5, <2>1, <4>1, <4>2
    <3>2. Len(u[r.buf]) = Len(t[r.buf])
      BY <1>4, <3>1 DEF Kept
    <3>3. Cap(u, q) = Cap(t, r) /\ Cap(t, r) \in Nat
      <4>1. Cap(u, q) = Cap(t, r) /\ Cap(t, r) = Len(t[r.buf])
        BY <2>1, <3>1, <3>2 DEF Cap
      <4> QED BY <1>5, <3>1, <4>1 DEF Memory, Listed
    <3>4. k \in Nat
      <4>1. Cap(u, q) \in Nat
        BY <3>3
      <4> QED BY <1>4, <4>1 DEF SliceIn
    <3> QED BY <1>2, <1>3, <1>4, <3>3, <3>4
  <2>3. r.buf = s.buf /\ t[r.buf][i] = m[s.buf][i]
    BY <1>3, <2>1, <2>2
  <2> QED BY <2>1, <2>3
<1>10. /\ \A i \in 1 .. s.len : u[q.buf][i] = m[s.buf][i]
       /\ \A i \in s.len + 1 .. k : u[q.buf][i] = fill
       /\ s.len <= k
  BY <1>3, <1>4, Zenon
<1> QED BY <1>4, <1>6, <1>7, <1>8, <1>9, <1>10, Zenon DEF Lengthened, s, q

(* A pointer stays one.                                                    *)
LEMMA LengthenedHolds ==
  ASSUME NEW m, Memory(m), NEW p, Holds(m, p), NEW t, NEW k, NEW fill, NEW zero,
         Lengthened(m, t, p, k, fill, zero)
  PROVE  Memory(t) /\ Holds(t, p) /\ Load(t, p).len = k /\ Load(m, p).len <= k
<1> DEFINE s == Load(m, p)
           r == Load(t, p)
<1>1. /\ p.buf \in 1 .. Len(m) /\ p.i \in 1 .. Len(m[p.buf]) /\ s.buf # p.buf /\ Len(m) \in Nat
  BY DEF Holds, PointsIn, Memory, Listed
<1>2. /\ Kept(m, t, {p.buf, s.buf}) /\ SliceIn(t, r) /\ r.len = k /\ s.len <= k
      /\ r.buf = s.buf \/ r.buf \in Len(m) + 1 .. Len(t)
  BY Zenon DEF Lengthened
<1> HIDE DEF s
<1>3. Memory(t) /\ Len(t) >= Len(m) /\ Len(t) \in Nat /\ Len(t[p.buf]) = Len(m[p.buf])
  BY <1>1, <1>2 DEF Kept, Memory, Listed
<1> HIDE DEF r
<1>4. r.buf # p.buf /\ PointsIn(t, p)
  BY <1>1, <1>2, <1>3 DEF PointsIn
<1> QED BY <1>2, <1>3, <1>4 DEF Holds, s, r

(* ReserveRows leaves the slice as it is, or gives it room.                *)
LEMMA Reserved ==
  ASSUME NEW m, Memory(m), NEW p, Holds(m, p), NEW id \in Nat, NEW count \in Int, NEW zero, NEW fill
  PROVE  Lengthened(m, ReserveRows(m, p, id, count, zero), p, Load(m, p).len, fill, zero)
<1> DEFINE s == Load(m, p)
<1>1. CASE id + 1 > Cap(m, s) /\ id + 1 <= count /\ count <= ReserveRowsMax
  <2> DEFINE r == Made(m, Contents(m, s), count, zero)
  <2>1. SliceIn(m, s) /\ count \in Nat /\ s.len <= count /\ s.len \in Nat
    <3>1. SliceIn(m, s) /\ Cap(m, s) \in Nat
      BY DEF Holds, Memory, Listed, SliceIn, Cap
    <3> QED BY <1>1, <3>1 DEF SliceIn
  <2>2. Longer(m, s, r.mem, r.val, <<>>, 0, zero)
    <3> HIDE DEF s
    <3> QED BY <2>1, CopiedLonger
  <2>3. ReserveRows(m, p, id, count, zero) = Save(r.mem, p, r.val)
    BY <1>1, Zenon DEF ReserveRows
  <2> HIDE DEF r
  <2>4. Lengthened(m, Save(r.mem, p, r.val), p, s.len + 0, fill, zero)
    <3>1. \A i \in 1 .. 0 : <<>>[i] = fill
      OBVIOUS
    <3> QED BY <2>2, <3>1, LongerStored
  <2>5. s.len + 0 = s.len
    BY <2>1
  <2> QED BY <2>3, <2>4, <2>5
<1>2. CASE ~(id + 1 > Cap(m, s) /\ id + 1 <= count /\ count <= ReserveRowsMax)
  <2>1. ReserveRows(m, p, id, count, zero) = m
    BY <1>2, Zenon DEF ReserveRows
  <2> QED BY <2>1, LengthenedNot
<1> QED BY <1>1, <1>2

(* The length that holds id.                                               *)
Reaching(len, id) == IF len > id THEN len ELSE id + 1

(* Filled makes the slice long enough for id.                              *)
LEMMA FilledUp ==
  ASSUME NEW m, Memory(m), NEW p, Holds(m, p), NEW id \in Nat, NEW zero, NEW fill
  PROVE  Lengthened(m, Filled(m, p, id, fill, zero), p, Reaching(Load(m, p).len, id), fill, zero)
<1> DEFINE s == Load(m, p)
<1>1. SliceIn(m, s) /\ s.len \in Nat
  <2>1. SliceIn(m, s) /\ Cap(m, s) \in Nat
    BY DEF Holds, Memory, Listed, SliceIn, Cap
  <2> QED BY <2>1 DEF SliceIn
<1>2. CASE s.len > id
  <2>1. Filled(m, p, id, fill, zero) = m /\ Reaching(s.len, id) = s.len
    BY <1>2, Zenon DEF Filled, Reaching
  <2> QED BY <2>1, LengthenedNot
<1>3. CASE ~(s.len > id)
  <2> DEFINE k == id + 1 - s.len
             vs == [i \in 1 .. k |-> fill]
             r == AppendAll(m, s, vs, zero)
  <2>1. k \in Nat /\ s.len + k = id + 1
    BY <1>1, <1>3
  <2>2. Filled(m, p, id, fill, zero) = Save(r.mem, p, r.val) /\ Reaching(s.len, id) = id + 1
    BY <1>3, Zenon DEF Filled, Reaching
  <2> HIDE DEF k
  <2>3. Len(vs) = k /\ \A i \in 1 .. k : vs[i] = fill
    <3>1. vs = [i \in 1 .. k |-> vs[i]]
      OBVIOUS
    <3> QED BY <2>1, <3>1, TabulatedIsListed
  <2> HIDE DEF vs
  <2>4. Longer(m, s, r.mem, r.val, vs, k, zero)
    <3>1. Len(vs) \in Nat
      BY <2>1, <2>3
    <3>2. Appended(m, s, r.mem, r.val, vs, Len(vs), zero)
      <4> HIDE DEF s
      <4> QED BY <1>1, <3>1, AppendedAll
    <3> QED BY <2>3, <3>2 DEF Appended
  <2> HIDE DEF r
  <2>5. Lengthened(m, Save(r.mem, p, r.val), p, s.len + k, fill, zero)
    BY <2>1, <2>3, <2>4, LongerStored
  <2> QED BY <2>1, <2>2, <2>5
<1> QED BY <1>2, <1>3

(* The storage helpers' own growth, with the count reserved first.         *)
LEMMA ReservedAndFilled ==
  ASSUME NEW m, Memory(m), NEW p, Holds(m, p), NEW id \in Nat, NEW count \in Int, NEW zero, NEW fill
  PROVE  LET t == Filled(ReserveRows(m, p, id, count, zero), p, id, fill, zero) IN
         Lengthened(m, t, p, Reaching(Load(m, p).len, id), fill, zero)
<1> DEFINE u == ReserveRows(m, p, id, count, zero)
           t == Filled(u, p, id, fill, zero)
<1>1. Lengthened(m, u, p, Load(m, p).len, fill, zero)
  BY Reserved
<1> HIDE DEF u
<1>2. Memory(u) /\ Holds(u, p) /\ Load(u, p).len = Load(m, p).len
  BY <1>1, LengthenedHolds
<1>3. Lengthened(u, t, p, Reaching(Load(m, p).len, id), fill, zero)
  <2>1. Lengthened(u, t, p, Reaching(Load(u, p).len, id), fill, zero)
    BY <1>2, FilledUp
  <2> QED BY <1>2, <2>1
<1> HIDE DEF t
<1>4. Lengthened(m, t, p, Reaching(Load(m, p).len, id), fill, zero)
  BY <1>1, <1>3, LengthenedTwice
<1> QED BY <1>4 DEF t, u

-----------------------------------------------------------------------------
(* The headers a destination reaches.  The first buffer is one cell with    *)
(* the field's slice; for n >= 1 its cells are headers too, and for n = 2   *)
(* the cells of those.  A header's path is <<0, 0>>, <<i, 0>> or <<i, j>>.  *)
At(m, i, j) ==
  IF i = 0 THEN m[1][1]
  ELSE IF j = 0 THEN m[m[1][1].buf][i] ELSE m[m[m[1][1].buf][i].buf][j]

(* Every cell up to the capacity counts: what is past the length is stale,  *)
(* not gone.                                                               *)
In(m, n, i, j) ==
  \/ i = 0 /\ j = 0
  \/ n >= 1 /\ i \in 1 .. Cap(m, At(m, 0, 0)) /\ j = 0
  \/ n >= 2 /\ i \in 1 .. Cap(m, At(m, 0, 0)) /\ j \in 1 .. Cap(m, At(m, i, 0))

(* No two of them have the same buffer, and none has the field's own.      *)
Tree(m, n) ==
  /\ Memory(m) /\ Len(m) >= 1 /\ Len(m[1]) = 1
  /\ \A i, j : In(m, n, i, j) => SliceIn(m, At(m, i, j)) /\ At(m, i, j).buf # 1
  /\ \A i, j, k, l : In(m, n, i, j) /\ In(m, n, k, l) /\ At(m, i, j).buf # 0
       /\ At(m, i, j).buf = At(m, k, l).buf => i = k /\ j = l

(* A buffer no header has.                                                 *)
Unused(m, n, b) == \A i, j : In(m, n, i, j) => At(m, i, j).buf # b

(* The headers are where and what they were.                               *)
SameHeaders(m, t, n) ==
  \A i, j : /\ In(t, n, i, j) <=> In(m, n, i, j)
            /\ In(m, n, i, j) => At(t, i, j) = At(m, i, j)

(* A cell of a buffer.                                                     *)
Cell(m, b, i) == m[b][i]

(* The cells of a buffer that is the same.                                 *)
LEMMA SameCells == ASSUME NEW m, NEW t, NEW b, t[b] = m[b] PROVE \A i : Cell(t, b, i) = Cell(m, b, i)
BY DEF Cell

(* From a header to the next.                                              *)
LEMMA Paths ==
  ASSUME NEW m
  PROVE  /\ At(m, 0, 0) = Cell(m, 1, 1)
         /\ \A i : i # 0 => At(m, i, 0) = Cell(m, At(m, 0, 0).buf, i)
         /\ \A i, j : i # 0 /\ j # 0 => At(m, i, j) = Cell(m, At(m, i, 0).buf, j)
BY DEF At, Cell

(* A header of a tree, and what its cells are.                             *)
LEMMA TreeHas ==
  ASSUME NEW n \in 0 .. 2, NEW m, Tree(m, n), NEW i, NEW j, In(m, n, i, j)
  PROVE  /\ SliceIn(m, At(m, i, j)) /\ At(m, i, j).buf # 1 /\ Memory(m) /\ Len(m) \in Nat
         /\ At(m, i, j).buf \in 0 .. Len(m) /\ Cap(m, At(m, i, j)) \in Nat
         /\ At(m, i, j).len \in 0 .. Cap(m, At(m, i, j))
         /\ (At(m, i, j).buf = 0 => Cap(m, At(m, i, j)) = 0)
         /\ i \in Nat /\ j \in Nat
<1>1. SliceIn(m, At(m, i, j)) /\ At(m, i, j).buf # 1 /\ Memory(m) /\ Len(m) \in Nat
  BY DEF Tree, Memory, Listed
<1>2. Cap(m, At(m, i, j)) \in Nat /\ (At(m, i, j).buf = 0 => Cap(m, At(m, i, j)) = 0)
  BY <1>1 DEF Cap, SliceIn, Memory, Listed
<1>3. /\ At(m, i, j).buf \in 0 .. Len(m) /\ At(m, i, j).len \in 0 .. Cap(m, At(m, i, j))
  BY <1>1, Zenon DEF SliceIn
<1>4. i \in Nat /\ j \in Nat
  BY DEF In
<1> QED BY <1>1, <1>2, <1>3, <1>4

(* Only a header that is not nil has headers below it.                     *)
LEMMA Above ==
  ASSUME NEW n \in 0 .. 2, NEW m, NEW i, NEW j, In(m, n, i, j)
  PROVE  /\ In(m, n, 0, 0)
         /\ i # 0 => n >= 1 /\ i \in 1 .. Cap(m, At(m, 0, 0)) /\ In(m, n, i, 0) /\ At(m, 0, 0).buf # 0
         /\ j # 0 => n = 2 /\ i # 0 /\ j \in 1 .. Cap(m, At(m, i, 0)) /\ At(m, i, 0).buf # 0
<1>1. i = 0 => j = 0
  BY DEF In
<1>2. ASSUME NEW a, Cap(m, a) # 0 PROVE a.buf # 0
  BY <1>2 DEF Cap
<1>3. i # 0 => n >= 1 /\ i \in 1 .. Cap(m, At(m, 0, 0)) /\ In(m, n, i, 0) /\ At(m, 0, 0).buf # 0
  <2> SUFFICES ASSUME i # 0 PROVE n >= 1 /\ i \in 1 .. Cap(m, At(m, 0, 0)) /\ In(m, n, i, 0) /\ At(m, 0, 0).buf # 0
    OBVIOUS
  <2>1. n >= 1 /\ i \in 1 .. Cap(m, At(m, 0, 0))
    BY DEF In
  <2>2. Cap(m, At(m, 0, 0)) # 0
    BY <2>1
  <2> QED BY <1>2, <2>1, <2>2 DEF In
<1>4. j # 0 => n = 2 /\ i # 0 /\ j \in 1 .. Cap(m, At(m, i, 0)) /\ At(m, i, 0).buf # 0
  <2> SUFFICES ASSUME j # 0 PROVE n = 2 /\ i # 0 /\ j \in 1 .. Cap(m, At(m, i, 0)) /\ At(m, i, 0).buf # 0
    OBVIOUS
  <2>1. n = 2 /\ j \in 1 .. Cap(m, At(m, i, 0)) /\ i # 0
    BY <1>1 DEF In
  <2>2. Cap(m, At(m, i, 0)) # 0
    BY <2>1
  <2> QED BY <1>2, <2>1, <2>2
<1> QED BY <1>3, <1>4 DEF In

(* Two headers with one buffer are one header.                             *)
LEMMA TreeOnly ==
  ASSUME NEW n, NEW m, Tree(m, n), NEW i, NEW j, NEW k, NEW l, In(m, n, i, j), In(m, n, k, l),
         At(m, i, j).buf # 0, At(m, i, j).buf = At(m, k, l).buf
  PROVE  i = k /\ j = l
BY Zenon DEF Tree

(* A tree stays one when each header is nil, has the buffer it had, or has  *)
(* one no other has.                                                       *)
LEMMA TreeStep ==
  ASSUME NEW n \in 0 .. 2, NEW m, Tree(m, n), NEW t, Memory(t), Len(t) >= 1, Len(t[1]) = 1,
         \A i, j : In(t, n, i, j) =>
           /\ SliceIn(t, At(t, i, j)) /\ At(t, i, j).buf # 1
           /\ \/ At(t, i, j).buf = 0
              \/ In(m, n, i, j) /\ At(t, i, j).buf = At(m, i, j).buf
              \/ /\ Unused(m, n, At(t, i, j).buf)
                 /\ \A k, l : In(t, n, k, l) /\ At(t, k, l).buf = At(t, i, j).buf => k = i /\ l = j
  PROVE  Tree(t, n)
<1>1. ASSUME NEW i, NEW j, NEW k, NEW l, In(t, n, i, j), In(t, n, k, l),
             At(t, i, j).buf # 0, At(t, i, j).buf = At(t, k, l).buf
      PROVE  i = k /\ j = l
  <2>1. CASE In(m, n, i, j) /\ At(t, i, j).buf = At(m, i, j).buf
    <3>1. CASE In(m, n, k, l) /\ At(t, k, l).buf = At(m, k, l).buf
      BY <1>1, <2>1, <3>1 DEF Tree
    <3>2. CASE \A a, b : In(t, n, a, b) /\ At(t, a, b).buf = At(t, k, l).buf => a = k /\ b = l
      BY <1>1, <3>2
    <3> QED BY <1>1, <3>1, <3>2
  <2>2. CASE \A a, b : In(t, n, a, b) /\ At(t, a, b).buf = At(t, i, j).buf => a = i /\ b = j
    BY <1>1, <2>2
  <2> QED BY <1>1, <2>1, <2>2
<1>2. \A i, j : In(t, n, i, j) => SliceIn(t, At(t, i, j)) /\ At(t, i, j).buf # 1
  BY Zenon
<1> QED BY <1>1, <1>2, Zenon DEF Tree

(* A slice is in the memory still.                                         *)
LEMMA KeptSlice ==
  ASSUME NEW m, Memory(m), NEW s, SliceIn(m, s), NEW t, NEW W, Kept(m, t, W)
  PROVE  SliceIn(t, s) /\ Cap(t, s) = Cap(m, s)
<1>1. Len(m) \in Nat /\ Len(t) \in Nat /\ Len(t) >= Len(m) /\ s.buf \in 0 .. Len(m)
  BY DEF Kept, Memory, Listed, SliceIn
<1>2. Cap(t, s) = Cap(m, s)
  BY <1>1 DEF Kept, Cap
<1> QED BY <1>1, <1>2 DEF SliceIn

(* What changes no buffer with headers changes no header.                  *)
LEMMA ElsewhereSame ==
  ASSUME NEW n \in 0 .. 2, NEW m, Tree(m, n), NEW t, NEW W, Kept(m, t, W), 1 \notin W,
         \A i, j : In(m, n, i, j) /\ (IF i = 0 THEN n >= 1 ELSE n = 2 /\ j = 0) /\ At(m, i, j).buf # 0
           => At(m, i, j).buf \notin W
  PROVE  SameHeaders(m, t, n)
<1>1. Memory(m) /\ Len(m) \in Nat /\ Len(m) >= 1
  BY DEF Tree, Memory, Listed
<1>2. At(t, 0, 0) = At(m, 0, 0) /\ In(m, n, 0, 0) /\ In(t, n, 0, 0)
  <2>1. t[1] = m[1]
    BY <1>1 DEF Kept
  <2> QED BY <2>1, Paths, SameCells DEF In
<1>3. Cap(t, At(t, 0, 0)) = Cap(m, At(m, 0, 0))
  BY <1>1, <1>2, TreeHas, KeptSlice
<1>4. ASSUME NEW i \in 1 .. Cap(m, At(m, 0, 0)), n >= 1
      PROVE  At(t, i, 0) = At(m, i, 0) /\ In(m, n, i, 0) /\ Cap(t, At(t, i, 0)) = Cap(m, At(m, i, 0))
  <2>1. In(m, n, i, 0) /\ i # 0
    BY <1>2, <1>4, TreeHas DEF In
  <2>2. At(m, 0, 0).buf \in 1 .. Len(m) /\ At(m, 0, 0).buf \notin W
    BY <1>2, <1>4, <2>1, Above, TreeHas
  <2>3. t[At(m, 0, 0).buf] = m[At(m, 0, 0).buf]
    BY <2>2 DEF Kept
  <2>4. At(t, i, 0) = At(m, i, 0)
    BY <1>2, <2>1, <2>3, Paths, SameCells
  <2>5. Cap(t, At(m, i, 0)) = Cap(m, At(m, i, 0))
    BY <1>1, <2>1, TreeHas, KeptSlice
  <2> QED BY <2>1, <2>4, <2>5
<1>5. ASSUME NEW i \in 1 .. Cap(m, At(m, 0, 0)), n = 2, NEW j \in 1 .. Cap(m, At(m, i, 0))
      PROVE  At(t, i, j) = At(m, i, j)
  <2>1. In(m, n, i, 0) /\ At(t, i, 0) = At(m, i, 0) /\ n >= 1
    BY <1>4, <1>5
  <2>2. In(m, n, i, j) /\ i # 0 /\ j # 0
    BY <1>2, <1>5, <2>1, TreeHas DEF In
  <2>3. At(m, i, 0).buf \in 1 .. Len(m) /\ At(m, i, 0).buf \notin W
    <3>1. At(m, i, 0).buf # 0
      BY <2>2, Above
    <3>2. At(m, i, 0).buf \in 0 .. Len(m)
      BY <2>1, TreeHas
    <3> QED BY <1>1, <1>5, <2>1, <2>2, <3>1, <3>2
  <2>4. t[At(m, i, 0).buf] = m[At(m, i, 0).buf]
    BY <2>3 DEF Kept
  <2>5. Cell(t, At(m, i, 0).buf, j) = Cell(m, At(m, i, 0).buf, j)
    BY <2>4 DEF Cell
  <2>6. At(t, i, j) = Cell(t, At(t, i, 0).buf, j)
    BY <2>2, Paths
  <2>7. At(m, i, j) = Cell(m, At(m, i, 0).buf, j)
    BY <2>2, Paths
  <2> QED BY <2>1, <2>5, <2>6, <2>7, Zenon
<1>6. ASSUME NEW i, NEW j PROVE In(t, n, i, j) <=> In(m, n, i, j)
  <2>1. n >= 2 => n >= 1
    OBVIOUS
  <2> QED BY <1>3, <1>4, <2>1, Zenon DEF In
<1>7. ASSUME NEW i, NEW j, In(m, n, i, j) PROVE At(t, i, j) = At(m, i, j)
  <2>1. CASE i = 0 /\ j = 0
    BY <1>2, <2>1
  <2>2. CASE n >= 1 /\ i \in 1 .. Cap(m, At(m, 0, 0)) /\ j = 0
    BY <1>4, <2>2
  <2>3. CASE n >= 2 /\ i \in 1 .. Cap(m, At(m, 0, 0)) /\ j \in 1 .. Cap(m, At(m, i, 0))
    BY <1>5, <2>3
  <2> QED BY <1>7, <2>1, <2>2, <2>3 DEF In
<1> QED BY <1>6, <1>7 DEF SameHeaders

(* The same headers make the same tree.                                    *)
LEMMA SameHeadersTree ==
  ASSUME NEW n \in 0 .. 2, NEW m, Tree(m, n), NEW t, NEW W, Kept(m, t, W), SameHeaders(m, t, n)
  PROVE  Tree(t, n) /\ \A b : Unused(m, n, b) => Unused(t, n, b)
<1>1. Memory(t) /\ Len(t) >= 1 /\ Len(t[1]) = 1 /\ Memory(m)
  BY DEF Tree, Memory, Listed, Kept
<1>2. ASSUME NEW i, NEW j, In(t, n, i, j)
      PROVE  /\ SliceIn(t, At(t, i, j)) /\ At(t, i, j).buf # 1
             /\ In(m, n, i, j) /\ At(t, i, j) = At(m, i, j)
  <2>1. In(m, n, i, j) /\ At(t, i, j) = At(m, i, j)
    BY <1>2 DEF SameHeaders
  <2>2. SliceIn(m, At(m, i, j)) /\ At(m, i, j).buf # 1
    BY <2>1 DEF Tree
  <2>3. SliceIn(t, At(m, i, j))
    BY <1>1, <2>2, KeptSlice
  <2> QED BY <2>1, <2>2, <2>3
<1>3. Tree(t, n)
  BY <1>1, <1>2, TreeStep
<1> QED BY <1>2, <1>3 DEF Unused

(* The cell of a header.                                                   *)
LEMMA CellPath ==
  ASSUME NEW m, NEW i, NEW j, i # 0, j # 0 PROVE At(m, i, j) = Cell(m, At(m, i, 0).buf, j)
BY Paths
(* The header of a row is a cell of the field's buffer.                    *)
LEMMA RowPath ==
  ASSUME NEW m, NEW i, i # 0 PROVE At(m, i, 0) = Cell(m, At(m, 0, 0).buf, i)
BY Paths

(* The pointer to the field's slice, or to a row's.                        *)
PtrTo(m, a) == IF a = 0 THEN [buf |-> 1, i |-> 1] ELSE [buf |-> At(m, 0, 0).buf, i |-> a]

(* The pointer to a header of the tree points to it.                       *)
LEMMA PtrToHolds ==
  ASSUME NEW n \in 0 .. 2, NEW m, Tree(m, n), NEW a, In(m, n, a, 0)
  PROVE  /\ Holds(m, PtrTo(m, a)) /\ Load(m, PtrTo(m, a)) = At(m, a, 0)
         /\ PtrTo(m, a).buf \in 1 .. Len(m) /\ At(m, a, 0).buf # PtrTo(m, a).buf
         /\ PtrTo(m, a).i = IF a = 0 THEN 1 ELSE a
<1>1. /\ SliceIn(m, At(m, a, 0)) /\ At(m, a, 0).buf # 1 /\ Memory(m) /\ Len(m) \in Nat
      /\ Len(m) >= 1 /\ Len(m[1]) = 1 /\ In(m, n, 0, 0)
  BY TreeHas, Above DEF Tree
<1>2. CASE a = 0
  <2>1. PtrTo(m, a) = [buf |-> 1, i |-> 1]
    BY <1>2 DEF PtrTo
  <2>2. PtrTo(m, a).buf = 1 /\ PtrTo(m, a).i = 1
    BY <2>1
  <2>3. Load(m, PtrTo(m, a)) = Cell(m, 1, 1)
    BY <2>2 DEF Load, Cell
  <2>4. Load(m, PtrTo(m, a)) = At(m, a, 0)
    BY <1>2, <2>3, Paths
  <2> QED BY <1>1, <1>2, <2>2, <2>4 DEF Holds, PointsIn
<1>3. CASE a # 0
  <2>1. PtrTo(m, a) = [buf |-> At(m, 0, 0).buf, i |-> a]
    BY <1>3 DEF PtrTo
  <2>2. PtrTo(m, a).buf = At(m, 0, 0).buf /\ PtrTo(m, a).i = a
    BY <2>1
  <2>3. Load(m, PtrTo(m, a)) = Cell(m, At(m, 0, 0).buf, a)
    BY <2>2 DEF Load, Cell
  <2>4. Load(m, PtrTo(m, a)) = At(m, a, 0)
    BY <1>3, <2>3, RowPath
  <2>5. a \in 1 .. Cap(m, At(m, 0, 0)) /\ At(m, 0, 0).buf # 0
    BY <1>3, Above
  <2>6. At(m, 0, 0).buf \in 1 .. Len(m)
    BY <1>1, <2>5, TreeHas
  <2>7. a \in 1 .. Len(m[At(m, 0, 0).buf])
    BY <2>5 DEF Cap
  <2>8. At(m, a, 0).buf # At(m, 0, 0).buf
    BY <1>1, <1>3, <2>5, Zenon DEF Tree
  <2> QED BY <1>1, <1>3, <2>2, <2>4, <2>6, <2>7, <2>8 DEF Holds, PointsIn
<1> QED BY <1>2, <1>3

(* A header of the tree has grown: every other one is new and nil, or what  *)
(* it was.                                                                 *)
Grew(m, t, n, a) ==
  /\ Tree(t, n) /\ Len(t) >= Len(m) /\ In(t, n, a, 0)
  /\ At(t, a, 0).buf = At(m, a, 0).buf \/ At(t, a, 0).buf \in Len(m) + 1 .. Len(t)
  /\ \A i, j : In(t, n, i, j) =>
       \/ At(t, i, j) = Nil
       \/ i = a /\ j = 0
       \/ In(m, n, i, j) /\ At(t, i, j) = At(m, i, j)

(* Lengthened, of the slice s that p points to and the slice r it points to *)
(* then, cell by cell.                                                     *)
LongerAt(m, t, p, s, r, k, fill, zero) ==
  /\ Kept(m, t, {p.buf, s.buf}) /\ SliceIn(t, r) /\ r.len = k /\ s.len <= k
  /\ Memory(t) /\ Len(t) >= Len(m) /\ Len(m) \in Nat /\ Len(t) \in Nat
  /\ r.buf = s.buf \/ r.buf \in Len(m) + 1 .. Len(t)
  /\ k \in 0 .. Cap(t, r) /\ Cap(t, r) \in Nat /\ s.len \in 0 .. Cap(m, s) /\ Cap(m, s) \in Nat
  /\ s.len \in Nat /\ k \in Nat
  /\ \A j \in 1 .. Len(m[p.buf]) : j # p.i => Cell(t, p.buf, j) = Cell(m, p.buf, j)
  /\ \A i \in 1 .. s.len : Cell(t, r.buf, i) = Cell(m, s.buf, i)
  /\ \A i \in s.len + 1 .. k : Cell(t, r.buf, i) = fill
  /\ \A i \in k + 1 .. Cap(t, r) :
       Cell(t, r.buf, i) = zero \/ (r.buf = s.buf /\ Cell(t, r.buf, i) = Cell(m, s.buf, i))
  /\ r.buf = s.buf => Cap(t, r) = Cap(m, s)

(* What Lengthened says, part by part.                                     *)
LEMMA LengthenedParts ==
  ASSUME NEW n \in 0 .. 2, NEW m, Tree(m, n), NEW a, In(m, n, a, 0), NEW t, NEW k, NEW fill, NEW zero,
         Lengthened(m, t, PtrTo(m, a), k, fill, zero)
  PROVE  LongerAt(m, t, PtrTo(m, a), At(m, a, 0), Load(t, PtrTo(m, a)), k, fill, zero)
<1> DEFINE s == At(m, a, 0)
           p == PtrTo(m, a)
           r == Load(t, p)
<1>1. /\ Load(m, p) = s /\ Memory(m) /\ Len(m) \in Nat /\ SliceIn(m, s)
      /\ s.len \in 0 .. Cap(m, s) /\ Cap(m, s) \in Nat /\ s.buf \in 0 .. Len(m)
  BY PtrToHolds, TreeHas
<1> HIDE DEF p, s
<1>2. /\ Kept(m, t, {p.buf, s.buf}) /\ SliceIn(t, r) /\ r.len = k /\ s.len <= k
      /\ \A j \in 1 .. Len(m[p.buf]) : j # p.i => t[p.buf][j] = m[p.buf][j]
      /\ r.buf = s.buf \/ r.buf \in Len(m) + 1 .. Len(t)
      /\ \A i \in 1 .. s.len : t[r.buf][i] = m[s.buf][i]
      /\ \A i \in s.len + 1 .. k : t[r.buf][i] = fill
      /\ \A i \in k + 1 .. Cap(t, r) :
           t[r.buf][i] = zero \/ (r.buf = s.buf /\ t[r.buf][i] = m[s.buf][i])
  BY <1>1, Zenon DEF Lengthened, p
<1> HIDE DEF r
<1>3. Memory(t) /\ Len(t) >= Len(m) /\ Len(t) \in Nat
  BY <1>2 DEF Kept, Memory, Listed
<1>4. Cap(t, r) \in Nat
  <2>1. r.buf \in 0 .. Len(t)
    BY <1>2 DEF SliceIn
  <2> QED BY <1>3, <2>1 DEF Cap, Memory, Listed
<1>5. k \in 0 .. Cap(t, r) /\ k \in Nat /\ s.len \in Nat
  <2>1. k \in 0 .. Cap(t, r)
    BY <1>2 DEF SliceIn
  <2> QED BY <1>1, <1>4, <2>1
<1>6. r.buf = s.buf => Cap(t, r) = Cap(m, s)
  <2>1. CASE s.buf = 0
    BY <2>1 DEF Cap
  <2>2. CASE s.buf # 0
    <3>1. Len(t[s.buf]) = Len(m[s.buf])
      BY <1>1, <1>2, <2>2 DEF Kept
    <3> QED BY <2>2, <3>1 DEF Cap
  <2> QED BY <2>1, <2>2
<1>7. /\ \A j \in 1 .. Len(m[p.buf]) : j # p.i => Cell(t, p.buf, j) = Cell(m, p.buf, j)
      /\ \A i \in 1 .. s.len : Cell(t, r.buf, i) = Cell(m, s.buf, i)
      /\ \A i \in s.len + 1 .. k : Cell(t, r.buf, i) = fill
      /\ \A i \in k + 1 .. Cap(t, r) :
           Cell(t, r.buf, i) = zero \/ (r.buf = s.buf /\ Cell(t, r.buf, i) = Cell(m, s.buf, i))
  BY <1>2, Zenon DEF Cell
<1>8. s = At(m, a, 0) /\ p = PtrTo(m, a) /\ r = Load(t, PtrTo(m, a))
  BY DEF s, p, r
<1> QED BY <1>1, <1>2, <1>3, <1>4, <1>5, <1>6, <1>7, <1>8, Zenon DEF LongerAt

(* A child of the grown header is nil or what it was.                      *)
LEMMA GrownChild ==
  ASSUME NEW n \in 0 .. 2, NEW m, Tree(m, n), NEW a, In(m, n, a, 0), NEW t, NEW k,
         Lengthened(m, t, PtrTo(m, a), k, Nil, Nil), NEW r, r = Load(t, PtrTo(m, a)),
         NEW i \in 1 .. Cap(t, r), Cell(t, r.buf, i) # Nil
  PROVE  i \in 1 .. Cap(m, At(m, a, 0)) /\ Cell(t, r.buf, i) = Cell(m, At(m, a, 0).buf, i)
<1> DEFINE s == At(m, a, 0)
<1>1. /\ k \in 0 .. Cap(t, r) /\ Cap(t, r) \in Nat /\ s.len \in 0 .. Cap(m, s) /\ Cap(m, s) \in Nat
      /\ s.len \in Nat /\ k \in Nat
      /\ \A c \in 1 .. s.len : Cell(t, r.buf, c) = Cell(m, s.buf, c)
      /\ \A c \in s.len + 1 .. k : Cell(t, r.buf, c) = Nil
      /\ \A c \in k + 1 .. Cap(t, r) :
           Cell(t, r.buf, c) = Nil \/ (r.buf = s.buf /\ Cell(t, r.buf, c) = Cell(m, s.buf, c))
      /\ r.buf = s.buf => Cap(t, r) = Cap(m, s)
  <2>1. LongerAt(m, t, PtrTo(m, a), s, r, k, Nil, Nil)
    BY LengthenedParts
  <2> QED BY <2>1, Zenon DEF LongerAt
<1> HIDE DEF s
<1>2. CASE i \in 1 .. s.len
  BY <1>1, <1>2 DEF s
<1>3. CASE i \in s.len + 1 .. k
  BY <1>1, <1>3
<1>4. CASE i \in k + 1 .. Cap(t, r)
  BY <1>1, <1>4 DEF s
<1>5. i \in 1 .. s.len \/ i \in s.len + 1 .. k \/ i \in k + 1 .. Cap(t, r)
  BY <1>1
<1> QED BY <1>2, <1>3, <1>4, <1>5

(* The tree around a header that grew.                                     *)
LEMMA GrewTree ==
  ASSUME NEW n \in 0 .. 2, NEW m, Tree(m, n), NEW a, In(m, n, a, 0), NEW t, NEW W, Kept(m, t, W),
         Len(t[1]) = 1, In(t, n, a, 0),
         SliceIn(t, At(t, a, 0)),
         At(t, a, 0).buf = At(m, a, 0).buf \/ At(t, a, 0).buf \in Len(m) + 1 .. Len(t),
         \A i, j : In(t, n, i, j) =>
           \/ At(t, i, j) = Nil
           \/ i = a /\ j = 0
           \/ In(m, n, i, j) /\ At(t, i, j) = At(m, i, j)
  PROVE  Grew(m, t, n, a)
<1>1. /\ Memory(t) /\ Len(t) >= 1 /\ Memory(m) /\ Len(m) \in Nat /\ Len(t) \in Nat /\ Len(t) >= Len(m)
      /\ Len(m) >= 1
  BY DEF Tree, Kept, Memory, Listed
<1>2. \A i, j : In(m, n, i, j) => At(m, i, j).buf \in 0 .. Len(m)
  BY TreeHas
<1>3. Nil.buf = 0 /\ SliceIn(t, Nil)
  <2>1. Nil.buf = 0 /\ Nil.len = 0
    BY DEF Nil
  <2> QED BY <1>1, <2>1 DEF SliceIn, Cap, Nil
<1>4. ASSUME NEW i, NEW j, In(t, n, i, j)
      PROVE  /\ SliceIn(t, At(t, i, j)) /\ At(t, i, j).buf # 1
             /\ \/ At(t, i, j).buf = 0
                \/ In(m, n, i, j) /\ At(t, i, j).buf = At(m, i, j).buf
                \/ /\ Unused(m, n, At(t, i, j).buf)
                   /\ \A k, l : In(t, n, k, l) /\ At(t, k, l).buf = At(t, i, j).buf => k = i /\ l = j
  <2>1. CASE At(t, i, j) = Nil
    BY <1>3, <2>1
  <2>2. CASE In(m, n, i, j) /\ At(t, i, j) = At(m, i, j)
    <3>1. SliceIn(m, At(m, i, j)) /\ At(m, i, j).buf # 1
      BY <2>2, TreeHas
    <3>2. SliceIn(t, At(m, i, j))
      BY <1>1, <3>1, KeptSlice
    <3> QED BY <2>2, <3>1, <3>2
  <2>3. CASE i = a /\ j = 0
    <3>1. CASE At(t, a, 0).buf = At(m, a, 0).buf
      <4>1. At(m, a, 0).buf # 1
        BY TreeHas
      <4> QED BY <2>3, <3>1, <4>1
    <3>2. CASE At(t, a, 0).buf \in Len(m) + 1 .. Len(t)
      <4>1. At(t, a, 0).buf # 1 /\ At(t, a, 0).buf # 0 /\ At(t, a, 0).buf \notin 0 .. Len(m)
        BY <1>1, <3>2
      <4>2. Unused(m, n, At(t, a, 0).buf)
        BY <1>2, <4>1 DEF Unused
      <4>3. ASSUME NEW k, NEW l, In(t, n, k, l), At(t, k, l).buf = At(t, a, 0).buf PROVE k = a /\ l = 0
        BY <1>2, <1>3, <4>1, <4>3
      <4> QED BY <2>3, <4>1, <4>2, <4>3
    <3> QED BY <3>1, <3>2
  <2> QED BY <1>4, <2>1, <2>2, <2>3
<1>5. Tree(t, n)
  BY <1>1, <1>4, TreeStep
<1> QED BY <1>1, <1>5, Zenon DEF Grew

(* The field's slice grows.                                                *)
LEMMA FieldGrew ==
  ASSUME NEW n \in 0 .. 2, NEW m, Tree(m, n), NEW t, NEW k, NEW fill, NEW zero,
         Lengthened(m, t, PtrTo(m, 0), k, fill, zero), n >= 1 => fill = Nil /\ zero = Nil
  PROVE  Grew(m, t, n, 0) /\ At(t, 0, 0) = Load(t, PtrTo(m, 0)) /\ PtrTo(t, 0) = PtrTo(m, 0)
<1> DEFINE s == At(m, 0, 0)
           r == At(t, 0, 0)
<1>1. In(m, n, 0, 0) /\ In(t, n, 0, 0)
  BY DEF In
<1>2. PtrTo(m, 0).buf = 1 /\ PtrTo(m, 0).i = 1 /\ PtrTo(t, 0) = PtrTo(m, 0)
  BY DEF PtrTo
<1>3. r = Load(t, PtrTo(m, 0))
  <2>1. Load(t, PtrTo(m, 0)) = Cell(t, 1, 1)
    BY <1>2 DEF Load, Cell
  <2> QED BY <2>1, Paths
<1>4. /\ Kept(m, t, {1, s.buf}) /\ SliceIn(t, r) /\ Memory(t) /\ Len(t) >= Len(m) /\ Len(m) \in Nat
      /\ r.buf = s.buf \/ r.buf \in Len(m) + 1 .. Len(t)
      /\ Cap(t, r) \in Nat
  <2>1. LongerAt(m, t, PtrTo(m, 0), s, r, k, fill, zero)
    BY <1>1, <1>3, LengthenedParts
  <2> QED BY <1>2, <2>1, Zenon DEF LongerAt
<1>5. s.buf # 1 /\ Len(m) >= 1 /\ Len(m[1]) = 1
  BY <1>1 DEF Tree
<1>6. Len(t[1]) = 1
  BY <1>4, <1>5 DEF Kept
<1> HIDE DEF s, r
<1>7. ASSUME n >= 1, NEW i \in 1 .. Cap(t, r), At(t, i, 0) # Nil
      PROVE  In(m, n, i, 0) /\ At(t, i, 0) = At(m, i, 0)
  <2>1. i # 0
    BY <1>4
  <2>2. At(t, i, 0) = Cell(t, r.buf, i) /\ At(m, i, 0) = Cell(m, s.buf, i)
    BY <2>1, RowPath DEF r, s
  <2>3. Lengthened(m, t, PtrTo(m, 0), k, Nil, Nil)
    BY <1>7
  <2>4. i \in 1 .. Cap(m, s) /\ Cell(t, r.buf, i) = Cell(m, s.buf, i)
    BY <1>1, <1>3, <1>7, <2>2, <2>3, GrownChild DEF s
  <2> QED BY <1>7, <2>2, <2>4 DEF In, s
<1>8. ASSUME n = 2, NEW i \in 1 .. Cap(t, r), NEW j \in 1 .. Cap(t, At(t, i, 0))
      PROVE  In(m, n, i, j) /\ At(t, i, j) = At(m, i, j)
  <2> DEFINE h == At(m, i, 0)
  <2>1. At(t, i, 0) # Nil
    <3>1. Cap(t, Nil) = 0
      BY DEF Cap, Nil
    <3> QED BY <1>8, <3>1
  <2>2. In(m, n, i, 0) /\ At(t, i, 0) = h /\ i # 0
    BY <1>4, <1>7, <1>8, <2>1
  <2>3. h.buf \in 0 .. Len(m) /\ SliceIn(m, h) /\ Memory(m) /\ h.buf # 1
    BY <2>2, TreeHas
  <2> HIDE DEF h
  <2>4. Cap(t, h) = Cap(m, h)
    BY <1>4, <2>3, KeptSlice
  <2>5. h.buf # 0 /\ j # 0
    <3>1. h.buf = 0 => Cap(t, h) = 0
      BY DEF Cap
    <3>2. Cap(m, h) \in Nat
      BY <2>2, TreeHas DEF h
    <3> QED BY <2>2, <2>4, <3>1, <3>2
  <2>6. h.buf # s.buf
    BY <1>1, <2>2, <2>5, Zenon DEF Tree, h, s
  <2>7. t[h.buf] = m[h.buf]
    BY <1>4, <2>3, <2>5, <2>6 DEF Kept
  <2>8. Cell(t, h.buf, j) = Cell(m, h.buf, j)
    BY <2>7 DEF Cell
  <2>9. At(t, i, j) = Cell(t, h.buf, j)
    BY <2>2, <2>5, CellPath
  <2>10. At(m, i, j) = Cell(m, h.buf, j)
    BY <2>2, <2>5, CellPath DEF h
  <2>11. In(m, n, i, j)
    <3>1. i \in 1 .. Cap(m, s) /\ n >= 2
      BY <1>8, <2>2, Above DEF s
    <3>2. j \in 1 .. Cap(m, h)
      BY <2>2, <2>4
    <3> QED BY <3>1, <3>2, Zenon DEF In, s, h
  <2> QED BY <2>8, <2>9, <2>10, <2>11, Zenon
<1>9. ASSUME NEW i, NEW j, In(t, n, i, j)
      PROVE  At(t, i, j) = Nil \/ (i = 0 /\ j = 0) \/ (In(m, n, i, j) /\ At(t, i, j) = At(m, i, j))
  <2>1. CASE i = 0 /\ j = 0
    BY <2>1
  <2>2. CASE n >= 1 /\ i \in 1 .. Cap(t, At(t, 0, 0)) /\ j = 0
    BY <1>7, <2>2 DEF r
  <2>3. CASE n >= 2 /\ i \in 1 .. Cap(t, At(t, 0, 0)) /\ j \in 1 .. Cap(t, At(t, i, 0))
    <3>1. n = 2
      BY <2>3
    <3> QED BY <1>8, <2>3, <3>1 DEF r
  <2> QED BY <1>9, <2>1, <2>2, <2>3 DEF In
<1>10. Grew(m, t, n, 0)
  <2>1. /\ Kept(m, t, {1, At(m, 0, 0).buf}) /\ SliceIn(t, At(t, 0, 0))
        /\ At(t, 0, 0).buf = At(m, 0, 0).buf \/ At(t, 0, 0).buf \in Len(m) + 1 .. Len(t)
    BY <1>4, Zenon DEF r, s
  <2> QED BY <1>1, <1>6, <1>9, <2>1, GrewTree
<1> QED BY <1>2, <1>3, <1>10 DEF r

(* A row's slice grows.                                                    *)
LEMMA RowGrew ==
  ASSUME NEW n \in 0 .. 2, NEW m, Tree(m, n), NEW a, In(m, n, a, 0), a # 0, NEW t, NEW k, NEW fill, NEW zero,
         Lengthened(m, t, PtrTo(m, a), k, fill, zero), n = 2 => fill = Nil /\ zero = Nil
  PROVE  Grew(m, t, n, a) /\ At(t, a, 0) = Load(t, PtrTo(m, a)) /\ PtrTo(t, a) = PtrTo(m, a)
         /\ At(t, 0, 0) = At(m, 0, 0)
<1> DEFINE s == At(m, a, 0)
           r == At(t, a, 0)
           F == At(m, 0, 0)
           q == Load(t, PtrTo(m, a))
<1>1. In(m, n, 0, 0) /\ In(t, n, 0, 0)
  BY DEF In
<1>2. PtrTo(m, a).buf = F.buf /\ PtrTo(m, a).i = a
  BY DEF PtrTo
<1>3. LongerAt(m, t, PtrTo(m, a), s, q, k, fill, zero)
  BY LengthenedParts
<1>4. n >= 1 /\ a \in 1 .. Cap(m, F) /\ F.buf # 0
  BY Above
<1>5. /\ F.buf # 1 /\ F.buf \in 0 .. Len(m) /\ s.buf # 1 /\ s.buf # F.buf /\ s.buf \in 0 .. Len(m)
      /\ Memory(m) /\ SliceIn(m, F) /\ Cap(m, F) \in Nat
      /\ Len(m) >= 1 /\ Len(m[1]) = 1
  <2>1. s.buf # F.buf
    BY <1>1, <1>4, Zenon DEF Tree
  <2> QED BY <1>1, <2>1, TreeHas DEF Tree
<1> HIDE DEF s, q, F
<1>6. /\ Kept(m, t, {F.buf, s.buf}) /\ SliceIn(t, q) /\ Memory(t) /\ Len(t) >= Len(m) /\ Len(m) \in Nat
      /\ q.buf = s.buf \/ q.buf \in Len(m) + 1 .. Len(t)
      /\ Cap(t, q) \in Nat
      /\ \A j \in 1 .. Len(m[F.buf]) : j # a => Cell(t, F.buf, j) = Cell(m, F.buf, j)
  BY <1>2, <1>3, Zenon DEF LongerAt
<1>7. Len(t[1]) = 1 /\ At(t, 0, 0) = F
  <2>1. t[1] = m[1]
    BY <1>5, <1>6 DEF Kept
  <2>2. Cell(t, 1, 1) = Cell(m, 1, 1)
    BY <2>1 DEF Cell
  <2> QED BY <1>5, <2>1, <2>2, Paths DEF F
<1>8. Cap(t, F) = Cap(m, F)
  BY <1>5, <1>6, KeptSlice
<1>9. In(t, n, a, 0)
  BY <1>4, <1>7, <1>8 DEF In
<1>10. r = q /\ PtrTo(t, a) = PtrTo(m, a)
  <2>1. r = Cell(t, F.buf, a)
    BY <1>7, RowPath
  <2>2. q = Cell(t, F.buf, a)
    BY <1>2 DEF q, Load, Cell
  <2> QED BY <1>7, <2>1, <2>2 DEF PtrTo, F
<1> HIDE DEF r
<1>11. ASSUME NEW i \in 1 .. Cap(m, F), i # a
       PROVE  In(m, n, i, 0) /\ At(t, i, 0) = At(m, i, 0)
  <2>1. i # 0 /\ i \in 1 .. Len(m[F.buf])
    BY <1>4, <1>5, <1>11 DEF Cap
  <2>2. At(t, i, 0) = Cell(t, F.buf, i)
    BY <1>7, <2>1, RowPath
  <2>3. At(m, i, 0) = Cell(m, F.buf, i)
    BY <2>1, RowPath DEF F
  <2>4. In(m, n, i, 0)
    BY <1>4 DEF In, F
  <2> QED BY <1>6, <1>11, <2>1, <2>2, <2>3, <2>4, Zenon
<1>12. ASSUME n = 2, NEW j \in 1 .. Cap(t, r), At(t, a, j) # Nil
       PROVE  In(m, n, a, j) /\ At(t, a, j) = At(m, a, j)
  <2>1. j # 0
    BY <1>6, <1>10
  <2>2. At(t, a, j) = Cell(t, r.buf, j)
    BY <2>1, CellPath DEF r
  <2>3. At(m, a, j) = Cell(m, s.buf, j)
    BY <2>1, CellPath DEF s
  <2>4. Lengthened(m, t, PtrTo(m, a), k, Nil, Nil)
    BY <1>12
  <2>5. j \in 1 .. Cap(m, s) /\ Cell(t, r.buf, j) = Cell(m, s.buf, j)
    <3>1. r = Load(t, PtrTo(m, a))
      BY <1>10 DEF q
    <3> QED BY <1>12, <2>2, <2>4, <3>1, GrownChild DEF s
  <2>6. n >= 2
    BY <1>12
  <2> QED BY <1>4, <2>2, <2>3, <2>5, <2>6, Zenon DEF In, s, F
<1>13. ASSUME n = 2, NEW i \in 1 .. Cap(m, F), i # a, NEW j \in 1 .. Cap(t, At(t, i, 0))
       PROVE  In(m, n, i, j) /\ At(t, i, j) = At(m, i, j)
  <2> DEFINE h == At(m, i, 0)
  <2>1. In(m, n, i, 0) /\ At(t, i, 0) = h /\ i # 0
    BY <1>5, <1>11, <1>13
  <2>2. h.buf \in 0 .. Len(m) /\ SliceIn(m, h) /\ h.buf # 1 /\ Cap(m, h) \in Nat
    BY <2>1, TreeHas
  <2> HIDE DEF h
  <2>3. Cap(t, h) = Cap(m, h)
    BY <1>5, <1>6, <2>2, KeptSlice
  <2>4. h.buf # 0 /\ j # 0
    <3>1. h.buf = 0 => Cap(t, h) = 0
      BY DEF Cap
    <3> QED BY <1>13, <2>1, <2>2, <2>3, <3>1
  <2>5. h.buf # s.buf /\ h.buf # F.buf
    BY <1>1, <1>13, <2>1, <2>4, Zenon DEF Tree, h, s, F
  <2>6. t[h.buf] = m[h.buf]
    BY <1>6, <2>2, <2>4, <2>5 DEF Kept
  <2>7. Cell(t, h.buf, j) = Cell(m, h.buf, j)
    BY <2>6 DEF Cell
  <2>8. At(t, i, j) = Cell(t, h.buf, j)
    BY <2>1, <2>4, CellPath
  <2>9. At(m, i, j) = Cell(m, h.buf, j)
    BY <2>1, <2>4, CellPath DEF h
  <2>10. In(m, n, i, j)
    <3>1. i \in 1 .. Cap(m, F) /\ n >= 2
      BY <1>13
    <3>2. j \in 1 .. Cap(m, h)
      BY <1>13, <2>1, <2>3
    <3> QED BY <3>1, <3>2, Zenon DEF In, F, h
  <2> QED BY <2>7, <2>8, <2>9, <2>10, Zenon
<1>14. ASSUME NEW i, NEW j, In(t, n, i, j)
       PROVE  At(t, i, j) = Nil \/ (i = a /\ j = 0) \/ (In(m, n, i, j) /\ At(t, i, j) = At(m, i, j))
  <2>1. CASE i = 0 /\ j = 0
    BY <1>1, <1>7, <2>1 DEF F
  <2>2. CASE n >= 1 /\ i \in 1 .. Cap(t, At(t, 0, 0)) /\ j = 0
    BY <1>7, <1>8, <1>11, <2>2
  <2>3. CASE n >= 2 /\ i \in 1 .. Cap(t, At(t, 0, 0)) /\ j \in 1 .. Cap(t, At(t, i, 0))
    <3>1. n = 2 /\ i \in 1 .. Cap(m, F)
      BY <1>7, <1>8, <2>3
    <3>2. CASE i = a
      BY <1>12, <2>3, <3>1, <3>2 DEF r
    <3>3. CASE i # a
      BY <1>13, <2>3, <3>1, <3>3
    <3> QED BY <3>2, <3>3
  <2> QED BY <1>14, <2>1, <2>2, <2>3 DEF In
<1>15. Grew(m, t, n, a)
  <2>1. /\ Kept(m, t, {At(m, 0, 0).buf, At(m, a, 0).buf}) /\ SliceIn(t, At(t, a, 0))
        /\ At(t, a, 0).buf = At(m, a, 0).buf \/ At(t, a, 0).buf \in Len(m) + 1 .. Len(t)
    BY <1>6, <1>10, Zenon DEF r, s, F
  <2> QED BY <1>7, <1>9, <1>14, <2>1, GrewTree
<1> QED BY <1>7, <1>10, <1>15 DEF r, q, F

(* What no header had, none has.                                           *)
LEMMA GrewUnused ==
  ASSUME NEW n \in 0 .. 2, NEW m, NEW t, NEW a, Tree(m, n), In(m, n, a, 0), Grew(m, t, n, a),
         NEW b \in 1 .. Len(m), Unused(m, n, b)
  PROVE  Unused(t, n, b)
<1>1. Nil.buf = 0 /\ Len(m) \in Nat
  BY TreeHas DEF Nil
<1>2. ASSUME NEW i, NEW j, In(t, n, i, j) PROVE At(t, i, j).buf # b
  <2>1. CASE At(t, i, j) = Nil
    BY <1>1, <2>1
  <2>2. CASE i = a /\ j = 0
    BY <1>1, <2>2 DEF Grew, Unused
  <2>3. CASE In(m, n, i, j) /\ At(t, i, j) = At(m, i, j)
    BY <2>3 DEF Unused
  <2> QED BY <1>2, <2>1, <2>2, <2>3 DEF Grew
<1> QED BY <1>2 DEF Unused

-----------------------------------------------------------------------------
(* The path of cell c of the header <<a, 0>>; these cells are the last      *)
(* headers, or none.                                                       *)
SlotI(a, c) == IF a = 0 THEN c ELSE a
SlotJ(a, c) == IF a = 0 THEN 0 ELSE c
Leafy(n, a) == (a = 0 /\ n = 1) \/ (a # 0 /\ n = 2)
Bare(n, a) == (a = 0 /\ n = 0) \/ (a # 0 /\ n = 1)

(* The header at the path of a cell is what the cell holds.                *)
LEMMA SlotPath ==
  ASSUME NEW m, NEW a, NEW c, c # 0
  PROVE  /\ At(m, SlotI(a, c), SlotJ(a, c)) = Cell(m, At(m, a, 0).buf, c)
         /\ SlotI(a, c) # 0 /\ ~(SlotI(a, c) = a /\ SlotJ(a, c) = 0)
<1>1. CASE a = 0
  BY <1>1, RowPath DEF SlotI, SlotJ
<1>2. CASE a # 0
  BY <1>2, CellPath DEF SlotI, SlotJ
<1> QED BY <1>1, <1>2

(* Where the cells are headers.                                            *)
LEMMA SlotIn ==
  ASSUME NEW n \in 0 .. 2, NEW m, Tree(m, n), NEW a, In(m, n, a, 0), IF a = 0 THEN n >= 1 ELSE n = 2,
         NEW c \in 1 .. Cap(m, At(m, a, 0))
  PROVE  In(m, n, SlotI(a, c), SlotJ(a, c)) /\ c # 0
<1>0. c # 0
  BY TreeHas
<1>1. CASE a = 0
  BY <1>0, <1>1 DEF SlotI, SlotJ, In
<1>2. CASE a # 0
  <2>1. a \in 1 .. Cap(m, At(m, 0, 0)) /\ n >= 2
    BY <1>2, Above
  <2>2. SlotI(a, c) = a /\ SlotJ(a, c) = c
    BY <1>2 DEF SlotI, SlotJ
  <2> QED BY <1>0, <2>1, <2>2, Zenon DEF In
<1> QED BY <1>1, <1>2

(* The header path above a leaf path.                                      *)
LEMMA SlotOf ==
  ASSUME NEW n \in 0 .. 2, NEW m, Tree(m, n), NEW i, NEW j, In(m, n, i, j), ~(i = 0 /\ j = 0)
  PROVE  \E a, c : /\ In(m, n, a, 0) /\ c \in 1 .. Cap(m, At(m, a, 0)) /\ i = SlotI(a, c) /\ j = SlotJ(a, c)
                   /\ (IF a = 0 THEN n >= 1 ELSE n = 2)
<1>1. CASE j = 0
  <2>1. i # 0 /\ In(m, n, 0, 0) /\ i \in 1 .. Cap(m, At(m, 0, 0)) /\ n >= 1
    BY <1>1, Above
  <2>2. i = SlotI(0, i) /\ j = SlotJ(0, i)
    BY <1>1 DEF SlotI, SlotJ
  <2> QED BY <2>1, <2>2
<1>2. CASE j # 0
  <2>1. i # 0 /\ In(m, n, i, 0) /\ j \in 1 .. Cap(m, At(m, i, 0)) /\ n = 2
    BY <1>2, Above
  <2>2. i = SlotI(i, j) /\ j = SlotJ(i, j)
    BY <2>1 DEF SlotI, SlotJ
  <2> QED BY <2>1, <2>2
<1> QED BY <1>1, <1>2

(* What a header held past its length is gone when it is filled.           *)
LEMMA SharedGone ==
  ASSUME NEW n \in 0 .. 2, NEW m, Tree(m, n), NEW a, In(m, n, a, 0), IF a = 0 THEN n >= 1 ELSE n = 2,
         NEW id \in Nat, NEW t, Lengthened(m, t, PtrTo(m, a), Reaching(At(m, a, 0).len, id), Nil, Nil),
         Grew(m, t, n, a), At(t, a, 0) = Load(t, PtrTo(m, a)),
         NEW b \in 1 .. Len(m),
         \A i, j : In(m, n, i, j) /\ At(m, i, j).buf = b
           => i = SlotI(a, id + 1) /\ j = SlotJ(a, id + 1) /\ id >= At(m, a, 0).len
  PROVE  Unused(t, n, b)
<1> DEFINE s == At(m, a, 0)
           k == Reaching(s.len, id)
           r == At(t, a, 0)
<1>1. LongerAt(m, t, PtrTo(m, a), s, r, k, Nil, Nil)
  BY LengthenedParts
<1>2. Nil.buf = 0 /\ Len(m) \in Nat /\ id + 1 # 0
  BY TreeHas DEF Nil
<1>3. SUFFICES ASSUME NEW i, NEW j, In(t, n, i, j), At(t, i, j).buf = b PROVE FALSE
  BY DEF Unused
<1>4. CASE At(t, i, j) = Nil
  BY <1>2, <1>3, <1>4
<1>5. CASE i = a /\ j = 0
  <2>1. At(t, a, 0).buf = At(m, a, 0).buf \/ At(t, a, 0).buf \in Len(m) + 1 .. Len(t)
    BY DEF Grew
  <2>2. At(m, a, 0).buf = b
    BY <1>2, <1>3, <1>5, <2>1
  <2>3. a = SlotI(a, id + 1) /\ 0 = SlotJ(a, id + 1)
    BY <2>2
  <2> QED BY <1>2, <2>3, SlotPath
<1>6. CASE In(m, n, i, j) /\ At(t, i, j) = At(m, i, j)
  <2>1. i = SlotI(a, id + 1) /\ j = SlotJ(a, id + 1) /\ id >= s.len
    BY <1>3, <1>6
  <2> HIDE DEF s, r, k
  <2>2. s.len \in Nat /\ \A c \in s.len + 1 .. k : Cell(t, r.buf, c) = Nil
    BY <1>1, Zenon DEF LongerAt
  <2>3. id + 1 \in s.len + 1 .. k
    BY <2>1, <2>2 DEF k, Reaching
  <2>4. At(t, i, j) = Cell(t, r.buf, id + 1)
    BY <1>2, <2>1, SlotPath DEF r
  <2>5. At(t, i, j) = Nil
    BY <2>2, <2>3, <2>4, Zenon
  <2> QED BY <1>2, <1>3, <2>5
<1> QED BY <1>3, <1>4, <1>5, <1>6 DEF Grew

(* What Stale returns.                                                     *)
LEMMA StaleHeader ==
  ASSUME NEW n \in 0 .. 2, NEW m, Tree(m, n), NEW a, In(m, n, a, 0), IF a = 0 THEN n >= 1 ELSE n = 2,
         NEW id \in Nat, NEW v, v = Stale(m, At(m, a, 0), id, Nil)
  PROVE  /\ SliceIn(m, v) /\ v.buf # 1 /\ v.buf \in 0 .. Len(m)
         /\ \A i, j : In(m, n, i, j) /\ v.buf # 0 /\ At(m, i, j).buf = v.buf
              => i = SlotI(a, id + 1) /\ j = SlotJ(a, id + 1) /\ id >= At(m, a, 0).len
         /\ \/ v = Nil
            \/ /\ In(m, n, SlotI(a, id + 1), SlotJ(a, id + 1)) /\ v = At(m, SlotI(a, id + 1), SlotJ(a, id + 1))
               /\ id >= At(m, a, 0).len /\ id + 1 \in 1 .. Cap(m, At(m, a, 0))
<1> DEFINE s == At(m, a, 0)
<1>1. Cap(m, s) \in Nat /\ s.len \in 0 .. Cap(m, s) /\ Memory(m) /\ Len(m) \in Nat /\ id + 1 # 0
  BY TreeHas
<1>2. CASE id >= s.len /\ id < Cap(m, s)
  <2>1. v = Cell(m, s.buf, id + 1)
    BY <1>2 DEF Stale, Cell
  <2>2. id + 1 \in 1 .. Cap(m, s)
    BY <1>1, <1>2
  <2>3. In(m, n, SlotI(a, id + 1), SlotJ(a, id + 1)) /\ v = At(m, SlotI(a, id + 1), SlotJ(a, id + 1))
    BY <1>1, <2>1, <2>2, SlotIn, SlotPath
  <2>4. SliceIn(m, v) /\ v.buf # 1 /\ v.buf \in 0 .. Len(m)
    BY <2>3, TreeHas
  <2>5. ASSUME NEW i, NEW j, In(m, n, i, j), v.buf # 0, At(m, i, j).buf = v.buf
        PROVE  i = SlotI(a, id + 1) /\ j = SlotJ(a, id + 1)
    BY <2>3, <2>5, TreeOnly
  <2> QED BY <1>2, <2>2, <2>3, <2>4, <2>5
<1>3. CASE ~(id >= s.len /\ id < Cap(m, s))
  <2>1. v = Nil
    BY <1>3, Zenon DEF Stale
  <2>2. Nil.buf = 0 /\ Nil.len = 0
    BY DEF Nil
  <2>3. SliceIn(m, Nil)
    BY <1>1, <2>2 DEF SliceIn, Cap, Nil
  <2> QED BY <1>1, <2>1, <2>2, <2>3
<1> QED BY <1>2, <1>3

(* One header is another, and the rest are what they were.                 *)
OnlySlot(t, u, n, i, j, x) ==
  /\ In(u, n, i, j) /\ At(u, i, j) = x
  /\ \A k, l : In(u, n, k, l) <=> In(t, n, k, l)
  /\ \A k, l : In(t, n, k, l) /\ ~(k = i /\ l = j) => At(u, k, l) = At(t, k, l)

(* A header is written, with a buffer that no other has.                   *)
LEMMA SlotSaved ==
  ASSUME NEW n \in 0 .. 2, NEW t, Tree(t, n), NEW a, In(t, n, a, 0), Leafy(n, a),
         NEW c \in 1 .. Cap(t, At(t, a, 0)), NEW x, SliceIn(t, x), x.buf # 1,
         x.buf # 0 => \A i, j : In(t, n, i, j) /\ At(t, i, j).buf = x.buf => i = SlotI(a, c) /\ j = SlotJ(a, c),
         NEW u, u = Save(t, [buf |-> At(t, a, 0).buf, i |-> c], x)
  PROVE  /\ Tree(u, n) /\ Kept(t, u, {At(t, a, 0).buf}) /\ Len(u) = Len(t)
         /\ OnlySlot(t, u, n, SlotI(a, c), SlotJ(a, c), x)
<1> DEFINE s == At(t, a, 0)
           p == [buf |-> s.buf, i |-> c]
<1>1. /\ Memory(t) /\ Len(t) \in Nat /\ s.buf \in 0 .. Len(t) /\ s.buf # 1 /\ Cap(t, s) \in Nat
      /\ (s.buf = 0 => Cap(t, s) = 0) /\ SliceIn(t, s)
  BY TreeHas
<1>2. c # 0 /\ s.buf # 0 /\ s.buf \in 1 .. Len(t) /\ c \in 1 .. Len(t[s.buf])
  BY <1>1 DEF Cap
<1>3. In(t, n, SlotI(a, c), SlotJ(a, c))
  BY SlotIn DEF Leafy
<1>4. OneCell(t, u, s.buf, c, x)
  <2>1. p.buf = s.buf /\ p.i = c
    OBVIOUS
  <2> HIDE DEF p, s
  <2>2. PointsIn(t, p)
    BY <1>2, <2>1 DEF PointsIn
  <2>3. OneCell(t, u, p.buf, p.i, x)
    BY <1>1, <2>2, Saved DEF p, s
  <2> QED BY <2>1, <2>3
<1>5. /\ Kept(t, u, {s.buf}) /\ Len(u) = Len(t) /\ Cell(u, s.buf, c) = x
      /\ \A j \in 1 .. Len(t[s.buf]) : j # c => Cell(u, s.buf, j) = Cell(t, s.buf, j)
  BY <1>4, Zenon DEF OneCell, Cell
<1> HIDE DEF s
<1>6. At(u, 0, 0) = At(t, 0, 0) /\ Len(u[1]) = 1 /\ Len(t) >= 1 /\ In(t, n, 0, 0) /\ In(u, n, 0, 0)
  <2>1. Len(t) >= 1 /\ Len(t[1]) = 1
    BY DEF Tree
  <2>2. u[1] = t[1]
    BY <1>1, <1>5, <2>1 DEF Kept
  <2>3. Cell(u, 1, 1) = Cell(t, 1, 1)
    BY <2>2 DEF Cell
  <2> QED BY <2>1, <2>2, <2>3, Paths DEF In
<1>7. ASSUME NEW h, SliceIn(t, h) PROVE Cap(u, h) = Cap(t, h) /\ SliceIn(u, h)
  BY <1>1, <1>5, <1>7, KeptSlice
<1>8. ASSUME NEW b, b \in 1 .. Len(t), b # s.buf, NEW i PROVE Cell(u, b, i) = Cell(t, b, i)
  BY <1>5, <1>8 DEF Kept, Cell
<1>9. Cap(u, At(t, 0, 0)) = Cap(t, At(t, 0, 0))
  BY <1>6, <1>7, TreeHas
<1>10. ASSUME NEW i, n >= 1, i \in 1 .. Cap(t, At(t, 0, 0)), ~(i = SlotI(a, c) /\ 0 = SlotJ(a, c))
       PROVE  At(u, i, 0) = At(t, i, 0) /\ In(t, n, i, 0)
  <2>1. In(t, n, i, 0) /\ i # 0
    BY <1>6, <1>10, TreeHas DEF In
  <2>2. At(u, i, 0) = Cell(u, At(t, 0, 0).buf, i)
    BY <1>6, <2>1, RowPath
  <2>3. At(t, i, 0) = Cell(t, At(t, 0, 0).buf, i)
    BY <2>1, RowPath
  <2>4. Cell(u, At(t, 0, 0).buf, i) = Cell(t, At(t, 0, 0).buf, i)
    <3>1. CASE a = 0
      <4>1. i # c /\ s = At(t, 0, 0)
        BY <1>10, <3>1 DEF SlotI, SlotJ, s
      <4>2. i \in 1 .. Len(t[s.buf])
        BY <1>2, <1>10, <4>1 DEF Cap
      <4> QED BY <1>5, <4>1, <4>2, Zenon
    <3>2. CASE a # 0
      <4>1. At(t, 0, 0).buf # 0 /\ At(t, 0, 0).buf \in 0 .. Len(t)
        BY <1>6, <2>1, Above, TreeHas
      <4>2. At(t, 0, 0).buf # s.buf
        BY <1>6, <3>2, <4>1, Zenon DEF Tree, s
      <4>3. At(t, 0, 0).buf \in 1 .. Len(t)
        BY <1>1, <4>1
      <4> QED BY <1>8, <4>2, <4>3
    <3> QED BY <3>1, <3>2
  <2> QED BY <2>1, <2>2, <2>3, <2>4, Zenon
<1>11. ASSUME NEW i, NEW j, n = 2, i \in 1 .. Cap(t, At(t, 0, 0)), j \in 1 .. Cap(t, At(t, i, 0)),
              ~(i = SlotI(a, c) /\ j = SlotJ(a, c))
       PROVE  At(u, i, j) = At(t, i, j)
  <2> DEFINE h == At(t, i, 0)
  <2>1. a # 0 /\ SlotI(a, c) = a /\ SlotJ(a, c) = c
    BY <1>11 DEF Leafy, SlotI, SlotJ
  <2>2. ~(i = SlotI(a, c) /\ 0 = SlotJ(a, c))
    BY <1>2, <2>1
  <2>3. At(u, i, 0) = h /\ In(t, n, i, 0)
    BY <1>10, <1>11, <2>2
  <2>4. In(t, n, i, j)
    BY <1>11, <2>3 DEF In
  <2>5. i # 0 /\ j # 0 /\ h.buf # 0 /\ h.buf \in 0 .. Len(t)
    <3>1. Cap(t, h) \in Nat /\ i # 0 /\ h.buf \in 0 .. Len(t)
      BY <1>6, <1>11, <2>3, TreeHas
    <3>2. j # 0
      BY <1>11, <3>1
    <3> QED BY <2>4, <3>1, <3>2, Above
  <2>6. At(u, i, j) = Cell(u, h.buf, j)
    BY <2>3, <2>5, CellPath
  <2>7. At(t, i, j) = Cell(t, h.buf, j)
    BY <2>5, CellPath
  <2>8. Cell(u, h.buf, j) = Cell(t, h.buf, j)
    <3>1. CASE i = a
      <4>1. j # c /\ h = s
        BY <1>11, <2>1, <3>1 DEF s
      <4>2. j \in 1 .. Len(t[s.buf])
        BY <1>2, <1>11, <4>1 DEF Cap
      <4> QED BY <1>5, <4>1, <4>2, Zenon
    <3>2. CASE i # a
      <4>1. h.buf # s.buf
        BY <2>3, <2>5, <3>2, Zenon DEF Tree, s, h
      <4>2. h.buf \in 1 .. Len(t)
        BY <1>1, <2>5
      <4> QED BY <1>8, <4>1, <4>2
    <3> QED BY <3>1, <3>2
  <2> QED BY <2>6, <2>7, <2>8, Zenon
<1>12. At(u, SlotI(a, c), SlotJ(a, c)) = x
  <2>1. At(u, a, 0) = s
    <3>1. CASE a = 0
      BY <1>6, <3>1 DEF s
    <3>2. CASE a # 0
      <4>1. SlotJ(a, c) # 0
        BY <1>2, <3>2 DEF SlotJ
      <4>2. n >= 1 /\ a \in 1 .. Cap(t, At(t, 0, 0))
        BY <3>2, Above
      <4> QED BY <1>10, <4>1, <4>2 DEF s
    <3> QED BY <3>1, <3>2
  <2>2. At(u, SlotI(a, c), SlotJ(a, c)) = Cell(u, At(u, a, 0).buf, c)
    BY <1>2, SlotPath
  <2> QED BY <1>5, <2>1, <2>2
<1>13. ASSUME NEW i, NEW j PROVE In(u, n, i, j) <=> In(t, n, i, j)
  <2>1. ASSUME n >= 2, i \in 1 .. Cap(t, At(t, 0, 0)) PROVE Cap(u, At(u, i, 0)) = Cap(t, At(t, i, 0))
    <3>1. n >= 1 /\ n = 2 /\ a # 0
      BY <2>1 DEF Leafy
    <3>2. SlotJ(a, c) # 0
      BY <1>2, <3>1 DEF SlotJ
    <3>3. At(u, i, 0) = At(t, i, 0) /\ In(t, n, i, 0)
      BY <1>10, <2>1, <3>1, <3>2
    <3> QED BY <1>7, <3>3, TreeHas
  <2> QED BY <1>6, <1>9, <2>1, Zenon DEF In
<1>14. ASSUME NEW i, NEW j, In(t, n, i, j), ~(i = SlotI(a, c) /\ j = SlotJ(a, c)) PROVE At(u, i, j) = At(t, i, j)
  <2>1. CASE i = 0 /\ j = 0
    BY <1>6, <2>1
  <2>2. CASE n >= 1 /\ i \in 1 .. Cap(t, At(t, 0, 0)) /\ j = 0
    BY <1>10, <1>14, <2>2
  <2>3. CASE n >= 2 /\ i \in 1 .. Cap(t, At(t, 0, 0)) /\ j \in 1 .. Cap(t, At(t, i, 0))
    <3>1. n = 2
      BY <2>3
    <3> QED BY <1>11, <1>14, <2>3, <3>1
  <2> QED BY <1>14, <2>1, <2>2, <2>3 DEF In
<1>15. ASSUME NEW i, NEW j, In(u, n, i, j)
       PROVE  /\ SliceIn(u, At(u, i, j)) /\ At(u, i, j).buf # 1
              /\ \/ At(u, i, j).buf = 0
                 \/ In(t, n, i, j) /\ At(u, i, j).buf = At(t, i, j).buf
                 \/ /\ Unused(t, n, At(u, i, j).buf)
                    /\ \A k, l : In(u, n, k, l) /\ At(u, k, l).buf = At(u, i, j).buf => k = i /\ l = j
  <2>1. In(t, n, i, j)
    BY <1>13, <1>15
  <2>2. CASE ~(i = SlotI(a, c) /\ j = SlotJ(a, c))
    <3>1. At(u, i, j) = At(t, i, j)
      BY <1>14, <2>1, <2>2
    <3> QED BY <1>7, <2>1, <3>1, TreeHas
  <2>3. CASE i = SlotI(a, c) /\ j = SlotJ(a, c)
    <3>1. At(u, i, j) = x /\ SliceIn(u, x)
      BY <1>7, <1>12, <2>3
    <3>2. CASE x.buf = 0 \/ x.buf = At(t, i, j).buf
      BY <2>1, <3>1, <3>2
    <3>3. CASE x.buf # 0 /\ x.buf # At(t, i, j).buf
      <4>1. Unused(t, n, x.buf)
        BY <2>3, <3>3 DEF Unused
      <4>2. ASSUME NEW k, NEW l, In(u, n, k, l), At(u, k, l).buf = x.buf PROVE k = i /\ l = j
        <5>1. In(t, n, k, l)
          BY <1>13, <4>2
        <5> QED BY <1>14, <2>3, <4>1, <4>2, <5>1 DEF Unused
      <4> QED BY <3>1, <4>1, <4>2
    <3> QED BY <3>2, <3>3
  <2> QED BY <2>2, <2>3
<1>16. Tree(u, n)
  <2>1. Memory(u) /\ Len(u) >= 1
    BY <1>5, <1>6 DEF Kept
  <2> QED BY <1>6, <1>15, <2>1, TreeStep
<1>17. OnlySlot(t, u, n, SlotI(a, c), SlotJ(a, c), x)
  <2>1. In(u, n, SlotI(a, c), SlotJ(a, c))
    BY <1>3, <1>13
  <2> QED BY <1>12, <1>13, <1>14, <2>1, Zenon DEF OnlySlot
<1> QED BY <1>5, <1>16, <1>17 DEF s

(* A buffer whose cells are no headers is changed.                         *)
LEMMA BelowSame ==
  ASSUME NEW n \in 0 .. 2, NEW m, Tree(m, n), NEW t, NEW b, b # 1, Kept(m, t, {b}),
         b # 0 => \A i, j : In(m, n, i, j) /\ At(m, i, j).buf = b => ~(IF i = 0 THEN n >= 1 ELSE n = 2 /\ j = 0)
  PROVE  SameHeaders(m, t, n) /\ Tree(t, n) /\ \A c : Unused(m, n, c) => Unused(t, n, c)
<1>1. \A i, j : In(m, n, i, j) /\ (IF i = 0 THEN n >= 1 ELSE n = 2 /\ j = 0) /\ At(m, i, j).buf # 0
        => At(m, i, j).buf \notin {b}
  OBVIOUS
<1>2. SameHeaders(m, t, n)
  BY <1>1, ElsewhereSame
<1> QED BY <1>2, SameHeadersTree

(* A cell of the last slices is written.                                   *)
LEMMA BareSame ==
  ASSUME NEW n \in 0 .. 2, NEW m, Tree(m, n), NEW a, In(m, n, a, 0), Bare(n, a), NEW t,
         Kept(m, t, {At(m, a, 0).buf})
  PROVE  SameHeaders(m, t, n) /\ Tree(t, n) /\ \A c : Unused(m, n, c) => Unused(t, n, c)
<1> DEFINE b == At(m, a, 0).buf
<1>1. b # 1
  BY TreeHas
<1>2. ASSUME b # 0, NEW i, NEW j, In(m, n, i, j), At(m, i, j).buf = b
      PROVE  ~(IF i = 0 THEN n >= 1 ELSE n = 2 /\ j = 0)
  <2>1. i = a /\ j = 0
    BY <1>2, TreeOnly
  <2> QED BY <2>1 DEF Bare
<1> HIDE DEF b
<1>3. Kept(m, t, {b})
  BY DEF b
<1> QED BY <1>1, <1>2, <1>3, BelowSame

(* ReuseSlice: empty, in what s has or in a buffer of its own.             *)
LEMMA Reused ==
  ASSUME NEW m, Memory(m), NEW s, SliceIn(m, s), NEW count \in Nat, NEW zero
  PROVE  LET r == ReuseSlice(m, s, count, zero) IN
         /\ Kept(m, r.mem, {}) /\ SliceIn(r.mem, r.val) /\ r.val.len = 0 /\ r.val.buf # 0
         /\ \/ r.mem = m /\ r.val = Truncated(s) /\ r.val.buf = s.buf
            \/ r.val.buf = Len(m) + 1 /\ Len(r.mem) = Len(m) + 1 /\ Cap(r.mem, r.val) = count
<1> DEFINE r == ReuseSlice(m, s, count, zero)
<1>1. Len(m) \in Nat /\ s.buf \in 0 .. Len(m) /\ s.len \in 0 .. Cap(m, s) /\ s = [buf |-> s.buf, len |-> s.len]
  BY DEF Memory, Listed, SliceIn
<1>2. CASE s # Nil /\ Cap(m, s) >= count
  <2>1. r = [mem |-> m, val |-> Truncated(s)]
    BY <1>2, Zenon DEF ReuseSlice
  <2>2. Truncated(s) = [buf |-> s.buf, len |-> 0]
    BY <1>1 DEF Truncated
  <2> HIDE DEF r
  <2>3. r.mem = m /\ r.val = Truncated(s) /\ r.val.buf = s.buf /\ r.val.len = 0
    BY <2>1, <2>2
  <2>4. s.buf # 0
    <3>1. s.buf = 0 => Cap(m, s) = 0
      BY DEF Cap
    <3> QED BY <1>1, <1>2, <3>1 DEF Nil
  <2>5. SliceIn(m, r.val)
    <3>1. Cap(m, r.val) = Cap(m, s) /\ Cap(m, s) \in Nat
      BY <1>1, <2>3, <2>4 DEF Cap, Memory, Listed
    <3> QED BY <1>1, <2>2, <2>3, <3>1 DEF SliceIn
  <2>6. Kept(m, m, {})
    BY KeptAsIs
  <2> QED BY <2>3, <2>4, <2>5, <2>6 DEF r
<1>3. CASE ~(s # Nil /\ Cap(m, s) >= count)
  <2> DEFINE d == Made(m, <<>>, count, zero)
  <2>1. r = d
    BY <1>3, Zenon DEF ReuseSlice
  <2>2. Listed(<<>>) /\ Len(<<>>) = 0 /\ 0 <= count
    BY EmptyListed
  <2>3. /\ Kept(m, d.mem, {}) /\ Len(d.mem) = Len(m) + 1
        /\ d.val = [buf |-> Len(m) + 1, len |-> Len(<<>>)]
        /\ Len(d.mem[Len(m) + 1]) = count
    BY <2>2, MadeNew
  <2> HIDE DEF d, r
  <2>4. r.val.buf = Len(m) + 1 /\ r.val.len = 0 /\ r.val = [buf |-> r.val.buf, len |-> r.val.len]
    BY <2>1, <2>2, <2>3
  <2>5. Cap(r.mem, r.val) = count
    BY <1>1, <2>1, <2>3, <2>4 DEF Cap
  <2>6. SliceIn(r.mem, r.val)
    BY <1>1, <2>1, <2>3, <2>4, <2>5 DEF SliceIn
  <2> QED BY <1>1, <2>1, <2>3, <2>4, <2>5, <2>6 DEF r
<1> QED BY <1>2, <1>3

(* ReuseBytes: a copy of src in the buffer of dst or in a new one, and nil  *)
(* for no bytes.                                                           *)
BytesIn(m, dst, src, t, x) ==
  /\ Kept(m, t, {dst.buf}) /\ SliceIn(t, x) /\ x.len = Len(src)
  /\ src = <<>> => x = Nil
  /\ src # <<>> => x.buf # 0
  /\ x.buf = 0 \/ x.buf = dst.buf \/ x.buf \in Len(m) + 1 .. Len(t)
  /\ \A i \in 1 .. Len(src) : Cell(t, x.buf, i) = src[i]

(* ReuseBytes gives the bytes, in the storage of dst or in a new buffer.   *)
LEMMA ReusedBytes ==
  ASSUME NEW m, Memory(m), NEW dst, SliceIn(m, dst), NEW src, Listed(src)
  PROVE  LET r == ReuseBytes(m, dst, src) IN BytesIn(m, dst, src, r.mem, r.val)
<1> DEFINE r == ReuseBytes(m, dst, src)
<1>1. /\ Len(m) \in Nat /\ dst.buf \in 0 .. Len(m) /\ dst = [buf |-> dst.buf, len |-> dst.len]
      /\ dst.len \in 0 .. Cap(m, dst) /\ Len(src) \in Nat /\ (src = <<>> <=> Len(src) = 0)
  BY EmptyIffLen DEF Memory, Listed, SliceIn
<1>2. Cap(m, dst) \in Nat
  BY <1>1 DEF Cap, Memory, Listed
<1>3. CASE src = <<>>
  <2>1. r = [mem |-> m, val |-> Nil]
    BY <1>3, Zenon DEF ReuseBytes
  <2> HIDE DEF r
  <2>2. r.mem = m /\ r.val = Nil /\ Nil.buf = 0 /\ Nil.len = 0
    BY <2>1 DEF Nil
  <2>3. SliceIn(m, Nil)
    BY <1>1, <2>2 DEF SliceIn, Cap, Nil
  <2>4. Kept(m, m, {dst.buf})
    BY KeptAsIs
  <2>5. \A i \in 1 .. Len(src) : FALSE
    BY <1>1, <1>3
  <2>6. BytesIn(m, dst, src, r.mem, r.val)
    BY <1>1, <1>3, <2>2, <2>3, <2>4, <2>5, Zenon DEF BytesIn
  <2> QED BY <2>6 DEF r
<1>4. CASE src # <<>> /\ Cap(m, dst) < Len(src)
  <2> DEFINE d == Made(m, src, Len(src), 0)
  <2>1. r = d
    BY <1>4, Zenon DEF ReuseBytes
  <2>2. /\ Kept(m, d.mem, {}) /\ Len(d.mem) = Len(m) + 1
        /\ d.val = [buf |-> Len(m) + 1, len |-> Len(src)]
        /\ Len(d.mem[Len(m) + 1]) = Len(src)
        /\ \A i \in 1 .. Len(src) : d.mem[Len(m) + 1][i] = src[i]
    <3>1. Len(src) <= Len(src)
      BY <1>1
    <3> QED BY <1>1, <3>1, MadeNew
  <2> HIDE DEF d, r
  <2>3. r.val.buf = Len(m) + 1 /\ r.val.len = Len(src) /\ r.val = [buf |-> r.val.buf, len |-> r.val.len]
    BY <2>1, <2>2
  <2>4. Cap(r.mem, r.val) = Len(src)
    BY <1>1, <2>1, <2>2, <2>3 DEF Cap
  <2>5. SliceIn(r.mem, r.val) /\ r.val.buf # 0 /\ r.val.buf \in Len(m) + 1 .. Len(r.mem)
    BY <1>1, <2>1, <2>2, <2>3, <2>4 DEF SliceIn
  <2>6. Kept(m, r.mem, {dst.buf})
    BY <2>1, <2>2, KeptLess
  <2>7. \A i \in 1 .. Len(src) : Cell(r.mem, r.val.buf, i) = src[i]
    BY <2>1, <2>2, <2>3, Zenon DEF Cell
  <2>8. BytesIn(m, dst, src, r.mem, r.val)
    BY <1>4, <2>3, <2>5, <2>6, <2>7, Zenon DEF BytesIn
  <2> QED BY <2>8 DEF r
<1>5. CASE src # <<>> /\ ~(Cap(m, dst) < Len(src))
  <2> DEFINE z == Truncated(dst)
  <2>1. r = AppendAll(m, z, src, 0)
    BY <1>5, Zenon DEF ReuseBytes
  <2>2. z = [buf |-> dst.buf, len |-> 0]
    BY <1>1 DEF Truncated
  <2> HIDE DEF z, r
  <2>3. z.buf = dst.buf /\ z.len = 0 /\ Cap(m, z) = Cap(m, dst)
    BY <2>2 DEF Cap
  <2>4. SliceIn(m, z)
    BY <1>1, <1>2, <2>2, <2>3 DEF SliceIn
  <2>5. Appended(m, z, r.mem, r.val, src, Len(src), 0)
    BY <1>1, <2>1, <2>4, AppendedAll
  <2>6. /\ Kept(m, r.mem, {dst.buf}) /\ SliceIn(r.mem, r.val) /\ r.val.len = Len(src) /\ r.val.buf = dst.buf
        /\ \A i \in 1 .. Len(src) : Cell(r.mem, r.val.buf, i) = src[i]
    <3>1. z.len + Len(src) = Len(src) /\ Len(src) <= Cap(m, z)
      BY <1>1, <1>2, <1>5, <2>3
    <3>2. \A i \in 1 .. Len(src) : z.len + i = i
      BY <2>3
    <3> QED BY <2>3, <2>5, <3>1, <3>2, Zenon DEF Appended, Longer, Cell
  <2>7. r.val.buf # 0
    <3>1. Cap(m, dst) # 0
      BY <1>1, <1>2, <1>5
    <3> QED BY <2>6, <3>1 DEF Cap
  <2>8. BytesIn(m, dst, src, r.mem, r.val)
    BY <1>5, <2>6, <2>7, Zenon DEF BytesIn
  <2> QED BY <2>8 DEF r
<1> QED BY <1>3, <1>4, <1>5

-----------------------------------------------------------------------------
(* A slice grows to hold id, in the memory t.                              *)
Reached(m, t, n, a, id, fill, zero) ==
  /\ Lengthened(m, t, PtrTo(m, a), Reaching(At(m, a, 0).len, id), fill, zero)
  /\ Grew(m, t, n, a) /\ Memory(t) /\ Len(t) \in Nat
  /\ At(t, a, 0) = Load(t, PtrTo(m, a)) /\ PtrTo(t, a) = PtrTo(m, a)
  /\ a # 0 => At(t, 0, 0) = At(m, 0, 0)
  /\ At(t, a, 0).len = Reaching(At(m, a, 0).len, id)
  /\ id + 1 \in 1 .. At(t, a, 0).len /\ id + 1 \in 1 .. Cap(t, At(t, a, 0))
  /\ Kept(m, t, {PtrTo(m, a).buf, At(m, a, 0).buf})
  /\ ElementAt(t, PtrTo(m, a), id) = [buf |-> At(t, a, 0).buf, i |-> id + 1]

(* Grow reaches the element, and gives what was stale there.               *)
LEMMA GrownToReach ==
  ASSUME NEW n \in 0 .. 2, NEW m, Tree(m, n), NEW a, In(m, n, a, 0), NEW id \in Nat, NEW count \in Int,
         NEW fill, NEW zero, (IF a = 0 THEN n >= 1 ELSE n = 2) => fill = Nil /\ zero = Nil,
         NEW p, p = PtrTo(m, a), NEW t, t = Filled(ReserveRows(m, p, id, count, zero), p, id, fill, zero)
  PROVE  Reached(m, t, n, a, id, fill, zero)
<1> DEFINE k == Reaching(At(m, a, 0).len, id)
<1>1. Memory(m) /\ Holds(m, p) /\ Load(m, p) = At(m, a, 0) /\ At(m, a, 0).len \in Nat
  <2>1. At(m, a, 0).len \in 0 .. Cap(m, At(m, a, 0)) /\ Cap(m, At(m, a, 0)) \in Nat /\ Memory(m)
    BY TreeHas
  <2> QED BY <2>1, PtrToHolds
<1>2. Lengthened(m, t, p, k, fill, zero)
  <2>1. Lengthened(m, Filled(ReserveRows(m, p, id, count, zero), p, id, fill, zero), p,
                   Reaching(Load(m, p).len, id), fill, zero)
    BY <1>1, ReservedAndFilled
  <2> QED BY <1>1, <2>1
<1>3. /\ Grew(m, t, n, a) /\ At(t, a, 0) = Load(t, p) /\ PtrTo(t, a) = PtrTo(m, a)
      /\ a # 0 => At(t, 0, 0) = At(m, 0, 0)
  <2>1. CASE a = 0
    BY <1>2, <2>1, FieldGrew
  <2>2. CASE a # 0
    BY <1>2, <2>2, RowGrew
  <2> QED BY <2>1, <2>2
<1>4. LongerAt(m, t, p, At(m, a, 0), At(t, a, 0), k, fill, zero)
  BY <1>2, <1>3, LengthenedParts
<1>5. /\ Memory(t) /\ Len(t) \in Nat /\ At(t, a, 0).len = k /\ k \in 0 .. Cap(t, At(t, a, 0)) /\ k \in Nat
      /\ Cap(t, At(t, a, 0)) \in Nat /\ Kept(m, t, {p.buf, At(m, a, 0).buf})
  BY <1>4, Zenon DEF LongerAt
<1>6. id + 1 \in 1 .. k
  BY <1>1 DEF Reaching
<1>7. id + 1 \in 1 .. Cap(t, At(t, a, 0))
  BY <1>5, <1>6
<1>8. ElementAt(t, p, id) = [buf |-> At(t, a, 0).buf, i |-> id + 1]
  BY <1>3, Zenon DEF ElementAt
<1> HIDE DEF k
<1>9. k = Reaching(At(m, a, 0).len, id)
  BY DEF k
<1> QED BY <1>2, <1>3, <1>5, <1>6, <1>7, <1>8, <1>9, Zenon DEF Reached

(* The leaf at a has changed, and what is above it has not.                *)
Placed(m, u, n, a) ==
  /\ Tree(u, n) /\ In(u, n, a, 0) /\ PtrTo(u, a) = PtrTo(m, a) /\ Len(u) >= Len(m)
  /\ a # 0 => At(u, 0, 0) = At(m, 0, 0)

(* A grown slice is a leaf changed.                                        *)
LEMMA ReachedPlaced ==
  ASSUME NEW n, NEW m, NEW a, NEW id, NEW t, NEW fill, NEW zero, Reached(m, t, n, a, id, fill, zero)
  PROVE  Placed(m, t, n, a)
<1>1. Grew(m, t, n, a) /\ PtrTo(t, a) = PtrTo(m, a) /\ (a # 0 => At(t, 0, 0) = At(m, 0, 0))
  BY Zenon DEF Reached
<1> QED BY <1>1, Zenon DEF Placed, Grew

(* An element that is no slice is placed.                                  *)
LEMMA BarePlaced ==
  ASSUME NEW n \in 0 .. 2, NEW m, Tree(m, n), NEW a, In(m, n, a, 0), Bare(n, a), NEW id \in Nat,
         NEW fill, NEW zero, NEW t, Reached(m, t, n, a, id, fill, zero), NEW x,
         NEW u, u = Save(t, ElementAt(t, PtrTo(m, a), id), x)
  PROVE  /\ Placed(m, u, n, a) /\ At(u, a, 0) = At(t, a, 0)
         /\ OneCell(t, u, At(t, a, 0).buf, id + 1, x) /\ SameHeaders(t, u, n)
<1> DEFINE s == At(t, a, 0)
           e == ElementAt(t, PtrTo(m, a), id)
<1>1. /\ Grew(m, t, n, a) /\ PtrTo(t, a) = PtrTo(m, a) /\ Memory(t)
      /\ (a # 0 => At(t, 0, 0) = At(m, 0, 0)) /\ id + 1 \in 1 .. Cap(t, s)
      /\ e = [buf |-> s.buf, i |-> id + 1] /\ Len(t) \in Nat
  BY Zenon DEF Reached
<1>2. Tree(t, n) /\ In(t, n, a, 0) /\ Len(t) >= Len(m)
  BY <1>1, Zenon DEF Grew
<1>3. s.buf \in 0 .. Len(t) /\ (s.buf = 0 => Cap(t, s) = 0)
  BY <1>2, TreeHas
<1> HIDE DEF s, e
<1>4. s.buf \in 1 .. Len(t) /\ id + 1 \in 1 .. Len(t[s.buf]) /\ e.buf = s.buf /\ e.i = id + 1
  BY <1>1, <1>3 DEF Cap
<1>5. OneCell(t, u, s.buf, id + 1, x)
  <2>1. PointsIn(t, e)
    BY <1>4 DEF PointsIn
  <2>2. OneCell(t, u, e.buf, e.i, x)
    BY <1>1, <2>1, Saved DEF e
  <2> QED BY <1>4, <2>2
<1>6. Kept(t, u, {At(t, a, 0).buf}) /\ Len(u) = Len(t)
  BY <1>5, Zenon DEF OneCell, s
<1>7. SameHeaders(t, u, n) /\ Tree(u, n)
  BY <1>2, <1>6, BareSame
<1>8. In(u, n, a, 0) /\ At(u, a, 0) = s /\ In(t, n, 0, 0) /\ At(u, 0, 0) = At(t, 0, 0)
  <2>1. In(t, n, 0, 0)
    BY DEF In
  <2> QED BY <1>2, <1>7, <2>1 DEF SameHeaders, s
<1>9. PtrTo(u, a) = PtrTo(t, a)
  BY <1>8 DEF PtrTo
<1> QED BY <1>1, <1>2, <1>5, <1>6, <1>7, <1>8, <1>9 DEF Placed, s

(* An element that is a slice is placed: one built in the buffer y, which   *)
(* no header has, or in a new one.                                         *)
LEMMA LeafPlaced ==
  ASSUME NEW n \in 0 .. 2, NEW m, Tree(m, n), NEW a, In(m, n, a, 0), Leafy(n, a), NEW id \in Nat,
         NEW t, Reached(m, t, n, a, id, Nil, Nil),
         NEW y, y # 1, y = 0 \/ Unused(t, n, y), NEW w, Kept(t, w, {y}),
         NEW x, SliceIn(w, x), x.buf # 1, x.buf = 0 \/ x.buf = y \/ Unused(t, n, x.buf),
         NEW u, u = Save(w, ElementAt(w, PtrTo(m, a), id), x)
  PROVE  /\ Placed(m, u, n, a) /\ At(u, a, 0) = At(t, a, 0)
         /\ Kept(w, u, {At(t, a, 0).buf})
         /\ OnlySlot(t, u, n, SlotI(a, id + 1), SlotJ(a, id + 1), x)
<1> DEFINE s == At(t, a, 0)
<1>1. /\ Grew(m, t, n, a) /\ PtrTo(t, a) = PtrTo(m, a) /\ Memory(t)
      /\ (a # 0 => At(t, 0, 0) = At(m, 0, 0)) /\ id + 1 \in 1 .. Cap(t, s)
      /\ Len(t) \in Nat
  BY Zenon DEF Reached
<1>2. Tree(t, n) /\ In(t, n, a, 0) /\ Len(t) >= Len(m) /\ In(t, n, 0, 0)
  BY <1>1, Zenon DEF Grew, In
<1>3. SameHeaders(t, w, n) /\ Tree(w, n) /\ \A c : Unused(t, n, c) => Unused(w, n, c)
  <2>1. y # 0 => \A i, j : In(t, n, i, j) /\ At(t, i, j).buf = y => ~(IF i = 0 THEN n >= 1 ELSE n = 2 /\ j = 0)
    BY DEF Unused
  <2> QED BY <1>2, <2>1, BelowSame
<1>4. In(w, n, a, 0) /\ At(w, a, 0) = s /\ At(w, 0, 0) = At(t, 0, 0) /\ In(w, n, 0, 0)
  BY <1>2, <1>3 DEF SameHeaders
<1>5. Cap(w, s) = Cap(t, s)
  BY <1>1, <1>2, TreeHas, KeptSlice
<1>6. PtrTo(w, a) = PtrTo(t, a)
  BY <1>4 DEF PtrTo
<1>7. ElementAt(w, PtrTo(m, a), id) = [buf |-> At(w, a, 0).buf, i |-> id + 1]
  <2>1. Load(w, PtrTo(w, a)) = At(w, a, 0)
    BY <1>3, <1>4, PtrToHolds
  <2> QED BY <1>1, <1>6, <2>1, Zenon DEF ElementAt
<1> HIDE DEF s
<1>8. x.buf # 0 => \A i, j : In(w, n, i, j) /\ At(w, i, j).buf = x.buf
                     => i = SlotI(a, id + 1) /\ j = SlotJ(a, id + 1)
  <2>1. x.buf # 0 => Unused(t, n, x.buf)
    OBVIOUS
  <2> QED BY <1>3, <2>1 DEF Unused
<1>9. id + 1 \in 1 .. Cap(w, At(w, a, 0))
  BY <1>1, <1>4, <1>5
<1>10. /\ Tree(u, n) /\ Kept(w, u, {At(w, a, 0).buf}) /\ Len(u) = Len(w)
       /\ OnlySlot(w, u, n, SlotI(a, id + 1), SlotJ(a, id + 1), x)
  <2> DEFINE c == id + 1
  <2>1. c \in 1 .. Cap(w, At(w, a, 0))
    BY <1>9
  <2>2. x.buf # 0 => \A i, j : In(w, n, i, j) /\ At(w, i, j).buf = x.buf => i = SlotI(a, c) /\ j = SlotJ(a, c)
    BY <1>8
  <2>3. u = Save(w, [buf |-> At(w, a, 0).buf, i |-> c], x)
    BY <1>7
  <2> HIDE DEF c
  <2> QED BY <1>3, <1>4, <2>1, <2>2, <2>3, SlotSaved DEF c
<1>11. OnlySlot(t, u, n, SlotI(a, id + 1), SlotJ(a, id + 1), x)
  BY <1>3, <1>10, Zenon DEF SameHeaders, OnlySlot
<1>12. ~(a = SlotI(a, id + 1) /\ 0 = SlotJ(a, id + 1)) /\ ~(0 = SlotI(a, id + 1) /\ 0 = SlotJ(a, id + 1))
  BY SlotPath DEF SlotI, SlotJ
<1>13. At(u, a, 0) = s /\ In(u, n, a, 0) /\ At(u, 0, 0) = At(t, 0, 0)
  BY <1>2, <1>11, <1>12 DEF s, OnlySlot
<1>14. PtrTo(u, a) = PtrTo(t, a)
  BY <1>13 DEF PtrTo
<1>15. Len(u) >= Len(m)
  <2>1. Len(w) >= Len(t) /\ Len(w) \in Nat
    BY DEF Kept, Memory, Listed
  <2>2. Len(m) \in Nat
    BY TreeHas
  <2> QED BY <1>1, <1>2, <1>10, <2>1, <2>2
<1> QED BY <1>1, <1>4, <1>10, <1>11, <1>13, <1>14, <1>15 DEF Placed, s
-----------------------------------------------------------------------------
(* One cell of buffer b is v, and new buffers may have come.               *)
CellSet(t, u, b, i, v) ==
  /\ Kept(t, u, {b}) /\ Cell(u, b, i) = v
  /\ \A j \in 1 .. Len(t[b]) : j # i => Cell(u, b, j) = Cell(t, b, j)

(* A row of the field is opened: over the one that was there or in a new    *)
(* buffer without a cell, and what is below the others has not changed.    *)
LEMMA RowSaved ==
  ASSUME NEW n \in 1 .. 2, NEW m, Tree(m, n), NEW id \in Nat, NEW t, Reached(m, t, n, 0, id, Nil, Nil),
         NEW x, NEW u, CellSet(t, u, At(t, 0, 0).buf, id + 1, x), SliceIn(u, x),
         \/ In(m, n, id + 1, 0) /\ x.buf = At(m, id + 1, 0).buf
         \/ x.buf \in Len(t) + 1 .. Len(u) /\ Cap(u, x) = 0
  PROVE  /\ Tree(u, n) /\ In(u, n, id + 1, 0) /\ At(u, 0, 0) = At(t, 0, 0) /\ At(u, id + 1, 0) = x
         /\ \A i : i # id + 1 /\ In(u, n, i, 0) => In(t, n, i, 0) /\ At(u, i, 0) = At(t, i, 0)
<1> DEFINE c == id + 1
           F == At(m, 0, 0)
           G == At(t, 0, 0)
<1>1. /\ Tree(t, n) /\ Len(t) >= Len(m) /\ In(t, n, 0, 0) /\ In(m, n, 0, 0) /\ In(u, n, 0, 0)
      /\ G.buf = F.buf \/ G.buf \in Len(m) + 1 .. Len(t)
      /\ \A i, j : In(t, n, i, j) =>
           At(t, i, j) = Nil \/ (i = 0 /\ j = 0) \/ (In(m, n, i, j) /\ At(t, i, j) = At(m, i, j))
      /\ Memory(t) /\ Len(t) \in Nat /\ c \in 1 .. Cap(t, G) /\ c # 0
      /\ Kept(m, t, {PtrTo(m, 0).buf, F.buf}) /\ n \in 0 .. 2 /\ PtrTo(m, 0).buf = 1
  BY DEF Reached, Grew, In, PtrTo
<1>2. /\ Memory(m) /\ Len(m) \in Nat /\ Len(m) >= 1 /\ F.buf # 1 /\ F.buf \in 0 .. Len(m)
      /\ \A i, j : In(m, n, i, j) => At(m, i, j).buf \in 0 .. Len(m) /\ At(m, i, j).buf # 1
                                     /\ SliceIn(m, At(m, i, j))
  BY <1>1, TreeHas DEF Tree
<1>3. /\ SliceIn(t, G) /\ G.buf # 1 /\ G.buf \in 0 .. Len(t) /\ Len(t) >= 1 /\ Len(t[1]) = 1
      /\ Cap(t, G) \in Nat /\ G.buf # 0
  <2>1. G.buf = 0 => Cap(t, G) = 0
    BY DEF Cap
  <2> QED BY <1>1, <2>1, TreeHas DEF Tree
<1>4. /\ Kept(t, u, {G.buf}) /\ Cell(u, G.buf, c) = x /\ Memory(u) /\ Len(u) >= Len(t) /\ Len(u) \in Nat
      /\ \A j \in 1 .. Len(t[G.buf]) : j # c => Cell(u, G.buf, j) = Cell(t, G.buf, j)
  BY DEF CellSet, Kept, Memory, Listed
<1>5. At(u, 0, 0) = G /\ Len(u[1]) = 1
  <2>1. u[1] = t[1]
    BY <1>3, <1>4 DEF Kept
  <2>2. Cell(u, 1, 1) = Cell(t, 1, 1)
    BY <2>1 DEF Cell
  <2> QED BY <1>3, <2>1, <2>2, Paths
<1>6. Cap(u, G) = Cap(t, G) /\ SliceIn(u, G) /\ Cap(t, G) = Len(t[G.buf])
  BY <1>1, <1>3, <1>4, KeptSlice DEF Cap
<1>7. At(u, c, 0) = x /\ In(u, n, c, 0)
  <2>1. At(u, c, 0) = Cell(u, At(u, 0, 0).buf, c)
    BY <1>1, RowPath
  <2>2. c \in 1 .. Cap(u, At(u, 0, 0)) /\ n >= 1
    BY <1>1, <1>5, <1>6
  <2> QED BY <1>4, <1>5, <2>1, <2>2 DEF In
<1>8. n >= 1
  OBVIOUS
<1> HIDE DEF c, F, G
<1>9. ASSUME NEW i, i \in 1 .. Cap(t, G), i # c
      PROVE  In(t, n, i, 0) /\ At(u, i, 0) = At(t, i, 0)
  <2>1. i # 0 /\ In(t, n, i, 0)
    BY <1>3, <1>8, <1>9 DEF In, G
  <2>2. At(u, i, 0) = Cell(u, G.buf, i)
    BY <1>5, <2>1, RowPath
  <2>3. At(t, i, 0) = Cell(t, G.buf, i)
    BY <2>1, RowPath DEF G
  <2> QED BY <1>4, <1>6, <1>9, <2>1, <2>2, <2>3
(* The buffers of the rows there were have not changed. *)
<1>10. ASSUME NEW b, b \in 1 .. Len(m), b # F.buf, b # 1 PROVE u[b] = m[b]
  <2>1. b \in 1 .. Len(t) /\ b # G.buf
    BY <1>1, <1>2, <1>10
  <2>2. t[b] = m[b]
    BY <1>1, <1>10 DEF Kept, F
  <2>3. u[b] = t[b]
    BY <1>4, <2>1 DEF Kept
  <2> QED BY <2>2, <2>3
(* A row with the buffer of a row there was has what was below it. *)
<1>11. ASSUME NEW i, i # 0, In(m, n, i, 0), At(u, i, 0).buf = At(m, i, 0).buf, n >= 2,
              NEW j, j \in 1 .. Cap(u, At(u, i, 0))
       PROVE  In(m, n, i, j) /\ At(u, i, j) = At(m, i, j)
  <2> DEFINE b == At(m, i, 0).buf
  <2>1. b \in 0 .. Len(m) /\ b # 1 /\ (b = 0 => Cap(u, At(u, i, 0)) = 0)
    BY <1>2, <1>11 DEF Cap
  <2>2. b # 0
    BY <1>11, <2>1
  <2>3. F.buf # b
    <3>1. At(m, 0, 0).buf # 0 /\ ~(0 = i /\ 0 = 0)
      BY <1>1, <1>11, Above
    <3> QED BY <1>1, <1>11, <3>1, TreeOnly DEF F
  <2>4. u[b] = m[b]
    BY <1>10, <2>1, <2>2, <2>3
  <2>5. j \in 1 .. Cap(m, At(m, i, 0)) /\ j # 0
    <3>1. Cap(u, At(u, i, 0)) = Len(m[b])
      BY <1>11, <2>2, <2>4 DEF Cap
    <3>2. Cap(m, At(m, i, 0)) = Len(m[b]) /\ Cap(m, At(m, i, 0)) \in Nat
      BY <1>1, <1>11, <2>2, TreeHas DEF Cap
    <3> QED BY <1>11, <3>1, <3>2
  <2>6. In(m, n, i, j)
    <3>1. i \in 1 .. Cap(m, At(m, 0, 0))
      BY <1>1, <1>11, Above
    <3> QED BY <1>11, <2>5, <3>1 DEF In
  <2>7. At(u, i, j) = Cell(u, At(u, i, 0).buf, j) /\ At(m, i, j) = Cell(m, At(m, i, 0).buf, j)
    BY <1>11, <2>5, CellPath
  <2>8. Cell(u, b, j) = Cell(m, b, j)
    BY <2>4 DEF Cell
  <2> QED BY <1>11, <2>6, <2>7, <2>8
<1>12. Nil.buf = 0 /\ Cap(u, Nil) = 0 /\ SliceIn(u, Nil)
  <2>1. Nil.buf = 0 /\ Nil.len = 0 /\ Cap(u, Nil) = 0
    BY DEF Nil, Cap
  <2> QED BY <1>4, <2>1 DEF SliceIn, Nil
<1>13. x.buf # 1
  BY <1>1, <1>2, <1>3
<1>14. ASSUME NEW i, In(u, n, i, 0), i # 0, i # c
       PROVE  /\ In(t, n, i, 0) /\ At(u, i, 0) = At(t, i, 0)
              /\ At(u, i, 0) = Nil \/ (In(m, n, i, 0) /\ At(u, i, 0) = At(m, i, 0))
  <2>1. i \in 1 .. Cap(t, G)
    BY <1>1, <1>5, <1>6, <1>14, Above
  <2>2. In(t, n, i, 0) /\ At(u, i, 0) = At(t, i, 0)
    BY <1>9, <1>14, <2>1
  <2> QED BY <1>1, <1>14, <2>2
(* What a header of a row's is: the row itself, or what is below one of m. *)
<1>15. ASSUME NEW i, NEW j, In(u, n, i, j), ~(i = 0 /\ j = 0), ~(i = c /\ j = 0)
       PROVE  At(u, i, j) = Nil \/ (In(m, n, i, j) /\ At(u, i, j) = At(m, i, j))
  <2>1. i # 0
    BY <1>15 DEF In
  <2>2. CASE j = 0
    BY <1>14, <1>15, <2>1, <2>2
  <2>3. CASE j # 0
    <3>1. n = 2 /\ n >= 2 /\ j \in 1 .. Cap(u, At(u, i, 0)) /\ In(u, n, i, 0)
      BY <1>1, <1>15, <2>3, Above
    <3>2. In(m, n, i, 0) /\ At(u, i, 0).buf = At(m, i, 0).buf
      <4>1. CASE i = c
        <5>1. Cap(u, x) # 0
          BY <1>7, <3>1, <4>1
        <5>2. In(m, n, c, 0) /\ x.buf = At(m, c, 0).buf
          BY <5>1 DEF c
        <5> QED BY <1>7, <4>1, <5>2
      <4>2. CASE i # c
        <5>1. At(u, i, 0) # Nil
          BY <1>12, <3>1
        <5> QED BY <1>14, <2>1, <3>1, <4>2, <5>1
      <4> QED BY <4>1, <4>2
    <3> QED BY <1>11, <2>1, <3>1, <3>2
  <2> QED BY <2>2, <2>3
<1>16. ASSUME NEW i, NEW j, In(u, n, i, j)
       PROVE  At(u, i, j).buf \in 0 .. Len(m) \/ (i = 0 /\ j = 0) \/ (i = c /\ j = 0)
  BY <1>2, <1>12, <1>15, <1>16
<1>17. SliceIn(u, At(u, 0, 0)) /\ SliceIn(u, At(u, c, 0))
  BY <1>5, <1>6, <1>7
<1>18. ASSUME NEW i, NEW j, In(u, n, i, j)
       PROVE  /\ SliceIn(u, At(u, i, j)) /\ At(u, i, j).buf # 1
              /\ \/ At(u, i, j).buf = 0
                 \/ In(m, n, i, j) /\ At(u, i, j).buf = At(m, i, j).buf
                 \/ /\ Unused(m, n, At(u, i, j).buf)
                    /\ \A k, l : In(u, n, k, l) /\ At(u, k, l).buf = At(u, i, j).buf => k = i /\ l = j
  <2>1. CASE i = 0 /\ j = 0
    <3>1. SliceIn(u, At(u, 0, 0)) /\ At(u, 0, 0).buf # 1
      BY <1>3, <1>5, <1>17
    <3>2. CASE G.buf = F.buf
      BY <1>1, <1>5, <2>1, <3>1, <3>2 DEF F
    <3>3. CASE G.buf \in Len(m) + 1 .. Len(t)
      <4>1. G.buf \notin 0 .. Len(m)
        BY <1>2, <3>3
      <4>2. Unused(m, n, G.buf)
        BY <1>2, <4>1 DEF Unused
      <4>3. x.buf # G.buf
        <5>1. In(m, n, c, 0) => At(m, c, 0).buf # G.buf
          BY <1>2, <4>1
        <5>2. x.buf \in Len(t) + 1 .. Len(u) => x.buf # G.buf
          BY <1>1, <3>3
        <5> QED BY <5>1, <5>2 DEF c
      <4>4. ASSUME NEW k, NEW l, In(u, n, k, l), At(u, k, l).buf = G.buf PROVE k = 0 /\ l = 0
        BY <1>7, <1>16, <4>1, <4>3, <4>4
      <4> QED BY <1>5, <2>1, <3>1, <4>2, <4>4
    <3> QED BY <1>1, <3>2, <3>3
  <2>2. CASE i = c /\ j = 0
    <3>1. SliceIn(u, At(u, c, 0)) /\ At(u, c, 0).buf # 1
      BY <1>7, <1>13, <1>17
    <3>2. CASE In(m, n, c, 0) /\ x.buf = At(m, c, 0).buf
      BY <1>7, <2>2, <3>1, <3>2
    <3>3. CASE x.buf \in Len(t) + 1 .. Len(u)
      <4>1. x.buf \notin 0 .. Len(m) /\ x.buf # G.buf
        BY <1>1, <1>2, <1>3, <3>3
      <4>2. Unused(m, n, x.buf)
        BY <1>2, <4>1 DEF Unused
      <4>3. ASSUME NEW k, NEW l, In(u, n, k, l), At(u, k, l).buf = x.buf PROVE k = c /\ l = 0
        BY <1>5, <1>16, <4>1, <4>3
      <4> QED BY <1>7, <2>2, <3>1, <4>2, <4>3
    <3> QED BY <3>2, <3>3 DEF c
  <2>3. CASE At(u, i, j) = Nil
    BY <1>12, <2>3
  <2>4. CASE In(m, n, i, j) /\ At(u, i, j) = At(m, i, j)
    <3>1. SliceIn(m, At(m, i, j)) /\ At(m, i, j).buf # 1
      BY <1>2, <2>4
    <3>2. SliceIn(t, At(m, i, j))
      BY <1>1, <1>2, <3>1, KeptSlice
    <3>3. SliceIn(u, At(m, i, j))
      BY <1>1, <1>4, <3>2, KeptSlice
    <3> QED BY <2>4, <3>1, <3>3
  <2> QED BY <1>15, <1>18, <2>1, <2>2, <2>3, <2>4
<1>19. Tree(u, n)
  <2>1. Len(u) >= 1
    BY <1>1, <1>3, <1>4
  <2> QED BY <1>1, <1>4, <1>5, <1>18, <2>1, TreeStep
<1>20. ASSUME NEW i, i # c, In(u, n, i, 0) PROVE In(t, n, i, 0) /\ At(u, i, 0) = At(t, i, 0)
  <2>1. CASE i = 0
    BY <1>1, <1>5, <2>1 DEF G
  <2> QED BY <1>14, <1>20, <2>1
<1> QED BY <1>5, <1>7, <1>19, <1>20 DEF c, G
(* The field's header is another over the same buffer.                     *)
LEMMA FieldSaved ==
  ASSUME NEW n \in 0 .. 2, NEW m, Tree(m, n), NEW x, SliceIn(m, x), x.buf = At(m, 0, 0).buf,
         NEW t, t = Save(m, PtrTo(m, 0), x)
  PROVE  Tree(t, n) /\ Kept(m, t, {1}) /\ Len(t) = Len(m) /\ OnlySlot(m, t, n, 0, 0, x)
<1> DEFINE F == At(m, 0, 0)
<1>1. /\ In(m, n, 0, 0) /\ In(t, n, 0, 0) /\ Memory(m) /\ Len(m) \in Nat /\ Len(m) >= 1 /\ Len(m[1]) = 1
      /\ F.buf # 1 /\ F.buf \in 0 .. Len(m)
      /\ \A i, j : In(m, n, i, j) => SliceIn(m, At(m, i, j)) /\ At(m, i, j).buf # 1
                                     /\ At(m, i, j).buf \in 0 .. Len(m)
  BY TreeHas DEF Tree, In
<1>2. OneCell(m, t, 1, 1, x)
  <2> DEFINE p == PtrTo(m, 0)
  <2>1. p.buf = 1 /\ p.i = 1
    BY DEF PtrTo
  <2> HIDE DEF p
  <2>2. PointsIn(m, p)
    <3>1. m[p.buf] = m[1]
      BY <2>1
    <3>2. Len(m[p.buf]) = 1
      BY <1>1, <3>1
    <3>3. 1 \in 1 .. Len(m) /\ 1 \in 1 .. 1
      BY <1>1
    <3> QED BY <2>1, <3>2, <3>3, Zenon DEF PointsIn
  <2>3. OneCell(m, t, p.buf, p.i, x)
    BY <1>1, <2>2, Saved DEF p
  <2> QED BY <2>1, <2>3
<1>3. Kept(m, t, {1}) /\ Len(t) = Len(m) /\ Cell(t, 1, 1) = x /\ Memory(t)
  BY <1>2 DEF OneCell, Cell, Kept
<1>4. At(t, 0, 0) = x /\ Len(t[1]) = 1
  BY <1>1, <1>3, Paths DEF Kept
<1>5. ASSUME NEW b, b \in 1 .. Len(m), b # 1, NEW i PROVE Cell(t, b, i) = Cell(m, b, i)
  BY <1>3, <1>5 DEF Kept, Cell
<1>6. ASSUME NEW h, SliceIn(m, h) PROVE Cap(t, h) = Cap(m, h) /\ SliceIn(t, h)
  BY <1>1, <1>3, <1>6, KeptSlice
<1>7. Cap(t, x) = Cap(m, F) /\ Cap(m, F) \in Nat /\ (Cap(m, F) # 0 => F.buf # 0)
  BY <1>1, <1>6, TreeHas DEF Cap
<1> HIDE DEF F
<1>8. ASSUME NEW i, i \in 1 .. Cap(m, F), n >= 1
      PROVE  i # 0 /\ At(t, i, 0) = At(m, i, 0) /\ In(m, n, i, 0)
  <2>1. i # 0 /\ F.buf # 0 /\ F.buf \in 1 .. Len(m)
    BY <1>1, <1>7, <1>8
  <2>2. At(t, i, 0) = Cell(t, F.buf, i) /\ At(m, i, 0) = Cell(m, F.buf, i)
    BY <1>4, <2>1, RowPath DEF F
  <2> QED BY <1>1, <1>5, <1>8, <2>1, <2>2 DEF In, F
<1>9. ASSUME NEW i, i \in 1 .. Cap(m, F), n = 2, NEW j, j \in 1 .. Cap(m, At(m, i, 0))
      PROVE  At(t, i, j) = At(m, i, j)
  <2> DEFINE h == At(m, i, 0)
  <2>1. i # 0 /\ At(t, i, 0) = h /\ In(m, n, i, 0) /\ n >= 2
    BY <1>8, <1>9
  <2>2. In(m, n, i, j)
    BY <1>9, <2>1 DEF In, F
  <2>3. j # 0 /\ h.buf # 0 /\ h.buf \in 0 .. Len(m) /\ h.buf # 1
    BY <1>1, <1>9, <2>1, <2>2, Above, TreeHas
  <2>4. At(t, i, j) = Cell(t, h.buf, j)
    BY <2>1, <2>3, CellPath
  <2>5. At(m, i, j) = Cell(m, h.buf, j)
    BY <2>1, <2>3, CellPath
  <2>6. h.buf \in 1 .. Len(m)
    BY <1>1, <2>3
  <2> QED BY <1>5, <2>3, <2>4, <2>5, <2>6
<1>10. ASSUME NEW i, NEW j PROVE In(t, n, i, j) <=> In(m, n, i, j)
  <2>1. ASSUME n >= 2, i \in 1 .. Cap(m, F) PROVE Cap(t, At(t, i, 0)) = Cap(m, At(m, i, 0))
    <3>1. At(t, i, 0) = At(m, i, 0) /\ SliceIn(m, At(m, i, 0))
      BY <1>1, <1>8, <2>1
    <3> QED BY <1>6, <3>1
  <2>2. Cap(t, At(t, 0, 0)) = Cap(m, F)
    BY <1>4, <1>7
  <2> QED BY <2>1, <2>2, Zenon DEF In, F
<1>11. ASSUME NEW i, NEW j, In(m, n, i, j), ~(i = 0 /\ j = 0) PROVE At(t, i, j) = At(m, i, j)
  <2>1. CASE n >= 1 /\ i \in 1 .. Cap(m, F) /\ j = 0
    BY <1>8, <2>1
  <2>2. CASE n >= 2 /\ i \in 1 .. Cap(m, F) /\ j \in 1 .. Cap(m, At(m, i, 0))
    <3>1. n = 2
      BY <2>2
    <3> QED BY <1>9, <2>2, <3>1
  <2> QED BY <1>11, <2>1, <2>2 DEF In, F
<1>12. OnlySlot(m, t, n, 0, 0, x)
  BY <1>1, <1>4, <1>10, <1>11, Zenon DEF OnlySlot
<1>13. ASSUME NEW i, NEW j, In(t, n, i, j)
       PROVE  /\ SliceIn(t, At(t, i, j)) /\ At(t, i, j).buf # 1
              /\ In(m, n, i, j) /\ At(t, i, j).buf = At(m, i, j).buf
  <2>1. In(m, n, i, j)
    BY <1>10, <1>13
  <2>2. CASE i = 0 /\ j = 0
    BY <1>1, <1>4, <1>6, <2>1, <2>2 DEF F
  <2>3. CASE ~(i = 0 /\ j = 0)
    BY <1>1, <1>6, <1>11, <2>1, <2>3
  <2> QED BY <2>2, <2>3
<1>14. Tree(t, n)
  BY <1>1, <1>3, <1>4, <1>13, TreeStep
<1> QED BY <1>3, <1>12, <1>14

-----------------------------------------------------------------------------
(* What an element, a slice of them and the field read, in a memory.        *)
EntryOf(h, m, c) == IF h THEN [there |-> c # Nil, els |-> Contents(m, c)] ELSE c
LeafOf(h, m, s) == [i \in 1 .. s.len |-> EntryOf(h, m, Cell(m, s.buf, i))]
RowOf(h, m, s) == [there |-> s # Nil, els |-> LeafOf(h, m, s)]
ViewOf(nested, h, m) ==
  IF nested THEN [i \in 1 .. At(m, 0, 0).len |-> RowOf(h, m, At(m, i, 0))] ELSE LeafOf(h, m, At(m, 0, 0))

(* The elements of a slice are the ones they were.                         *)
LEMMA ContentsKept ==
  ASSUME NEW m, Memory(m), NEW s, SliceIn(m, s), NEW t, NEW W, Kept(m, t, W), s.buf = 0 \/ s.buf \notin W
  PROVE  Contents(t, s) = Contents(m, s)
<1>1. s.buf # 0 => s.buf \in 1 .. Len(m)
  BY DEF SliceIn, Memory, Listed
<1> QED BY <1>1 DEF Contents, Kept

(* The elements of a slice of them read the same, when no buffer of theirs  *)
(* changed.                                                                *)
LEMMA LeafKept ==
  ASSUME NEW h \in BOOLEAN, NEW m, Memory(m), NEW s, SliceIn(m, s), NEW t, NEW W, Kept(m, t, W),
         s.buf = 0 \/ s.buf \notin W,
         h => \A i \in 1 .. s.len :
           /\ SliceIn(m, Cell(m, s.buf, i))
           /\ Cell(m, s.buf, i).buf = 0 \/ Cell(m, s.buf, i).buf \notin W
  PROVE  LeafOf(h, t, s) = LeafOf(h, m, s)
<1>1. ASSUME NEW i \in 1 .. s.len
      PROVE  EntryOf(h, t, Cell(t, s.buf, i)) = EntryOf(h, m, Cell(m, s.buf, i))
  <2>1. s.buf \in 1 .. Len(m)
    <3>1. Len(m) \in Nat /\ s.buf \in 0 .. Len(m) /\ s.len \in 0 .. Cap(m, s)
      BY DEF SliceIn, Memory, Listed
    <3>2. s.buf # 0
      BY <3>1 DEF Cap
    <3> QED BY <3>1, <3>2
  <2>2. s.buf \notin W
    BY <2>1
  <2>3. Cell(t, s.buf, i) = Cell(m, s.buf, i)
    BY <2>1, <2>2, SameCells DEF Kept
  <2>4. h => Contents(t, Cell(m, s.buf, i)) = Contents(m, Cell(m, s.buf, i))
    BY ContentsKept
  <2> QED BY <2>3, <2>4 DEF EntryOf
<1> QED BY <1>1 DEF LeafOf

(* So does the array at a path, where its header is the one it was.         *)
LEMMA RowSame ==
  ASSUME NEW n \in 0 .. 2, NEW m, Tree(m, n), NEW h \in BOOLEAN, NEW a, In(m, n, a, 0), h => Leafy(n, a),
         NEW t, NEW W, Kept(m, t, W),
         At(m, a, 0).buf = 0 \/ At(m, a, 0).buf \notin W,
         h => \A c \in 1 .. At(m, a, 0).len :
           At(m, SlotI(a, c), SlotJ(a, c)).buf = 0 \/ At(m, SlotI(a, c), SlotJ(a, c)).buf \notin W
  PROVE  LeafOf(h, t, At(m, a, 0)) = LeafOf(h, m, At(m, a, 0))
<1> DEFINE s == At(m, a, 0)
<1>1. Memory(m) /\ SliceIn(m, s) /\ s.len \in 0 .. Cap(m, s) /\ Cap(m, s) \in Nat
  BY TreeHas
<1>2. ASSUME NEW i \in 1 .. s.len, h
      PROVE  /\ SliceIn(m, Cell(m, s.buf, i))
             /\ Cell(m, s.buf, i).buf = 0 \/ Cell(m, s.buf, i).buf \notin W
  <2>1. i \in 1 .. Cap(m, s)
    BY <1>1
  <2>2. In(m, n, SlotI(a, i), SlotJ(a, i)) /\ i # 0
    BY <1>2, <2>1, SlotIn DEF Leafy
  <2>3. At(m, SlotI(a, i), SlotJ(a, i)) = Cell(m, s.buf, i)
    BY <2>2, SlotPath
  <2>4. SliceIn(m, At(m, SlotI(a, i), SlotJ(a, i)))
    BY <2>2, TreeHas
  <2> QED BY <1>2, <2>3, <2>4
<1>3. s.buf = 0 \/ s.buf \notin W
  OBVIOUS
<1> HIDE DEF s
<1>4. LeafOf(h, t, s) = LeafOf(h, m, s)
  BY <1>1, <1>2, <1>3, LeafKept
<1> QED BY <1>4 DEF s

-----------------------------------------------------------------------------
(* A buffer nothing that is read is in: it is of a slot past the length, or *)
(* of none.                                                                *)
Idle(m, n, h, b, a, c) ==
  \A i, j : In(m, n, i, j) /\ b # 0 /\ At(m, i, j).buf = b =>
    /\ h /\ Leafy(n, a) /\ In(m, n, a, 0) /\ c \in Nat /\ c # 0
    /\ i = SlotI(a, c) /\ j = SlotJ(a, c) /\ c > At(m, a, 0).len

(* The levels of a tree by what is in it.                                  *)
Deep(nested, h, n) == n = (IF nested THEN 1 ELSE 0) + (IF h THEN 1 ELSE 0)

(* Two slots of leaves are the same only as paths.                         *)
LEMMA OneSlot ==
  ASSUME NEW n, NEW a, NEW b, Leafy(n, a), Leafy(n, b), NEW c, NEW d, c # 0,
         SlotI(a, c) = SlotI(b, d), SlotJ(a, c) = SlotJ(b, d)
  PROVE  a = b /\ c = d
BY DEF Leafy, SlotI, SlotJ

(* What changes there changes nothing that is read.                        *)
LEMMA RowSpared ==
  ASSUME NEW n \in 0 .. 2, NEW m, Tree(m, n), NEW h \in BOOLEAN, NEW a, In(m, n, a, 0),
         IF h THEN Leafy(n, a) ELSE Bare(n, a), NEW t,
         NEW b, NEW x, NEW y, Idle(m, n, h, b, x, y), Kept(m, t, {b})
  PROVE  LeafOf(h, t, At(m, a, 0)) = LeafOf(h, m, At(m, a, 0))
<1>1. At(m, a, 0).buf = 0 \/ At(m, a, 0).buf # b
  <2>1. SUFFICES ASSUME At(m, a, 0).buf # 0, At(m, a, 0).buf = b PROVE FALSE
    OBVIOUS
  <2>2. h /\ Leafy(n, x) /\ y # 0 /\ a = SlotI(x, y) /\ 0 = SlotJ(x, y)
    BY <2>1 DEF Idle
  <2> QED BY <2>2 DEF Leafy, SlotI, SlotJ
<1>2. ASSUME h, NEW c \in 1 .. At(m, a, 0).len
      PROVE  At(m, SlotI(a, c), SlotJ(a, c)).buf = 0 \/ At(m, SlotI(a, c), SlotJ(a, c)).buf # b
  <2>1. SUFFICES ASSUME At(m, SlotI(a, c), SlotJ(a, c)).buf # 0, At(m, SlotI(a, c), SlotJ(a, c)).buf = b PROVE FALSE
    OBVIOUS
  <2>2. c \in 1 .. Cap(m, At(m, a, 0)) /\ At(m, a, 0).len \in Nat
    BY TreeHas
  <2>3. In(m, n, SlotI(a, c), SlotJ(a, c)) /\ c # 0
    BY <1>2, <2>2, SlotIn DEF Leafy
  <2>4. Leafy(n, x) /\ SlotI(a, c) = SlotI(x, y) /\ SlotJ(a, c) = SlotJ(x, y) /\ y > At(m, x, 0).len
    BY <2>1, <2>3 DEF Idle
  <2>5. a = x /\ c = y
    BY <1>2, <2>3, <2>4, OneSlot
  <2> QED BY <2>2, <2>4, <2>5
<1>3. Kept(m, t, {b}) /\ (h => Leafy(n, a))
  OBVIOUS
<1> DEFINE W == {b}
<1>4. At(m, a, 0).buf = 0 \/ At(m, a, 0).buf \notin W
  BY <1>1
<1>5. h => \A c \in 1 .. At(m, a, 0).len :
           At(m, SlotI(a, c), SlotJ(a, c)).buf = 0 \/ At(m, SlotI(a, c), SlotJ(a, c)).buf \notin W
  BY <1>2
<1> HIDE DEF W
<1>6. Kept(m, t, W)
  BY <1>3 DEF W
<1> QED BY <1>3, <1>4, <1>5, <1>6, RowSame

(* The rows of a field.                                                    *)
LEMMA RowIn ==
  ASSUME NEW nested \in BOOLEAN, NEW h \in BOOLEAN, NEW n, Deep(nested, h, n), NEW m, Tree(m, n)
  PROVE  /\ n \in 0 .. 2 /\ In(m, n, 0, 0) /\ At(m, 0, 0).len \in Nat
         /\ nested => \A i \in 1 .. At(m, 0, 0).len :
              i # 0 /\ In(m, n, i, 0) /\ IF h THEN Leafy(n, i) ELSE Bare(n, i)
         /\ ~nested => IF h THEN Leafy(n, 0) ELSE Bare(n, 0)
<1>1. n \in 0 .. 2 /\ In(m, n, 0, 0)
  BY DEF Deep, In
<1>2. At(m, 0, 0).len \in Nat /\ At(m, 0, 0).len \in 0 .. Cap(m, At(m, 0, 0)) /\ Cap(m, At(m, 0, 0)) \in Nat
  BY <1>1, TreeHas
<1>3. ASSUME nested, NEW i \in 1 .. At(m, 0, 0).len
      PROVE  i # 0 /\ In(m, n, i, 0) /\ IF h THEN Leafy(n, i) ELSE Bare(n, i)
  BY <1>2, <1>3 DEF Deep, In, Leafy, Bare
<1> QED BY <1>1, <1>2, <1>3 DEF Deep, Leafy, Bare

(* Nothing that is read has changed, when the buffer that did is idle.      *)
LEMMA ViewSpared ==
  ASSUME NEW nested \in BOOLEAN, NEW h \in BOOLEAN, NEW n, Deep(nested, h, n), NEW m, Tree(m, n), NEW t,
         SameHeaders(m, t, n), NEW b, NEW x, NEW y, Idle(m, n, h, b, x, y), Kept(m, t, {b})
  PROVE  ViewOf(nested, h, t) = ViewOf(nested, h, m)
<1>1. /\ n \in 0 .. 2 /\ At(t, 0, 0) = At(m, 0, 0)
  BY RowIn DEF SameHeaders
<1>2. CASE nested
  <2>1. ASSUME NEW i \in 1 .. At(m, 0, 0).len PROVE RowOf(h, t, At(t, i, 0)) = RowOf(h, m, At(m, i, 0))
    <3>1. In(m, n, i, 0) /\ IF h THEN Leafy(n, i) ELSE Bare(n, i)
      BY <1>2, RowIn
    <3>2. LeafOf(h, t, At(m, i, 0)) = LeafOf(h, m, At(m, i, 0))
      BY <1>1, <3>1, RowSpared
    <3>3. At(t, i, 0) = At(m, i, 0)
      BY <3>1 DEF SameHeaders
    <3> QED BY <3>2, <3>3 DEF RowOf
  <2> QED BY <1>1, <1>2, <2>1 DEF ViewOf
<1>3. CASE ~nested
  <2>1. In(m, n, 0, 0) /\ IF h THEN Leafy(n, 0) ELSE Bare(n, 0)
    BY <1>3, RowIn
  <2>2. LeafOf(h, t, At(m, 0, 0)) = LeafOf(h, m, At(m, 0, 0))
    BY <1>1, <2>1, RowSpared
  <2> QED BY <1>1, <1>3, <2>2 DEF ViewOf
<1> QED BY <1>2, <1>3

(* The buffers of a leaf and of what is below it, and those of none.        *)
Owned(m, n, a, W) ==
  \A b \in W : b = 0 \/ \A i, j : In(m, n, i, j) /\ At(m, i, j).buf = b => i = a \/ (i = 0 /\ j = 0)

(* One row is another.                                                     *)
RowIs(h, m, t, a) == ViewOf(TRUE, h, t) = [ViewOf(TRUE, h, m) EXCEPT ![a] = RowOf(h, t, At(t, a, 0))]

(* What changes there changes one row.                                     *)
LEMMA RowChanged ==
  ASSUME NEW h \in BOOLEAN, NEW n, Deep(TRUE, h, n), NEW m, Tree(m, n),
         NEW a \in 1 .. At(m, 0, 0).len, NEW t, NEW W, Kept(m, t, W), Owned(m, n, a, W),
         At(t, 0, 0) = At(m, 0, 0),
         \A i \in 1 .. At(m, 0, 0).len : i # a => At(t, i, 0) = At(m, i, 0)
  PROVE  RowIs(h, m, t, a)
<1>1. ASSUME NEW i \in 1 .. At(m, 0, 0).len, i # a PROVE RowOf(h, t, At(t, i, 0)) = RowOf(h, m, At(m, i, 0))
  <2>1. i # 0 /\ In(m, n, i, 0) /\ (h => Leafy(n, i)) /\ n \in 0 .. 2
    BY RowIn
  <2>2. At(m, i, 0).buf = 0 \/ At(m, i, 0).buf \notin W
    BY <1>1, <2>1 DEF Owned
  <2>3. ASSUME h, NEW c \in 1 .. At(m, i, 0).len
        PROVE  At(m, SlotI(i, c), SlotJ(i, c)).buf = 0 \/ At(m, SlotI(i, c), SlotJ(i, c)).buf \notin W
    <3>1. c \in 1 .. Cap(m, At(m, i, 0))
      BY <2>1, TreeHas
    <3>2. In(m, n, SlotI(i, c), SlotJ(i, c))
      BY <2>1, <2>3, <3>1, SlotIn DEF Leafy
    <3>3. SlotI(i, c) = i
      BY <2>1 DEF SlotI
    <3> QED BY <1>1, <2>1, <3>2, <3>3 DEF Owned
  <2>4. LeafOf(h, t, At(m, i, 0)) = LeafOf(h, m, At(m, i, 0))
    BY <2>1, <2>2, <2>3, RowSame
  <2> QED BY <1>1, <2>4 DEF RowOf
<1>2. ASSUME NEW v, NEW w, NEW L, NEW r, NEW F(_), NEW G(_), v = [i \in L |-> F(i)], w = [i \in L |-> G(i)],
             a \in L, G(a) = r, \A i \in L : i # a => G(i) = F(i)
      PROVE  w = [v EXCEPT ![a] = r]
  <2>1. [v EXCEPT ![a] = r] = [i \in L |-> IF i = a THEN r ELSE F(i)]
    BY <1>2
  <2>2. \A i \in L : G(i) = IF i = a THEN r ELSE F(i)
    BY <1>2
  <2> QED BY <1>2, <2>1, <2>2
<1> DEFINE L == 1 .. At(m, 0, 0).len
           F(i) == RowOf(h, m, At(m, i, 0))
           G(i) == RowOf(h, t, At(t, i, 0))
<1>3. ViewOf(TRUE, h, m) = [i \in L |-> F(i)]
  BY DEF ViewOf
<1>4. ViewOf(TRUE, h, t) = [i \in L |-> G(i)]
  BY DEF ViewOf
<1>5. a \in L /\ \A i \in L : i # a => G(i) = F(i)
  BY <1>1
<1>6. G(a) = RowOf(h, t, At(t, a, 0))
  OBVIOUS
<1> HIDE DEF L, F, G
<1>7. ViewOf(TRUE, h, t) = [ViewOf(TRUE, h, m) EXCEPT ![a] = RowOf(h, t, At(t, a, 0))]
  BY <1>2, <1>3, <1>4, <1>5, <1>6
<1> QED BY <1>7 DEF RowIs

-----------------------------------------------------------------------------
(* The elements, long enough for id, and with one of them set.             *)
Ext(els, k, id, gap) == [i \in 1 .. Reaching(k, id) |-> IF i <= k THEN els[i] ELSE gap]
Put(els, k, id, gap, x) ==
  [i \in 1 .. Reaching(k, id) |-> IF i = id + 1 THEN x ELSE IF i <= k THEN els[i] ELSE gap]

(* The elements read from a slice, as a sequence.                          *)
LEMMA LeafListed ==
  ASSUME NEW h, NEW m, NEW s, s.len \in Nat
  PROVE  /\ Listed(LeafOf(h, m, s)) /\ Len(LeafOf(h, m, s)) = s.len
         /\ \A i \in 1 .. s.len : LeafOf(h, m, s)[i] = EntryOf(h, m, Cell(m, s.buf, i))
<1>1. LeafOf(h, m, s) = [i \in 1 .. s.len |-> LeafOf(h, m, s)[i]]
  BY DEF LeafOf
<1>2. Listed(LeafOf(h, m, s)) /\ Len(LeafOf(h, m, s)) = s.len
  BY <1>1, TabulatedIsListed
<1> QED BY <1>2 DEF LeafOf

(* What is read with the elements of one array replaced.                   *)
With(nested, v, a, els) == IF nested THEN [v EXCEPT ![a] = [there |-> TRUE, els |-> els]] ELSE els

(* The leaf at a, among what is read.                                      *)
AtLeaf(nested, h, n, m, a) ==
  /\ nested \in BOOLEAN /\ h \in BOOLEAN /\ Deep(nested, h, n) /\ n \in 0 .. 2
  /\ Tree(m, n) /\ In(m, n, a, 0)
  /\ IF h THEN Leafy(n, a) ELSE Bare(n, a)
  /\ IF nested THEN a \in 1 .. At(m, 0, 0).len /\ a # 0 ELSE a = 0

(* The buffers of a header and of the pointer to it are its own.           *)
LEMMA OwnOwned ==
  ASSUME NEW n \in 0 .. 2, NEW m, Tree(m, n), NEW a, In(m, n, a, 0)
  PROVE  Owned(m, n, a, {PtrTo(m, a).buf, At(m, a, 0).buf})
<1>1. ASSUME NEW i, NEW j, In(m, n, i, j), At(m, i, j).buf = PtrTo(m, a).buf, At(m, i, j).buf # 0
      PROVE  i = a \/ (i = 0 /\ j = 0)
  <2>1. In(m, n, 0, 0)
    BY DEF In
  <2>2. At(m, i, j).buf # 1
    BY <1>1, TreeHas
  <2>3. a # 0 /\ PtrTo(m, a).buf = At(m, 0, 0).buf
    BY <1>1, <2>2 DEF PtrTo
  <2> QED BY <1>1, <2>1, <2>3, TreeOnly
<1>2. ASSUME NEW i, NEW j, In(m, n, i, j), At(m, i, j).buf = At(m, a, 0).buf, At(m, i, j).buf # 0
      PROVE  i = a
  BY <1>2, TreeOnly
<1> QED BY <1>1, <1>2 DEF Owned

(* The other rows are where they were.                                     *)
RowsBeside(nested, m, t, a) ==
  nested => At(t, 0, 0) = At(m, 0, 0) /\ \A i \in 1 .. At(m, 0, 0).len : i # a => At(t, i, 0) = At(m, i, 0)

(* What is read has other elements in one array.                           *)
Reread(nested, h, m, u, a) ==
  ViewOf(nested, h, u) = With(nested, ViewOf(nested, h, m), a, LeafOf(h, u, At(u, a, 0)))

(* What is read, when the elements of one array have changed.              *)
LEMMA Rewritten ==
  ASSUME NEW nested, NEW h, NEW n, NEW m, NEW a, AtLeaf(nested, h, n, m, a),
         NEW u, NEW W, Kept(m, u, W), nested => Owned(m, n, a, W), At(u, a, 0) # Nil,
         RowsBeside(nested, m, u, a)
  PROVE  Reread(nested, h, m, u, a)
<1>1. CASE nested
  <2>1. Deep(TRUE, h, n) /\ h \in BOOLEAN /\ nested = TRUE /\ a \in 1 .. At(m, 0, 0).len /\ Tree(m, n)
    BY <1>1 DEF AtLeaf
  <2>2. RowIs(h, m, u, a)
    <3>1. /\ Kept(m, u, W) /\ Owned(m, n, a, W) /\ At(u, 0, 0) = At(m, 0, 0)
          /\ \A i \in 1 .. At(m, 0, 0).len : i # a => At(u, i, 0) = At(m, i, 0)
      BY <1>1 DEF RowsBeside
    <3> QED BY ONLY <2>1, <3>1, RowChanged
  <2>3. RowOf(h, u, At(u, a, 0)) = [there |-> TRUE, els |-> LeafOf(h, u, At(u, a, 0))]
    BY DEF RowOf
  <2>4. ViewOf(TRUE, h, u) = [ViewOf(TRUE, h, m) EXCEPT ![a] = [there |-> TRUE, els |-> LeafOf(h, u, At(u, a, 0))]]
    BY <2>2, <2>3 DEF RowIs
  <2> QED BY <2>1, <2>4 DEF With, Reread
<1>2. CASE ~nested
  <2>1. nested = FALSE /\ a = 0
    BY <1>2 DEF AtLeaf
  <2> QED BY <2>1 DEF ViewOf, With, Reread
<1> QED BY <1>1, <1>2

(* A slice grown to hold id, cell by cell, and the rows beside it.         *)
LEMMA ReachedRows ==
  ASSUME NEW nested, NEW h, NEW n, NEW m, NEW a, AtLeaf(nested, h, n, m, a), NEW id \in Nat,
         NEW t, NEW fill, NEW zero, Reached(m, t, n, a, id, fill, zero)
  PROVE  /\ LongerAt(m, t, PtrTo(m, a), At(m, a, 0), At(t, a, 0), Reaching(At(m, a, 0).len, id), fill, zero)
         /\ RowsBeside(nested, m, t, a)
<1>1. n \in 0 .. 2 /\ Tree(m, n) /\ In(m, n, a, 0)
  BY DEF AtLeaf
<1>2. LongerAt(m, t, PtrTo(m, a), At(m, a, 0), At(t, a, 0), Reaching(At(m, a, 0).len, id), fill, zero)
  BY <1>1, LengthenedParts DEF Reached
<1>3. ASSUME nested, NEW i \in 1 .. At(m, 0, 0).len, i # a PROVE At(t, i, 0) = At(m, i, 0)
  <2>1. a # 0 /\ In(m, n, 0, 0)
    BY <1>3 DEF AtLeaf, In
  <2>2. /\ At(m, 0, 0).len \in 0 .. Cap(m, At(m, 0, 0)) /\ Cap(m, At(m, 0, 0)) \in Nat
        /\ (At(m, 0, 0).buf = 0 => Cap(m, At(m, 0, 0)) = 0)
    BY <1>1, <2>1, TreeHas
  <2>3. i \in 1 .. Len(m[At(m, 0, 0).buf]) /\ i # 0
    BY <2>2 DEF Cap
  <2>4. PtrTo(m, a).buf = At(m, 0, 0).buf /\ PtrTo(m, a).i = a
    BY <2>1 DEF PtrTo
  <2>5. Cell(t, At(m, 0, 0).buf, i) = Cell(m, At(m, 0, 0).buf, i)
    BY <1>2, <1>3, <2>3, <2>4 DEF LongerAt
  <2>6. At(t, 0, 0) = At(m, 0, 0)
    BY <2>1 DEF Reached
  <2> QED BY <2>3, <2>5, <2>6, RowPath
<1>4. nested => At(t, 0, 0) = At(m, 0, 0)
  BY DEF Reached, AtLeaf
<1> QED BY <1>2, <1>3, <1>4 DEF RowsBeside

(* What is read of an array and of its elements, when els is read of them.  *)
Rewrote(nested, h, m, u, a, els) ==
  /\ LeafOf(h, u, At(u, a, 0)) = els
  /\ ViewOf(nested, h, u) = With(nested, ViewOf(nested, h, m), a, els)

(* Elements that are no slices: a longer array.                            *)
LEMMA BareExtended ==
  ASSUME NEW nested, NEW n, NEW m, NEW a, AtLeaf(nested, FALSE, n, m, a), NEW id \in Nat,
         NEW t, NEW fill, NEW zero, Reached(m, t, n, a, id, fill, zero)
  PROVE  Rewrote(nested, FALSE, m, t, a, Ext(LeafOf(FALSE, m, At(m, a, 0)), At(m, a, 0).len, id, fill))
<1> DEFINE s == At(m, a, 0)
           r == At(t, a, 0)
           k == Reaching(s.len, id)
<1>1. LongerAt(m, t, PtrTo(m, a), s, r, k, fill, zero)
  BY ReachedRows
<1>2. n \in 0 .. 2 /\ Tree(m, n) /\ In(m, n, a, 0)
  BY DEF AtLeaf
<1>3. s.len \in Nat /\ r.len = k /\ k \in Nat /\ k >= 1 /\ s.len <= k
  BY <1>1 DEF LongerAt, Reaching
<1>4. LeafOf(FALSE, t, r) = Ext(LeafOf(FALSE, m, s), s.len, id, fill)
  <2> DEFINE e == LeafOf(FALSE, m, s)
  <2>1. \A i \in 1 .. s.len : e[i] = Cell(m, s.buf, i)
    BY DEF LeafOf, EntryOf
  <2>2. \A i \in 1 .. k : Cell(t, r.buf, i) = IF i <= s.len THEN e[i] ELSE fill
    <3> HIDE DEF s, r, e, k
    <3> QED BY <1>1, <1>3, <2>1 DEF LongerAt
  <2>3. LeafOf(FALSE, t, r) = [i \in 1 .. k |-> Cell(t, r.buf, i)]
    BY <1>3 DEF LeafOf, EntryOf
  <2> HIDE DEF s, r, e, k
  <2>4. LeafOf(FALSE, t, r) = [i \in 1 .. k |-> IF i <= s.len THEN e[i] ELSE fill]
    BY <2>2, <2>3
  <2> QED BY <2>4 DEF Ext, e, k
<1>5. r # Nil
  BY <1>3 DEF Nil
<1>6. Kept(m, t, {PtrTo(m, a).buf, s.buf}) /\ Owned(m, n, a, {PtrTo(m, a).buf, s.buf})
  BY <1>2, OwnOwned DEF Reached
<1>7. RowsBeside(nested, m, t, a)
  BY ReachedRows
<1>8. Reread(nested, FALSE, m, t, a)
  BY <1>5, <1>6, <1>7, Rewritten
<1> QED BY <1>4, <1>8 DEF Rewrote, Reread

(* Where the headers are the same but for a slot, the rows are.            *)
LEMMA RowsOn ==
  ASSUME NEW nested, NEW h, NEW n, NEW m, NEW a, AtLeaf(nested, h, n, m, a), NEW t, Tree(t, n),
         RowsBeside(nested, m, t, a), NEW u,
         nested => /\ At(u, 0, 0) = At(t, 0, 0)
                   /\ \A i : i # 0 /\ i # a /\ In(t, n, i, 0) => At(u, i, 0) = At(t, i, 0)
  PROVE  RowsBeside(nested, m, u, a)
<1>1. ASSUME nested, NEW i \in 1 .. At(m, 0, 0).len, i # a PROVE At(u, i, 0) = At(m, i, 0)
  <2>1. At(t, 0, 0) = At(m, 0, 0) /\ At(t, i, 0) = At(m, i, 0)
    BY <1>1 DEF RowsBeside
  <2>2. i # 0 /\ In(t, n, i, 0)
    BY <1>1, <2>1, RowIn DEF AtLeaf
  <2> QED BY <1>1, <2>1, <2>2
<1> QED BY <1>1 DEF RowsBeside

(* Elements that are no slices: one is placed.                             *)
LEMMA BarePut ==
  ASSUME NEW nested, NEW n, NEW m, NEW a, AtLeaf(nested, FALSE, n, m, a), NEW id \in Nat,
         NEW t, NEW fill, NEW zero, Reached(m, t, n, a, id, fill, zero),
         NEW x, NEW u, u = Save(t, ElementAt(t, PtrTo(m, a), id), x)
  PROVE  Rewrote(nested, FALSE, m, u, a, Put(LeafOf(FALSE, m, At(m, a, 0)), At(m, a, 0).len, id, fill, x))
<1> DEFINE s == At(m, a, 0)
           r == At(t, a, 0)
           k == Reaching(s.len, id)
           W == {PtrTo(m, a).buf, s.buf}
<1>1. LongerAt(m, t, PtrTo(m, a), s, r, k, fill, zero)
  BY ReachedRows
<1>2. n \in 0 .. 2 /\ Tree(m, n) /\ In(m, n, a, 0) /\ Bare(n, a)
  BY DEF AtLeaf
<1>3. /\ At(u, a, 0) = r /\ OneCell(t, u, r.buf, id + 1, x) /\ SameHeaders(t, u, n)
  BY <1>2, BarePlaced
<1>4. s.len \in Nat /\ r.len = k /\ k \in Nat /\ k >= 1 /\ s.len <= k /\ k <= Cap(t, r) /\ Cap(t, r) \in Nat
  BY <1>1 DEF LongerAt, Reaching
<1>5. r.buf # 0 /\ Cap(t, r) = Len(t[r.buf])
  <2>1. Cap(t, r) # 0
    BY <1>4
  <2> QED BY <2>1 DEF Cap
<1>6. LeafOf(FALSE, u, r) = Put(LeafOf(FALSE, m, s), s.len, id, fill, x)
  <2> DEFINE e == LeafOf(FALSE, m, s)
             E(i) == IF i = id + 1 THEN x ELSE IF i <= s.len THEN e[i] ELSE fill
  <2>1. \A i \in 1 .. s.len : e[i] = Cell(m, s.buf, i)
    BY DEF LeafOf, EntryOf
  <2>2. \A i \in 1 .. k : Cell(t, r.buf, i) = IF i <= s.len THEN e[i] ELSE fill
    <3> HIDE DEF s, r, e, k
    <3> QED BY <1>1, <1>4, <2>1 DEF LongerAt
  <2>3. \A i \in 1 .. k : Cell(u, r.buf, i) = IF i = id + 1 THEN x ELSE Cell(t, r.buf, i)
    <3>1. /\ Cell(u, r.buf, id + 1) = x
          /\ \A j \in 1 .. Len(t[r.buf]) : j # id + 1 => Cell(u, r.buf, j) = Cell(t, r.buf, j)
      BY <1>3 DEF OneCell, Cell
    <3> HIDE DEF s, r, e, k
    <3>2. \A i \in 1 .. k : i \in 1 .. Len(t[r.buf])
      BY <1>4, <1>5
    <3> QED BY ONLY <3>1, <3>2
  <2>4. \A i \in 1 .. k : Cell(u, r.buf, i) = E(i)
    <3> HIDE DEF s, r, e, k
    <3> QED BY <2>2, <2>3
  <2>5. LeafOf(FALSE, u, r) = [i \in 1 .. k |-> Cell(u, r.buf, i)]
    BY <1>4 DEF LeafOf, EntryOf
  <2>6. Put(e, s.len, id, fill, x) = [i \in 1 .. k |-> E(i)]
    BY DEF Put
  <2> HIDE DEF s, r, e, k, E
  <2>7. LeafOf(FALSE, u, r) = Put(e, s.len, id, fill, x)
    BY <2>4, <2>5, <2>6
  <2> QED BY <2>7 DEF e
<1>7. At(u, a, 0) # Nil
  BY <1>3, <1>4 DEF Nil
<1>8. Kept(m, u, W) /\ Owned(m, n, a, W)
  <2>1. Kept(m, t, W) /\ Kept(t, u, {r.buf}) /\ Len(m) \in Nat
    BY <1>1, <1>3 DEF OneCell, Reached, LongerAt
  <2>2. r.buf = s.buf \/ r.buf \in Len(m) + 1 .. Len(t)
    BY <1>1 DEF LongerAt
  <2>3. Owned(m, n, a, W)
    BY <1>2, OwnOwned
  <2>4. s.buf \in W
    OBVIOUS
  <2> HIDE DEF W, r, s
  <2>5. Kept(m, u, W \cup {r.buf})
    BY <2>1, KeptTwice
  <2>6. \A b \in 1 .. Len(m) : b \in W \cup {r.buf} => b \in W
    BY <2>1, <2>2, <2>4
  <2> QED BY <2>3, <2>5, <2>6, KeptLess
<1>9. RowsBeside(nested, m, u, a)
  <2>1. RowsBeside(nested, m, t, a) /\ Tree(t, n)
    BY ReachedRows DEF Reached, Grew
  <2>2. At(u, 0, 0) = At(t, 0, 0) /\ \A i : In(t, n, i, 0) => At(u, i, 0) = At(t, i, 0)
    BY <1>3 DEF SameHeaders, In
  <2> QED BY <2>1, <2>2, RowsOn
<1>10. Reread(nested, FALSE, m, u, a)
  BY <1>7, <1>8, <1>9, Rewritten
<1> QED BY <1>3, <1>6, <1>10 DEF Rewrote, Reread

(* The gap between elements that are slices, and one of them.              *)
NoEntry == [there |-> FALSE, els |-> <<>>]
Entry(m, x) == [there |-> x # Nil, els |-> Contents(m, x)]

(* An element that is a slice is placed: every buffer that changed.        *)
LEMMA LeafPutKept ==
  ASSUME NEW n \in 0 .. 2, NEW m, Tree(m, n), NEW a, In(m, n, a, 0), Leafy(n, a), NEW id \in Nat,
         NEW t, Reached(m, t, n, a, id, Nil, Nil),
         NEW y, NEW w, Kept(t, w, {y}), NEW u, Kept(w, u, {At(t, a, 0).buf})
  PROVE  Kept(m, u, {PtrTo(m, a).buf, At(m, a, 0).buf, y})
<1> DEFINE s == At(m, a, 0)
           r == At(t, a, 0)
           W == {PtrTo(m, a).buf, s.buf, y}
           V == {PtrTo(m, a).buf, s.buf}
<1>1. LongerAt(m, t, PtrTo(m, a), s, r, Reaching(s.len, id), Nil, Nil)
  BY LengthenedParts DEF Reached
<1>2. Kept(m, t, V) /\ Len(m) \in Nat /\ Len(t) \in Nat
  BY <1>1 DEF Reached, LongerAt
<1>3. r.buf = s.buf \/ r.buf \in Len(m) + 1 .. Len(t)
  BY <1>1 DEF LongerAt
<1>4. V \cup {y} \cup {r.buf} = W \cup {r.buf} /\ s.buf \in W
  OBVIOUS
<1> HIDE DEF s, r, W, V
<1>5. Kept(m, w, V \cup {y})
  BY <1>2, KeptTwice
<1>6. Kept(w, u, {r.buf})
  BY DEF r
<1>7. Kept(m, u, V \cup {y} \cup {r.buf})
  BY <1>2, <1>5, <1>6, KeptTwice
<1>8. Kept(m, u, W \cup {r.buf})
  BY <1>4, <1>7
<1>9. \A b \in 1 .. Len(m) : b \in W \cup {r.buf} => b \in W
  BY <1>2, <1>3, <1>4
<1>10. Kept(m, u, W)
  BY <1>8, <1>9, KeptLess
<1> QED BY <1>10 DEF W, s

(* An element keeps what it reads.                                         *)
OtherRead(m, u, n, a, i) ==
  /\ Contents(u, Cell(m, At(m, a, 0).buf, i)) = Contents(m, Cell(m, At(m, a, 0).buf, i))
  /\ i # 0 /\ In(m, n, SlotI(a, i), SlotJ(a, i))
  /\ Cell(m, At(m, a, 0).buf, i) = At(m, SlotI(a, i), SlotJ(a, i))

(* The elements before keep what they read.                                *)
LEMMA OthersRead ==
  ASSUME NEW n \in 0 .. 2, NEW m, Tree(m, n), NEW a, In(m, n, a, 0), Leafy(n, a), NEW id \in Nat,
         NEW y, Idle(m, n, TRUE, y, a, id + 1),
         NEW u, Kept(m, u, {PtrTo(m, a).buf, At(m, a, 0).buf, y}),
         NEW i \in 1 .. At(m, a, 0).len
  PROVE  OtherRead(m, u, n, a, i)
<1> DEFINE s == At(m, a, 0)
           c == Cell(m, s.buf, i)
           I == SlotI(a, i)
           J == SlotJ(a, i)
<1>1. s.len \in 0 .. Cap(m, s) /\ Cap(m, s) \in Nat
  BY TreeHas
<1>2. i \in 1 .. Cap(m, s) /\ i # 0 /\ i \in Nat
  BY <1>1
<1>3. In(m, n, I, J) /\ c = At(m, I, J) /\ I # 0 /\ ~(I = a /\ J = 0)
  BY <1>2, SlotIn, SlotPath DEF Leafy
<1>4. SliceIn(m, c) /\ Memory(m) /\ c.buf # 1
  BY <1>3, TreeHas
<1>5. c.buf # 0 => c.buf # s.buf
  BY <1>3, TreeOnly
<1>6. c.buf # 0 => c.buf # PtrTo(m, a).buf
  <2>1. In(m, n, 0, 0)
    BY DEF In
  <2>2. c.buf # 0 => c.buf # At(m, 0, 0).buf
    BY <1>3, <2>1, TreeOnly
  <2> QED BY <1>4, <2>2 DEF PtrTo
<1>7. c.buf # 0 => c.buf # y
  <2>1. SUFFICES ASSUME c.buf # 0, c.buf = y PROVE FALSE
    OBVIOUS
  <2>2. I = SlotI(a, id + 1) /\ J = SlotJ(a, id + 1) /\ id + 1 > s.len
    BY <1>3, <2>1 DEF Idle
  <2>3. i = id + 1
    BY <1>2, <2>2, OneSlot
  <2>4. i <= s.len
    BY <1>1
  <2> QED BY <1>1, <1>2, <2>2, <2>3, <2>4
<1> DEFINE W == {PtrTo(m, a).buf, s.buf, y}
<1>8. c.buf = 0 \/ c.buf \notin W
  BY <1>5, <1>6, <1>7
<1>9. Kept(m, u, W)
  OBVIOUS
<1> HIDE DEF W, s, c
<1>10. Contents(u, c) = Contents(m, c)
  BY <1>4, <1>8, <1>9, ContentsKept
<1> QED BY <1>2, <1>3, <1>10 DEF c, s, OtherRead

(* Elements that are slices: one is placed.                                *)
LEMMA LeafPut ==
  ASSUME NEW nested, NEW n, NEW m, NEW a, AtLeaf(nested, TRUE, n, m, a), NEW id \in Nat,
         NEW t, Reached(m, t, n, a, id, Nil, Nil),
         NEW y, y # 1, y = 0 \/ Unused(t, n, y), Idle(m, n, TRUE, y, a, id + 1), NEW w, Kept(t, w, {y}),
         NEW x, SliceIn(w, x), x.buf # 1, x.buf = 0 \/ x.buf = y \/ Unused(t, n, x.buf),
         NEW u, u = Save(w, ElementAt(w, PtrTo(m, a), id), x)
  PROVE  Rewrote(nested, TRUE, m, u, a, Put(LeafOf(TRUE, m, At(m, a, 0)), At(m, a, 0).len, id, NoEntry, Entry(w, x)))
<1> DEFINE s == At(m, a, 0)
           r == At(t, a, 0)
           k == Reaching(s.len, id)
           W == {PtrTo(m, a).buf, s.buf, y}
           e == LeafOf(TRUE, m, s)
<1>1. LongerAt(m, t, PtrTo(m, a), s, r, k, Nil, Nil)
  BY ReachedRows
<1>2. n \in 0 .. 2 /\ Tree(m, n) /\ In(m, n, a, 0) /\ Leafy(n, a) /\ Tree(t, n) /\ In(t, n, a, 0)
  BY DEF AtLeaf, Reached, Grew
<1>3. /\ At(u, a, 0) = r /\ Kept(w, u, {r.buf})
      /\ OnlySlot(t, u, n, SlotI(a, id + 1), SlotJ(a, id + 1), x)
  <2>1. /\ n \in 0 .. 2 /\ Tree(m, n) /\ In(m, n, a, 0) /\ Leafy(n, a) /\ id \in Nat
        /\ Reached(m, t, n, a, id, Nil, Nil) /\ y # 1 /\ SliceIn(w, x) /\ Kept(t, w, {y})
    BY <1>2
  <2>3. u = Save(w, ElementAt(w, PtrTo(m, a), id), x)
    OBVIOUS
  <2>4. y = 0 \/ Unused(t, n, y)
    OBVIOUS
  <2>5. x.buf # 1 /\ (x.buf = 0 \/ x.buf = y \/ Unused(t, n, x.buf))
    OBVIOUS
  <2>6. Kept(w, u, {At(t, a, 0).buf})
    BY ONLY <2>1, <2>3, <2>4, <2>5, LeafPlaced
  <2>7. OnlySlot(t, u, n, SlotI(a, id + 1), SlotJ(a, id + 1), x)
    BY ONLY <2>1, <2>3, <2>4, <2>5, LeafPlaced
  <2>8. id + 1 # 0
    OBVIOUS
  <2>9. ~(SlotI(a, id + 1) = a /\ SlotJ(a, id + 1) = 0)
    BY <2>8, SlotPath
  <2>10. At(u, a, 0) = At(t, a, 0)
    BY <1>2, <2>7, <2>9 DEF OnlySlot
  <2> QED BY <2>6, <2>7, <2>10
<1>4. s.len \in Nat /\ r.len = k /\ k \in Nat /\ k >= 1 /\ s.len <= k /\ k <= Cap(t, r) /\ Cap(t, r) \in Nat
  BY <1>1 DEF LongerAt, Reaching
<1>5. Kept(m, u, W)
  BY <1>2, <1>3, LeafPutKept
<1>6. ASSUME NEW i \in 1 .. k
      PROVE  EntryOf(TRUE, u, Cell(u, r.buf, i)) = IF i = id + 1 THEN Entry(w, x) ELSE IF i <= s.len THEN e[i] ELSE NoEntry
  <2>1. i \in 1 .. Cap(t, r) /\ i # 0
    BY <1>4
  <2>2. In(t, n, SlotI(a, i), SlotJ(a, i)) /\ Cell(t, r.buf, i) = At(t, SlotI(a, i), SlotJ(a, i))
    BY <1>2, <2>1, SlotIn, SlotPath DEF Leafy
  <2>3. Cell(u, r.buf, i) = At(u, SlotI(a, i), SlotJ(a, i))
    BY <1>3, <2>1, SlotPath
  <2>4. CASE i = id + 1
    <3>1. Cell(u, r.buf, i) = x
      BY <1>3, <2>3, <2>4 DEF OnlySlot
    <3>2. x.buf = 0 \/ x.buf # r.buf
      BY <1>2 DEF Unused
    <3>3. Contents(u, x) = Contents(w, x)
      <4> DEFINE V == {r.buf}
      <4>1. Memory(w) /\ Kept(w, u, V) /\ (x.buf = 0 \/ x.buf \notin V)
        BY <1>3, <3>2 DEF Kept
      <4> HIDE DEF V, r, s, k, W, e
      <4> QED BY <4>1, ContentsKept
    <3> QED BY <2>4, <3>1, <3>3 DEF EntryOf, Entry
  <2>5. CASE i # id + 1
    <3>1. ~(SlotI(a, i) = SlotI(a, id + 1) /\ SlotJ(a, i) = SlotJ(a, id + 1))
      BY <1>2, <2>1, <2>5, OneSlot
    <3>2. Cell(u, r.buf, i) = Cell(t, r.buf, i)
      BY <1>3, <2>2, <2>3, <3>1 DEF OnlySlot
    <3>3. CASE i <= s.len
      <4>1. i \in 1 .. s.len
        BY <1>4, <3>3
      <4>2. Cell(t, r.buf, i) = Cell(m, s.buf, i)
        BY <1>1, <4>1 DEF LongerAt
      <4>3. Contents(u, Cell(m, s.buf, i)) = Contents(m, Cell(m, s.buf, i))
        <5>1. Idle(m, n, TRUE, y, a, id + 1) /\ id \in Nat
          OBVIOUS
        <5>2. OtherRead(m, u, n, a, i)
          BY ONLY <1>2, <1>5, <4>1, <5>1, OthersRead
        <5> QED BY <5>2 DEF OtherRead
      <4>4. e[i] = EntryOf(TRUE, m, Cell(m, s.buf, i))
        BY <4>1 DEF LeafOf
      <4> QED BY <2>5, <3>2, <3>3, <4>2, <4>3, <4>4 DEF EntryOf
    <3>4. CASE ~(i <= s.len)
      <4>1. i \in s.len + 1 .. k
        BY <1>4, <3>4
      <4>2. Cell(t, r.buf, i) = Nil
        BY <1>1, <4>1 DEF LongerAt
      <4>3. EntryOf(TRUE, u, Nil) = NoEntry
        BY DEF EntryOf, NoEntry, Contents, Nil
      <4> QED BY <2>5, <3>2, <3>4, <4>2, <4>3
    <3> QED BY <3>3, <3>4
  <2> QED BY <2>4, <2>5
<1>7. LeafOf(TRUE, u, r) = Put(e, s.len, id, NoEntry, Entry(w, x))
  <2> DEFINE E(i) == IF i = id + 1 THEN Entry(w, x) ELSE IF i <= s.len THEN e[i] ELSE NoEntry
             F(i) == EntryOf(TRUE, u, Cell(u, r.buf, i))
  <2>1. \A i \in 1 .. k : F(i) = E(i)
    BY <1>6
  <2>2. LeafOf(TRUE, u, r) = [i \in 1 .. k |-> F(i)]
    BY <1>4 DEF LeafOf
  <2>3. Put(e, s.len, id, NoEntry, Entry(w, x)) = [i \in 1 .. k |-> E(i)]
    BY DEF Put
  <2> HIDE DEF s, r, e, k, E, F
  <2> QED BY <2>1, <2>2, <2>3
<1>8. At(u, a, 0) # Nil
  BY <1>3, <1>4 DEF Nil
<1>9. nested => Owned(m, n, a, W)
  <2>1. SUFFICES ASSUME nested PROVE Owned(m, n, a, W)
    OBVIOUS
  <2>2. a # 0 /\ Owned(m, n, a, {PtrTo(m, a).buf, s.buf})
    BY <1>2, <2>1, OwnOwned DEF AtLeaf
  <2>3. ASSUME NEW i, NEW j, In(m, n, i, j), At(m, i, j).buf = y, y # 0 PROVE i = a
    BY <2>2, <2>3 DEF Idle, SlotI
  <2> QED BY <2>2, <2>3 DEF Owned
<1>10. RowsBeside(nested, m, u, a)
  <2>1. RowsBeside(nested, m, t, a) /\ Tree(t, n)
    BY ReachedRows DEF Reached, Grew
  <2>2. nested => /\ At(u, 0, 0) = At(t, 0, 0)
                  /\ \A i : i # 0 /\ i # a /\ In(t, n, i, 0) => At(u, i, 0) = At(t, i, 0)
    <3>1. SUFFICES ASSUME nested PROVE At(u, 0, 0) = At(t, 0, 0) /\ \A i : i # 0 /\ i # a /\ In(t, n, i, 0) => At(u, i, 0) = At(t, i, 0)
      OBVIOUS
    <3>2. a # 0 /\ In(t, n, 0, 0)
      BY <3>1 DEF AtLeaf, In
    <3> QED BY <1>3, <3>2 DEF OnlySlot, SlotI, SlotJ
  <2> QED BY <2>1, <2>2, RowsOn
<1>11. Reread(nested, TRUE, m, u, a)
  BY <1>5, <1>8, <1>9, <1>10, Rewritten
<1> QED BY <1>3, <1>7, <1>11 DEF Rewrote, Reread

(* An empty field reads as no elements.                                    *)
LEMMA EmptyView ==
  ASSUME NEW nested \in BOOLEAN, NEW h, NEW m, At(m, 0, 0).len = 0
  PROVE  ViewOf(nested, h, m) = <<>>
<1>1. CASE nested
  <2> DEFINE v == ViewOf(nested, h, m)
  <2>1. v = [i \in 1 .. 0 |-> v[i]]
    BY <1>1 DEF ViewOf
  <2> HIDE DEF v
  <2>2. Listed(v) /\ Len(v) = 0
    BY <2>1, TabulatedIsListed
  <2>3. v = <<>>
    BY <2>2, EmptyIffLen
  <2> QED BY <2>3 DEF v
<1>2. CASE ~nested
  <2>1. Listed(LeafOf(h, m, At(m, 0, 0))) /\ Len(LeafOf(h, m, At(m, 0, 0))) = 0
    BY LeafListed
  <2>2. LeafOf(h, m, At(m, 0, 0)) = <<>>
    BY <2>1, EmptyIffLen
  <2> QED BY <1>2, <2>2 DEF ViewOf
<1> QED BY <1>1, <1>2

(* What is read has an empty row at id.                                    *)
RowAdded(h, m, u, id) ==
  ViewOf(TRUE, h, u) = Put(ViewOf(TRUE, h, m), At(m, 0, 0).len, id, NoEntry, [there |-> TRUE, els |-> <<>>])

(* A row is opened, empty: the others read what they did.                  *)
LEMMA RowOpenRead ==
  ASSUME NEW h \in BOOLEAN, NEW n, Deep(TRUE, h, n), NEW m, Tree(m, n), NEW id \in Nat,
         NEW t, Reached(m, t, n, 0, id, Nil, Nil),
         NEW x, NEW u, CellSet(t, u, At(t, 0, 0).buf, id + 1, x), SliceIn(u, x), x.len = 0, x.buf # 0,
         \/ In(m, n, id + 1, 0) /\ x.buf = At(m, id + 1, 0).buf
         \/ x.buf \in Len(t) + 1 .. Len(u) /\ Cap(u, x) = 0
  PROVE  RowAdded(h, m, u, id)
<1> DEFINE s == At(m, 0, 0)
           r == At(t, 0, 0)
           k == Reaching(s.len, id)
           V == ViewOf(TRUE, h, m)
<1>1. n \in 1 .. 2 /\ n \in 0 .. 2 /\ In(m, n, 0, 0)
  BY DEF Deep, In
<1>2. LongerAt(m, t, PtrTo(m, 0), s, r, k, Nil, Nil)
  BY <1>1, LengthenedParts DEF Reached
<1>3. /\ Tree(u, n) /\ At(u, 0, 0) = r /\ At(u, id + 1, 0) = x
      /\ \A i : i # id + 1 /\ In(u, n, i, 0) => At(u, i, 0) = At(t, i, 0)
  BY <1>1, RowSaved
<1>4. r.len = k /\ k \in Nat /\ s.len \in Nat /\ Len(m) \in Nat /\ Len(t) \in Nat
  BY <1>2 DEF LongerAt
<1> DEFINE W == {PtrTo(m, 0).buf, s.buf}
<1>5. Kept(m, u, W) /\ Owned(m, n, 0, W)
  <2>1. Kept(m, t, W) /\ Kept(t, u, {r.buf})
    BY DEF Reached, CellSet
  <2>2. r.buf = s.buf \/ r.buf \in Len(m) + 1 .. Len(t)
    BY <1>2 DEF LongerAt
  <2>3. Owned(m, n, 0, W)
    BY <1>1, OwnOwned
  <2>4. s.buf \in W
    OBVIOUS
  <2> HIDE DEF W, r, s
  <2>5. Kept(m, u, W \cup {r.buf})
    BY <1>4, <2>1, KeptTwice
  <2>6. \A b \in 1 .. Len(m) : b \in W \cup {r.buf} => b \in W
    BY <1>4, <2>2, <2>4
  <2> QED BY <2>3, <2>5, <2>6, KeptLess
<1>6. \A y : y.len = 0 => LeafOf(h, u, y) = <<>>
  BY LeafListed, EmptyIffLen
<1>7. ASSUME NEW i \in 1 .. k
      PROVE  RowOf(h, u, At(u, i, 0)) =
               IF i = id + 1 THEN [there |-> TRUE, els |-> <<>>] ELSE IF i <= s.len THEN V[i] ELSE NoEntry
  <2>1. CASE i = id + 1
    <3>1. x # Nil /\ LeafOf(h, u, x) = <<>>
      BY <1>6 DEF Nil
    <3> QED BY <1>3, <2>1, <3>1 DEF RowOf
  <2>2. CASE i # id + 1
    <3>1. i # 0 /\ In(u, n, i, 0)
      <4>1. i \in 1 .. At(u, 0, 0).len /\ Deep(TRUE, h, n) /\ Tree(u, n) /\ h \in BOOLEAN
        BY <1>3, <1>4
      <4> QED BY ONLY <4>1, RowIn
    <3>2. At(u, i, 0) = Cell(t, r.buf, i)
      BY <1>3, <2>2, <3>1, RowPath
    <3>3. CASE i <= s.len
      <4>1. i \in 1 .. s.len
        BY <1>4, <3>3
      <4>2. At(u, i, 0) = At(m, i, 0)
        <5>1. Cell(t, r.buf, i) = Cell(m, s.buf, i)
          BY <1>2, <4>1 DEF LongerAt
        <5> QED BY <3>1, <3>2, <5>1, RowPath
      <4>3. In(m, n, i, 0) /\ (h => Leafy(n, i))
        BY <4>1, RowIn
      <4>4. At(m, i, 0).buf = 0 \/ At(m, i, 0).buf \notin W
        BY <1>5, <3>1, <4>3 DEF Owned
      <4>5. ASSUME h, NEW c \in 1 .. At(m, i, 0).len
            PROVE  At(m, SlotI(i, c), SlotJ(i, c)).buf = 0 \/ At(m, SlotI(i, c), SlotJ(i, c)).buf \notin W
        <5>1. c \in 1 .. Cap(m, At(m, i, 0))
          BY <1>1, <4>3, TreeHas
        <5>2. In(m, n, SlotI(i, c), SlotJ(i, c)) /\ SlotI(i, c) = i
          BY <1>1, <3>1, <4>3, <4>5, <5>1, SlotIn DEF Leafy, SlotI
        <5> QED BY <1>5, <3>1, <5>2 DEF Owned
      <4>6. LeafOf(h, u, At(m, i, 0)) = LeafOf(h, m, At(m, i, 0))
        <5> HIDE DEF W
        <5> QED BY <1>1, <1>5, <4>3, <4>4, <4>5, RowSame
      <4>7. V[i] = RowOf(h, m, At(m, i, 0))
        BY <4>1 DEF ViewOf
      <4> QED BY <2>2, <3>3, <4>2, <4>6, <4>7 DEF RowOf
    <3>4. CASE ~(i <= s.len)
      <4>1. i \in s.len + 1 .. k
        BY <1>4, <3>4
      <4>2. At(u, i, 0) = Nil
        BY <1>2, <3>2, <4>1 DEF LongerAt
      <4>3. LeafOf(h, u, Nil) = <<>>
        BY <1>6 DEF Nil
      <4> QED BY <2>2, <3>4, <4>2, <4>3 DEF RowOf, NoEntry
    <3> QED BY <3>3, <3>4
  <2> QED BY <2>1, <2>2
<1>8. ViewOf(TRUE, h, u) = Put(V, s.len, id, NoEntry, [there |-> TRUE, els |-> <<>>])
  <2> DEFINE E(i) == IF i = id + 1 THEN [there |-> TRUE, els |-> <<>>] ELSE IF i <= s.len THEN V[i] ELSE NoEntry
             F(i) == RowOf(h, u, At(u, i, 0))
  <2>1. \A i \in 1 .. k : F(i) = E(i)
    BY <1>7
  <2>2. ViewOf(TRUE, h, u) = [i \in 1 .. k |-> F(i)]
    BY <1>3, <1>4 DEF ViewOf
  <2>3. Put(V, s.len, id, NoEntry, [there |-> TRUE, els |-> <<>>]) = [i \in 1 .. k |-> E(i)]
    BY DEF Put
  <2> HIDE DEF s, r, k, V, E, F
  <2> QED BY <2>1, <2>2, <2>3
<1> QED BY <1>8 DEF RowAdded
=============================================================================
