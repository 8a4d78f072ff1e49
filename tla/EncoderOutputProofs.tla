------------------------ MODULE EncoderOutputProofs -------------------------
(***************************************************************************)
(* For every encoder, sequence of calls, buffer and sink: the output is    *)
(* the message the calls spell.                                            *)
(***************************************************************************)
EXTENDS EncoderProofs

(***************************************************************************)
(* The bytes of a call                                                     *)
(***************************************************************************)
(* The bytes of units, one after the other.                                *)
BytesOf(units) == [k \in 1 .. Len(units) |-> units[k].bytes]
(* Units with bytes.                                                       *)
Byted(units) == Listed(units) /\ \A k \in 1 .. Len(units) : Listed(units[k].bytes)

(* The bytes of units are pieces, and Joined puts them together.           *)
LEMMA BytePieces ==
  ASSUME NEW units, Byted(units)
  PROVE  /\ Pieces(BytesOf(units)) /\ Len(BytesOf(units)) = Len(units)
         /\ \A k \in 1 .. Len(units) : BytesOf(units)[k] = units[k].bytes
         /\ Joined(units) = Seqs!FlattenSeq(BytesOf(units))
<1> DEFINE u == BytesOf(units)
<1>1. \A k \in 1 .. Len(units) : u[k] = units[k].bytes
  BY DEF BytesOf
<1>2. u = [k \in 1 .. Len(units) |-> u[k]] /\ Len(units) \in Nat
  BY DEF BytesOf, Byted, Listed
<1>3. \A k \in 1 .. Len(units) : Listed(u[k])
  BY <1>1 DEF Byted
<1>4. Joined(units) = Seqs!FlattenSeq(u)
  BY Zenon DEF Joined, BytesOf
<1> HIDE DEF u
<1>5. Pieces(u) /\ Len(u) = Len(units)
  BY <1>2, <1>3, TabulatedPieces
<1> QED BY <1>1, <1>4, <1>5 DEF u

(* What units join to is listed.                                           *)
LEMMA JoinedListed == ASSUME NEW units, Byted(units) PROVE Listed(Joined(units))
BY BytePieces, FlattenListed

(* No unit, no byte.                                                       *)
LEMMA JoinedNone == Joined(<<>>) = <<>> /\ Byted(<<>>)
<1>1. Len(<<>>) = 0 /\ Listed(<<>>)
  BY EmptyListed
<1>2. BytesOf(<<>>) = <<>>
  BY <1>1 DEF BytesOf
<1>3. Byted(<<>>)
  BY <1>1 DEF Byted
<1>4. Joined(<<>>) = Seqs!FlattenSeq(BytesOf(<<>>))
  BY <1>3, BytePieces
<1> QED BY <1>2, <1>3, <1>4, FlattenNone

(* One unit joins to its bytes.                                            *)
LEMMA JoinedOne ==
  ASSUME NEW u, Listed(u.bytes)
  PROVE  Byted(<<u>>) /\ Joined(<<u>>) = u.bytes
<1>1. Listed(<<u>>) /\ Len(<<u>>) = 1 /\ <<u>>[1] = u /\ \A k \in 1 .. 1 : k = 1
  BY OneListed
<1>2. Byted(<<u>>)
  BY <1>1 DEF Byted
<1>3. /\ Pieces(BytesOf(<<u>>)) /\ Len(BytesOf(<<u>>)) = Len(<<u>>)
      /\ \A k \in 1 .. Len(<<u>>) : BytesOf(<<u>>)[k] = <<u>>[k].bytes
      /\ Joined(<<u>>) = Seqs!FlattenSeq(BytesOf(<<u>>))
  BY <1>2, BytePieces
<1>4. BytesOf(<<u>>) = <<u.bytes>>
  <2> DEFINE a == BytesOf(<<u>>)
             b == <<u.bytes>>
  <2>1. Listed(b) /\ Len(b) = 1 /\ b[1] = u.bytes
    BY OneListed
  <2>2. Listed(a) /\ Len(a) = 1 /\ a[1] = u.bytes
    BY <1>1, <1>3 DEF Pieces
  <2> HIDE DEF a, b
  <2>3. \A k \in 1 .. Len(a) : a[k] = b[k]
    BY <1>1, <2>1, <2>2
  <2>4. a = b
    BY <2>1, <2>2, <2>3, SameListed
  <2> QED BY <2>4 DEF a, b
<1>5. Seqs!FlattenSeq(<<u.bytes>>) = u.bytes
  BY FlattenOne
<1> QED BY <1>2, <1>3, <1>4, <1>5

(* Units of one field behind those of another.                             *)
LEMMA JoinedConcat ==
  ASSUME NEW a, NEW b, Byted(a), Byted(b)
  PROVE  Byted(a \o b) /\ Joined(a \o b) = Joined(a) \o Joined(b)
<1> DEFINE c == a \o b
<1>1. /\ Listed(a) /\ Listed(b) /\ Len(a) \in Nat /\ Len(b) \in Nat
      /\ \A k \in 1 .. Len(a) : Listed(a[k].bytes)
      /\ \A k \in 1 .. Len(b) : Listed(b[k].bytes)
  BY DEF Byted, Listed
<1>2. /\ Listed(c) /\ Len(c) = Len(a) + Len(b)
      /\ \A i \in 1 .. Len(a) : c[i] = a[i]
      /\ \A i \in 1 .. Len(b) : c[Len(a) + i] = b[i]
  BY <1>1, ConcatListed
<1> HIDE DEF c
<1>3. \A i \in 1 .. Len(c) : i \in 1 .. Len(a) \/ (i - Len(a) \in 1 .. Len(b) /\ Len(a) + (i - Len(a)) = i)
  BY <1>1, <1>2
<1>4. Byted(c)
  <2> SUFFICES ASSUME NEW i \in 1 .. Len(c) PROVE Listed(c[i].bytes)
    BY <1>2 DEF Byted
  <2>1. CASE i \in 1 .. Len(a)
    BY <1>1, <1>2, <2>1
  <2>2. CASE i - Len(a) \in 1 .. Len(b) /\ Len(a) + (i - Len(a)) = i
    <3>1. c[Len(a) + (i - Len(a))] = b[i - Len(a)]
      BY <1>2, <2>2
    <3> QED BY <1>1, <2>2, <3>1
  <2> QED BY <1>3, <2>1, <2>2
<1> DEFINE p == BytesOf(a)
           q == BytesOf(b)
           r == BytesOf(c)
<1>5. /\ Pieces(p) /\ Len(p) = Len(a) /\ \A k \in 1 .. Len(a) : p[k] = a[k].bytes
      /\ Joined(a) = Seqs!FlattenSeq(p)
  BY BytePieces
<1>6. /\ Pieces(q) /\ Len(q) = Len(b) /\ \A k \in 1 .. Len(b) : q[k] = b[k].bytes
      /\ Joined(b) = Seqs!FlattenSeq(q)
  BY BytePieces
<1>7. /\ Pieces(r) /\ Len(r) = Len(c) /\ \A k \in 1 .. Len(c) : r[k] = c[k].bytes
      /\ Joined(c) = Seqs!FlattenSeq(r)
  BY <1>4, BytePieces
<1> HIDE DEF p, q, r
<1>8. /\ Listed(p \o q) /\ Len(p \o q) = Len(p) + Len(q)
      /\ \A i \in 1 .. Len(p) : (p \o q)[i] = p[i]
      /\ \A i \in 1 .. Len(q) : (p \o q)[Len(p) + i] = q[i]
  <2>1. Listed(p) /\ Listed(q)
    BY <1>5, <1>6 DEF Pieces
  <2> QED BY ONLY <2>1, ConcatListed
<1>9. ASSUME NEW i \in 1 .. Len(r) PROVE r[i] = (p \o q)[i]
  <2>1. CASE i \in 1 .. Len(a)
    BY <1>2, <1>5, <1>7, <1>8, <2>1
  <2>2. CASE i - Len(a) \in 1 .. Len(b) /\ Len(a) + (i - Len(a)) = i
    <3>1. c[Len(a) + (i - Len(a))] = b[i - Len(a)]
      BY <1>2, <2>2
    <3>2. (p \o q)[Len(p) + (i - Len(a))] = q[i - Len(a)]
      BY <1>6, <1>8, <2>2
    <3> QED BY <1>5, <1>6, <1>7, <2>2, <3>1, <3>2
  <2> QED BY <1>3, <1>7, <2>1, <2>2
<1>10. r = p \o q
  <2>1. Len(r) = Len(p \o q)
    BY <1>2, <1>5, <1>6, <1>7, <1>8
  <2> QED BY <1>7, <1>8, <1>9, <2>1, SameListed DEF Pieces
<1>11. Seqs!FlattenSeq(p \o q) = Seqs!FlattenSeq(p) \o Seqs!FlattenSeq(q)
  BY <1>5, <1>6, FlattenConcat
<1> QED BY <1>4, <1>5, <1>6, <1>7, <1>10, <1>11 DEF c

(* Units with the pieces u as their bytes.                                 *)
LEMMA JoinedPieces ==
  ASSUME NEW units, NEW u, Listed(units), Pieces(u), Len(units) = Len(u),
         \A k \in 1 .. Len(u) : units[k].bytes = u[k]
  PROVE  Byted(units) /\ Joined(units) = Seqs!FlattenSeq(u)
<1>1. Byted(units)
  BY DEF Byted, Pieces
<1>2. /\ Pieces(BytesOf(units)) /\ Len(BytesOf(units)) = Len(units)
      /\ \A k \in 1 .. Len(units) : BytesOf(units)[k] = units[k].bytes
      /\ Joined(units) = Seqs!FlattenSeq(BytesOf(units))
  BY <1>1, BytePieces
<1> DEFINE v == BytesOf(units)
<1> HIDE DEF v
<1>3. v = u
  <2>1. \A k \in 1 .. Len(v) : v[k] = u[k]
    BY <1>2 DEF v
  <2> QED BY <1>2, <2>1, SameListed DEF Pieces, v
<1> QED BY <1>1, <1>2, <1>3 DEF v

(* The headers held back are what commitPending writes.                    *)
LEMMA JoinedCommit ==
  ASSUME Listed(pending)
  PROVE  Byted(CommitPending) /\ Joined(CommitPending) = Heads(pending)
<1> DEFINE u == [k \in 1 .. Len(pending) |-> Header(pending[k], 6)]
<1>1. Pieces(u) /\ Len(u) = Len(pending) /\ \A k \in 1 .. Len(pending) : u[k] = Header(pending[k], 6)
  BY HeadsPieces
<1>2. Heads(pending) = Seqs!FlattenSeq(u)
  BY DEF Heads
<1>3. \A k \in 1 .. Len(pending) : CommitPending[k].bytes = Header(pending[k], 6)
  BY DEF CommitPending, Unit
<1>4. CommitPending = [k \in 1 .. Len(pending) |-> CommitPending[k]] /\ Len(pending) \in Nat
  BY DEF CommitPending, Listed
<1> HIDE DEF u
<1>5. Listed(CommitPending) /\ Len(CommitPending) = Len(pending)
  BY <1>4, TabulatedIsListed
<1>6. \A k \in 1 .. Len(u) : CommitPending[k].bytes = u[k]
  BY <1>1, <1>3
<1>7. Len(CommitPending) = Len(u)
  BY <1>1, <1>5
<1> QED BY <1>1, <1>2, <1>5, <1>6, <1>7, JoinedPieces

(***************************************************************************)
(* Each call writes its image                                              *)
(***************************************************************************)
(* The units of a call spell its image. *)
Spells(units, c) == Byted(units) /\ Joined(units) = Image(c) /\ Listed(Image(c))

(* A header with a varint, and what comes behind it.                       *)
LEMMA ImageOfTwo ==
  ASSUME NEW c, NEW u, NEW rest, Byted(rest), Listed(u.bytes), Image(c) = u.bytes \o Joined(rest)
  PROVE  Spells(<<u>> \o rest, c)
<1>1. Byted(<<u>>) /\ Joined(<<u>>) = u.bytes
  BY JoinedOne
<1>2. Byted(<<u>> \o rest) /\ Joined(<<u>> \o rest) = Joined(<<u>>) \o Joined(rest)
  BY <1>1, JoinedConcat
<1>3. Listed(Joined(<<u>> \o rest))
  BY <1>2, JoinedListed
<1> QED BY <1>1, <1>2, <1>3 DEF Spells

(* A field of one unit.                                                    *)
LEMMA ImageOfOne ==
  ASSUME NEW c, NEW u, Listed(u.bytes), Image(c) = u.bytes
  PROVE  Spells(<<u>>, c)
BY JoinedOne DEF Spells

(* The bytes of the units the writers queue.                               *)
LEMMA UnitBytes == \A need, bytes : Unit(need, bytes).bytes = bytes /\ Payload(bytes).bytes = bytes
BY DEF Unit, Payload

(* A scalar: header and value at once.                                     *)
LEMMA ScalarImage ==
  ASSUME NEW c, NEW t, NEW v, Image(c) = Header(c.id, t) \o PutUvarint(v)
  PROVE  Spells(ScalarUnits(c, t, v), c)
<1> DEFINE u == Unit(MaxVarintLen + MaxVarintLen, Header(c.id, t) \o PutUvarint(v))
<1>1. u.bytes = Header(c.id, t) \o PutUvarint(v) /\ Listed(Header(c.id, t) \o PutUvarint(v))
  BY UnitBytes, TwoVarints
<1> HIDE DEF u
<1>2. Spells(<<u>>, c)
  BY <1>1, ImageOfOne
<1> QED BY <1>2 DEF ScalarUnits, u

(* A float: header, word and value at once.                                *)
LEMMA FloatImage ==
  ASSUME NEW c, NEW w, NEW sub, Listed(c.v),
         Image(c) = Header(c.id, 2) \o PutUvarint(w * 8 + sub) \o c.v
  PROVE  Spells(FloatUnits(c, w, sub), c)
<1> DEFINE head == Header(c.id, 2) \o PutUvarint(w * 8 + sub)
           u == Unit(MaxVarintLen + 1 + w, head \o c.v)
<1>1. u.bytes = head \o c.v
  BY UnitBytes
<1>2. Listed(head)
  BY TwoVarints
<1>3. Image(c) = head \o c.v
  OBVIOUS
<1> HIDE DEF head
<1>4. Listed(head \o c.v)
  BY <1>2, ConcatListed
<1> HIDE DEF u
<1>5. Spells(<<u>>, c)
  BY <1>1, <1>3, <1>4, ImageOfOne
<1> QED BY <1>5 DEF FloatUnits, u, head

(* A string or a blob: header and length, then the payload, if there is    *)
(* one.                                                                    *)
LEMMA FixlenImage ==
  ASSUME NEW c, NEW sub, Listed(c.v),
         Image(c) = Header(c.id, 2) \o PutUvarint(Len(c.v) * 8 + sub) \o c.v
  PROVE  Spells(FixlenUnits(c, sub), c)
<1> DEFINE head == Header(c.id, 2) \o PutUvarint(Len(c.v) * 8 + sub)
           u == Unit(MaxVarintLen + MaxVarintLen, head)
           rest == IF c.v = <<>> THEN <<>> ELSE <<Payload(c.v)>>
<1>1. u.bytes = head /\ Listed(head)
  BY UnitBytes, TwoVarints
<1>2. Image(c) = head \o c.v
  OBVIOUS
<1> HIDE DEF head
<1>3. Byted(rest) /\ Joined(rest) = c.v
  <2>1. CASE c.v = <<>>
    BY <2>1, JoinedNone
  <2>2. CASE c.v # <<>>
    <3> DEFINE p == Payload(c.v)
    <3>1. p.bytes = c.v
      BY UnitBytes
    <3> HIDE DEF p
    <3>2. Byted(<<p>>) /\ Joined(<<p>>) = c.v
      BY <3>1, JoinedOne
    <3> QED BY <2>2, <3>2 DEF p
  <2> QED BY <2>1, <2>2
<1> HIDE DEF u, rest
<1>4. Spells(<<u>> \o rest, c)
  <2>1. Listed(u.bytes) /\ Image(c) = u.bytes \o Joined(rest)
    BY <1>1, <1>2, <1>3
  <2> QED BY <1>3, <2>1, ImageOfTwo
<1> QED BY <1>4 DEF FixlenUnits, u, rest, head

(* An array of integers: header and count, then a unit for each element.   *)
LEMMA IntArrayImage ==
  ASSUME NEW c, NEW t, NEW words, Listed(words),
         Image(c) = Header(c.id, t) \o PutUvarint(Len(words))
                      \o Seqs!FlattenSeq([k \in 1 .. Len(words) |-> PutUvarint(words[k])])
  PROVE  Spells(IntArrayUnits(c, t, words), c)
<1> DEFINE head == Header(c.id, t) \o PutUvarint(Len(words))
           u == Unit(MaxVarintLen + MaxVarintLen, head)
           rest == [k \in 1 .. Len(words) |-> Unit(MaxVarintLen, PutUvarint(words[k]))]
           piece == [k \in 1 .. Len(words) |-> PutUvarint(words[k])]
<1>1. u.bytes = head /\ Listed(head)
  BY UnitBytes, TwoVarints
<1>2. Image(c) = head \o Seqs!FlattenSeq(piece)
  OBVIOUS
<1> HIDE DEF head
<1>0. Len(words) \in Nat
  BY DEF Listed
<1>3. rest = [k \in 1 .. Len(words) |-> rest[k]] /\ piece = [k \in 1 .. Len(words) |-> piece[k]]
  OBVIOUS
<1>4. \A k \in 1 .. Len(words) : piece[k] = PutUvarint(words[k]) /\ rest[k] = Unit(MaxVarintLen, PutUvarint(words[k]))
  OBVIOUS
<1> HIDE DEF rest, piece, u
<1>5. \A k \in 1 .. Len(words) : Listed(piece[k]) /\ rest[k].bytes = piece[k]
  BY <1>4, VarintBytes, UnitBytes
<1>6. Pieces(piece) /\ Len(piece) = Len(words)
  BY <1>0, <1>3, <1>5, TabulatedPieces
<1>7. Listed(rest) /\ Len(rest) = Len(words)
  BY <1>0, <1>3, TabulatedIsListed
<1>8. Byted(rest) /\ Joined(rest) = Seqs!FlattenSeq(piece)
  <2>1. Len(rest) = Len(piece) /\ \A k \in 1 .. Len(piece) : rest[k].bytes = piece[k]
    BY <1>5, <1>6, <1>7
  <2> QED BY <1>6, <1>7, <2>1, JoinedPieces
<1>9. Spells(<<u>> \o rest, c)
  <2>1. Listed(u.bytes) /\ Image(c) = u.bytes \o Joined(rest)
    BY <1>1, <1>2, <1>8
  <2> QED BY <1>8, <2>1, ImageOfTwo
<1> QED BY <1>9 DEF IntArrayUnits, u, rest, head

(* A beginning of v in two parts.                                          *)
LEMMA SplitFirst ==
  ASSUME NEW v, Listed(v), NEW a \in Nat, NEW b \in 0 .. Len(v), a <= b
  PROVE  SubSeq(v, 1, b) = SubSeq(v, 1, a) \o SubSeq(v, a + 1, b)
<1>0. Len(v) \in Nat /\ b \in Nat /\ a \in 0 .. Len(v) /\ a + 1 \in Nat \ {0} /\ a + 1 <= b + 1
      /\ b - (a + 1) + 1 = b - a
  BY DEF Listed
<1> DEFINE x == SubSeq(v, 1, a)
           y == SubSeq(v, a + 1, b)
           z == SubSeq(v, 1, b)
<1>1. Listed(x) /\ Len(x) = a /\ \A i \in 1 .. a : x[i] = v[i]
  BY <1>0, FirstListed
<1>2. Listed(z) /\ Len(z) = b /\ \A i \in 1 .. b : z[i] = v[i]
  BY <1>0, FirstListed
<1>3. Listed(y) /\ Len(y) = b - a /\ \A i \in 1 .. b - a : y[i] = v[(a + 1) + i - 1]
  <2>1. /\ Listed(y) /\ Len(y) = b - (a + 1) + 1
        /\ \A i \in 1 .. b - (a + 1) + 1 : y[i] = v[(a + 1) + i - 1]
    BY <1>0, SubListed
  <2> QED BY <1>0, <2>1
<1> HIDE DEF x, y, z
<1>4. /\ Listed(x \o y) /\ Len(x \o y) = Len(x) + Len(y)
      /\ \A i \in 1 .. Len(x) : (x \o y)[i] = x[i]
      /\ \A i \in 1 .. Len(y) : (x \o y)[Len(x) + i] = y[i]
  <2>1. Listed(x) /\ Listed(y)
    BY <1>1, <1>3
  <2> QED BY ONLY <2>1, ConcatListed
<1>5. ASSUME NEW i \in 1 .. Len(z) PROVE z[i] = (x \o y)[i]
  <2>1. CASE i \in 1 .. a
    <3>1. i \in 1 .. b
      BY <1>2
    <3> QED BY <1>1, <1>2, <1>4, <2>1, <3>1
  <2>2. CASE i - a \in 1 .. b - a /\ a + (i - a) = i /\ (a + 1) + (i - a) - 1 = i
    <3>1. (x \o y)[Len(x) + (i - a)] = y[i - a]
      BY <1>3, <1>4, <2>2
    <3>2. y[i - a] = v[(a + 1) + (i - a) - 1]
      BY <1>3, <2>2
    <3> QED BY <1>1, <1>2, <2>2, <3>1, <3>2
  <2>3. i \in 1 .. a \/ (i - a \in 1 .. b - a /\ a + (i - a) = i /\ (a + 1) + (i - a) - 1 = i)
    BY <1>0, <1>2
  <2> QED BY <2>1, <2>2, <2>3
<1>6. Len(z) = Len(x \o y)
  BY <1>0, <1>1, <1>2, <1>3, <1>4
<1>7. z = x \o y
  BY <1>2, <1>4, <1>5, <1>6, SameListed
<1> QED BY <1>7 DEF x, y, z

(* The first Len(v) entries are all of them.                               *)
LEMMA WholeFirst == ASSUME NEW v, Listed(v) PROVE SubSeq(v, 1, Len(v)) = v
<1>1. Len(v) \in 0 .. Len(v)
  BY DEF Listed
<1> QED BY <1>1, FirstListed, SameListed

(* The elements of an array of floats.                                     *)
Element(v, w, k) == SubSeq(v, (k - 1) * w + 1, k * w)
(* The first m of them.                                                    *)
Elements(v, w, m) == [k \in 1 .. m |-> Element(v, w, k)]

(* An element of an array of floats is listed.                             *)
LEMMA ElementListed ==
  ASSUME NEW v, Listed(v), NEW w \in Nat \ {0}, NEW k \in 1 .. Len(v) \div w
  PROVE  Listed(Element(v, w, k))
<1> DEFINE from == (k - 1) * w + 1
           to == k * w
<1>1. from \in Nat \ {0} /\ to \in Nat /\ to <= Len(v) /\ to - from + 1 = w
  BY ElementsInside DEF Listed
<1> HIDE DEF from, to
<1>2. to \in 0 .. Len(v) /\ from <= to + 1
  BY <1>1 DEF Listed
<1>3. Listed(SubSeq(v, from, to))
  BY <1>1, <1>2, SubListed
<1> QED BY <1>3 DEF Element, from, to

(* The first m elements are pieces.                                        *)
LEMMA ElementsPieces ==
  ASSUME NEW v, Listed(v), NEW w \in Nat \ {0}, NEW m \in Nat, m <= Len(v) \div w
  PROVE  /\ Pieces(Elements(v, w, m)) /\ Len(Elements(v, w, m)) = m
         /\ \A k \in 1 .. m : Elements(v, w, m)[k] = Element(v, w, k)
<1> DEFINE u == Elements(v, w, m)
<1>1. u = [k \in 1 .. m |-> u[k]] /\ \A k \in 1 .. m : u[k] = Element(v, w, k)
  BY DEF Elements
<1>2. Len(v) \div w \in Nat
  BY QuotientNat DEF Listed
<1>3. \A k \in 1 .. m : k \in 1 .. Len(v) \div w
  BY <1>2
<1> HIDE DEF u
<1>4. \A k \in 1 .. m : Listed(u[k])
  BY <1>1, <1>3, ElementListed
<1>5. Pieces(u) /\ Len(u) = m
  BY <1>1, <1>4, TabulatedPieces
<1> QED BY <1>1, <1>5 DEF u

(* They join to the bytes they were cut from.                              *)
LEMMA ElementsJoin ==
  ASSUME NEW v, Listed(v), NEW w \in Nat \ {0}, NEW m \in Nat, m <= Len(v) \div w
  PROVE  Seqs!FlattenSeq(Elements(v, w, m)) = SubSeq(v, 1, m * w)
<1> DEFINE Wrong == {i \in Nat : i <= Len(v) \div w /\ Seqs!FlattenSeq(Elements(v, w, i)) # SubSeq(v, 1, i * w)}
<1>0. Len(v) \in Nat /\ Len(v) \div w \in Nat
  BY QuotientNat DEF Listed
<1>1. Wrong = {}
  <2> SUFFICES ASSUME Wrong # {} PROVE FALSE
    OBVIOUS
  <2>1. PICK x \in Wrong : \A y \in Wrong : x <= y
    <3>1. Wrong \subseteq Nat
      OBVIOUS
    <3> HIDE DEF Wrong
    <3> QED BY <3>1, LeastNatural
  <2>2. x \in Nat /\ x <= Len(v) \div w /\ Seqs!FlattenSeq(Elements(v, w, x)) # SubSeq(v, 1, x * w)
    OBVIOUS
  <2>3. x # 0
    <3> SUFFICES ASSUME x = 0 PROVE FALSE
      OBVIOUS
    <3>1. Elements(v, w, 0) = <<>>
      BY DEF Elements
    <3>2. 0 * w = 0 /\ 0 \in 0 .. Len(v)
      BY <1>0
    <3>3. Listed(SubSeq(v, 1, 0)) /\ Len(SubSeq(v, 1, 0)) = 0
      BY <3>2, FirstListed
    <3>4. SubSeq(v, 1, 0) = <<>>
      BY <3>3, EmptyIffLen
    <3> QED BY <2>2, <3>1, <3>2, <3>4, FlattenNone
  <2>4. x - 1 \in Nat /\ ~(x <= x - 1) /\ x - 1 <= Len(v) \div w /\ x \in 1 .. Len(v) \div w /\ (x - 1) + 1 = x
    BY <1>0, <2>2, <2>3
  <2>5. Seqs!FlattenSeq(Elements(v, w, x - 1)) = SubSeq(v, 1, (x - 1) * w)
    BY <2>1, <2>4
  <2> HIDE DEF Wrong
  <2> DEFINE a == (x - 1) * w
             b == x * w
  <2>6. a \in Nat /\ b \in Nat /\ b <= Len(v) /\ a <= b
    <3>1. a + 1 \in Nat \ {0} /\ b \in Nat /\ b <= Len(v) /\ b - (a + 1) + 1 = w
      BY <1>0, <2>4, ElementsInside
    <3>2. a \in Int
      BY <2>2
    <3> HIDE DEF a, b
    <3> QED BY <3>1, <3>2
  <2>7. SubSeq(v, 1, b) = SubSeq(v, 1, a) \o Element(v, w, x)
    <3>1. Element(v, w, x) = SubSeq(v, a + 1, b)
      BY DEF Element
    <3> HIDE DEF a, b
    <3>2. b \in 0 .. Len(v)
      BY <1>0, <2>6
    <3> QED BY <2>6, <3>1, <3>2, SplitFirst
  <2>8. Seqs!FlattenSeq(Elements(v, w, x)) = Seqs!FlattenSeq(Elements(v, w, x - 1)) \o Element(v, w, x)
    <3> DEFINE p == Elements(v, w, x - 1)
               q == Elements(v, w, x)
    <3>1. Pieces(p) /\ Len(p) = x - 1 /\ \A k \in 1 .. x - 1 : p[k] = Element(v, w, k)
      BY <2>4, ElementsPieces
    <3>2. Pieces(q) /\ Len(q) = x /\ \A k \in 1 .. x : q[k] = Element(v, w, k)
      BY <2>2, ElementsPieces
    <3> HIDE DEF p, q
    <3>3. \A k \in 1 .. Len(p) : q[k] = p[k]
      <4>1. \A k \in 1 .. x - 1 : k \in 1 .. x
        BY <2>2
      <4> QED BY <3>1, <3>2, <4>1
    <3>4. Len(q) = Len(p) + 1 /\ x \in 1 .. x /\ Len(p) + 1 = x
      BY <2>4, <3>1, <3>2
    <3>5. Seqs!FlattenSeq(q) = Seqs!FlattenSeq(p) \o q[Len(p) + 1]
      BY <3>1, <3>2, <3>3, <3>4, FlattenExtend
    <3>6. q[Len(p) + 1] = Element(v, w, x)
      BY <3>2, <3>4
    <3> QED BY <3>5, <3>6 DEF p, q
  <2> QED BY <2>2, <2>5, <2>7, <2>8
<1>2. ~(m \in Wrong)
  <2> HIDE DEF Wrong
  <2> QED BY <1>1
<1> QED BY <1>2

(* An array of whole elements is cut without a rest.                       *)
LEMMA WholeQuotient ==
  \A a \in Nat : \A w \in Nat \ {0} : (a % w = 0) => (a \div w) * w = a /\ a \div w <= a \div w
<1> SUFFICES ASSUME NEW a \in Nat, NEW w \in Nat \ {0}, a % w = 0
             PROVE  (a \div w) * w = a /\ a \div w <= a \div w
  OBVIOUS
<1>1. a = w * (a \div w) + (a % w)
  OBVIOUS
<1>2. w * (a \div w) = (a \div w) * w
  OBVIOUS
<1>3. (a \div w) * w \in Int /\ a \div w \in Int
  OBVIOUS
<1> DEFINE q == a \div w
<1>4. q <= q
  BY <1>3
<1> QED BY <1>1, <1>2, <1>3, <1>4

(* An array of floats: header, count and word, then a unit for each        *)
(* element.                                                                *)
LEMMA FloatArrayImage ==
  ASSUME NEW c, NEW w \in Nat \ {0}, NEW sub, Listed(c.v), Len(c.v) % w = 0,
         Image(c) = Header(c.id, 5) \o PutUvarint(Len(c.v) \div w) \o PutUvarint(w * 8 + sub) \o c.v
  PROVE  Spells(FloatArrayUnits(c, w, sub), c)
<1> DEFINE count == Len(c.v) \div w
           head == Header(c.id, 5) \o PutUvarint(count) \o PutUvarint(w * 8 + sub)
           u == Unit(MaxVarintLen + MaxCountLen + 1, head)
           rest == [k \in 1 .. count |-> Unit(w, Element(c.v, w, k))]
<1>1. u.bytes = head /\ Listed(head)
  <2>1. Listed(Header(c.id, 5) \o PutUvarint(count)) /\ Listed(PutUvarint(w * 8 + sub))
    BY TwoVarints, VarintBytes
  <2>2. Listed(head)
    BY <2>1, ConcatListed
  <2> QED BY <2>2, UnitBytes
<1>2. Image(c) = head \o c.v
  OBVIOUS
<1>3. FloatArrayUnits(c, w, sub) = <<u>> \o rest
  BY DEF FloatArrayUnits, Element
<1> HIDE DEF head, u
<1>0. Len(c.v) \in Nat /\ count \in Nat /\ count <= Len(c.v) \div w
  <2>1. Len(c.v) \in Nat
    BY DEF Listed
  <2>2. count \in Nat
    BY <2>1, QuotientNat
  <2>3. count <= Len(c.v) \div w
    BY <2>1, WholeQuotient
  <2> QED BY <2>1, <2>2, <2>3
<1>4. count * w = Len(c.v)
  BY <1>0, WholeQuotient
<1> HIDE DEF count
<1>5. rest = [k \in 1 .. count |-> rest[k]] /\ \A k \in 1 .. count : rest[k] = Unit(w, Element(c.v, w, k))
  OBVIOUS
<1> HIDE DEF rest
<1>6. Listed(rest) /\ Len(rest) = count
  BY <1>0, <1>5, TabulatedIsListed
<1> DEFINE p == Elements(c.v, w, count)
<1>7. Pieces(p) /\ Len(p) = count /\ \A k \in 1 .. count : p[k] = Element(c.v, w, k)
  BY <1>0, ElementsPieces
<1>8. Seqs!FlattenSeq(p) = c.v
  <2>1. Seqs!FlattenSeq(p) = SubSeq(c.v, 1, count * w)
    BY <1>0, ElementsJoin
  <2> QED BY <1>4, <2>1, WholeFirst
<1> HIDE DEF p
<1>9. Byted(rest) /\ Joined(rest) = c.v
  <2>1. Len(rest) = Len(p) /\ \A k \in 1 .. Len(p) : rest[k].bytes = p[k]
    BY <1>5, <1>6, <1>7, UnitBytes
  <2> QED BY <1>6, <1>7, <1>8, <2>1, JoinedPieces
<1>10. Spells(<<u>> \o rest, c)
  <2>1. Listed(u.bytes) /\ Image(c) = u.bytes \o Joined(rest)
    BY <1>1, <1>2, <1>9
  <2> QED BY <1>9, <2>1, ImageOfTwo
<1> QED BY <1>3, <1>10

(* The end marker is the single byte of a sequence's end.                  *)
LEMMA WeightSmall == Weight(0) = 1 /\ Weight(1) = Cont
<1>1. Weight(0) = 1
  <2> DEFINE Is(f) == f = [j \in 0 .. 0 |-> IF j = 0 THEN 1 ELSE Cont * f[j - 1]]
             f == CHOOSE h : Is(h)
  <2>1. \E h : Is(h)
    <3> DEFINE g == [j \in 0 .. 0 |-> 1]
    <3>1. g = [j \in 0 .. 0 |-> IF j = 0 THEN 1 ELSE Cont * g[j - 1]]
      OBVIOUS
    <3> QED BY <3>1
  <2>2. Is(f)
    BY <2>1, Zenon
  <2>3. Weight(0) = f[0]
    BY Zenon DEF Weight
  <2> HIDE DEF f
  <2>4. f[0] = 1
    <3>1. 0 \in 0 .. 0
      OBVIOUS
    <3> QED BY <2>2, <3>1, Zenon
  <2> QED BY <2>3, <2>4
<1>2. Weight(1) = Cont
  <2> DEFINE Is(f) == f = [j \in 0 .. 1 |-> IF j = 0 THEN 1 ELSE Cont * f[j - 1]]
             f == CHOOSE h : Is(h)
  <2>1. \E h : Is(h)
    <3> DEFINE g == [j \in 0 .. 1 |-> IF j = 0 THEN 1 ELSE Cont * 1]
    <3>1. \A j \in 0 .. 1 : g[j] = IF j = 0 THEN 1 ELSE Cont * g[j - 1]
      OBVIOUS
    <3>2. g = [j \in 0 .. 1 |-> IF j = 0 THEN 1 ELSE Cont * g[j - 1]]
      BY <3>1
    <3> QED BY <3>2
  <2>2. Is(f)
    BY <2>1, Zenon
  <2>3. Weight(1) = f[1]
    BY Zenon DEF Weight
  <2> HIDE DEF f
  <2>4. f[0] = 1 /\ f[1] = Cont * f[1 - 1]
    <3>1. 0 \in 0 .. 1 /\ 1 \in 0 .. 1 /\ 1 # 0
      OBVIOUS
    <3> QED BY <2>2, <3>1, Zenon
  <2> QED BY <2>3, <2>4, VarintAssumption
<1> QED BY <1>1, <1>2

(* VarintLen is the least length that holds the value.                     *)
LEMMA VarintLenLeast ==
  \A v : LET k == VarintLen(v) IN
         /\ k \in 1 .. MaxVarintLen
         /\ k = MaxVarintLen \/ v < Weight(k)
         /\ \A j \in 1 .. k - 1 : ~(v < Weight(j))
<1> SUFFICES ASSUME NEW v
             PROVE  LET k == VarintLen(v) IN
                    /\ k \in 1 .. MaxVarintLen
                    /\ k = MaxVarintLen \/ v < Weight(k)
                    /\ \A j \in 1 .. k - 1 : ~(v < Weight(j))
  OBVIOUS
<1> DEFINE long == {k \in 1 .. MaxVarintLen : k = MaxVarintLen \/ v < Weight(k)}
<1>1. long # {} /\ long \subseteq Nat
  BY VarintAssumption
<1>2. PICK k \in long : \A j \in long : k <= j
  <2> HIDE DEF long
  <2> QED BY <1>1, LeastNatural
<1>3. k \in 1 .. MaxVarintLen /\ (k = MaxVarintLen \/ v < Weight(k))
  OBVIOUS
<1>4. ASSUME NEW j \in 1 .. k - 1, v < Weight(j) PROVE FALSE
  <2>1. j \in long /\ j < k
    BY <1>3, <1>4, VarintAssumption
  <2> QED BY <1>2, <1>3, <2>1, VarintAssumption
<1> QED BY <1>3, <1>4 DEF VarintLen

(* The end marker is one byte, 7.                                          *)
LEMMA SevenIsOneByte == Header(0, 7) = <<7>>
<1>1. 7 < Cont
  <2> DEFINE v == Fp64Width * 8 + 1
  <2>1. VarintLen(v) = 1
    BY ReservationAssumption
  <2>2. v \in Nat /\ v > 7
    BY EncoderAssumption
  <2> HIDE DEF v
  <2>3. 1 = MaxVarintLen \/ v < Weight(1)
    BY <2>1, VarintLenLeast
  <2>4. Weight(1) = Cont /\ Cont \in Nat /\ MaxVarintLen # 1
    BY WeightSmall, VarintAssumption
  <2> QED BY <2>2, <2>3, <2>4
<1>2. VarintLen(7) = 1
  <2> DEFINE k == VarintLen(7)
  <2>1. k \in 1 .. MaxVarintLen /\ \A j \in 1 .. k - 1 : ~(7 < Weight(j))
    BY VarintLenLeast
  <2> HIDE DEF k
  <2>2. 7 < Weight(1)
    BY <1>1, WeightSmall
  <2>3. ~(1 \in 1 .. k - 1)
    BY <2>1, <2>2
  <2>4. k = 1
    BY <2>1, <2>3, VarintAssumption
  <2> QED BY <2>4 DEF k
<1>3. Shr(7, 1) = 7
  <2>1. 1 - 1 = 0 /\ 7 \div 1 = 7
    OBVIOUS
  <2> QED BY <2>1, WeightSmall DEF Shr
<1> DEFINE u == PutUvarint(7)
<1>4. Listed(u) /\ Len(u) = 1
  BY <1>2, VarintBytes
<1>5. u[1] = 7
  BY <1>2, <1>3 DEF PutUvarint
<1> HIDE DEF u
<1>6. u = <<7>>
  <2>1. Listed(<<7>>) /\ Len(<<7>>) = 1 /\ <<7>>[1] = 7
    BY OneListed
  <2>2. \A i \in 1 .. 1 : i = 1
    OBVIOUS
  <2> QED BY <1>4, <1>5, <2>1, <2>2, SameListed
<1>7. 0 * 8 + 7 = 7
  OBVIOUS
<1> QED BY <1>6, <1>7 DEF Header, u

(* The end marker spells an end.                                           *)
LEMMA EndSpellsImage == ASSUME NEW c, IsEnd(c) PROVE Spells(<<EndMarker>>, c)
<1>1. EndMarker.bytes = <<7>>
  BY DEF EndMarker
<1>2. Image(c) = <<7>> /\ Listed(<<7>>)
  BY EndImage, SevenIsOneByte, OneListed
<1> HIDE DEF EndMarker
<1> QED BY <1>1, <1>2, ImageOfOne

(***************************************************************************)
(* The output                                                              *)
(***************************************************************************)
(* The bytes b[x:y] of memory m.                                           *)
Slice(m, b, x, y) == [i \in 1 .. y - x |-> m[b][x + i]]

(* The output: what went downstream, then what the encoder holds.          *)
Shown(k, m, sg, st, b, x, y) ==
  k \o (IF sg THEN Slice(m, st.dst, st.start, st.n) \o Slice(m, b, 0, y) ELSE Slice(m, b, x, y))

(* Output, before a step and after it, in terms of the memory it shows.    *)
LEMMA OutputShown ==
  /\ Output = Shown(sunk, mem, staging, staged, buf, start, n)
  /\ Output' = Shown(sunk', mem', staging', staged', buf', start', n')
<1>1. Output = Shown(sunk, mem, staging, staged, buf, start, n)
  BY Zenon DEF Output, Buffered, Returned, Between, Shown, Slice
<1>2. Output' = Shown(sunk', mem', staging', staged', buf', start', n')
  BY Zenon DEF Output, Buffered, Returned, Between, Shown, Slice
<1> QED BY <1>1, <1>2

(* A slice of memory is listed.                                            *)
LEMMA SliceListed ==
  ASSUME NEW mm, NEW d, NEW from \in Nat, NEW to \in Nat, from <= to
  PROVE  Listed(Slice(mm, d, from, to)) /\ Len(Slice(mm, d, from, to)) = to - from
<1> DEFINE s == Slice(mm, d, from, to)
<1>1. s = [i \in 1 .. to - from |-> s[i]]
  BY DEF Slice
<1>2. to - from \in Nat
  OBVIOUS
<1> HIDE DEF s
<1>3. Listed(s) /\ Len(s) = to - from
  BY <1>1, <1>2, TabulatedIsListed
<1> QED BY <1>3 DEF s

(* Nothing lies between an offset and itself.                              *)
LEMMA SliceNone == ASSUME NEW m, NEW b, NEW x \in Nat PROVE Slice(m, b, x, x) = <<>>
<1>1. x - x = 0 /\ x <= x
  OBVIOUS
<1>2. Listed(Slice(m, b, x, x)) /\ Len(Slice(m, b, x, x)) = 0
  BY <1>1, SliceListed
<1> QED BY <1>2, EmptyIffLen

(* Bytes that memory holds one after the other.                            *)
LEMMA SliceJoin ==
  ASSUME NEW m, NEW b, NEW x \in Nat, NEW y \in Nat, NEW z \in Nat, x <= y, y <= z
  PROVE  Slice(m, b, x, z) = Slice(m, b, x, y) \o Slice(m, b, y, z)
<1> DEFINE p == Slice(m, b, x, y)
           q == Slice(m, b, y, z)
           r == Slice(m, b, x, z)
<1>1. Listed(p) /\ Len(p) = y - x /\ \A i \in 1 .. y - x : p[i] = m[b][x + i]
  <2>1. x \in Nat /\ y \in Nat /\ x <= y
    OBVIOUS
  <2>2. Listed(p) /\ Len(p) = y - x
    BY ONLY <2>1, SliceListed
  <2>3. \A i \in 1 .. y - x : p[i] = m[b][x + i]
    BY DEF Slice
  <2> QED BY ONLY <2>2, <2>3
<1>2. Listed(q) /\ Len(q) = z - y /\ \A i \in 1 .. z - y : q[i] = m[b][y + i]
  <2>1. y \in Nat /\ z \in Nat /\ y <= z
    OBVIOUS
  <2>2. Listed(q) /\ Len(q) = z - y
    BY ONLY <2>1, SliceListed
  <2>3. \A i \in 1 .. z - y : q[i] = m[b][y + i]
    BY DEF Slice
  <2> QED BY ONLY <2>2, <2>3
<1>3. Listed(r) /\ Len(r) = z - x /\ \A i \in 1 .. z - x : r[i] = m[b][x + i]
  <2>1. x \in Nat /\ z \in Nat /\ x <= z
    OBVIOUS
  <2>2. Listed(r) /\ Len(r) = z - x
    BY ONLY <2>1, SliceListed
  <2>3. \A i \in 1 .. z - x : r[i] = m[b][x + i]
    BY DEF Slice
  <2> QED BY ONLY <2>2, <2>3
<1> HIDE DEF p, q, r
<1>4. /\ Listed(p \o q) /\ Len(p \o q) = Len(p) + Len(q)
      /\ \A i \in 1 .. Len(p) : (p \o q)[i] = p[i]
      /\ \A i \in 1 .. Len(q) : (p \o q)[Len(p) + i] = q[i]
  <2>1. Listed(p) /\ Listed(q)
    BY <1>1, <1>2
  <2> QED BY ONLY <2>1, ConcatListed
<1>5. Len(p \o q) = Len(r)
  BY <1>1, <1>2, <1>3, <1>4
<1>6. ASSUME NEW i \in 1 .. Len(r) PROVE r[i] = (p \o q)[i]
  <2> DEFINE j == i - Len(p)
  <2>1. i \in 1 .. Len(p) \/ (j \in 1 .. z - y /\ Len(p) + j = i /\ y + j = x + i)
    BY <1>1, <1>3
  <2>2. i \in 1 .. z - x
    BY <1>3
  <2>3. CASE i \in 1 .. Len(p)
    BY <1>1, <1>3, <1>4, <2>2, <2>3
  <2>4. CASE j \in 1 .. z - y /\ Len(p) + j = i /\ y + j = x + i
    <3> HIDE DEF j
    <3>1. (p \o q)[Len(p) + j] = q[j] /\ q[j] = m[b][y + j]
      BY <1>2, <1>4, <2>4
    <3> QED BY <1>3, <2>2, <2>4, <3>1
  <2> QED BY <2>1, <2>3, <2>4
<1>7. r = p \o q
  BY <1>3, <1>4, <1>5, <1>6, SameListed
<1> QED BY <1>7 DEF p, q, r

(* The memory m1 is m0 with data in buffer at, behind its first bytes.      *)
Stored(m0, m1, at, behind, data, size) ==
  /\ at \in DOMAIN m0 /\ size \in Nat /\ behind \in Nat
  /\ Listed(data) /\ behind + Len(data) <= size
  /\ \A i \in 1 .. size :
       m1[at][i] = IF i \in behind + 1 .. behind + Len(data) THEN data[i - behind] ELSE m0[at][i]
  /\ \A e \in DOMAIN m0 : e # at => m1[e] = m0[e]

(* What is stored is read back, and nothing in front of it changes.        *)
LEMMA SliceStored ==
  ASSUME NEW m0, NEW m1, NEW at, NEW behind, NEW data, NEW size,
         Stored(m0, m1, at, behind, data, size)
  PROVE  /\ Slice(m1, at, behind, behind + Len(data)) = data
         /\ \A x \in Nat : Slice(m1, at, x, behind) = Slice(m0, at, x, behind)
         /\ \A e, x, y : e # at /\ e \in DOMAIN m0 => Slice(m1, e, x, y) = Slice(m0, e, x, y)
<1>0. Len(data) \in Nat /\ Listed(data) /\ size \in Nat /\ behind \in Nat /\ behind + Len(data) <= size
  BY DEF Listed, Stored
<1>1. /\ \A i \in 1 .. size : m1[at][i] = IF i \in behind + 1 .. behind + Len(data) THEN data[i - behind] ELSE m0[at][i]
      /\ \A e \in DOMAIN m0 : e # at => m1[e] = m0[e]
  BY DEF Stored
<1>2. Slice(m1, at, behind, behind + Len(data)) = data
  <2> DEFINE s == Slice(m1, at, behind, behind + Len(data))
  <2>1. behind + Len(data) \in Nat /\ behind <= behind + Len(data) /\ (behind + Len(data)) - behind = Len(data)
    BY <1>0
  <2>2. Listed(s) /\ Len(s) = (behind + Len(data)) - behind
    BY <1>0, <2>1, SliceListed
  <2>3. \A i \in 1 .. (behind + Len(data)) - behind : s[i] = m1[at][behind + i]
    BY DEF Slice
  <2> HIDE DEF s
  <2>4. ASSUME NEW i \in 1 .. Len(data) PROVE s[i] = data[i]
    <3>1. behind + i \in 1 .. size /\ behind + i \in behind + 1 .. behind + Len(data) /\ (behind + i) - behind = i
      BY <1>0
    <3>2. m1[at][behind + i] = data[(behind + i) - behind]
      BY <1>1, <3>1
    <3> QED BY <2>1, <2>3, <3>1, <3>2
  <2>5. s = data
    BY <1>0, <2>1, <2>2, <2>4, SameListed
  <2> QED BY <2>5 DEF s
<1>3. ASSUME NEW x \in Nat PROVE Slice(m1, at, x, behind) = Slice(m0, at, x, behind)
  <2>1. ASSUME NEW i \in 1 .. behind - x PROVE m1[at][x + i] = m0[at][x + i]
    <3>1. x + i \in 1 .. size /\ ~(x + i \in behind + 1 .. behind + Len(data))
      BY <1>0
    <3> QED BY <1>1, <3>1
  <2> QED BY <2>1 DEF Slice
<1>4. ASSUME NEW e, NEW x, NEW y, e # at, e \in DOMAIN m0 PROVE Slice(m1, e, x, y) = Slice(m0, e, x, y)
  BY <1>1, <1>4 DEF Slice
<1> HIDE DEF Slice
<1> QED BY <1>2, <1>3, <1>4

(***************************************************************************)
(* The output of a step                                                    *)
(***************************************************************************)
(* What the encoder holds is listed, and what a call has yet to write too. *)
LEMMA OutputListed ==
  ASSUME WindowInv, CallInv, Listed(sunk), staging \in BOOLEAN
  PROVE  /\ Listed(Returned) /\ Listed(Buffered) /\ Listed(Output)
         /\ Byted(todo) /\ Listed(Joined(todo))
<1>1. /\ n \in Nat /\ start \in Nat /\ start <= n
      /\ staged.n \in Nat /\ staged.start \in Nat /\ staged.start <= staged.n
  BY DEF WindowInv
<1>2. Listed(Between(staged.dst, staged.start, staged.n)) /\ Listed(Between(buf, start, n))
  BY <1>1, BetweenBytes
<1>3. Listed(Between(buf, 0, n))
  <2>1. 0 \in Nat /\ 0 <= n
    BY <1>1
  <2> QED BY <1>1, <2>1, BetweenBytes
<1>4. Listed(Returned)
  BY <1>2 DEF Returned
<1>5. Listed(Returned \o Between(buf, 0, n))
  BY <1>3, <1>4, ConcatListed
<1>6. Listed(Buffered)
  BY <1>4, <1>5 DEF Buffered
<1>7. Listed(Output)
  BY <1>6, ConcatListed DEF Output
<1>8. Byted(todo)
  BY DEF CallInv, Byted, Reserved
<1> QED BY <1>4, <1>6, <1>7, <1>8, JoinedListed

(* The output depends on the window, the staged tail and memory alone.     *)
LEMMA OutputKept ==
  ASSUME UNCHANGED <<window, tail, mem, sunk>>
  PROVE  Output' = Output
BY DEF Output, Buffered, Returned, Between, window, tail

(* Nothing lies between an offset and itself.                              *)
LEMMA BetweenNone ==
  /\ \A b : \A x \in Nat : Between(b, x, x) = <<>>
<1> SUFFICES ASSUME NEW b, NEW x \in Nat PROVE Between(b, x, x) = <<>>
  OBVIOUS
<1>1. Slice(mem, b, x, x) = <<>>
  BY SliceNone
<1> QED BY <1>1 DEF Slice, Between

(* A window that was just rewound or installed shows nothing of its own.   *)
LEMMA FreshWindow ==
  ASSUME ~staging', n' = start', start' \in Nat, Listed(sunk')
  PROVE  Output' = sunk'
<1>1. Slice(mem', buf', start', n') = <<>>
  BY SliceNone
<1>2. Output' = Shown(sunk', mem', staging', staged', buf', start', n')
  BY OutputShown
<1>3. sunk' \o <<>> = sunk'
  BY NothingAdded
<1> QED BY <1>1, <1>2, <1>3 DEF Shown

(* What a drain moves downstream was buffered; what a failing sink leaves  *)
(* is at least what had gone downstream before.                            *)
LEMMA DrainOutput ==
  ASSUME OwnsTarget, WindowInv, Listed(sunk), ~Sinkless, NEW k, Drain(k)
  PROVE  Listed(sunk') /\ (Output' = Output \/ (err' # "nil" /\ Output' = sunk))
<1>1. UNCHANGED <<tail, mem>> /\ ~staging /\ ~staging'
  BY SinkOrWriter DEF Drain, tail
<1>2. n \in Nat /\ start \in Nat /\ start <= n
  BY DEF WindowInv
<1>3. Listed(Between(buf, start, n))
  BY <1>2, BetweenBytes
<1>4. Output = sunk \o Between(buf, start, n) /\ Listed(Output)
  BY <1>1, <1>3, ConcatListed DEF Output, Buffered, Returned
<1>5. CASE UNCHANGED <<window, sunk>>
  BY <1>1, <1>5, OutputKept
<1>6. CASE sunk' = sunk \o Between(buf, start, n) /\ Rewind
  BY <1>1, <1>4, <1>6, FreshWindow DEF Rewind
<1>7. CASE sunk' = sunk \o Between(buf, start, n) /\ SinkInstalls
  <2>1. n' = start' /\ start' \in Nat
    BY <1>7, EncoderAssumption DEF SinkInstalls, Install
  <2> QED BY <1>1, <1>4, <1>7, <2>1, FreshWindow
<1>8. CASE UNCHANGED sunk /\ err' \in {"sinkErr", "ErrArgument"} /\ SinkInstalls
  <2>1. n' = start' /\ start' \in Nat
    BY <1>8, EncoderAssumption DEF SinkInstalls, Install
  <2> QED BY <1>1, <1>8, <2>1, FreshWindow
<1> QED BY <1>5, <1>6, <1>7, <1>8
     DEF Drain, SinkTakes, SinkFails, FlagBeforeSink, window

(* The staged bytes are shown in front of the scratch. *)
LEMMA SpillOutput ==
  ASSUME OwnsTarget, WindowInv, FrameInv, Listed(sunk), staging, Spill
  PROVE  Output' = Output
<1>1. /\ UNCHANGED <<buf, start, staging, sunk>> /\ Sinkless /\ buf = Scratch
      /\ n \in Nat /\ staged.n \in Nat /\ staged.start \in Nat /\ staged.start <= staged.n
      /\ staged.dst \in Memory /\ staged.dst # buf /\ DOMAIN mem = Memory /\ 0 \in Nat
  BY MemoryAssumption DEF Spill, OwnsTarget, WindowInv, Target, Sinkless
<1>2. CASE n > Size(staged.dst) - staged.n
  BY <1>1, <1>2, OutputKept DEF Spill, window, tail
<1>3. CASE ~(n > Size(staged.dst) - staged.n)
  <2> DEFINE d == staged.dst
             p == staged.n
             b == Slice(mem, buf, 0, n)
             size == Size(staged.dst)
  <2>1. Store(d, p, b) /\ staged' = [staged EXCEPT !.n = @ + n] /\ n' = 0
    BY <1>3 DEF Spill, Slice, Between
  <2>2. staged'.dst = d /\ staged'.start = staged.start /\ staged'.n = p + n
    BY <2>1 DEF OwnsTarget
  <2>3. Listed(b) /\ Len(b) = n
    <3>1. 0 <= n /\ n - 0 = n /\ n \in Nat /\ 0 \in Nat
      BY <1>1
    <3>2. Listed(b) /\ Len(b) = n - 0
      BY ONLY <3>1, SliceListed
    <3> QED BY <3>1, <3>2
  <2>4. size \in Nat /\ DOMAIN mem[d] = 1 .. size /\ p + n <= size
    BY <1>1, <1>3, SizeNat DEF FrameInv
  <2>5. mem' = [mem EXCEPT ![d] = [i \in DOMAIN @ |-> IF i \in p + 1 .. p + Len(b) THEN b[i - p] ELSE @[i]]]
    BY <2>1 DEF Store
  <2> HIDE DEF d, p, b, size
  <2>6. p \in Nat /\ d \in DOMAIN mem /\ staged.start \in Nat /\ staged.start <= p /\ p <= p + n /\ p + n \in Nat
    BY <1>1 DEF d, p
  <2>7. /\ Slice(mem', d, p, p + n) = b
        /\ Slice(mem', d, staged.start, p) = Slice(mem, d, staged.start, p)
    <3>1. Stored(mem, mem', d, p, b, size)
      BY <2>3, <2>4, <2>5, <2>6 DEF Stored
    <3>2. /\ Slice(mem', d, p, p + Len(b)) = b
          /\ \A x \in Nat : Slice(mem', d, x, p) = Slice(mem, d, x, p)
      BY <3>1, SliceStored
    <3> QED BY <2>3, <2>6, <3>2
  <2>8. Slice(mem', d, staged.start, p + n) = Slice(mem', d, staged.start, p) \o Slice(mem', d, p, p + n)
    BY <2>6, SliceJoin
  <2>9. Slice(mem', buf, 0, 0) = <<>>
    BY <1>1, SliceNone
  <2>10. Listed(Slice(mem, d, staged.start, p))
    BY <2>6, SliceListed
  <2>11. Listed(Slice(mem, d, staged.start, p) \o b)
    BY <2>3, <2>10, ConcatListed
  <2>12. (Slice(mem, d, staged.start, p) \o b) \o <<>> = Slice(mem, d, staged.start, p) \o b
    BY <2>11, NothingAdded
  <2>13. Output' = sunk \o (Slice(mem', d, staged.start, p + n) \o Slice(mem', buf, 0, 0))
    BY <1>1, <2>1, <2>2, OutputShown DEF Shown
  <2>14. Output = sunk \o (Slice(mem, d, staged.start, p) \o b)
    BY <1>1, OutputShown DEF Shown, d, p, b
  <2> QED BY <2>7, <2>8, <2>9, <2>12, <2>13, <2>14
<1> QED BY <1>2, <1>3

(* Staging changes where the next byte goes, not what was written.         *)
LEMMA StageOutput ==
  ASSUME OwnsTarget, WindowInv, FrameInv, Listed(sunk), Stage
  PROVE  Output' = Output /\ sunk' = sunk
<1>1. CASE staging
  BY <1>1, SpillOutput DEF Stage, Spill
<1>2. CASE ~staging
  <2>1. /\ staged' = [dst |-> buf, n |-> n, start |-> start] /\ staging' = TRUE
        /\ buf' = Scratch /\ n' = 0 /\ start' = 0 /\ UNCHANGED <<mem, sunk>>
    BY <1>2 DEF Stage
  <2>2. staged'.dst = buf /\ staged'.n = n /\ staged'.start = start
    BY <2>1
  <2>3. n \in Nat /\ start \in Nat /\ start <= n /\ 0 \in Nat
    BY DEF WindowInv
  <2>4. Slice(mem, Scratch, 0, 0) = <<>>
    BY <2>3, SliceNone
  <2>5. Listed(Slice(mem, buf, start, n))
    BY <2>3, SliceListed
  <2>6. Slice(mem, buf, start, n) \o <<>> = Slice(mem, buf, start, n)
    BY <2>5, NothingAdded
  <2>7. Output' = sunk \o (Slice(mem, buf, start, n) \o Slice(mem, Scratch, 0, 0))
    BY <2>1, <2>2, OutputShown DEF Shown
  <2>8. Output = sunk \o Slice(mem, buf, start, n)
    BY <1>2, OutputShown DEF Shown
  <2> QED BY <2>1, <2>4, <2>6, <2>7, <2>8
<1> QED BY <1>1, <1>2

(* What is put into the window comes behind what the encoder holds.        *)
LEMMA PutOutput ==
  ASSUME OwnsTarget, WindowInv, FrameInv, Listed(sunk), NEW piece, Listed(piece), Len(piece) <= Room,
         Store(buf, n, piece), n' = n + Len(piece), UNCHANGED <<buf, start, tail, sunk>>
  PROVE  Output' = Output \o piece
<1> DEFINE size == Size(buf)
<1>1. /\ n \in Nat /\ start \in Nat /\ start <= n /\ 0 \in Nat /\ 0 <= n
      /\ staged.n \in Nat /\ staged.start \in Nat /\ staged.start <= staged.n
      /\ buf \in Memory /\ DOMAIN mem = Memory /\ staged.dst \in Memory
      /\ staging => staged.dst # buf
      /\ UNCHANGED <<staging, staged>>
  BY MemoryAssumption DEF OwnsTarget, WindowInv, Target, Sinkless, tail
<1>2. /\ size \in Nat /\ DOMAIN mem[buf] = 1 .. size /\ Len(piece) \in Nat
      /\ n + Len(piece) <= size /\ n <= n + Len(piece) /\ n + Len(piece) \in Nat
  BY <1>1, SizeNat DEF FrameInv, Room, Listed
<1>3. mem' = [mem EXCEPT ![buf] = [i \in DOMAIN @ |-> IF i \in n + 1 .. n + Len(piece) THEN piece[i - n] ELSE @[i]]]
  BY DEF Store
<1> HIDE DEF size
<1>4. Stored(mem, mem', buf, n, piece, size)
  BY <1>1, <1>2, <1>3 DEF Stored
<1>5. /\ Slice(mem', buf, n, n + Len(piece)) = piece
      /\ \A x \in Nat : Slice(mem', buf, x, n) = Slice(mem, buf, x, n)
      /\ \A e, x, y : e # buf /\ e \in DOMAIN mem => Slice(mem', e, x, y) = Slice(mem, e, x, y)
  BY <1>4, SliceStored
<1>6. ASSUME NEW x \in Nat, x <= n
      PROVE  /\ Slice(mem', buf, x, n + Len(piece)) = Slice(mem, buf, x, n) \o piece
             /\ Listed(Slice(mem, buf, x, n))
  <2>1. Slice(mem', buf, x, n + Len(piece)) = Slice(mem', buf, x, n) \o Slice(mem', buf, n, n + Len(piece))
    <3> DEFINE end == n + Len(piece)
    <3>1. x \in Nat /\ n \in Nat /\ end \in Nat /\ x <= n /\ n <= end
      BY <1>1, <1>2, <1>6
    <3> HIDE DEF end
    <3>2. Slice(mem', buf, x, end) = Slice(mem', buf, x, n) \o Slice(mem', buf, n, end)
      BY ONLY <3>1, SliceJoin
    <3> QED BY <3>2 DEF end
  <2>2. Listed(Slice(mem, buf, x, n))
    BY <1>1, <1>6, SliceListed
  <2> QED BY <1>5, <2>1, <2>2
<1>7. CASE ~staging
  <2> DEFINE held == Slice(mem, buf, start, n)
  <2>1. Slice(mem', buf, start, n + Len(piece)) = held \o piece /\ Listed(held)
    BY <1>1, <1>6
  <2>2. Output = sunk \o held
    BY <1>7, OutputShown DEF Shown
  <2>3. Output' = sunk \o Slice(mem', buf, start, n + Len(piece))
    BY <1>1, <1>7, OutputShown DEF Shown
  <2> HIDE DEF held
  <2>4. Regroups(sunk, held, piece)
    BY <2>1, ConcatAssoc
  <2> QED BY <2>1, <2>2, <2>3, <2>4 DEF Regroups
<1>8. CASE staging
  <2> DEFINE held == Slice(mem, buf, 0, n)
             kept == Slice(mem, staged.dst, staged.start, staged.n)
  <2>1. Slice(mem', buf, 0, n + Len(piece)) = held \o piece /\ Listed(held)
    BY <1>1, <1>6
  <2>2. Slice(mem', staged.dst, staged.start, staged.n) = kept
    BY <1>1, <1>5, <1>8
  <2>3. Listed(kept)
    BY <1>1, SliceListed
  <2>4. Output = sunk \o (kept \o held)
    BY <1>8, OutputShown DEF Shown
  <2>5. Output' = sunk \o (Slice(mem', staged.dst, staged.start, staged.n) \o Slice(mem', buf, 0, n + Len(piece)))
    BY <1>1, <1>8, OutputShown DEF Shown
  <2> HIDE DEF held, kept
  <2>6. Regroups(kept, held, piece)
    BY <2>1, <2>3, ConcatAssoc
  <2>7. Listed(kept \o held)
    BY <2>1, <2>3, ConcatListed
  <2>8. Regroups(sunk, kept \o held, piece)
    BY <2>7, ConcatAssoc
  <2> QED BY <2>1, <2>2, <2>4, <2>5, <2>6, <2>8 DEF Regroups
<1> QED BY <1>7, <1>8

(* What a call has yet to write is its next unit and the others.           *)
LEMMA HeadAndRest ==
  ASSUME NEW units, Byted(units), units # <<>>
  PROVE  /\ Byted(Tail(units)) /\ Listed(units[1].bytes) /\ Listed(Joined(Tail(units)))
         /\ Joined(units) = units[1].bytes \o Joined(Tail(units))
<1> DEFINE rest == Tail(units)
           u == units[1]
<1>1. /\ Listed(rest) /\ Len(rest) = Len(units) - 1 /\ Len(units) \in Nat \ {0}
      /\ \A i \in 1 .. Len(units) - 1 : rest[i] = units[i + 1]
  BY TailListed DEF Byted
<1>2. 1 \in 1 .. Len(units) /\ \A i \in 1 .. Len(rest) : i + 1 \in 1 .. Len(units)
  BY <1>1
<1>3. Listed(u.bytes)
  BY <1>2 DEF Byted
<1> HIDE DEF rest
<1>4. Byted(rest)
  BY <1>1, <1>2 DEF Byted
<1>5. Byted(<<u>>) /\ Joined(<<u>>) = u.bytes
  BY <1>3, JoinedOne
<1>6. Joined(<<u>> \o rest) = Joined(<<u>>) \o Joined(rest)
  BY <1>4, <1>5, JoinedConcat
<1>7. units = <<u>> \o rest
  <2>1. Listed(<<u>>) /\ Len(<<u>>) = 1 /\ <<u>>[1] = u
    BY OneListed
  <2>2. /\ Listed(<<u>> \o rest) /\ Len(<<u>> \o rest) = Len(<<u>>) + Len(rest)
        /\ \A i \in 1 .. Len(<<u>>) : (<<u>> \o rest)[i] = <<u>>[i]
        /\ \A i \in 1 .. Len(rest) : (<<u>> \o rest)[Len(<<u>>) + i] = rest[i]
    <3>1. Listed(<<u>>) /\ Listed(rest)
      BY <1>1, <2>1
    <3> QED BY ONLY <3>1, ConcatListed
  <2>3. Len(<<u>> \o rest) = Len(units)
    BY <1>1, <2>1, <2>2
  <2>4. ASSUME NEW i \in 1 .. Len(units) PROVE units[i] = (<<u>> \o rest)[i]
    <3>1. CASE i = 1
      BY <2>1, <2>2, <3>1
    <3>2. CASE i # 1
      <4> DEFINE j == i - 1
      <4>1. j \in 1 .. Len(rest) /\ j \in 1 .. Len(units) - 1 /\ 1 + j = i /\ j + 1 = i
        BY <1>1, <3>2
      <4> HIDE DEF j
      <4>2. (<<u>> \o rest)[1 + j] = rest[j] /\ rest[j] = units[j + 1]
        BY <1>1, <2>1, <2>2, <4>1
      <4> QED BY <4>1, <4>2
    <3> QED BY <3>1, <3>2
  <2>5. Listed(units)
    BY DEF Byted
  <2> HIDE DEF u
  <2> QED BY <2>2, <2>3, <2>4, <2>5, SameListed
<1>8. Listed(Joined(rest))
  BY <1>4, JoinedListed
<1> HIDE DEF u
<1>9. Joined(units) = u.bytes \o Joined(rest)
  BY <1>5, <1>6, <1>7
<1> QED BY <1>3, <1>4, <1>8, <1>9 DEF u, rest

(***************************************************************************)
(* The invariant                                                           *)
(***************************************************************************)
(* The call in progress ends with the end marker of a sequence: depth will *)
(* fall only when that is written.                                         *)
Closing == \E k \in 1 .. Len(todo) : todo[k].closes

(* depth counts what is open, an end whose marker is not written included. *)
DepthInv ==
  err = "nil" => depth = OpenAfter(ops, Len(ops)) + (IF Closing THEN 1 ELSE 0)

(* The inductive invariant of the output, beside EncoderInv.               *)
OutputInv ==
  /\ FramingInv(ops, pending)
  /\ Listed(sunk)
  /\ err # "nil" => todo = <<>>
  /\ DepthInv
  /\ OutputIsMessage

(* No call, no end marker in it.                                           *)
LEMMA IdleIsNotClosing == todo = <<>> => ~Closing
<1>1. Len(<<>>) = 0
  BY EmptyListed
<1> QED BY <1>1 DEF Closing

(* What the calls spell is listed. *)
LEMMA MessageListed == FramingInv(ops, pending) => Listed(Message)
BY SpelledListed DEF FramingInv, Message

(* A sequence begins another it is followed in, and itself.                *)
LEMMA Beginning ==
  ASSUME NEW u, NEW w, Listed(u), Listed(w)
  PROVE  Seqs!IsPrefix(u, u \o w) /\ Seqs!IsPrefix(u, u)
<1>1. /\ Listed(u \o w) /\ Len(u \o w) = Len(u) + Len(w)
      /\ \A i \in 1 .. Len(u) : (u \o w)[i] = u[i]
  BY ConcatListed
<1>2. Len(u) \in Nat /\ Len(w) \in Nat
  BY DEF Listed
<1>3. SubSeq(u \o w, 1, Len(u)) = SubSeq(u, 1, Len(u))
  <2> DEFINE p == SubSeq(u \o w, 1, Len(u))
             q == SubSeq(u, 1, Len(u))
  <2>1. Listed(p) /\ Len(p) = Len(u) /\ \A i \in 1 .. Len(u) : p[i] = (u \o w)[i]
    <3>1. Len(u) \in 0 .. Len(u \o w)
      BY <1>1, <1>2
    <3> QED BY <1>1, <3>1, FirstListed
  <2>2. q = u
    BY WholeFirst
  <2> HIDE DEF p, q
  <2>3. p = u
    BY <1>1, <2>1, SameListed
  <2> QED BY <2>2, <2>3 DEF p, q
<1> QED BY <1>1, <1>2, <1>3 DEF Seqs!IsPrefix

(* A step that is no call, before the first error. *)
LEMMA GoesOn ==
  ASSUME OutputIsMessage, UNCHANGED ops, err = "nil", err' = "nil",
         Output' \o Joined(todo') = Output \o Joined(todo)
  PROVE  OutputIsMessage'
<1>1. Output \o Joined(todo) = Message /\ Message' = Message
  BY DEF OutputIsMessage, Message
<1> QED BY <1>1 DEF OutputIsMessage

(* The first error leaves a beginning of the message.                      *)
LEMMA StopsEarly ==
  ASSUME OutputIsMessage, UNCHANGED ops, err = "nil", err' # "nil",
         WindowInv, CallInv, Listed(sunk), staging \in BOOLEAN,
         Output' = Output \/ Output' = sunk
  PROVE  OutputIsMessage'
<1>1. Output \o Joined(todo) = Message /\ Message' = Message
  BY DEF OutputIsMessage, Message
<1>2. Listed(Output) /\ Listed(Buffered) /\ Listed(Joined(todo))
  BY OutputListed
<1>3. CASE Output' = Output
  <2>1. Seqs!IsPrefix(Output, Message)
    BY <1>1, <1>2, Beginning
  <2> QED BY <1>1, <1>3, <2>1 DEF OutputIsMessage
<1>4. CASE Output' = sunk
  <2> DEFINE rest == Joined(todo)
             held == Buffered
  <2>1. Output = sunk \o held
    BY DEF Output
  <2>2. Listed(rest) /\ Listed(held)
    BY <1>2
  <2>3. Message = (sunk \o held) \o rest
    BY <1>1, <2>1
  <2> HIDE DEF rest, held
  <2>4. Regroups(sunk, held, rest) /\ Listed(held \o rest)
    BY <2>2, ConcatAssoc, ConcatListed
  <2>5. Message = sunk \o (held \o rest)
    BY <2>3, <2>4 DEF Regroups
  <2>6. Seqs!IsPrefix(sunk, Message)
    BY <2>4, <2>5, Beginning
  <2> QED BY <1>1, <1>4, <2>6 DEF OutputIsMessage
<1> QED BY <1>3, <1>4

(* After an error nothing is added. *)
LEMMA StaysStopped ==
  ASSUME OutputIsMessage, UNCHANGED ops, err # "nil", err' # "nil", Output' = Output
  PROVE  OutputIsMessage'
<1>1. Seqs!IsPrefix(Output, Message) /\ Message' = Message
  BY DEF OutputIsMessage, Message
<1> QED BY <1>1 DEF OutputIsMessage

(* A step that writes nothing of the call in progress. *)
LEMMA RoomKeepsOutput ==
  ASSUME OutputInv, WindowInv, CallInv, staging \in BOOLEAN,
         UNCHANGED <<nesting, ops>>, Listed(sunk'),
         err # "nil" => err' = err /\ todo' = todo /\ Output' = Output,
         todo' = todo \/ (err' # "nil" /\ todo' = <<>>),
         err' # "nil" => todo' = <<>>,
         Output' = Output \/ (err' # "nil" /\ Output' = sunk)
  PROVE  OutputInv'
<1>1. FramingInv(ops', pending')
  BY DEF OutputInv, nesting
<1>2. DepthInv'
  BY DEF OutputInv, DepthInv, Closing, nesting
<1>3. OutputIsMessage'
  <2>1. CASE err # "nil"
    BY <2>1, StaysStopped DEF OutputInv
  <2>2. CASE err = "nil" /\ err' # "nil"
    BY <2>2, StopsEarly DEF OutputInv
  <2>3. CASE err = "nil" /\ err' = "nil"
    BY <2>3, GoesOn DEF OutputInv
  <2> QED BY <2>1, <2>2, <2>3
<1> QED BY <1>1, <1>2, <1>3 DEF OutputInv

(* Making room moves bytes downstream or ends the call.                    *)
LEMMA MakeRoomOutput == EncoderInv /\ OutputInv /\ MakeRoom => OutputInv'
<1> SUFFICES ASSUME EncoderInv, OutputInv, MakeRoom PROVE OutputInv'
  OBVIOUS
<1> USE DEF EncoderInv
<1>1. /\ Writing /\ UNCHANGED <<nesting, ops>> /\ staging \in BOOLEAN
      /\ todo' = IF err' = "nil" THEN todo ELSE <<>>
      /\ IF Sinkless THEN Stage ELSE Drain(Next1.need)
  BY DEF MakeRoom, OrStop, OwnsTarget
<1>2. err = "nil" /\ Listed(sunk)
  BY <1>1 DEF OutputInv, Writing
<1>3. Listed(sunk') /\ (Output' = Output \/ (err' # "nil" /\ Output' = sunk))
  BY <1>1, <1>2, StageOutput, DrainOutput
<1> QED BY <1>1, <1>2, <1>3, RoomKeepsOutput

(* Flush and Bytes move bytes, of no call.                                 *)
LEMMA FlushOutput == EncoderInv /\ OutputInv /\ (Flush \/ Bytes) => OutputInv'
<1> SUFFICES ASSUME EncoderInv, OutputInv, Flush \/ Bytes PROVE OutputInv'
  OBVIOUS
<1> USE DEF EncoderInv
<1>1. todo = <<>> /\ todo' = <<>> /\ UNCHANGED <<nesting, ops>> /\ staging \in BOOLEAN /\ Listed(sunk)
  BY DEF Flush, Bytes, Idle, OwnsTarget, OutputInv
<1>2. CASE staging /\ Spill
  <2>1. sunk' = sunk /\ Output' = Output /\ (err' = err \/ err' = "ErrBufferFull")
    BY <1>1, <1>2, SpillOutput DEF Spill
  <2>2. CASE err = "nil"
    BY <1>1, <2>1, <2>2, RoomKeepsOutput
  <2>3. CASE err # "nil"
    <3>1. FramingInv(ops', pending')
      BY <1>1 DEF OutputInv, nesting
    <3>2. err' # "nil"
      BY <2>1, <2>3
    <3>3. OutputIsMessage'
      BY <1>1, <2>1, <2>3, <3>2, StaysStopped DEF OutputInv
    <3> QED BY <1>1, <2>1, <3>1, <3>2, <3>3 DEF OutputInv, DepthInv
  <2> QED BY <2>2, <2>3
<1>3. CASE ~Sinkless /\ Drain(0) /\ err = "nil"
  <2>1. Listed(sunk') /\ (Output' = Output \/ (err' # "nil" /\ Output' = sunk))
    BY <1>1, <1>3, DrainOutput
  <2> QED BY <1>1, <1>3, <2>1, RoomKeepsOutput
<1> QED BY <1>2, <1>3 DEF Flush, Bytes

(* A rejected call changes nothing but the error. *)
LEMMA RejectOutput == EncoderInv /\ OutputInv /\ RejectArgument => OutputInv'
<1> SUFFICES ASSUME EncoderInv, OutputInv, RejectArgument PROVE OutputInv'
  OBVIOUS
<1> USE DEF EncoderInv
<1>1. /\ todo = <<>> /\ todo' = todo /\ UNCHANGED <<nesting, ops, sunk>>
      /\ UNCHANGED <<window, tail, mem>>
      /\ err' = IF err = "nil" THEN "ErrArgument" ELSE err
      /\ staging \in BOOLEAN /\ Listed(sunk)
  BY DEF RejectArgument, Idle, OwnsTarget, OutputInv
<1>2. Output' = Output
  BY <1>1, OutputKept
<1>3. /\ Listed(sunk') /\ (err # "nil" => err' = err /\ todo' = todo /\ Output' = Output)
      /\ (err' # "nil" => todo' = <<>>)
  BY <1>1, <1>2
<1> QED BY <1>1, <1>2, <1>3, RoomKeepsOutput

(* The buffer the caller took is handed on whole. *)
LEMMA SetBufferOutput == EncoderInv /\ OutputInv /\ SetBuffer => OutputInv'
<1> SUFFICES ASSUME EncoderInv, OutputInv, SetBuffer PROVE OutputInv'
  OBVIOUS
<1> USE DEF EncoderInv
<1>1. CASE RejectArgument
  BY <1>1, RejectOutput
<1>2. CASE ~RejectArgument
  <2>1. PICK b \in Buffers, o \in Offsets :
          /\ sunk' = sunk \o Returned /\ Install(b, o)
          /\ staging' = FALSE /\ UNCHANGED <<err, nesting, todo, ops>>
    BY <1>2 DEF SetBuffer
  <2>2. Idle /\ err = "nil" /\ (staging => n = 0) /\ staging \in BOOLEAN /\ Listed(sunk)
    BY DEF SetBuffer, OwnsTarget, OutputInv
  <2>3. Listed(Returned)
    BY <2>2, OutputListed
  <2>4. Output = sunk \o Returned
    <3>1. CASE ~staging
      BY <3>1 DEF Output, Buffered
    <3>2. CASE staging
      <4>1. n = 0 /\ 0 \in Nat
        BY <2>2, <3>2
      <4>2. Between(buf, 0, n) = <<>>
        BY <4>1, BetweenNone
      <4>3. Returned \o <<>> = Returned
        BY <2>3, NothingAdded
      <4> QED BY <3>2, <4>2, <4>3 DEF Output, Buffered
    <3> QED BY <2>2, <3>1, <3>2
  <2>5. Listed(sunk')
    BY <2>1, <2>2, <2>3, ConcatListed
  <2>6. n' = start' /\ start' \in Nat /\ ~staging'
    BY <2>1, EncoderAssumption DEF Install
  <2>7. Output' = Output
    BY <2>1, <2>4, <2>5, <2>6, FreshWindow
  <2>8. todo' = todo /\ err' = "nil"
    BY <2>1, <2>2
  <2> QED BY <2>1, <2>2, <2>5, <2>7, <2>8, RoomKeepsOutput
<1> QED BY <1>1, <1>2

(* A buffer given back shows nothing of the output.                        *)
LEMMA QuietOutput ==
  EncoderInv /\ OutputInv /\ (Release \/ UNCHANGED vars) => OutputInv'
<1> SUFFICES ASSUME EncoderInv, OutputInv, Release \/ UNCHANGED vars PROVE OutputInv'
  OBVIOUS
<1>1. UNCHANGED <<window, tail, mem, sunk, nesting, ops, err, todo>>
  BY DEF Release, vars
<1>2. Output' = Output
  BY <1>1, OutputKept
<1>3. staging \in BOOLEAN /\ Listed(sunk') /\ (err' # "nil" => todo' = <<>>)
      /\ (err # "nil" => err' = err /\ todo' = todo /\ Output' = Output) /\ todo' = todo
      /\ WindowInv /\ CallInv
  BY <1>1, <1>2 DEF EncoderInv, OwnsTarget, OutputInv
<1> QED BY <1>1, <1>2, <1>3, RoomKeepsOutput

(* No unit but the last closes a sequence. *)
LEMMA HeadCloses ==
  ASSUME CallInv, Writing
  PROVE  /\ Next1.closes => Tail(todo) = <<>> /\ Closing
         /\ ~Next1.closes => (Closing <=> \E k \in 1 .. Len(Tail(todo)) : Tail(todo)[k].closes)
<1>1. /\ Listed(Tail(todo)) /\ Len(Tail(todo)) = Len(todo) - 1 /\ Len(todo) \in Nat \ {0}
      /\ \A i \in 1 .. Len(todo) - 1 : Tail(todo)[i] = todo[i + 1]
  BY TailListed DEF CallInv, Writing
<1>2. 1 \in 1 .. Len(todo)
  BY <1>1
<1>3. ASSUME Next1.closes PROVE Tail(todo) = <<>> /\ Closing
  <2>1. 1 = Len(todo)
    BY <1>2, <1>3 DEF CallInv, Next1
  <2>2. Len(Tail(todo)) = 0
    <3>1. \A x \in Nat : 1 = x => x - 1 = 0
      OBVIOUS
    <3> QED BY <1>1, <2>1, <3>1, Zenon
  <2>3. Tail(todo) = <<>>
    BY <1>1, <2>2, EmptyIffLen
  <2> QED BY <1>2, <1>3, <2>3 DEF Closing, Next1
<1>4. ASSUME ~Next1.closes, Closing PROVE \E k \in 1 .. Len(Tail(todo)) : Tail(todo)[k].closes
  <2>1. PICK k \in 1 .. Len(todo) : todo[k].closes
    BY <1>4 DEF Closing
  <2>2. k # 1
    BY <1>4, <2>1 DEF Next1
  <2> DEFINE j == k - 1
  <2>3. j \in 1 .. Len(todo) - 1 /\ j \in 1 .. Len(Tail(todo)) /\ j + 1 = k
    BY <1>1, <2>2
  <2> HIDE DEF j
  <2>4. Tail(todo)[j].closes
    BY <1>1, <2>1, <2>3
  <2> QED BY <2>3, <2>4
<1>5. ASSUME NEW k \in 1 .. Len(Tail(todo)), Tail(todo)[k].closes PROVE Closing
  <2>1. k \in 1 .. Len(todo) - 1 /\ k + 1 \in 1 .. Len(todo)
    BY <1>1
  <2>2. todo[k + 1].closes
    BY <1>1, <1>5, <2>1
  <2> QED BY <2>1, <2>2 DEF Closing
<1> QED BY <1>3, <1>4, <1>5

(* A unit moves from the call into the output; depth falls with an end     *)
(* marker.                                                                 *)
LEMMA PutUnitOutput == EncoderInv /\ OutputInv /\ PutUnit => OutputInv'
<1> SUFFICES ASSUME EncoderInv, OutputInv, PutUnit PROVE OutputInv'
  OBVIOUS
<1> USE DEF EncoderInv
<1>1. /\ Writing /\ Store(buf, n, Next1.bytes) /\ n' = n + Len(Next1.bytes)
      /\ depth' = IF Next1.closes THEN depth - 1 ELSE depth
      /\ todo' = Tail(todo)
      /\ UNCHANGED <<buf, start, tail, sunk, err, pending, ops>>
      /\ ~Next1.split /\ Room >= Next1.need
  BY DEF PutUnit
<1>2. err = "nil" /\ err' = "nil" /\ Listed(sunk) /\ Listed(sunk') /\ staging \in BOOLEAN
  BY <1>1 DEF OutputInv, Writing, OwnsTarget
<1>3. /\ Listed(Next1.bytes) /\ Len(Next1.bytes) <= Next1.need /\ Next1.need \in Nat
      /\ Room \in Int
  BY <1>1, HeadReserved, SizeNat DEF Reserved, Room, WindowInv
<1>4. Len(Next1.bytes) <= Room
  BY <1>1, <1>3 DEF Listed
<1>5. Output' = Output \o Next1.bytes
  BY <1>1, <1>2, <1>3, <1>4, PutOutput
<1>6. Listed(Output) /\ Byted(todo)
  BY <1>2, OutputListed
<1>7. Joined(todo) = Next1.bytes \o Joined(Tail(todo)) /\ Listed(Joined(Tail(todo)))
  BY <1>1, <1>6, HeadAndRest DEF Writing, Next1
<1>8. Output' \o Joined(todo') = Output \o Joined(todo)
  <2> DEFINE u == Next1.bytes
             r == Joined(Tail(todo))
  <2>1. Output' = Output \o u /\ Joined(todo') = r /\ Joined(todo) = u \o r
    BY <1>1, <1>5, <1>7
  <2>2. Listed(u) /\ Listed(r)
    BY <1>3, <1>7
  <2> HIDE DEF u, r
  <2>3. Regroups(Output, u, r)
    BY <1>6, <2>2, ConcatAssoc
  <2> QED BY <2>1, <2>3 DEF Regroups
<1>9. OutputIsMessage'
  BY <1>1, <1>2, <1>8, GoesOn DEF OutputInv
<1>10. DepthInv'
  <2>1. depth = OpenAfter(ops, Len(ops)) + (IF Closing THEN 1 ELSE 0)
    BY <1>2 DEF OutputInv, DepthInv
  <2>2. OpenAfter(ops, Len(ops)) \in Int
    <3>1. Len(ops) \in Nat
      BY DEF OutputInv, FramingInv, Imaged, Listed
    <3> QED BY <3>1, OpenNext
  <2>3. CASE Next1.closes
    <3>1. Tail(todo) = <<>> /\ Closing
      BY <1>1, <2>3, HeadCloses
    <3>2. ~Closing'
      <4>1. todo' = <<>> /\ Len(<<>>) = 0
        BY <1>1, <3>1, EmptyListed
      <4>2. Len(todo') = 0
        BY <4>1
      <4>3. 1 .. Len(todo') = {}
        BY <4>2
      <4> QED BY ONLY <4>3 DEF Closing
    <3>3. depth' = OpenAfter(ops, Len(ops))
      BY <1>1, <2>1, <2>2, <2>3, <3>1
    <3> QED BY <1>1, <2>2, <3>2, <3>3 DEF DepthInv
  <2>4. CASE ~Next1.closes
    <3>1. Closing' <=> Closing
      BY <1>1, <2>4, HeadCloses DEF Closing
    <3> QED BY <1>1, <2>1, <2>4, <3>1 DEF DepthInv
  <2> QED BY <2>3, <2>4
<1>11. FramingInv(ops', pending')
  BY <1>1 DEF OutputInv
<1> QED BY <1>2, <1>9, <1>10, <1>11 DEF OutputInv

(* The units of a call with another first one. *)
LEMMA HeadChanged ==
  ASSUME CallInv, Writing, NEW u, Listed(u.bytes), u.closes = FALSE, ~Next1.closes,
         todo' = <<u>> \o Tail(todo)
  PROVE  /\ Joined(todo') = u.bytes \o Joined(Tail(todo))
         /\ Closing' <=> Closing
<1>1. /\ Listed(Tail(todo)) /\ Len(Tail(todo)) = Len(todo) - 1 /\ Len(todo) \in Nat \ {0}
      /\ \A i \in 1 .. Len(todo) - 1 : Tail(todo)[i] = todo[i + 1]
  BY TailListed DEF CallInv, Writing
<1>2. Byted(todo) /\ todo # <<>>
  BY DEF CallInv, Byted, Reserved, Writing
<1>3. Byted(Tail(todo))
  BY <1>2, HeadAndRest
<1>4. Byted(<<u>>) /\ Joined(<<u>>) = u.bytes
  BY JoinedOne
<1>5. Joined(<<u>> \o Tail(todo)) = Joined(<<u>>) \o Joined(Tail(todo))
  BY <1>3, <1>4, JoinedConcat
<1>6. Listed(<<u>>) /\ Len(<<u>>) = 1 /\ <<u>>[1] = u
  BY OneListed
<1>7. /\ Len(todo') = Len(<<u>>) + Len(Tail(todo))
      /\ \A i \in 1 .. Len(<<u>>) : todo'[i] = <<u>>[i]
      /\ \A i \in 1 .. Len(Tail(todo)) : todo'[Len(<<u>>) + i] = Tail(todo)[i]
  <2>1. Listed(Tail(todo)) /\ Listed(<<u>>)
    BY <1>1, <1>6
  <2> QED BY ONLY <2>1, ConcatListed, todo' = <<u>> \o Tail(todo)
<1>8. Closing' <=> \E k \in 1 .. Len(Tail(todo)) : Tail(todo)[k].closes
  <2>1. ASSUME NEW k \in 1 .. Len(todo'), todo'[k].closes
        PROVE  \E j \in 1 .. Len(Tail(todo)) : Tail(todo)[j].closes
    <3>1. k # 1
      BY <1>6, <1>7, <2>1
    <3> DEFINE j == k - 1
    <3>2. j \in 1 .. Len(Tail(todo)) /\ 1 + j = k
      BY <1>1, <1>6, <1>7, <3>1
    <3> HIDE DEF j
    <3>3. Tail(todo)[j].closes
      BY <1>6, <1>7, <2>1, <3>2
    <3> QED BY <3>2, <3>3
  <2>2. ASSUME NEW j \in 1 .. Len(Tail(todo)), Tail(todo)[j].closes
        PROVE  \E k \in 1 .. Len(todo') : todo'[k].closes
    <3>1. 1 + j \in 1 .. Len(todo')
      BY <1>1, <1>6, <1>7
    <3>2. todo'[1 + j].closes
      BY <1>6, <1>7, <2>2
    <3> QED BY <3>1, <3>2
  <2> QED BY <2>1, <2>2 DEF Closing
<1> QED BY <1>4, <1>5, <1>8, HeadCloses

(* A piece of a payload does, and the rest of it stays in the call.        *)
LEMMA PutPayloadOutput == EncoderInv /\ OutputInv /\ PutPayload => OutputInv'
<1> SUFFICES ASSUME EncoderInv, OutputInv, PutPayload PROVE OutputInv'
  OBVIOUS
<1> USE DEF EncoderInv
<1> DEFINE b == Next1.bytes
           c == IF Len(b) < Room THEN Len(b) ELSE Room
           piece == SubSeq(b, 1, c)
           rest == SubSeq(b, c + 1, Len(b))
<1>1. Reserved(Next1) /\ Listed(b) /\ ~Next1.closes /\ Writing
  BY HeadReserved DEF PutPayload, Reserved
<1>2. Room \in Nat /\ Len(b) \in Nat /\ c \in 0 .. Len(b) /\ c <= Room
  <2>1. Room \in Int /\ Room >= Next1.need /\ Next1.need \in Nat
    BY <1>1, SizeNat DEF PutPayload, Reserved, Room, WindowInv
  <2> QED BY <1>1, <2>1 DEF Listed
<1>3. /\ Store(buf, n, piece) /\ n' = n + c
      /\ todo' = IF c = Len(b) THEN Tail(todo) ELSE <<[Next1 EXCEPT !.bytes = rest]>> \o Tail(todo)
      /\ UNCHANGED <<buf, start, tail, sunk, err, nesting, ops>>
  BY DEF PutPayload
<1>4. err = "nil" /\ err' = "nil" /\ Listed(sunk) /\ Listed(sunk') /\ staging \in BOOLEAN
  BY <1>1, <1>3 DEF OutputInv, Writing, OwnsTarget
<1> HIDE DEF c
<1>5. Listed(piece) /\ Len(piece) = c
  <2> HIDE DEF b
  <2> QED BY <1>1, <1>2, FirstListed
<1>6. Output' = Output \o piece
  <2> HIDE DEF piece
  <2> QED BY <1>2, <1>3, <1>4, <1>5, PutOutput
<1>7. Listed(Output) /\ Byted(todo)
  BY <1>4, OutputListed
<1>8. Joined(todo) = b \o Joined(Tail(todo)) /\ Listed(Joined(Tail(todo)))
  BY <1>1, <1>7, HeadAndRest DEF Writing, Next1
<1>9. Joined(todo) = piece \o Joined(todo') /\ Listed(Joined(todo')) /\ (Closing' <=> Closing)
  <2>1. CASE c = Len(b)
    <3>1. piece = b
      <4> HIDE DEF b
      <4> QED BY <1>1, <2>1, WholeFirst
    <3>2. todo' = Tail(todo)
      BY <1>3, <2>1
    <3>3. Closing' <=> Closing
      BY <1>1, <3>2, HeadCloses DEF Closing
    <3> QED BY <1>8, <3>1, <3>2, <3>3
  <2>2. CASE c # Len(b)
    <3> DEFINE u == [Next1 EXCEPT !.bytes = rest]
               r == Joined(Tail(todo))
    <3>1. u.bytes = rest /\ u.closes = FALSE
      BY <1>1 DEF Reserved
    <3>2. Listed(rest)
      <4>1. c + 1 \in Nat \ {0} /\ Len(b) \in 0 .. Len(b) /\ c + 1 <= Len(b) + 1
        BY <1>2
      <4> HIDE DEF b
      <4> QED BY <1>1, <4>1, SubListed
    <3>3. b = piece \o rest
      <4>1. c \in Nat /\ Len(b) \in 0 .. Len(b) /\ c <= Len(b)
        BY <1>2
      <4> HIDE DEF b
      <4>2. SubSeq(b, 1, Len(b)) = SubSeq(b, 1, c) \o SubSeq(b, c + 1, Len(b))
        BY <1>1, <4>1, SplitFirst
      <4>3. SubSeq(b, 1, Len(b)) = b
        BY <1>1, WholeFirst
      <4> QED BY <4>2, <4>3
    <3>4. todo' = <<u>> \o Tail(todo)
      BY <1>3, <2>2
    <3> HIDE DEF u, rest
    <3>5. Joined(todo') = rest \o Joined(Tail(todo)) /\ (Closing' <=> Closing)
      BY <1>1, <3>1, <3>2, <3>4, HeadChanged
    <3> HIDE DEF piece, b
    <3>6. Listed(r)
      BY <1>8
    <3>7. Listed(rest \o r)
      BY <3>2, <3>6, ConcatListed
    <3> HIDE DEF r
    <3>8. Regroups(piece, rest, r)
      BY <1>5, <3>2, <3>6, ConcatAssoc
    <3>9. Joined(todo) = b \o r /\ Joined(todo') = rest \o r
      BY <1>8, <3>5 DEF r
    <3> QED BY <3>3, <3>5, <3>7, <3>8, <3>9 DEF Regroups
  <2> QED BY <2>1, <2>2
<1>10. Output' \o Joined(todo') = Output \o Joined(todo)
  <2> HIDE DEF piece
  <2> DEFINE r == Joined(todo')
  <2>1. Joined(todo) = piece \o r /\ Listed(r)
    BY <1>9
  <2> HIDE DEF r
  <2>2. Regroups(Output, piece, r)
    BY <1>5, <1>7, <2>1, ConcatAssoc
  <2>3. Output' \o r = Output \o Joined(todo)
    BY <1>6, <2>1, <2>2 DEF Regroups
  <2> QED BY <2>3 DEF r
<1>11. OutputIsMessage'
  BY <1>3, <1>4, <1>10, GoesOn DEF OutputInv
<1>12. DepthInv'
  BY <1>3, <1>4, <1>9 DEF OutputInv, DepthInv, nesting
<1>13. FramingInv(ops', pending')
  BY <1>3 DEF OutputInv, nesting
<1> QED BY <1>4, <1>11, <1>12, <1>13 DEF OutputInv

(***************************************************************************)
(* Calls                                                                   *)
(***************************************************************************)
(* An accepted call queues what it adds to the message, the headers held   *)
(* back first.                                                             *)
LEMMA WriteOutput ==
  ASSUME CallInv, WindowInv, OutputInv, staging \in BOOLEAN, todo = <<>>, err = "nil",
         NEW c, NEW units, Write(c, units), Spells(units, c),
         FramingInv(Append(ops, c), <<>>),
         Spelled(Append(ops, c)) = (Spelled(ops) \o Heads(pending)) \o Image(c)
  PROVE  /\ FramingInv(ops', pending') /\ Listed(sunk') /\ (err' # "nil" => todo' = <<>>)
         /\ OutputIsMessage'
<1>1. /\ todo' = CommitPending \o units /\ pending' = <<>> /\ ops' = Append(ops, c)
      /\ UNCHANGED <<window, tail, mem, sunk, err>>
  BY DEF Write
<1>2. Listed(sunk) /\ Listed(pending) /\ FramingInv(ops, pending)
  BY DEF OutputInv, FramingInv
<1>3. Output' = Output
  BY <1>1, OutputKept
<1>4. Listed(Output)
  BY <1>2, OutputListed
<1>5. Output = Spelled(ops)
  <2>1. Output \o Joined(<<>>) = Message
    BY DEF OutputInv, OutputIsMessage
  <2>2. Joined(<<>>) = <<>> /\ Output \o <<>> = Output
    BY <1>4, JoinedNone, NothingAdded
  <2> QED BY <2>1, <2>2 DEF Message
<1> DEFINE h == Heads(pending)
           g == Image(c)
<1>6. Joined(todo') = h \o g /\ Listed(h) /\ Listed(g)
  <2>1. Byted(CommitPending) /\ Joined(CommitPending) = Heads(pending)
    BY <1>2, JoinedCommit
  <2>2. Byted(units) /\ Joined(units) = Image(c) /\ Listed(Image(c))
    BY DEF Spells
  <2>3. Joined(CommitPending \o units) = Joined(CommitPending) \o Joined(units)
    BY <2>1, <2>2, JoinedConcat
  <2>4. Listed(Heads(pending))
    BY <1>2, HeadsListed
  <2>5. Joined(todo') = Joined(CommitPending \o units)
    BY <1>1
  <2> QED BY <2>1, <2>2, <2>3, <2>4, <2>5
<1>7. Message' = (Output \o h) \o g
  <2>1. Message' = Spelled(ops')
    BY DEF Message
  <2> QED BY <1>1, <1>5, <2>1
<1> HIDE DEF h, g
<1>8. Regroups(Output, h, g)
  BY <1>4, <1>6, ConcatAssoc
<1>9. Output' \o Joined(todo') = Message'
  BY <1>3, <1>6, <1>7, <1>8 DEF Regroups
<1>10. err' = "nil"
  BY <1>1
<1>11. OutputIsMessage'
  BY <1>9, <1>10 DEF OutputIsMessage
<1>12. FramingInv(ops', pending')
  BY <1>1
<1> QED BY <1>1, <1>2, <1>10, <1>11, <1>12

(* The units of fields close nothing, an end marker does.                  *)
LEMMA FieldsDoNotClose ==
  ASSUME NEW units, FieldUnits(units), todo' = units
  PROVE  ~Closing'
BY DEF FieldUnits, Closing

(* A call opens a sequence, closes one, or leaves them open.               *)
LEMMA OpenMore ==
  ASSUME NEW s, Listed(s), NEW c
  PROVE  LET before == OpenAfter(s, Len(s))
             after == OpenAfter(Append(s, c), Len(Append(s, c)))
         IN  /\ before \in Int
             /\ IsBegin(c) => after = before + 1
             /\ IsEnd(c) => after = before - 1
             /\ ~IsBegin(c) /\ ~IsEnd(c) => after = before
<1> DEFINE t == Append(s, c)
           m == Len(s)
<1>1. /\ m \in Nat /\ Len(t) = m + 1
      /\ \A k \in 0 .. m : OpenAfter(t, k) = OpenAfter(s, k) /\ OpenAfter(s, k) \in Int
      /\ IsBegin(c) => OpenAfter(t, m + 1) = OpenAfter(s, m) + 1
      /\ IsEnd(c) => OpenAfter(t, m + 1) = OpenAfter(s, m) - 1
      /\ ~IsBegin(c) /\ ~IsEnd(c) => OpenAfter(t, m + 1) = OpenAfter(s, m)
  BY Grown
<1>2. m \in 0 .. m
  BY <1>1
<1> HIDE DEF t, m
<1> QED BY <1>1, <1>2 DEF t, m

(* A field call queues the headers held back and itself.                   *)
LEMMA FieldOutput ==
  ASSUME EncoderInv, OutputInv, todo = <<>>, err = "nil",
         NEW c, NEW units, Write(c, units), Spells(units, c), FieldUnits(units),
         IsContent(c), ~IsEnd(c)
  PROVE  OutputInv'
<1> USE DEF EncoderInv
<1>1. staging \in BOOLEAN /\ FramingInv(ops, pending) /\ Listed(Image(c)) /\ Len(pending) \in Nat
      /\ Len(ops) \in Nat /\ Listed(ops)
  BY DEF OwnsTarget, OutputInv, Spells, FramingInv, Imaged, Listed
<1>2. /\ FramingInv(Append(ops, c), <<>>)
      /\ Spelled(Append(ops, c)) = (Spelled(ops) \o Heads(pending)) \o Image(c)
  BY <1>1, FramingContent
<1>3. /\ FramingInv(ops', pending') /\ Listed(sunk') /\ (err' # "nil" => todo' = <<>>)
      /\ OutputIsMessage'
  BY <1>1, <1>2, WriteOutput
<1>4. ~Closing'
  <2>1. FieldUnits(CommitPending \o units)
    BY <1>1, CommitUnits, MoreUnits
  <2>2. todo' = CommitPending \o units
    BY DEF Write
  <2> QED BY <2>1, <2>2, FieldsDoNotClose
<1>5. depth = OpenAfter(ops, Len(ops)) /\ OpenAfter(ops, Len(ops)) \in Int
  <2>1. OpenAfter(ops, Len(ops)) \in Int
    BY <1>1, OpenNext
  <2> QED BY <2>1, IdleIsNotClosing DEF OutputInv, DepthInv
<1>6. OpenAfter(ops', Len(ops')) = OpenAfter(ops, Len(ops))
  <2>1. ~IsBegin(c)
    BY DEF IsContent
  <2>2. OpenAfter(Append(ops, c), Len(Append(ops, c))) = OpenAfter(ops, Len(ops))
    BY <1>1, <2>1, OpenMore
  <2>3. ops' = Append(ops, c)
    BY DEF Write
  <2> QED BY <2>2, <2>3
<1>7. depth' = depth
  BY DEF Write
<1>8. DepthInv'
  BY <1>4, <1>5, <1>6, <1>7 DEF DepthInv
<1> QED BY <1>3, <1>8 DEF OutputInv

(* An end call queues the end marker, behind the headers held back if it   *)
(* keeps its frame.                                                        *)
LEMMA EndOutput ==
  ASSUME EncoderInv, OutputInv, todo = <<>>, err = "nil", depth > 0,
         NEW c, Write(c, <<EndMarker>>), IsEnd(c), IsContent(c) \/ pending = <<>>
  PROVE  OutputInv'
<1> USE DEF EncoderInv
<1>1. staging \in BOOLEAN /\ FramingInv(ops, pending) /\ Listed(pending) /\ Listed(ops) /\ depth \in Int
  BY DEF OwnsTarget, CallInv, OutputInv, FramingInv, Imaged
<1>2. Spells(<<EndMarker>>, c) /\ Listed(Image(c))
  BY EndSpellsImage, EndImage
<1>3. depth = OpenAfter(ops, Len(ops)) /\ OpenAfter(ops, Len(ops)) \in Int
  <2>1. OpenAfter(ops, Len(ops)) \in Int
    BY <1>1, OpenMore
  <2> QED BY <2>1, IdleIsNotClosing DEF OutputInv, DepthInv
<1>4. /\ FramingInv(Append(ops, c), <<>>)
      /\ Spelled(Append(ops, c)) = (Spelled(ops) \o Heads(pending)) \o Image(c)
  <2>1. CASE IsContent(c)
    BY <1>1, <1>2, <2>1, FramingContent
  <2>2. CASE ~IsContent(c)
    <3>1. c.m = "WriteSequenceEnd" /\ pending = <<>> /\ OpenAfter(ops, Len(ops)) > 0
      BY <1>3, <2>2 DEF IsContent, IsEnd, IsBegin
    <3>2. FramingInv(ops, <<>>)
      BY <1>1, <3>1
    <3>3. /\ FramingInv(Append(ops, c), <<>>)
          /\ Spelled(Append(ops, c)) = (Spelled(ops) \o Heads(<<>>)) \o Image(c)
      BY <3>1, <3>2, FramingEndFramed
    <3> QED BY <3>1, <3>3
  <2> QED BY <2>1, <2>2
<1>5. /\ FramingInv(ops', pending') /\ Listed(sunk') /\ (err' # "nil" => todo' = <<>>)
      /\ OutputIsMessage'
  BY <1>1, <1>2, <1>4, WriteOutput
<1>6. Closing'
  <2>1. FieldUnits(CommitPending)
    BY <1>1, CommitUnits DEF Listed
  <2>2. Listed(CommitPending) /\ Listed(<<EndMarker>>) /\ Len(<<EndMarker>>) = 1 /\ <<EndMarker>>[1] = EndMarker
    BY <2>1, OneListed DEF FieldUnits
  <2> DEFINE u == <<EndMarker>>
             h == CommitPending
  <2>3. Listed(h) /\ Listed(u) /\ Len(u) = 1 /\ u[1] = EndMarker /\ todo' = h \o u
    BY <2>2 DEF Write
  <2> HIDE DEF u, h
  <2>4. /\ Len(h \o u) = Len(h) + Len(u)
        /\ \A i \in 1 .. Len(u) : (h \o u)[Len(h) + i] = u[i]
    <3>1. Listed(h) /\ Listed(u)
      BY <2>3
    <3> QED BY ONLY <3>1, ConcatListed
  <2>5. Len(h) + 1 \in 1 .. Len(todo') /\ todo'[Len(h) + 1] = EndMarker
    BY <2>3, <2>4 DEF Listed
  <2>6. EndMarker.closes
    BY DEF EndMarker
  <2> QED BY <2>5, <2>6 DEF Closing
<1>7. OpenAfter(ops', Len(ops')) = OpenAfter(ops, Len(ops)) - 1
  <2>1. OpenAfter(Append(ops, c), Len(Append(ops, c))) = OpenAfter(ops, Len(ops)) - 1
    BY <1>1, OpenMore
  <2>2. ops' = Append(ops, c)
    BY DEF Write
  <2> QED BY <2>1, <2>2
<1>8. depth' = depth
  BY DEF Write
<1>9. DepthInv'
  BY <1>3, <1>6, <1>7, <1>8 DEF DepthInv
<1> QED BY <1>5, <1>9 DEF OutputInv

(* A begin is held back, an end takes the last of what is held back with it: *)
(* neither adds to the message.                                            *)
LEMMA HeldOutput ==
  ASSUME OutputInv, todo = <<>>, err = "nil", NEW c, ops' = Append(ops, c),
         UNCHANGED <<window, tail, mem, sunk, err, todo>>,
         FramingInv(Append(ops, c), pending'), Spelled(Append(ops, c)) = Spelled(ops),
         \/ IsBegin(c) /\ depth' = depth + 1
         \/ IsEnd(c) /\ depth' = depth - 1
  PROVE  OutputInv'
<1>1. Listed(ops) /\ FramingInv(ops, pending)
  BY DEF OutputInv, FramingInv, Imaged
<1>2. Output' = Output
  BY OutputKept
<1>3. Message' = Message
  <2>1. Message' = Spelled(ops')
    BY DEF Message
  <2> QED BY <2>1 DEF Message
<1>4. OutputIsMessage'
  <2>1. Output \o Joined(todo) = Message
    BY DEF OutputInv, OutputIsMessage
  <2>2. Output' \o Joined(todo') = Message'
    BY <1>2, <1>3, <2>1
  <2> QED BY <2>2 DEF OutputIsMessage
<1>5. depth = OpenAfter(ops, Len(ops)) /\ OpenAfter(ops, Len(ops)) \in Int
  <2>1. OpenAfter(ops, Len(ops)) \in Int
    BY <1>1, OpenMore
  <2> QED BY <2>1, IdleIsNotClosing DEF OutputInv, DepthInv
<1>6. depth' = OpenAfter(ops', Len(ops'))
  <2>1. /\ IsBegin(c) => OpenAfter(Append(ops, c), Len(Append(ops, c))) = OpenAfter(ops, Len(ops)) + 1
        /\ IsEnd(c) => OpenAfter(Append(ops, c), Len(Append(ops, c))) = OpenAfter(ops, Len(ops)) - 1
    BY <1>1, OpenMore
  <2> QED BY <1>5, <2>1
<1>7. ~Closing' /\ OpenAfter(ops', Len(ops')) \in Int
  <2>1. ~Closing' <=> ~Closing
    BY DEF Closing
  <2>2. OpenAfter(Append(ops, c), Len(Append(ops, c))) \in Int
    BY <1>1, <1>5, OpenMore
  <2> QED BY <2>1, <2>2, IdleIsNotClosing
<1>8. DepthInv'
  BY <1>6, <1>7 DEF DepthInv
<1>9. FramingInv(ops', pending')
  OBVIOUS
<1> QED BY <1>4, <1>8, <1>9 DEF OutputInv

(* A field that is accepted spells itself; a rejected one nothing.         *)
LEMMA FieldOrReject ==
  ASSUME EncoderInv, OutputInv, NEW c, NEW count, NEW units, WriteOrReject(c, count, units),
         ~(count > ArrayMax) => Spells(units, c) /\ FieldUnits(units),
         IsContent(c), ~IsEnd(c)
  PROVE  OutputInv'
<1>1. todo = <<>> /\ err = "nil"
  BY DEF WriteOrReject, Ready, Idle
<1>2. CASE RejectArgument
  BY <1>2, RejectOutput
<1>3. CASE ~(count > ArrayMax) /\ Write(c, units)
  BY <1>1, <1>3, FieldOutput
<1> QED BY <1>2, <1>3 DEF WriteOrReject

(* The methods that write a field, and what they spell. *)
FieldMethods == {"WriteUnsigned", "WriteSigned", "WriteFloat32", "WriteFloat64", "WriteString", "WriteBytes",
                 "WriteUnsignedArray", "WriteSignedArray", "WriteFloat32Array", "WriteFloat64Array"}

(* A field is content, and no end.                                         *)
LEMMA FieldIsContent ==
  ASSUME NEW c, c.m \in FieldMethods PROVE IsContent(c) /\ ~IsEnd(c)
BY DEF FieldMethods, IsContent, IsEnd, IsBegin

(* The image of each kind of field.                                        *)
LEMMA FieldImage ==
  ASSUME NEW c
  PROVE
  /\ c.m = "WriteUnsigned" => Image(c) = Header(c.id, 0) \o PutUvarint(c.v[1])
  /\ c.m = "WriteSigned" => Image(c) = Header(c.id, 1) \o PutUvarint(ZigzagEncode(c.v[1]))
  /\ c.m = "WriteFloat32" => Image(c) = Header(c.id, 2) \o PutUvarint(Fp32Width * 8) \o c.v
  /\ c.m = "WriteFloat64" => Image(c) = Header(c.id, 2) \o PutUvarint(Fp64Width * 8 + 1) \o c.v
  /\ c.m = "WriteString" => Image(c) = Header(c.id, 2) \o PutUvarint(Len(c.v) * 8 + 2) \o c.v
  /\ c.m = "WriteBytes" => Image(c) = Header(c.id, 2) \o PutUvarint(Len(c.v) * 8 + 3) \o c.v
  /\ c.m = "WriteUnsignedArray" => Image(c) = Header(c.id, 3) \o PutUvarint(Len(c.v))
         \o Seqs!FlattenSeq([k \in 1 .. Len(c.v) |-> PutUvarint(c.v[k])])
  /\ c.m = "WriteSignedArray" => Image(c) = Header(c.id, 4) \o PutUvarint(Len(c.v))
         \o Seqs!FlattenSeq([k \in 1 .. Len(c.v) |-> PutUvarint(ZigzagEncode(c.v[k]))])
  /\ c.m = "WriteFloat32Array" => Image(c) = Header(c.id, 5) \o PutUvarint(Len(c.v) \div Fp32Width)
         \o PutUvarint(Fp32Width * 8) \o c.v
  /\ c.m = "WriteFloat64Array" => Image(c) = Header(c.id, 5) \o PutUvarint(Len(c.v) \div Fp64Width)
         \o PutUvarint(Fp64Width * 8 + 1) \o c.v
<1>1. c.m = "WriteUnsigned" => Image(c) = Header(c.id, 0) \o PutUvarint(c.v[1])
  BY DEF Image, IsBegin
<1>2. c.m = "WriteSigned" => Image(c) = Header(c.id, 1) \o PutUvarint(ZigzagEncode(c.v[1]))
  BY DEF Image, IsBegin
<1>3. c.m = "WriteFloat32" => Image(c) = Header(c.id, 2) \o PutUvarint(Fp32Width * 8) \o c.v
  BY DEF Image, IsBegin
<1>4. c.m = "WriteFloat64" => Image(c) = Header(c.id, 2) \o PutUvarint(Fp64Width * 8 + 1) \o c.v
  BY DEF Image, IsBegin
<1>5. c.m = "WriteString" => Image(c) = Header(c.id, 2) \o PutUvarint(Len(c.v) * 8 + 2) \o c.v
  BY DEF Image, IsBegin
<1>6. c.m = "WriteBytes" => Image(c) = Header(c.id, 2) \o PutUvarint(Len(c.v) * 8 + 3) \o c.v
  BY DEF Image, IsBegin
<1>7. c.m = "WriteUnsignedArray" => Image(c) = Header(c.id, 3) \o PutUvarint(Len(c.v))
         \o Seqs!FlattenSeq([k \in 1 .. Len(c.v) |-> PutUvarint(c.v[k])])
  BY DEF Image, IsBegin
<1>8. c.m = "WriteSignedArray" => Image(c) = Header(c.id, 4) \o PutUvarint(Len(c.v))
         \o Seqs!FlattenSeq([k \in 1 .. Len(c.v) |-> PutUvarint(ZigzagEncode(c.v[k]))])
  BY DEF Image, IsBegin
<1>9. c.m = "WriteFloat32Array" => Image(c) = Header(c.id, 5) \o PutUvarint(Len(c.v) \div Fp32Width)
         \o PutUvarint(Fp32Width * 8) \o c.v
  BY DEF Image, IsBegin
<1>10. c.m = "WriteFloat64Array" => Image(c) = Header(c.id, 5) \o PutUvarint(Len(c.v) \div Fp64Width)
         \o PutUvarint(Fp64Width * 8 + 1) \o c.v
  BY DEF Image, IsBegin
<1> QED BY <1>1, <1>2, <1>3, <1>4, <1>5, <1>6, <1>7, <1>8, <1>9, <1>10

(* WriteUnsigned and WriteSigned.                                          *)
LEMMA ScalarOutput == EncoderInv /\ OutputInv /\ (WriteUnsigned \/ WriteSigned) => OutputInv'
<1> SUFFICES ASSUME EncoderInv, OutputInv, WriteUnsigned \/ WriteSigned PROVE OutputInv'
  OBVIOUS
<1>1. ASSUME NEW c, c.m = "WriteUnsigned", WriteOrReject(c, 0, ScalarUnits(c, 0, c.v[1]))
      PROVE  OutputInv'
  <2>1. Spells(ScalarUnits(c, 0, c.v[1]), c) /\ FieldUnits(ScalarUnits(c, 0, c.v[1]))
    BY <1>1, FieldImage, ScalarImage, ScalarReserved
  <2> QED BY <1>1, <2>1, FieldOrReject, FieldIsContent DEF FieldMethods
<1>2. ASSUME NEW c, c.m = "WriteSigned", WriteOrReject(c, 0, ScalarUnits(c, 1, ZigzagEncode(c.v[1])))
      PROVE  OutputInv'
  <2>1. /\ Spells(ScalarUnits(c, 1, ZigzagEncode(c.v[1])), c)
        /\ FieldUnits(ScalarUnits(c, 1, ZigzagEncode(c.v[1])))
    BY <1>2, FieldImage, ScalarImage, ScalarReserved
  <2> QED BY <1>2, <2>1, FieldOrReject, FieldIsContent DEF FieldMethods
<1> QED BY <1>1, <1>2 DEF WriteUnsigned, WriteSigned

(* The arguments of a call are listed, and so many.                        *)
LEMMA CallValues ==
  ASSUME NEW c \in Calls
  PROVE  /\ c.v \in Seq(Int) /\ Listed(c.v) /\ Len(c.v) \in Nat
         /\ Len(c.v) \div Fp32Width \in Nat /\ Len(c.v) \div Fp64Width \in Nat
<1>1. c.v \in Seq(Int)
  BY CallsAssumption
<1>2. Listed(c.v) /\ Len(c.v) \in Nat
  BY <1>1, SeqIsListed, LenProperties
<1> QED BY <1>1, <1>2, QuotientNat, EncoderAssumption

(* WriteFloat32 and WriteFloat64.                                          *)
LEMMA FloatOutput == EncoderInv /\ OutputInv /\ WriteFloat => OutputInv'
<1> SUFFICES ASSUME EncoderInv, OutputInv, WriteFloat PROVE OutputInv'
  OBVIOUS
<1>1. ASSUME NEW c \in Calls, c.m = "WriteFloat32", WriteOrReject(c, 0, FloatUnits(c, Fp32Width, 0))
      PROVE  OutputInv'
  <2>1. Listed(c.v) /\ c.v \in Seq(Int)
    BY CallValues
  <2>2. Fp32Width * 8 + 0 = Fp32Width * 8
    BY EncoderAssumption
  <2>3. Image(c) = Header(c.id, 2) \o PutUvarint(Fp32Width * 8 + 0) \o c.v
    BY <1>1, <2>2, FieldImage
  <2>4. Spells(FloatUnits(c, Fp32Width, 0), c)
    BY <2>1, <2>3, FloatImage
  <2>5. FieldUnits(FloatUnits(c, Fp32Width, 0))
    BY <1>1, FloatWord, FloatReserved, CallsAssumption, ReservationAssumption, EncoderAssumption
  <2> QED BY <1>1, <2>4, <2>5, FieldOrReject, FieldIsContent DEF FieldMethods
<1>2. ASSUME NEW c \in Calls, c.m = "WriteFloat64", WriteOrReject(c, 0, FloatUnits(c, Fp64Width, 1))
      PROVE  OutputInv'
  <2>1. Listed(c.v)
    BY CallValues
  <2>2. Image(c) = Header(c.id, 2) \o PutUvarint(Fp64Width * 8 + 1) \o c.v
    BY <1>2, FieldImage
  <2>3. Spells(FloatUnits(c, Fp64Width, 1), c)
    BY <2>1, <2>2, FloatImage
  <2>4. FieldUnits(FloatUnits(c, Fp64Width, 1))
    BY <1>2, FloatReserved, CallsAssumption, ReservationAssumption, EncoderAssumption
  <2> QED BY <1>2, <2>3, <2>4, FieldOrReject, FieldIsContent DEF FieldMethods
<1> QED BY <1>1, <1>2 DEF WriteFloat

(* WriteString and WriteBytes.                                             *)
LEMMA FixlenOutput == EncoderInv /\ OutputInv /\ (WriteString \/ WriteBytes) => OutputInv'
<1> SUFFICES ASSUME EncoderInv, OutputInv, WriteString \/ WriteBytes PROVE OutputInv'
  OBVIOUS
<1>1. ASSUME NEW c \in Calls, c.m = "WriteString", WriteOrReject(c, Len(c.v), FixlenUnits(c, 2))
      PROVE  OutputInv'
  <2>1. Spells(FixlenUnits(c, 2), c) /\ FieldUnits(FixlenUnits(c, 2))
    BY <1>1, CallValues, FieldImage, FixlenImage, FixlenReserved
  <2> QED BY <1>1, <2>1, FieldOrReject, FieldIsContent DEF FieldMethods
<1>2. ASSUME NEW c \in Calls, c.m = "WriteBytes", WriteOrReject(c, Len(c.v), FixlenUnits(c, 3))
      PROVE  OutputInv'
  <2>1. Spells(FixlenUnits(c, 3), c) /\ FieldUnits(FixlenUnits(c, 3))
    BY <1>2, CallValues, FieldImage, FixlenImage, FixlenReserved
  <2> QED BY <1>2, <2>1, FieldOrReject, FieldIsContent DEF FieldMethods
<1> QED BY <1>1, <1>2, RejectOutput DEF WriteString, WriteBytes

(* WriteUnsignedArray and WriteSignedArray.                                *)
LEMMA IntArrayOutput == EncoderInv /\ OutputInv /\ WriteIntArray => OutputInv'
<1> SUFFICES ASSUME EncoderInv, OutputInv, WriteIntArray PROVE OutputInv'
  OBVIOUS
<1>1. ASSUME NEW c \in Calls, c.m = "WriteUnsignedArray",
             WriteOrReject(c, Len(c.v), IntArrayUnits(c, 3, c.v))
      PROVE  OutputInv'
  <2>1. Spells(IntArrayUnits(c, 3, c.v), c)
    BY <1>1, CallValues, FieldImage, IntArrayImage
  <2>2. FieldUnits(IntArrayUnits(c, 3, c.v))
    BY CallValues, IntArrayReserved
  <2> QED BY <1>1, <2>1, <2>2, FieldOrReject, FieldIsContent DEF FieldMethods
<1>2. ASSUME NEW c \in Calls, c.m = "WriteSignedArray",
             WriteOrReject(c, Len(c.v), IntArrayUnits(c, 4, [k \in 1 .. Len(c.v) |-> ZigzagEncode(c.v[k])]))
      PROVE  OutputInv'
  <2> DEFINE codes == [k \in 1 .. Len(c.v) |-> ZigzagEncode(c.v[k])]
  <2>1. codes = [k \in 1 .. Len(c.v) |-> codes[k]] /\ \A k \in 1 .. Len(c.v) : codes[k] = ZigzagEncode(c.v[k])
    OBVIOUS
  <2>2. WriteOrReject(c, Len(c.v), IntArrayUnits(c, 4, codes))
    BY <1>2
  <2> HIDE DEF codes
  <2>3. Listed(codes) /\ Len(codes) = Len(c.v) /\ Len(codes) \in Nat
    BY <2>1, CallValues, TabulatedIsListed
  <2>4. [k \in 1 .. Len(codes) |-> PutUvarint(codes[k])] = [k \in 1 .. Len(c.v) |-> PutUvarint(ZigzagEncode(c.v[k]))]
    BY <2>1, <2>3
  <2>5. Image(c) = Header(c.id, 4) \o PutUvarint(Len(codes))
                     \o Seqs!FlattenSeq([k \in 1 .. Len(codes) |-> PutUvarint(codes[k])])
    <3>1. Image(c) = Header(c.id, 4) \o PutUvarint(Len(c.v))
                     \o Seqs!FlattenSeq([k \in 1 .. Len(c.v) |-> PutUvarint(ZigzagEncode(c.v[k]))])
      BY <1>2, FieldImage
    <3> QED BY <2>3, <2>4, <3>1, Zenon
  <2>6. Spells(IntArrayUnits(c, 4, codes), c)
    BY <2>3, <2>5, IntArrayImage
  <2>7. FieldUnits(IntArrayUnits(c, 4, codes))
    BY <2>3, IntArrayReserved
  <2> QED BY <1>2, <2>2, <2>6, <2>7, FieldOrReject, FieldIsContent DEF FieldMethods
<1> QED BY <1>1, <1>2 DEF WriteIntArray

(* WriteFloat32Array and WriteFloat64Array.                                *)
LEMMA FloatArrayOutput == EncoderInv /\ OutputInv /\ WriteFloatArray => OutputInv'
<1> SUFFICES ASSUME EncoderInv, OutputInv, WriteFloatArray PROVE OutputInv'
  OBVIOUS
<1>1. ASSUME NEW c \in Calls, c.m = "WriteFloat32Array",
             WriteOrReject(c, Len(c.v) \div Fp32Width, FloatArrayUnits(c, Fp32Width, 0))
      PROVE  OutputInv'
  <2>0. Len(c.v) % Fp32Width = 0
    BY <1>1, CallsAssumption
  <2>1. Fp32Width * 8 + 0 = Fp32Width * 8 /\ Fp32Width \in Nat \ {0}
    BY EncoderAssumption
  <2>2. Image(c) = Header(c.id, 5) \o PutUvarint(Len(c.v) \div Fp32Width) \o PutUvarint(Fp32Width * 8 + 0) \o c.v
    BY <1>1, <2>1, FieldImage
  <2>3. Spells(FloatArrayUnits(c, Fp32Width, 0), c)
    BY <2>0, <2>1, <2>2, CallValues, FloatArrayImage
  <2>4. ~(Len(c.v) \div Fp32Width > ArrayMax) => FieldUnits(FloatArrayUnits(c, Fp32Width, 0))
    BY CallValues, FloatWord, AtMost, FloatArrayReserved, EncoderAssumption
  <2> QED BY <1>1, <2>3, <2>4, FieldOrReject, FieldIsContent DEF FieldMethods
<1>2. ASSUME NEW c \in Calls, c.m = "WriteFloat64Array",
             WriteOrReject(c, Len(c.v) \div Fp64Width, FloatArrayUnits(c, Fp64Width, 1))
      PROVE  OutputInv'
  <2>1. Fp64Width \in Nat \ {0} /\ Len(c.v) % Fp64Width = 0
    BY <1>2, EncoderAssumption, CallsAssumption
  <2>2. Image(c) = Header(c.id, 5) \o PutUvarint(Len(c.v) \div Fp64Width) \o PutUvarint(Fp64Width * 8 + 1) \o c.v
    BY <1>2, FieldImage
  <2>3. Spells(FloatArrayUnits(c, Fp64Width, 1), c)
    BY <2>1, <2>2, CallValues, FloatArrayImage
  <2>4. ~(Len(c.v) \div Fp64Width > ArrayMax) => FieldUnits(FloatArrayUnits(c, Fp64Width, 1))
    BY CallValues, FloatWord, AtMost, FloatArrayReserved, EncoderAssumption
  <2> QED BY <1>2, <2>3, <2>4, FieldOrReject, FieldIsContent DEF FieldMethods
<1> QED BY <1>1, <1>2 DEF WriteFloatArray

(* WriteSequenceBeginLazy.                                                 *)
LEMMA BeginOutput == EncoderInv /\ OutputInv /\ WriteSequenceBeginLazy => OutputInv'
<1> SUFFICES ASSUME EncoderInv, OutputInv, WriteSequenceBeginLazy PROVE OutputInv'
  OBVIOUS
<1>1. PICK c \in Calls :
        /\ c.m = "WriteSequenceBeginLazy" /\ todo = <<>> /\ err = "nil"
        /\ \/ RejectArgument
           \/ /\ pending' = Append(pending, c.id) /\ depth' = depth + 1 /\ ops' = Append(ops, c)
              /\ UNCHANGED <<window, tail, mem, sunk, err, todo>>
  BY DEF WriteSequenceBeginLazy, Ready, Idle
<1>2. CASE RejectArgument
  BY <1>2, RejectOutput
<1>3. CASE /\ pending' = Append(pending, c.id) /\ depth' = depth + 1 /\ ops' = Append(ops, c)
           /\ UNCHANGED <<window, tail, mem, sunk, err, todo>>
  <2>1. IsBegin(c) /\ FramingInv(ops, pending)
    BY <1>1 DEF IsBegin, OutputInv
  <2>2. FramingInv(Append(ops, c), Append(pending, c.id)) /\ Spelled(Append(ops, c)) = Spelled(ops)
    BY <2>1, FramingBegin
  <2>3. FramingInv(Append(ops, c), pending')
    BY <1>3, <2>2
  <2> QED BY <1>1, <1>3, <2>1, <2>2, <2>3, HeldOutput
<1> QED BY <1>1, <1>2, <1>3

(* WriteSequenceEnd and WriteSequenceEndKeep.                              *)
LEMMA EndsOutput ==
  EncoderInv /\ OutputInv /\ (WriteSequenceEnd \/ WriteSequenceEndKeep) => OutputInv'
<1> SUFFICES ASSUME EncoderInv, OutputInv, WriteSequenceEnd \/ WriteSequenceEndKeep PROVE OutputInv'
  OBVIOUS
<1> DEFINE c == End("WriteSequenceEnd")
           k == End("WriteSequenceEndKeep")
<1>1. /\ c.m = "WriteSequenceEnd" /\ IsEnd(c) /\ IsEnd(k) /\ IsContent(k)
      /\ depth # 0 => depth > 0
      /\ FramingInv(ops, pending)
  BY MaxDepthNat DEF End, IsEnd, IsContent, IsBegin, EncoderInv, CallInv, OutputInv
<1>2. /\ todo = <<>> /\ err = "nil"
      /\ \/ RejectArgument
         \/ /\ pending # <<>> /\ pending' = SubSeq(pending, 1, Len(pending) - 1)
            /\ depth' = depth - 1 /\ ops' = Append(ops, c)
            /\ UNCHANGED <<window, tail, mem, sunk, err, todo>>
         \/ depth # 0 /\ pending = <<>> /\ Write(c, <<EndMarker>>)
         \/ depth # 0 /\ Write(k, <<EndMarker>>)
  BY DEF WriteSequenceEnd, WriteSequenceEndKeep, Ready, Idle
<1> HIDE DEF c, k
<1>3. CASE RejectArgument
  BY <1>3, RejectOutput
<1>4. CASE /\ pending # <<>> /\ pending' = SubSeq(pending, 1, Len(pending) - 1)
           /\ depth' = depth - 1 /\ ops' = Append(ops, c)
           /\ UNCHANGED <<window, tail, mem, sunk, err, todo>>
  <2>1. /\ FramingInv(Append(ops, c), SubSeq(pending, 1, Len(pending) - 1))
        /\ Spelled(Append(ops, c)) = Spelled(ops)
    BY <1>1, <1>4, FramingEndHeld
  <2>2. FramingInv(Append(ops, c), pending')
    BY <1>4, <2>1
  <2> QED BY <1>1, <1>2, <1>4, <2>1, <2>2, HeldOutput
<1>5. CASE depth # 0 /\ pending = <<>> /\ Write(c, <<EndMarker>>)
  BY <1>1, <1>2, <1>5, EndOutput
<1>6. CASE depth # 0 /\ Write(k, <<EndMarker>>)
  BY <1>1, <1>2, <1>6, EndOutput
<1> QED BY <1>2, <1>3, <1>4, <1>5, <1>6

(***************************************************************************)
(* Theorem                                                                 *)
(***************************************************************************)
LEMMA OutputInvHolds == Spec => [](EncoderInv /\ OutputInv)
<1>1. Init => OutputInv
  <2> SUFFICES ASSUME Init PROVE OutputInv
    OBVIOUS
  <2>1. /\ ops = <<>> /\ pending = <<>> /\ sunk = <<>> /\ todo = <<>> /\ err = "nil" /\ depth = 0
        /\ staging = FALSE /\ n = start
    BY DEF Init
  <2>2. n \in Nat
    <3>1. n = 0 \/ n \in Offsets
      BY Zenon DEF Init
    <3>2. Offsets \subseteq Nat /\ 0 \in Nat
      BY EncoderAssumption
    <3> QED BY <3>1, <3>2, Zenon
  <2>3. FramingInv(ops, pending)
    BY <2>1, FramingStarts
  <2>4. Listed(<<>>) /\ Len(<<>>) = 0
    BY EmptyListed
  <2>5. DepthInv
    <3>1. OpenAfter(ops, Len(ops)) = 0
      BY <2>1, <2>4, OpenZero
    <3> QED BY <2>1, <3>1, IdleIsNotClosing DEF DepthInv
  <2>6. Output = <<>>
    <3>1. Between(buf, n, n) = <<>>
      BY <2>2, BetweenNone
    <3>2. <<>> \o <<>> = <<>>
      BY <2>4, NothingAdded
    <3>3. Output = <<>> \o Between(buf, n, n)
      BY <2>1 DEF Output, Buffered, Returned
    <3> QED BY <3>1, <3>2, <3>3
  <2>7. Message = <<>>
    <3>1. Spelled(<<>>) = Seqs!FlattenSeq(<<>>)
      <4>1. [i \in 1 .. Len(<<>>) |-> IF Reaches(<<>>, i) THEN Image(<<>>[i]) ELSE <<>>] = <<>>
        BY <2>4
      <4> QED BY <4>1, Zenon DEF Spelled
    <3>2. Seqs!FlattenSeq(<<>>) = <<>>
      BY FlattenNone
    <3> QED BY <2>1, <3>1, <3>2 DEF Message
  <2>8. OutputIsMessage
    <3>1. Joined(<<>>) = <<>> /\ <<>> \o <<>> = <<>>
      BY JoinedNone, <2>4, NothingAdded
    <3> QED BY <2>1, <2>6, <2>7, <3>1 DEF OutputIsMessage
  <2> QED BY <2>1, <2>3, <2>4, <2>5, <2>8 DEF OutputInv
<1>2. EncoderInv /\ OutputInv /\ [Next]_vars => OutputInv'
  <2> SUFFICES ASSUME EncoderInv, OutputInv, [Next]_vars PROVE OutputInv'
    OBVIOUS
  <2>1. CASE WriteUnsigned \/ WriteSigned
    BY <2>1, ScalarOutput
  <2>2. CASE WriteFloat
    BY <2>2, FloatOutput
  <2>3. CASE WriteString \/ WriteBytes
    BY <2>3, FixlenOutput
  <2>4. CASE WriteIntArray
    BY <2>4, IntArrayOutput
  <2>5. CASE WriteFloatArray
    BY <2>5, FloatArrayOutput
  <2>6. CASE WriteSequenceBeginLazy
    BY <2>6, BeginOutput
  <2>7. CASE WriteSequenceEnd \/ WriteSequenceEndKeep
    BY <2>7, EndsOutput
  <2>8. CASE RejectArgument
    BY <2>8, RejectOutput
  <2>9. CASE Flush \/ Bytes
    BY <2>9, FlushOutput
  <2>10. CASE SetBuffer
    BY <2>10, SetBufferOutput
  <2>11. CASE Release \/ UNCHANGED vars
    BY <2>11, QuietOutput
  <2>12. CASE MakeRoom
    BY <2>12, MakeRoomOutput
  <2>13. CASE PutUnit
    BY <2>13, PutUnitOutput
  <2>14. CASE PutPayload
    BY <2>14, PutPayloadOutput
  <2> QED BY <2>1, <2>2, <2>3, <2>4, <2>5, <2>6, <2>7, <2>8, <2>9, <2>10, <2>11, <2>12, <2>13, <2>14
       DEF Next, WriteStep
<1> QED BY <1>1, <1>2, EncoderInvHolds, PTL DEF Spec

(* Whatever the buffers, the offsets and the sink, wherever the window was *)
(* drained and whichever sequences turned out empty, the encoder's bytes   *)
(* are those of the message its calls spell; after an error they are a     *)
(* beginning of it (encoder.go, MinOutputBuffer).                          *)
THEOREM OutputAlwaysMessage == Spec => []OutputIsMessage
<1>1. OutputInv => OutputIsMessage
  BY DEF OutputInv
<1> QED BY <1>1, OutputInvHolds, PTL
=============================================================================
