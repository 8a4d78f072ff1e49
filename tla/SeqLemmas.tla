----------------------------- MODULE SeqLemmas ------------------------------
(***************************************************************************)
(* Sequences without a set for their entries, and the least of a set of    *)
(* naturals: what the proofs of several components use.                    *)
(***************************************************************************)
EXTENDS Integers, Sequences, TLAPS, SequenceTheorems, WellFoundedInduction

(* The order of the naturals as a relation.                                *)
LEMMA NatLess == OpToRel(<, Nat) = {ss \in Nat \X Nat : ss[1] < ss[2]}
BY Zenon DEF OpToRel

(* A set of naturals that is not empty has a least element: induction over *)
(* the naturals, by minimal counterexample.                                *)
LEMMA LeastNatural ==
  ASSUME NEW T0, T0 \subseteq Nat, T0 # {} PROVE \E x \in T0 : \A y \in T0 : x <= y
<1> DEFINE R == {ss \in Nat \X Nat : ss[1] < ss[2]}
<1>0. IsWellFoundedOn(R, Nat)
  BY NatLess, NatLessThanWellFounded, Zenon
<1>1. \E x \in T0 : \A y \in T0 : ~(<<y, x>> \in R)
  <2> HIDE DEF R
  <2> QED BY <1>0, WFMin
<1>2. \A x, y \in Nat : x < y => <<x, y>> \in R
  OBVIOUS
<1>3. PICK x \in T0 : \A y \in T0 : ~(<<y, x>> \in R)
  BY <1>1
<1>4. ASSUME NEW y \in T0 PROVE x <= y
  <2>1. x \in Nat /\ y \in Nat
    OBVIOUS
  <2>2. ~(y < x)
    BY <1>2, <1>3, <2>1, Zenon
  <2> QED BY <2>1, <2>2
<1> QED BY <1>4

(* A sequence, whatever its entries are: a function on 1 .. n.             *)
Listed(s) == Len(s) \in Nat /\ s = [i \in 1 .. Len(s) |-> s[i]]

(* What a sequence holds.                                                  *)
Entries(s) == {s[i] : i \in 1 .. Len(s)}

(* A listed sequence is a sequence over any set that holds its entries.    *)
LEMMA ListedIsSeq ==
  ASSUME NEW s, Listed(s), NEW U, Entries(s) \subseteq U
  PROVE  s \in Seq(U)
<1>1. \A i \in 1 .. Len(s) : s[i] \in U
  BY DEF Entries
<1> QED BY <1>1, IsASeq DEF Listed

(* A sequence over a set is listed.                                        *)
LEMMA SeqIsListed ==
  ASSUME NEW U, NEW s \in Seq(U)
  PROVE  Listed(s) /\ DOMAIN s = 1 .. Len(s)
<1>1. s \in [1 .. Len(s) -> U] /\ Len(s) \in Nat
  BY LenProperties
<1> QED BY <1>1 DEF Listed

(* A function on 1 .. k is listed, of length k.                            *)
LEMMA TabulatedIsListed ==
  ASSUME NEW k \in Nat, NEW s, s = [i \in 1 .. k |-> s[i]]
  PROVE  Listed(s) /\ Len(s) = k
<1> DEFINE U == {s[i] : i \in 1 .. k}
<1>1. DOMAIN s = 1 .. k /\ \A i \in 1 .. k : s[i] \in U
  OBVIOUS
<1> HIDE DEF U
<1>2. s \in Seq(U)
  BY <1>1, IsASeq
<1> QED BY <1>1, <1>2, LenProperties, SeqIsListed

(* One sequence behind another.                                            *)
LEMMA ConcatListed ==
  ASSUME NEW s, NEW t, Listed(s), Listed(t)
  PROVE  /\ Listed(s \o t) /\ Len(s \o t) = Len(s) + Len(t)
         /\ \A i \in 1 .. Len(s) : (s \o t)[i] = s[i]
         /\ \A i \in 1 .. Len(t) : (s \o t)[Len(s) + i] = t[i]
<1> DEFINE U == Entries(s) \cup Entries(t)
<1>1. s \in Seq(U) /\ t \in Seq(U)
  BY ListedIsSeq
<1> HIDE DEF U
<1>2. s \o t \in Seq(U)
  BY <1>1, ConcatProperties
<1>3. /\ Len(s \o t) = Len(s) + Len(t)
      /\ \A i \in 1 .. Len(s) + Len(t) : (s \o t)[i] = IF i <= Len(s) THEN s[i] ELSE t[i - Len(s)]
  BY <1>1, ConcatProperties
<1>4. Len(s) \in Nat /\ Len(t) \in Nat
  BY DEF Listed
<1>5. Listed(s \o t)
  BY <1>2, SeqIsListed
<1> QED BY <1>3, <1>4, <1>5

(* All but the first entry.                                                *)
LEMMA TailListed ==
  ASSUME NEW s, Listed(s), s # <<>>
  PROVE  /\ Listed(Tail(s)) /\ Len(Tail(s)) = Len(s) - 1 /\ Len(s) \in Nat \ {0}
         /\ \A i \in 1 .. Len(s) - 1 : Tail(s)[i] = s[i + 1]
<1> DEFINE U == Entries(s)
<1>1. s \in Seq(U)
  BY ListedIsSeq
<1> HIDE DEF U
<1>2. Tail(s) \in Seq(U)
  BY <1>1, HeadTailProperties
<1>3. Listed(Tail(s)) 
  BY <1>2, SeqIsListed
<1>4. /\ Len(Tail(s)) = Len(s) - 1
      /\ \A i \in 1 .. Len(s) - 1 : Tail(s)[i] = s[i + 1]
  BY <1>1, HeadTailProperties
<1>5. Len(s) \in Nat \ {0}
  BY <1>1, EmptySeq, LenProperties
<1> QED BY <1>3, <1>4, <1>5

(* A stretch of a sequence; empty when it ends before it begins.           *)
LEMMA SubListed ==
  ASSUME NEW s, Listed(s), NEW a \in Nat \ {0}, NEW b \in 0 .. Len(s), a <= b + 1
  PROVE  /\ Listed(SubSeq(s, a, b)) /\ Len(SubSeq(s, a, b)) = b - a + 1
         /\ \A i \in 1 .. b - a + 1 : SubSeq(s, a, b)[i] = s[a + i - 1]
<1> DEFINE U == Entries(s)
<1>1. s \in Seq(U)
  BY ListedIsSeq
<1> HIDE DEF U
<1>2. \A i \in a .. b : s[i] \in U
  BY <1>1, ElementOfSeq
<1>3. /\ SubSeq(s, a, b) \in Seq(U)
      /\ Len(SubSeq(s, a, b)) = IF a <= b THEN b - a + 1 ELSE 0
      /\ \A i \in 1 .. b - a + 1 : SubSeq(s, a, b)[i] = s[a + i - 1]
  BY <1>2, SubSeqProperties
<1>4. Listed(SubSeq(s, a, b))
  BY <1>3, SeqIsListed
<1> QED BY <1>3, <1>4 DEF Listed

(* The first b entries.                                                    *)
LEMMA FirstListed ==
  ASSUME NEW s, Listed(s), NEW b \in 0 .. Len(s)
  PROVE  /\ Listed(SubSeq(s, 1, b)) /\ Len(SubSeq(s, 1, b)) = b
         /\ \A i \in 1 .. b : SubSeq(s, 1, b)[i] = s[i]
<1>1. 1 \in Nat \ {0} /\ b \in Nat /\ 1 <= b + 1 /\ b - 1 + 1 = b
  BY DEF Listed
<1>2. /\ Listed(SubSeq(s, 1, b)) /\ Len(SubSeq(s, 1, b)) = b - 1 + 1
      /\ \A i \in 1 .. b - 1 + 1 : SubSeq(s, 1, b)[i] = s[1 + i - 1]
  BY <1>1, SubListed
<1>3. \A i \in 1 .. b : 1 + i - 1 = i
  OBVIOUS
<1> QED BY <1>1, <1>2, <1>3

(* The empty sequence.                                                     *)
LEMMA EmptyListed == Listed(<<>>) /\ Len(<<>>) = 0
  BY EmptySeq, SeqIsListed

(* A sequence of one entry.                                                *)
LEMMA OneListed ==
  ASSUME NEW x
  PROVE  Listed(<<x>>) /\ Len(<<x>>) = 1 /\ <<x>>[1] = x
<1>1. <<x>> \in Seq({x})
  OBVIOUS
<1> QED BY <1>1, SeqIsListed

(* One more entry at the end.                                              *)
LEMMA AppendListed ==
  ASSUME NEW s, Listed(s), NEW x
  PROVE  /\ Listed(Append(s, x)) /\ Len(Append(s, x)) = Len(s) + 1
         /\ \A i \in 1 .. Len(s) : Append(s, x)[i] = s[i]
         /\ Append(s, x)[Len(s) + 1] = x
<1> DEFINE U == Entries(s) \cup {x}
<1>1. s \in Seq(U) /\ x \in U
  BY ListedIsSeq
<1> HIDE DEF U
<1>2. /\ Append(s, x) \in Seq(U) /\ Len(Append(s, x)) = Len(s) + 1
      /\ \A i \in 1 .. Len(s) : Append(s, x)[i] = s[i]
      /\ Append(s, x)[Len(s) + 1] = x
  BY <1>1, AppendProperties
<1>3. Listed(Append(s, x))
  BY <1>2, SeqIsListed
<1> QED BY <1>2, <1>3

(* Only the empty sequence has length 0.                                   *)
LEMMA EmptyIffLen == ASSUME NEW s, Listed(s) PROVE s = <<>> <=> Len(s) = 0
<1>1. s \in Seq(Entries(s))
  BY ListedIsSeq
<1> QED BY <1>1, EmptySeq

(* Two sequences with the same entries are the same.                       *)
LEMMA SameListed ==
  ASSUME NEW s, NEW t, Listed(s), Listed(t), Len(s) = Len(t), \A i \in 1 .. Len(s) : s[i] = t[i]
  PROVE  s = t
<1>1. [i \in 1 .. Len(s) |-> s[i]] = [i \in 1 .. Len(t) |-> t[i]]
  OBVIOUS
<1> QED BY <1>1 DEF Listed

(* One entry in front of one or two others.                                *)
LEMMA InFront ==
  ASSUME NEW s, NEW t, Listed(s), Listed(t), Len(s) = 1, Len(t) = 1 \/ Len(t) = 2
  PROVE  /\ Listed(s \o t) /\ Len(s \o t) = 1 + Len(t)
         /\ (s \o t)[1] = s[1] /\ (s \o t)[2] = t[1]
         /\ Len(t) = 2 => (s \o t)[3] = t[2]
<1>1. /\ Listed(s \o t) /\ Len(s \o t) = Len(s) + Len(t)
      /\ \A i \in 1 .. Len(s) : (s \o t)[i] = s[i]
      /\ \A i \in 1 .. Len(t) : (s \o t)[Len(s) + i] = t[i]
  BY ONLY Listed(s), Listed(t), ConcatListed
<1>2. 1 \in 1 .. Len(s) /\ 1 \in 1 .. Len(t) /\ (Len(t) = 2 => 2 \in 1 .. Len(t))
  <2>1. \A k \in Nat : (k = 1 => 1 \in 1 .. k) /\ (k = 2 => 1 \in 1 .. k /\ 2 \in 1 .. k)
    OBVIOUS
  <2>2. Len(s) \in Nat /\ Len(t) \in Nat
    BY DEF Listed
  <2> QED BY <2>1, <2>2
<1>3. (s \o t)[1] = s[1] /\ (s \o t)[Len(s) + 1] = t[1] /\ (Len(t) = 2 => (s \o t)[Len(s) + 2] = t[2])
  BY <1>1, <1>2
<1>4. Len(s) + 1 = 2 /\ Len(s) + 2 = 3
  OBVIOUS
<1> QED BY <1>1, <1>3, <1>4

(* Short sequences, entry by entry.                                        *)
LEMMA PairListed ==
  ASSUME NEW a, NEW b
  PROVE  /\ Listed(<<a, b>>) /\ Len(<<a, b>>) = 2 /\ <<a, b>>[1] = a /\ <<a, b>>[2] = b
         /\ <<a>> \o <<b>> = <<a, b>>
<1>1. Listed(<<a, b>>) /\ Len(<<a, b>>) = 2 /\ <<a, b>>[1] = a /\ <<a, b>>[2] = b
  BY DEF Listed
<1>2. /\ Listed(<<a>> \o <<b>>) /\ Len(<<a>> \o <<b>>) = 1 + Len(<<b>>)
      /\ (<<a>> \o <<b>>)[1] = <<a>>[1] /\ (<<a>> \o <<b>>)[2] = <<b>>[1]
  BY OneListed, InFront
<1>3. Len(<<a>> \o <<b>>) = 2 /\ (<<a>> \o <<b>>)[1] = a /\ (<<a>> \o <<b>>)[2] = b
  BY <1>2, OneListed
<1>4. \A i \in 1 .. 2 : i = 1 \/ i = 2
  OBVIOUS
<1>5. \A i \in 1 .. Len(<<a>> \o <<b>>) : (<<a>> \o <<b>>)[i] = <<a, b>>[i]
  BY <1>1, <1>3, <1>4
<1>6. <<a>> \o <<b>> = <<a, b>>
  BY <1>1, <1>2, <1>3, <1>5, SameListed
<1> QED BY <1>1, <1>6

(* Three entries.                                                          *)
LEMMA TripleListed ==
  ASSUME NEW a, NEW b, NEW c
  PROVE  /\ Listed(<<a, b, c>>) /\ Len(<<a, b, c>>) = 3
         /\ <<a, b, c>>[1] = a /\ <<a, b, c>>[2] = b /\ <<a, b, c>>[3] = c
BY DEF Listed

(* One entry in front of two.                                              *)
LEMMA OneInFront ==
  ASSUME NEW a, NEW b, NEW c
  PROVE  <<a>> \o <<b, c>> = <<a, b, c>>
<1>1. /\ Listed(<<a>> \o <<b, c>>) /\ Len(<<a>> \o <<b, c>>) = 1 + Len(<<b, c>>)
      /\ (<<a>> \o <<b, c>>)[1] = <<a>>[1] /\ (<<a>> \o <<b, c>>)[2] = <<b, c>>[1]
      /\ (<<a>> \o <<b, c>>)[3] = <<b, c>>[2]
  <2>1. Listed(<<a>>) /\ Len(<<a>>) = 1 /\ Listed(<<b, c>>) /\ Len(<<b, c>>) = 2
    BY OneListed, PairListed
  <2> QED BY ONLY <2>1, InFront
<1>2. /\ Len(<<a>> \o <<b, c>>) = 3 /\ (<<a>> \o <<b, c>>)[1] = a
      /\ (<<a>> \o <<b, c>>)[2] = b /\ (<<a>> \o <<b, c>>)[3] = c
  BY <1>1, OneListed, PairListed
<1>3. \A i \in 1 .. 3 : i = 1 \/ i = 2 \/ i = 3
  OBVIOUS
<1>4. \A i \in 1 .. Len(<<a>> \o <<b, c>>) : (<<a>> \o <<b, c>>)[i] = <<a, b, c>>[i]
  BY <1>2, <1>3, TripleListed
<1>5. Listed(<<a, b, c>>) /\ Len(<<a, b, c>>) = Len(<<a>> \o <<b, c>>)
  BY <1>2, TripleListed
<1> QED BY ONLY <1>1, <1>4, <1>5, SameListed

(* Two entries in front of one.                                            *)
LEMMA PairInFront ==
  ASSUME NEW a, NEW b, NEW c
  PROVE  <<a, b>> \o <<c>> = <<a, b, c>>
<1>1. /\ <<a, b>> \in Seq({a, b, c}) /\ <<c>> \in Seq({a, b, c})
      /\ Len(<<a, b>>) = 2 /\ Len(<<c>>) = 1 /\ <<c>>[1] = c
  OBVIOUS
<1>2. /\ <<a, b>> \o <<c>> \in Seq({a, b, c}) /\ Len(<<a, b>> \o <<c>>) = 2 + 1
      /\ \A i \in 1 .. 2 + 1 : (<<a, b>> \o <<c>>)[i] = IF i <= 2 THEN <<a, b>>[i] ELSE <<c>>[i - 2]
  BY <1>1, ConcatProperties
<1>3. Listed(<<a, b>> \o <<c>>) /\ Len(<<a, b>> \o <<c>>) = 3
  <2>1. Listed(<<a, b>> \o <<c>>)
    BY ONLY <1>2, SeqIsListed
  <2> QED BY <1>2, <2>1
<1>4. /\ (<<a, b>> \o <<c>>)[1] = a /\ (<<a, b>> \o <<c>>)[2] = b
      /\ (<<a, b>> \o <<c>>)[3] = c
  BY <1>1, <1>2
<1>5. \A i \in 1 .. 3 : i = 1 \/ i = 2 \/ i = 3
  OBVIOUS
<1>6. \A i \in 1 .. Len(<<a, b>> \o <<c>>) : (<<a, b>> \o <<c>>)[i] = <<a, b, c>>[i]
  BY <1>3, <1>4, <1>5, TripleListed
<1>7. Listed(<<a, b, c>>) /\ Len(<<a, b, c>>) = Len(<<a, b>> \o <<c>>)
  BY <1>3, TripleListed
<1> QED BY ONLY <1>3, <1>6, <1>7, SameListed

(* Nothing in front or behind.                                             *)
LEMMA NothingAdded ==
  ASSUME NEW s, Listed(s)
  PROVE  s \o <<>> = s /\ <<>> \o s = s
<1>1. s \in Seq(Entries(s))
  BY ListedIsSeq
<1> QED BY <1>1, ConcatEmptySeq

(* Append is one more sequence behind.                                     *)
LEMMA AppendedBehind ==
  ASSUME NEW s, Listed(s), NEW x
  PROVE  Append(s, x) = s \o <<x>>
<1> DEFINE U == Entries(s) \cup {x}
<1>1. s \in Seq(U) /\ x \in U
  BY ListedIsSeq
<1> HIDE DEF U
<1> QED BY <1>1, AppendIsConcat

(* The whole of a sequence of one entry.                                   *)
LEMMA WholeOfOne ==
  ASSUME NEW x
  PROVE  SubSeq(<<x>>, 1, 1) = <<x>>
<1>1. Listed(<<x>>) /\ Len(<<x>>) = 1 /\ <<x>>[1] = x /\ 1 \in Nat \ {0} /\ 1 \in 0 .. 1 /\ 1 <= 1 + 1
  BY OneListed
<1>2. /\ Listed(SubSeq(<<x>>, 1, 1)) /\ Len(SubSeq(<<x>>, 1, 1)) = 1 - 1 + 1
      /\ \A i \in 1 .. 1 - 1 + 1 : SubSeq(<<x>>, 1, 1)[i] = <<x>>[1 + i - 1]
  BY <1>1, SubListed
<1>3. 1 - 1 + 1 = 1 /\ \A i \in 1 .. 1 : 1 + i - 1 = i
  OBVIOUS
<1> QED BY <1>1, <1>2, <1>3, SameListed
=============================================================================
