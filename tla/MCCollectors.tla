---------------------------- MODULE MCCollectors ----------------------------
(***************************************************************************)
(* Instances of Collectors for TLC: one array of each collector, with a    *)
(* schema bound or a cap of two elements, so that the ids 0 and 1 make     *)
(* gaps, reopened and stale slots and 2 is refused; a few that leave a cap *)
(* out; and arrays of arrays.  A string's byte above 127 is the first or   *)
(* the second of a two-byte character.                                     *)
(***************************************************************************)
EXTENDS Collectors

Doubled == [c \in 0 .. 8 |-> IF c = 0 THEN 1 ELSE 2 * c]

(* Each first byte is followed by a second, and nothing else is.           *)
PairsOnly(bytes) ==
  /\ bytes # <<>> => bytes[1] # 128 /\ bytes[Len(bytes)] # 192
  /\ \A i \in 1 .. Len(bytes) - 1 : bytes[i] = 192 <=> bytes[i + 1] = 128

Caps(n, len) == [arrayCount |-> n, stringLen |-> len, blobLen |-> len]
LeafOf(kind, count, elemLen, range, offers) ==
  [kind |-> kind, count |-> count, elemLen |-> elemLen, lo |-> 0, hi |-> 0,
   range |-> range, default |-> <<>>, offers |-> offers, byHand |-> FALSE]
ByHand(leaf) == [leaf EXCEPT !.byHand = TRUE]
Flat(leaf, caps) == [nested |-> FALSE, count |-> 0, leaf |-> leaf, caps |-> caps]
Rows(count, leaf, caps) == [nested |-> TRUE, count |-> count, leaf |-> leaf, caps |-> caps]

Texts == {<<>>, <<7>>, <<192, 128>>, <<128>>}
Blobs == {<<>>, <<7>>, <<8, 9>>}
Numbers == {<<>>, <<1>>, <<2, 3>>, <<1, 4>>}

StringLeaf == LeafOf("String", 2, 2, {}, Texts \cup {<<7, 7, 7>>})
BlobLeaf == LeafOf("Blob", 0, 0, {}, Blobs)
UnsignedLeaf == [LeafOf("Unsigned", 2, 2, 0 .. 3, Numbers) EXCEPT !.hi = 3]
SignedLeaf == [LeafOf("Signed", 0, 0, -2 .. 1, {<<>>, <<-2, 1>>, <<1, -3>>, <<2>>})
               EXCEPT !.lo = -2, !.hi = 1]
MessageLeaf == [LeafOf("Message", 0, 0, {1}, {}) EXCEPT !.default = <<0, 5>>]

AllArrays == {
  Flat(ByHand(StringLeaf), Caps(1, 1)),
  Flat(LeafOf("String", 0, 2, {}, {<<7>>, <<192, 128>>}), Caps(2, 0)),
  Flat(BlobLeaf, Caps(2, 2)),
  Flat(LeafOf("Blob", 2, 0, {}, Blobs), Caps(0, 0)),
  Flat(ByHand(UnsignedLeaf), Caps(0, 0)),
  Flat(SignedLeaf, Caps(2, 2)),
  Flat(LeafOf("Float32", 0, 1, {1, 2, 3}, {<<>>, <<1>>, <<2, 3>>}), Caps(2, 0)),
  Flat(LeafOf("Float64", 2, 0, {1, 2, 3}, {<<1>>, <<2, 3>>}), Caps(1, 2)),
  Flat(LeafOf("Bool", 0, 0, {0, 1, 2}, {<<>>, <<0>>, <<2, 1>>}), Caps(2, 2)),
  Flat(MessageLeaf, Caps(2, 0)),
  Rows(2, LeafOf("String", 0, 0, {}, {<<7>>, <<192, 128>>}), Caps(2, 2)),
  Rows(0, LeafOf("Blob", 2, 2, {}, {<<7>>, <<8, 9>>}), Caps(2, 2)),
  Rows(2, LeafOf("Float32", 2, 2, {1, 2}, {<<1, 2>>, <<2>>}), Caps(2, 2)),
  Rows(0, [MessageLeaf EXCEPT !.count = 2], Caps(2, 2)) }

(* A row is opened, filled and opened again, or two rows are opened. *)
FieldsOf(a) == IF a.nested THEN 3 ELSE 2

(* The string policy is nothing to the other collectors. *)
OptionsOf(a) == IF a.leaf.kind = "String"
                THEN {<<>>, <<WithStrictUTF8(FALSE), WithMaxDepth(1)>>} ELSE {<<>>}
=============================================================================
