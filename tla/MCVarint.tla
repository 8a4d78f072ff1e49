------------------------------ MODULE MCVarint ------------------------------
(***************************************************************************)
(* The codings of Varint, at 4 bits to the group and 9-bit words: every    *)
(* word is encoded in front of arbitrary bytes, every window of bytes is    *)
(* decoded, and what was decoded is encoded again.                         *)
(***************************************************************************)
EXTENDS Varint

VARIABLES at, word, bytes, sent, got

vars == <<at, word, bytes, sent, got>>

Windows == [1 .. MaxVarintLen -> Byte]
Trails == [1 .. MaxVarintLen -> {0, Cont, 2 * Cont - 1}]
Nothing == [ok |-> FALSE, v |-> 0, n |-> 0]

Init == at = "word" /\ word \in Word /\ bytes = <<>> /\ sent = FALSE /\ got = Nothing

Encode ==
  /\ at = "word"
  /\ \E t \in Trails : bytes' = PutUvarint(word) \o t
  /\ at' = "bytes" /\ sent' = TRUE /\ UNCHANGED <<word, got>>

(* Bytes from elsewhere: any window at all. *)
Receive ==
  /\ at = "word" /\ word = 0
  /\ bytes' \in Windows
  /\ at' = "bytes" /\ sent' = FALSE /\ UNCHANGED <<word, got>>

Decode ==
  /\ at = "bytes"
  /\ got' = UvarintFast(bytes)
  /\ at' = "value" /\ UNCHANGED <<word, bytes, sent>>

Again ==
  /\ at = "value"
  /\ at' = "word" /\ word' = IF got.ok THEN got.v ELSE 0
  /\ bytes' = <<>> /\ sent' = FALSE /\ got' = Nothing

Next == Encode \/ Receive \/ Decode \/ Again

Spec == Init /\ [][Next]_vars

(* Every word survives putUvarint and uvarintFast, whatever bytes follow it, *)
(* and the decoder stops exactly where the encoder did.                    *)
WordsSurvive ==
  at = "value" /\ sent => got = [ok |-> TRUE, v |-> word, n |-> VarintLen(word)]

(* "Minimality on encode, tolerance on decode" (varint.go, uvarintFast):     *)
(* whatever window is accepted denotes a word of 64 bits that the encoder   *)
(* would not spell longer, and a window is refused only when it spells more *)
(* than 64 bits.                                                           *)
TolerantAndMinimal ==
  at = "value" =>
    IF got.ok
    THEN got.v \in Word /\ VarintLen(got.v) <= got.n
    ELSE /\ \A k \in 1 .. MaxVarintLen - 1 : bytes[k] >= Cont
         /\ bytes[MaxVarintLen] > 1

(* zigzagDecode and zigzagEncode are inverse to each other on every word,    *)
(* the most negative one included, and small magnitudes get small words.   *)
ZigzagInverse ==
  /\ ZigzagDecode(word) \in Signed
  /\ ZigzagEncode(ZigzagDecode(word)) = word
  /\ word < Cont => ZigzagDecode(word) \in -(Cont \div 2) .. Cont \div 2 - 1
=============================================================================
