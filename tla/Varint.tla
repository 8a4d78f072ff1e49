------------------------------- MODULE Varint -------------------------------
(***************************************************************************)
(* The integer codings of the wire format: base-128 varints (varint.go)    *)
(* and the zigzag map (types.go), at a scale TLC can enumerate.            *)
(*                                                                         *)
(* The code works on 64-bit words in groups of 7 bits.  Here a group has   *)
(* Cont values (2^7 in the code) and a varint at most MaxVarintLen bytes   *)
(* (10), the last of which carries exactly one bit (the tenth byte holds   *)
(* bit 63 and nothing else).  So a word is below 2 * TopWeight, TopWeight  *)
(* being the weight of the last byte's bit (2^63), and a byte is below     *)
(* 2 * Cont, its continuation flag being worth Cont (0x80).                *)
(***************************************************************************)
EXTENDS Integers, Sequences
Sets == INSTANCE FiniteSetsExt

CONSTANTS
  Cont,          \* 0x80: values of a 7-bit group, and the continuation flag
  MaxVarintLen,  \* 10: maxVarintLen
  TopWeight      \* 2^63: the weight of the last byte's single bit

ASSUME VarintAssumption ==
  /\ Cont \in Nat \ {0, 1} /\ Cont % 2 = 0
  /\ MaxVarintLen \in Nat \ {0, 1}
  /\ TopWeight \in Nat \ {0}

(* 1 << (7 * k) *)
Weight(k) ==
  LET shifted[j \in 0 .. k] == IF j = 0 THEN 1 ELSE Cont * shifted[j - 1] IN shifted[k]

ASSUME TopWeightAssumption == TopWeight = Weight(MaxVarintLen - 1)

Byte == 0 .. 2 * Cont - 1          \* uint8
Word == 0 .. 2 * TopWeight - 1     \* uint64
Signed == -TopWeight .. TopWeight - 1   \* int64

(* Bits 7(j-1) and up of v, as v >> (7 * (j - 1)). *)
Shr(v, j) == v \div Weight(j - 1)

(* How many bytes putUvarint writes for v: the branch v < 1 << (7 * k) it   *)
(* takes, or all ten.                                                      *)
VarintLen(v) == CHOOSE k \in 1 .. MaxVarintLen :
                  /\ k = MaxVarintLen \/ v < Weight(k)
                  /\ \A j \in 1 .. k - 1 : ~(v < Weight(j))

(* Fault: a word of exactly 2^(7k) gets one byte too few. *)
PutUvarintShort(v) ==
  LET len == Sets!Min({k \in 1 .. MaxVarintLen : k = MaxVarintLen \/ v <= Weight(k)}) IN
  [j \in 1 .. len |-> IF j < len THEN Cont + (Shr(v, j) % Cont) ELSE Shr(v, j) % Cont]

(* putUvarint: every byte but the last carries the continuation flag. *)
PutUvarint(v) ==
  [j \in 1 .. VarintLen(v) |->
     IF j < VarintLen(v) THEN Cont + (Shr(v, j) % Cont) ELSE Shr(v, j)]

(* uvarintFast on a window of at least MaxVarintLen bytes: the value is the *)
(* sum of the groups up to the first byte without a flag; the last byte is *)
(* taken whole and must be 0 or 1, anything else is malformed.             *)
GroupSum(s, k) ==
  LET upto[j \in 0 .. k] ==
        IF j = 0 THEN 0 ELSE upto[j - 1] + (s[j] % Cont) * Weight(j - 1)
  IN  upto[k]

(* Fault: the last byte is not checked and its high bits are kept. *)
UvarintFastUnchecked(s) ==
  LET stops == {k \in 1 .. MaxVarintLen : s[k] < Cont /\ \A j \in 1 .. k - 1 : s[j] >= Cont}
      stop  == CHOOSE k \in stops : TRUE
  IN  IF stops = {} THEN [ok |-> FALSE, v |-> 0, n |-> 0]
      ELSE [ok |-> TRUE, v |-> GroupSum(s, stop), n |-> stop]

UvarintFast(s) ==
  LET stops == {k \in 1 .. MaxVarintLen - 1 : s[k] < Cont /\ \A j \in 1 .. k - 1 : s[j] >= Cont}
      stop  == CHOOSE k \in stops : TRUE
      last  == s[MaxVarintLen]
  IN  CASE stops # {}             -> [ok |-> TRUE, v |-> GroupSum(s, stop), n |-> stop]
        [] stops = {} /\ last > 1 -> [ok |-> FALSE, v |-> 0, n |-> 0]
        [] OTHER -> [ok |-> TRUE,
                     v  |-> GroupSum(s, MaxVarintLen - 1) + last * TopWeight,
                     n  |-> MaxVarintLen]

(* Fault: a negative number takes the code of the next one up. *)
ZigzagEncodeOff(v) == IF v < 0 THEN -2 * v ELSE 2 * v

(* zigzagEncode and zigzagDecode: (v << 1) ^ (v >> 63) and its inverse.     *)
ZigzagEncode(v) == IF v < 0 THEN -2 * v - 1 ELSE 2 * v

(* Fault: a right shift that loses the sign's borrow. *)
ZigzagDecodeOff(u) == IF u % 2 = 0 THEN u \div 2 ELSE -(u \div 2)

ZigzagDecode(u) == IF u % 2 = 0 THEN u \div 2 ELSE -(u \div 2) - 1
=============================================================================
