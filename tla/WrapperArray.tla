---------------------------- MODULE WrapperArray ----------------------------
(***************************************************************************)
(* What a collector promises of the array it fills: after every field of   *)
(* the array's sequence, the value the destination reads is the one the    *)
(* fields that arrived whole give, whatever pieces they came in and        *)
(* whatever the destination held before; and every refusal has the one     *)
(* reason that applies to it.  No memory, no accumulator, no row in        *)
(* progress: those are Collectors.tla.                                     *)
(*                                                                         *)
(* An array is described by                                                *)
(*   nested      whether its elements are wrapper arrays themselves        *)
(*   count       the schema's bound on the outer array, when nested        *)
(*   leaf        the array that holds the elements: its kind, its count    *)
(*               and element bound, the values an element of a row may     *)
(*               have, what a new message element starts as, and the       *)
(*               fields the wire offers in it                              *)
(*   caps        the receiver caps                                         *)
(***************************************************************************)
EXTENDS Integers, Sequences, SequencesExt

CONSTANTS
  Ids,                       \* the element ids the wire offers
  Strings(_)                 \* of a sequence of bytes: whether it is well formed UTF-8

VARIABLES
  array,          \* the array, see above
  strict,         \* whether this decode validates strings
  value,          \* what the destination reads
  path,           \* the ids of the sequences open inside the array's own
  now,            \* the field in progress: whether it is of the element's kind,
                  \* its header was delivered, all it brings, how much has come
  err             \* why this decode was refused, or "ok"

vars == <<array, strict, value, path, now, err>>

(* An element that is a slice is absent, the default a gap is filled with,  *)
(* or there with these elements, possibly none.                            *)
Absent == [there |-> FALSE, els |-> <<>>]
There(els) == [there |-> TRUE, els |-> els]

NoField == [id |-> -1, own |-> FALSE, told |-> FALSE, want |-> <<>>, off |-> 0]
Depth == IF array.nested THEN 1 ELSE 0
InLeaf == Len(path) = Depth
Ready == err = "ok" /\ now = NoField

(* The elements of the leaf array now open, and the value with others.      *)
Elements == IF array.nested THEN value[path[1] + 1].els ELSE value
WithElements(els) == IF array.nested THEN [value EXCEPT ![path[1] + 1] = There(els)] ELSE els

Extended(els, id, gap) ==
  [i \in 1 .. IF Len(els) > id THEN Len(els) ELSE id + 1 |-> IF i <= Len(els) THEN els[i] ELSE gap]
Placed(els, id, gap, x) == [Extended(els, id, gap) EXCEPT ![id + 1] = x]

(* A string's gap is the empty string, a message's its defaults.            *)
Gap(leaf) == CASE leaf.kind = "String"  -> <<>>
               [] leaf.kind = "Message" -> leaf.default
               [] OTHER                 -> Absent

(* The element a whole field makes: an empty blob is absent, an empty row   *)
(* is there.                                                               *)
Element(leaf, want) == CASE leaf.kind = "String" -> want
                         [] leaf.kind = "Blob"   -> IF want = <<>> THEN Absent ELSE There(want)
                         [] leaf.kind = "Bool"   -> There([i \in DOMAIN want |-> want[i] # 0])
                         [] OTHER                -> There(want)

(* The reason to refuse n elements or bytes.  The cap counts only where the *)
(* schema is silent, and one left out is the caller's mistake.             *)
Reason(n, bound, cap) == CASE bound > 0 /\ n > bound              -> "InvalidMsg"
                           [] bound <= 0 /\ cap <= 0              -> "Argument"
                           [] bound <= 0 /\ cap > 0 /\ n > cap    -> "LimitExceeded"
                           [] OTHER                               -> "ok"

LengthCap(leaf, caps) == CASE leaf.kind = "String" -> caps.stringLen
                           [] leaf.kind = "Blob"   -> caps.blobLen
                           [] OTHER                -> caps.arrayCount

FieldReason(id, n) ==
  LET index == Reason(id + 1, array.leaf.count, array.caps.arrayCount) IN
  IF index # "ok" THEN index
  ELSE Reason(n, array.leaf.elemLen, LengthCap(array.leaf, array.caps))

OfRow == array.leaf.kind \notin {"String", "Blob"}
InRange(v) == v \in array.leaf.range

-----------------------------------------------------------------------------
Init == value = <<>> /\ path = <<>> /\ now = NoField /\ err = "ok"

(* The array's own field is opened, in this decode or in the next.          *)
Open ==
  /\ value' = <<>> /\ path' = <<>> /\ now' = NoField /\ err' = "ok"
  /\ UNCHANGED array

(* A refusal changes nothing of the value.                                  *)
Refuse(reason) == err' = reason /\ UNCHANGED <<array, strict, value, path>>

(* A row that opens again is replaced whole.                                *)
OpenRow(id) ==
  /\ Ready /\ array.nested /\ path = <<>>
  /\ LET reason == Reason(id + 1, array.count, array.caps.arrayCount) IN
     IF reason # "ok" THEN Refuse(reason) /\ UNCHANGED now
     ELSE /\ value' = Placed(value, id, Absent, There(<<>>))
          /\ path' = <<id>> /\ UNCHANGED <<array, strict, now, err>>

(* A message that opens again goes on from where it was.                    *)
OpenMessage(id) ==
  /\ Ready /\ array.leaf.kind = "Message" /\ InLeaf
  /\ LET reason == Reason(id + 1, array.leaf.count, array.caps.arrayCount) IN
     IF reason # "ok" THEN Refuse(reason) /\ UNCHANGED now
     ELSE /\ value' = WithElements(Extended(Elements, id, array.leaf.default))
          /\ path' = Append(path, id) /\ UNCHANGED <<array, strict, now, err>>

SetMember(f, v) ==
  /\ Ready /\ array.leaf.kind = "Message" /\ Len(path) = Depth + 1
  /\ value' = WithElements([Elements EXCEPT ![Last(path) + 1][f] = v])
  /\ UNCHANGED <<array, strict, path, now, err>>

Close ==
  /\ Ready /\ path # <<>> /\ path' = Front(path)
  /\ UNCHANGED <<array, strict, value, now, err>>

(* A field of another kind is measured against nothing.  One driven by hand *)
(* is refused later.                                                       *)
Announce(id, own, told, want) ==
  /\ Ready /\ InLeaf /\ array.leaf.kind # "Message" /\ (told \/ array.leaf.byHand)
  /\ LET reason == FieldReason(id, Len(want)) IN
     IF own /\ told /\ reason # "ok" THEN Refuse(reason) /\ UNCHANGED now
     ELSE /\ now' = [id |-> id, own |-> own, told |-> told, want |-> want, off |-> 0]
          /\ UNCHANGED <<array, strict, value, path, err>>

RefuseLate ==
  /\ err = "ok" /\ now.own /\ ~now.told
  /\ FieldReason(now.id, Len(now.want)) # "ok"
  /\ Refuse(FieldReason(now.id, Len(now.want))) /\ UNCHANGED now

PlaceRow(id, want) ==
  /\ Ready /\ InLeaf /\ OfRow /\ array.leaf.byHand
  /\ LET reason == Reason(id + 1, array.leaf.count, array.caps.arrayCount) IN
     IF reason # "ok" THEN Refuse(reason) /\ UNCHANGED now
     ELSE /\ value' = WithElements(Placed(Elements, id, Absent, Element(array.leaf, want)))
          /\ UNCHANGED <<array, strict, path, now, err>>

(* Some of the field has come, and all the row's elements that have come    *)
(* fit the declared width.                                                 *)
Advance ==
  /\ err = "ok" /\ now # NoField
  /\ \E n \in now.off + 1 .. Len(now.want) :
       /\ now' = [now EXCEPT !.off = n]
       /\ now.own /\ OfRow => InRange(now.want[n]) /\ n = now.off + 1
  /\ UNCHANGED <<array, strict, value, path, err>>

(* The element that does not fit is refused when it comes.                  *)
BadElement ==
  /\ err = "ok" /\ now.own /\ OfRow /\ now.off < Len(now.want)
  /\ ~InRange(now.want[now.off + 1])
  /\ Refuse("InvalidMsg") /\ UNCHANGED now

(* A string is judged whole, whatever pieces it came in; by hand also where *)
(* the decode is not strict, as nobody told the collector.                 *)
BadString ==
  /\ err = "ok" /\ now.own /\ array.leaf.kind = "String"
  /\ strict \/ ~now.told
  /\ ~Strings(now.want)
  /\ Refuse("InvalidMsg") /\ now' = NoField

(* The field is whole: it is placed where its id says, or skipped.          *)
Complete ==
  /\ err = "ok" /\ now # NoField /\ now' = NoField
  /\ IF now.own
     THEN /\ FieldReason(now.id, Len(now.want)) = "ok"
          /\ array.leaf.kind = "String" /\ strict => Strings(now.want)
          /\ OfRow => now.off = Len(now.want)
          /\ value' = WithElements(Placed(Elements, now.id, Gap(array.leaf), Element(array.leaf, now.want)))
     ELSE UNCHANGED value
  /\ UNCHANGED <<array, strict, path, err>>

Next ==
  \/ Open
  \/ \E id \in Ids : OpenRow(id) \/ OpenMessage(id)
  \/ \E f \in DOMAIN array.leaf.default, v \in array.leaf.range : SetMember(f, v)
  \/ Close
  \/ \E id \in Ids, want \in array.leaf.offers :
       PlaceRow(id, want) \/ \E own, told \in BOOLEAN : Announce(id, own, told, want)
  \/ RefuseLate \/ Advance \/ BadElement \/ BadString \/ Complete

Spec == Init /\ [][Next]_vars
=============================================================================
