----------------------------- MODULE Collectors -----------------------------
(***************************************************************************)
(* collectors.go: the visitors a wrapper array is decoded with.  The       *)
(* decoder's callbacks come in the order VisitorProtocol allows, a payload *)
(* in any pieces; the decode may stop after any of them, and the next one  *)
(* goes into the same destination.                                         *)
(*                                                                         *)
(* mem is the memory of Slices; its first buffer is the destination, one   *)
(* cell with the field's slice.  An array is described as in WrapperArray, *)
(* with lo and hi, the declared width, in place of the set of values: an   *)
(* element is a string (a value: Go's strings are immutable), the slice of *)
(* a blob or of a row, or a message, the sequence of its members.          *)
(***************************************************************************)
EXTENDS Slices, Limits, SequencesExt

CONSTANTS
  Arrays,                    \* the arrays, as above
  OptionLists(_),            \* of an array, what a decode into it may be opened with
  Ids,                       \* the element ids the wire offers
  AccChunk,                  \* accChunk of PayloadAcc
  MaxDecodes, MaxFields(_)   \* bounds: on the times the field is opened, and, of
                             \* an array, on the fields in each

(* The matrix collectors, by the type of their elements. *)
Matrix == {"Unsigned", "Signed", "Float32", "Float64", "Bool"}

(* A declared width no callback exceeds is given as 0. *)
TooWide(leaf, v) == \/ leaf.kind = "Unsigned" /\ leaf.hi # 0 /\ v > leaf.hi
                    \/ leaf.kind = "Signed" /\ leaf.lo # 0 /\ (v < leaf.lo \/ v > leaf.hi)

(* The Go types of what an array is described by, and that its set of      *)
(* values is what its width admits.                                        *)
ASSUME ArraysAssumption ==
  /\ Ids \subseteq Nat /\ AccChunk \in Nat \ {0}
  /\ \A a \in Arrays :
       /\ a.nested \in BOOLEAN /\ a.count \in Int
       /\ a.caps \in [arrayCount : Int, stringLen : Int, blobLen : Int]
       /\ a.leaf.kind \in {"String", "Blob", "Message"} \cup Matrix
       /\ a.leaf.count \in Int /\ a.leaf.elemLen \in Int /\ a.leaf.lo \in Int /\ a.leaf.hi \in Int
       /\ a.leaf.byHand \in BOOLEAN /\ a.leaf.default \in Seq(Int)
       /\ \A want \in a.leaf.offers :
            /\ want \in Seq(IF a.leaf.kind \in {"Unsigned", "Bool"} THEN Nat ELSE Int)
            /\ a.leaf.kind \in Matrix => \A i \in 1 .. Len(want) :
                 want[i] \in a.leaf.range <=> ~TooWide(a.leaf, want[i])
       /\ \A opts \in OptionLists(a) : opts \in Seq(Option)

VARIABLES
  array,                     \* the array, with its bounds and caps
  mem,
  limits,                    \* d.lim of this decode
  out,                       \* s.out of the leaf's collector, Nowhere when none is open
  coll,                      \* the rest of it, see NewCollector
  elem,                      \* the message element being decoded, Nowhere when none is
  path, now, err,            \* the decoder's part, as in WrapperArray
  decodes, fields            \* what the bounds count

vars == <<array, mem, limits, out, coll, elem, path, now, err, decodes, fields>>

Field == [buf |-> 1, i |-> 1]
Nowhere == [buf |-> 0, i |-> 0]

(* acc, cur, rowGate.declined and StringCheck of a collector just made.     *)
NewCollector == [acc |-> Nil, cur |-> Nil, declined |-> FALSE, check |-> ZeroCheck]
NoField == [id |-> -1, own |-> FALSE, told |-> FALSE, want |-> <<>>, off |-> 0]

Leaf == array.leaf
Depth == IF array.nested THEN 1 ELSE 0
InLeaf == Len(path) = Depth
Ready == err = "ok" /\ now = NoField
Starts(id) == Ready /\ fields < MaxFields(array) /\ fields' = fields + 1 /\ id \in Ids

(* The zero value of an element, and of a cell of a row.                    *)
Zero == CASE Leaf.kind = "String"  -> <<>>
          [] Leaf.kind = "Message" -> [i \in DOMAIN Leaf.default |-> 0]
          [] OTHER                 -> Nil
ZeroCell == IF Leaf.kind = "Bool" THEN FALSE ELSE 0

OverIndex(id, cap, rcap) ==
  IF cap > 0 THEN (IF id >= cap THEN "InvalidMsg" ELSE "ok")
  ELSE IF rcap <= 0 THEN "Argument"
  ELSE IF id >= rcap THEN "LimitExceeded" ELSE "ok"

OverLen(n, max, rmax) ==
  IF max > 0 THEN (IF n > max THEN "InvalidMsg" ELSE "ok")
  ELSE IF rmax <= 0 THEN "Argument"
  ELSE IF n > rmax THEN "LimitExceeded" ELSE "ok"

LenCap == CASE Leaf.kind = "String" -> array.caps.stringLen
            [] Leaf.kind = "Blob"   -> array.caps.blobLen
            [] OTHER                -> array.caps.arrayCount

IndexVerdict(id) == OverIndex(id, Leaf.count, array.caps.arrayCount)
Verdict(id, n) ==
  IF IndexVerdict(id) # "ok" THEN IndexVerdict(id) ELSE OverLen(n, Leaf.elemLen, LenCap)

Fail(e) == err' = e /\ UNCHANGED <<array, mem, limits, out, coll, elem, path, now, decodes>>

-----------------------------------------------------------------------------
(* The generated arm that opens the array: the field is truncated, and a   *)
(* new collector writes into it.                                           *)
Start(opts) ==
  /\ limits' = NewLimits(opts)
  /\ out' = IF array.nested THEN Nowhere ELSE Field
  /\ coll' = NewCollector /\ elem' = Nowhere
  /\ path' = <<>> /\ now' = NoField /\ err' = "ok" /\ fields' = 0

Init ==
  /\ array \in Arrays /\ mem = <<<<Nil>>>>
  /\ limits \in {NewLimits(opts) : opts \in OptionLists(array)}
  /\ out = IF array.nested THEN Nowhere ELSE Field
  /\ coll = NewCollector /\ elem = Nowhere
  /\ path = <<>> /\ now = NoField /\ err = "ok" /\ decodes = 1 /\ fields = 0

OpenArray ==
  /\ decodes < MaxDecodes /\ decodes' = decodes + 1
  /\ \E opts \in OptionLists(array) : Start(opts)
  /\ mem' = Save(mem, Field, Truncated(Load(mem, Field)))
  /\ UNCHANGED array

(* The row's slot: what a decode before left there, or what this one put    *)
(* there, truncated.                                                       *)
OpenedRow(m, p, prev) ==
  LET n == IF prev # Nil THEN Save(m, p, prev) ELSE m
      r == ReuseSlice(n, Load(n, p), 0, Zero)
  IN  Save(r.mem, p, r.val)

(* NestedSeq.BeginSequence: the bound comes before anything is written.     *)
NestedBeginSequence(id) ==
  /\ Starts(id) /\ array.nested /\ path = <<>>
  /\ LET verdict == OverIndex(id, array.count, array.caps.arrayCount) IN
     \/ verdict # "ok" /\ Fail(verdict)
     \/ /\ verdict = "ok"
        /\ LET g == Grow(mem, Field, id, array.count, Nil)
               slot == ElementAt(g.mem, Field, id)
           IN  mem' = OpenedRow(g.mem, slot, g.val) /\ out' = slot
        /\ coll' = NewCollector /\ path' = <<id>>
        /\ UNCHANGED <<array, limits, elem, now, err, decodes>>

(* A slot the collector makes is zero, then seeded by init. *)
WithMessage(m, p, id) ==
  Filled(ReserveRows(m, p, id, Leaf.count, Zero), p, id, Leaf.default, Zero)

MessageBeginSequence(id) ==
  /\ Starts(id) /\ Leaf.kind = "Message" /\ InLeaf
  /\ \/ IndexVerdict(id) # "ok" /\ Fail(IndexVerdict(id))
     \/ /\ IndexVerdict(id) = "ok"
        /\ mem' = WithMessage(mem, out, id)
        /\ elem' = ElementAt(WithMessage(mem, out, id), out, id)
        /\ path' = Append(path, id)
        /\ UNCHANGED <<array, limits, out, coll, now, err, decodes>>

(* The generated arms of the message set its members. *)
SetMember(f, v) ==
  /\ Ready /\ elem # Nowhere
  /\ mem' = Save(mem, elem, [Load(mem, elem) EXCEPT ![f] = v])
  /\ UNCHANGED <<array, limits, out, coll, elem, path, now, err, decodes, fields>>

(* Fault: the message stays the visitor after its end. *)
LeftOpen == elem
(* The decoder drops the visitor of the scope. *)
Left == Nowhere
(* VisitorBase.EndSequence *)
EndSequence ==
  /\ Ready /\ path # <<>> /\ path' = Front(path)
  /\ elem' = Left
  /\ out' = IF elem = Nowhere THEN Nowhere ELSE out
  /\ UNCHANGED <<array, mem, limits, coll, now, err, decodes, fields>>

-----------------------------------------------------------------------------
(* A header that is not of the element's kind is this array's in nothing:   *)
(* it is not measured.                                                     *)
Announced(id, own, want) ==
  now' = [id |-> id, own |-> own, told |-> TRUE, want |-> want, off |-> 0]

(* The string policy of the decode arrives before the scope's first string. *)
Told(kind) == IF kind = "String" THEN StringCheck(limits) ELSE coll.check

FixlenBegin(id, subtype, want) ==
  /\ Starts(id) /\ InLeaf /\ Leaf.kind \in {"String", "Blob"}
  /\ LET own == subtype = Leaf.kind
         verdict == IF own THEN Verdict(id, Len(want)) ELSE "ok"
     IN  \/ verdict # "ok" /\ Fail(verdict)
         \/ /\ verdict = "ok" /\ Announced(id, own, want)
            /\ coll' = [coll EXCEPT !.check =
                          IF Leaf.kind = "String" THEN Told(subtype) ELSE @]
            /\ UNCHANGED <<array, mem, limits, out, elem, path, err, decodes>>

(* The caller's from now on. *)
AfterHandOver == Nil

(* A fresh buffer opens no larger than accChunk, whatever was announced.    *)
FirstCap(total) == IF total < AccChunk THEN total ELSE AccChunk
OpenAcc(acc, total) ==
  IF Cap(mem, acc) = 0 THEN Made(mem, <<>>, FirstCap(total), 0)
  ELSE [mem |-> mem, val |-> Truncated(acc)]

(* PayloadAcc.Take, for the pieces of one payload in order: what it returns, *)
(* and the slice of the bytes when they are in the accumulator's buffer.    *)
Take(acc, total, offset, chunk) ==
  IF offset = 0 /\ Len(chunk) >= total
  THEN [done |-> TRUE, bytes |-> chunk, mem |-> mem, acc |-> Truncated(acc), own |-> Nil]
  ELSE LET open == IF offset > 0 THEN [mem |-> mem, val |-> acc]
                   ELSE OpenAcc(acc, total)
           r == AppendAll(open.mem, open.val, chunk, 0)
       IN  IF r.val.len < total
           THEN [done |-> FALSE, bytes |-> <<>>, mem |-> r.mem, acc |-> r.val, own |-> Nil]
           ELSE [done |-> TRUE, bytes |-> Contents(r.mem, r.val), mem |-> r.mem,
                 acc |-> AfterHandOver, own |-> r.val]

PlacedString(t, id) ==
  LET g == Grow(t.mem, out, id, Leaf.count, <<>>) IN
  Save(g.mem, ElementAt(g.mem, out, id), t.bytes)

(* A blob put together from pieces that does not fit is kept, not copied. *)
PlacedBlob(t, id, offset) ==
  LET g == Grow(t.mem, out, id, Leaf.count, Nil)
      r == IF offset > 0 /\ Cap(g.mem, g.val) < Len(t.bytes) THEN [mem |-> g.mem, val |-> t.own]
           ELSE ReuseBytes(g.mem, g.val, t.bytes)
  IN  Save(r.mem, ElementAt(r.mem, out, id), r.val)

(* Fault: every piece is judged by itself. *)
RejectsPiece(t, piece) == Leaf.kind = "String" /\ ~UTF8Valid(coll.check, piece)
(* What is no UTF-8 as a whole is no string of a strict decode. *)
Rejects(t, piece) == t.done /\ Leaf.kind = "String" /\ ~UTF8Valid(coll.check, t.bytes)

(* StringSeq.String and BlobSeq.Bytes, with the piece up to byte n: the     *)
(* bounds again, for a caller who skipped the header, then the payload,    *)
(* which the accumulator has let go of when it is refused.                 *)
Collect(piece, n) ==
  LET t == Take(coll.acc, Len(now.want), now.off, piece) IN
  IF Verdict(now.id, Len(now.want)) # "ok" THEN Fail(Verdict(now.id, Len(now.want)))
  ELSE /\ coll' = [coll EXCEPT !.acc = t.acc]
       /\ now' = IF t.done THEN NoField ELSE [now EXCEPT !.off = n]
       /\ err' = IF Rejects(t, piece) THEN "InvalidMsg" ELSE err
       /\ mem' = IF ~t.done \/ Rejects(t, piece) THEN t.mem
                 ELSE IF Leaf.kind = "String" THEN PlacedString(t, now.id)
                 ELSE PlacedBlob(t, now.id, now.off)
       /\ UNCHANGED <<array, limits, out, elem, path, decodes>>

(* A payload of another kind goes to VisitorBase. *)
Piece(n) ==
  /\ err = "ok" /\ now # NoField /\ Leaf.kind \in {"String", "Blob"}
  /\ n \in now.off .. Len(now.want) /\ (n = now.off => now.want = <<>>)
  /\ UNCHANGED fields
  /\ IF now.own THEN Collect(SubSeq(now.want, now.off + 1, n), n)
     ELSE /\ now' = IF n = Len(now.want) THEN NoField ELSE [now EXCEPT !.off = n]
          /\ UNCHANGED <<array, mem, limits, out, coll, elem, path, err, decodes>>

-----------------------------------------------------------------------------
WireKind == IF Leaf.kind = "Bool" THEN "Unsigned" ELSE Leaf.kind

(* Fault: the row is sized by the count the header announces. *)
OpenedSized(id, count) == ReuseSlice(mem, Stale(mem, Load(mem, out), id, Nil), count, ZeroCell)
(* Fault: the stale row is not truncated. *)
OpenedLonger(id, count) == [mem |-> mem, val |-> Stale(mem, Load(mem, out), id, Nil)]
(* The row being built: over what an earlier decode left at the index. *)
Opened(id, count) == [mem |-> mem, val |-> Truncated(Stale(mem, Load(mem, out), id, Nil))]

(* The verdict is kept for the ArrayEnd that follows. *)
ArrayBegin(id, kind, want) ==
  /\ Starts(id) /\ InLeaf /\ Leaf.kind \in Matrix
  /\ LET own == kind = WireKind
         verdict == IF own THEN Verdict(id, Len(want)) ELSE "ok"
         opened == IF own THEN Opened(id, Len(want)) ELSE [mem |-> mem, val |-> coll.cur]
     IN  IF verdict # "ok" THEN Fail(verdict)
         ELSE /\ Announced(id, own, want)
              /\ coll' = [coll EXCEPT !.declined = ~own, !.cur = opened.val]
              /\ mem' = opened.mem
              /\ UNCHANGED <<array, limits, out, elem, path, err, decodes>>

(* T(v) keeps the low bits of the declared width. *)
Narrowed(v) == CASE Leaf.kind = "Bool" -> v # 0
                 [] Leaf.kind = "Unsigned" /\ Leaf.hi # 0 -> v % (Leaf.hi + 1)
                 [] Leaf.kind = "Signed" /\ Leaf.lo # 0 -> ((v - Leaf.lo) % (Leaf.hi - Leaf.lo + 1)) + Leaf.lo
                 [] OTHER -> v

(* An element of another kind goes to VisitorBase. *)
ArrayElement ==
  /\ err = "ok" /\ now # NoField /\ Leaf.kind \in Matrix /\ now.off < Len(now.want)
  /\ LET v == now.want[now.off + 1]
         r == IF now.own THEN AppendTo(mem, coll.cur, Narrowed(v), ZeroCell) ELSE [mem |-> mem, val |-> coll.cur]
     IN  IF now.own /\ TooWide(Leaf, v) THEN Fail("InvalidMsg")
         ELSE /\ mem' = r.mem /\ coll' = [coll EXCEPT !.cur = r.val]
              /\ now' = [now EXCEPT !.off = @ + 1]
              /\ UNCHANGED <<array, limits, out, elem, path, err, decodes>>
  /\ UNCHANGED fields

(* An empty row that arrived is not nil. *)
ArrivedRow(m, row) == IF row = Nil THEN Made(m, <<>>, 0, ZeroCell) ELSE [mem |-> m, val |-> row]
PlacedRow(r, id) ==
  LET g == Grow(r.mem, out, id, Leaf.count, Nil) IN
  Save(g.mem, ElementAt(g.mem, out, id), r.val)

(* rowGate.ended: the row closing was declined. *)
Ended == coll.declined

(* PlaceRow judges the index again, of a row the collector no longer holds. *)
ArrayEnd ==
  /\ err = "ok" /\ now # NoField /\ Leaf.kind \in Matrix /\ now.off = Len(now.want)
  /\ now' = NoField /\ UNCHANGED <<array, limits, out, elem, path, decodes, fields>>
  /\ LET r == ArrivedRow(mem, coll.cur) IN
     IF Ended THEN UNCHANGED <<mem, err>> /\ coll' = [coll EXCEPT !.declined = FALSE]
     ELSE /\ err' = IndexVerdict(now.id)
          /\ mem' = IF err' = "ok" THEN PlacedRow(r, now.id) ELSE r.mem
          /\ coll' = [coll EXCEPT !.declined = FALSE, !.cur = Nil]

(* The collectors are driven by hand too: a payload without its header, and *)
(* PlaceRow with a row of the caller's.                                    *)
PieceByHand(id, want) ==
  /\ Leaf.byHand /\ Starts(id) /\ InLeaf /\ Leaf.kind \in {"String", "Blob"}
  /\ now' = [id |-> id, own |-> TRUE, told |-> FALSE, want |-> want, off |-> 0]
  /\ UNCHANGED <<array, mem, limits, out, coll, elem, path, err, decodes>>

PlaceRow(id, row) ==
  /\ Leaf.byHand /\ Starts(id) /\ InLeaf /\ Leaf.kind \in Matrix
  /\ IF IndexVerdict(id) # "ok" THEN Fail(IndexVerdict(id))
     ELSE /\ mem' = PlacedRow(Made(mem, row, Len(row), ZeroCell), id)
          /\ UNCHANGED <<array, limits, out, coll, elem, path, now, err, decodes>>

Next ==
  \/ OpenArray
  \/ \E id \in Ids : NestedBeginSequence(id) \/ MessageBeginSequence(id)
  \/ \E f \in DOMAIN Leaf.default, v \in Leaf.range : SetMember(f, v)
  \/ EndSequence
  \/ \E id \in Ids, want \in Leaf.offers :
       \/ \E subtype \in {"String", "Blob"} : FixlenBegin(id, subtype, want)
       \/ \E kind \in {WireKind, "Other"} : ArrayBegin(id, kind, want)
       \/ PieceByHand(id, want)
       \/ /\ \A i \in DOMAIN want : ~TooWide(Leaf, want[i])
          /\ PlaceRow(id, [i \in DOMAIN want |-> Narrowed(want[i])])
  \/ \E n \in 0 .. Len(now.want) : Piece(n)
  \/ ArrayElement
  \/ ArrayEnd

Spec == Init /\ [][Next]_vars

-----------------------------------------------------------------------------
SliceOK(s) == s.buf \in 0 .. Len(mem) /\ s.len \in 0 .. Cap(mem, s)

(* Slices stay inside their buffers, pointers name cells, and a scope is    *)
(* open exactly where the path says so (the collectors' fields).           *)
TypeOK ==
  /\ array \in Arrays /\ limits \in [strictUTF8 : BOOLEAN, maxDepth : Int]
  /\ SliceOK(coll.acc) /\ SliceOK(coll.cur) /\ SliceOK(Load(mem, Field))
  /\ coll.declined \in BOOLEAN /\ coll.check \in [waived : BOOLEAN]
  /\ err \in {"ok", "InvalidMsg", "LimitExceeded", "Argument"}
  /\ Len(path) \in 0 .. Depth + 1 /\ \A k \in DOMAIN path : path[k] \in Ids
  /\ now.off \in 0 .. Len(now.want)
  /\ out # Nowhere <=> Len(path) >= Depth
  /\ elem # Nowhere <=> Len(path) = Depth + 1

(* A collector outlives its fields, and nothing of one leaks into the next: *)
(* the bytes and the elements it holds are those of the field in progress, *)
(* and the latch that declines a row is that row's (acc, cur, rowGate).    *)
FieldInStep ==
  LET whole == now # NoField /\ now.own IN
  /\ coll.acc.len = IF whole /\ Leaf.kind \in {"String", "Blob"} THEN now.off ELSE 0
  /\ coll.cur.len = IF whole /\ Leaf.kind \in Matrix THEN now.off ELSE 0
  /\ coll.declined <=> now # NoField /\ ~now.own /\ Leaf.kind \in Matrix

(* Every cell that holds a slice the field reaches, past the lengths too.   *)
CellsOf(p) == {[buf |-> Load(mem, p).buf, i |-> i] : i \in 1 .. Cap(mem, Load(mem, p))}
HoldsSlices == Leaf.kind \in Matrix \cup {"Blob"}
Headers ==
  LET rows == IF array.nested \/ HoldsSlices THEN CellsOf(Field) ELSE {}
      els == IF array.nested /\ HoldsSlices THEN UNION {CellsOf(p) : p \in rows} ELSE {}
  IN  {Field} \cup rows \cup els

(* However often a destination is decoded into, and whatever its stale      *)
(* slots hold: no two elements share storage, the bytes being put together *)
(* are no element's, a row being built is over its own stale slot at most, *)
(* and the pointers held are into the slices as they are now (stale, grow, *)
(* and the note on reuse at the top of collectors.go).                     *)
StorageOwned ==
  /\ \A p, q \in Headers : p # q /\ Load(mem, p) # Nil => Load(mem, p).buf # Load(mem, q).buf
  /\ \A p \in Headers : coll.acc # Nil => Load(mem, p).buf # coll.acc.buf
  /\ \A p \in Headers : coll.cur # Nil /\ Load(mem, p).buf = coll.cur.buf
       => p = ElementAt(mem, out, now.id) /\ now.id >= Load(mem, out).len
  /\ elem # Nowhere => elem.buf = Load(mem, out).buf /\ elem.i <= Load(mem, out).len
  /\ out # Nowhere /\ array.nested => out = ElementAt(mem, Field, path[1])

(* A header that announces a count or a length costs a comparison, whatever *)
(* it announces: the storage comes with the elements.  One that is refused, *)
(* a row's or a message's too, costs no more: the bound comes before the    *)
(* grow (FixlenBegin, ArrayBegin, BeginSequence, PlaceRow).                 *)
HeadersAllocateNothing ==
  [][Ready /\ (now' # NoField \/ err' # "ok") => mem' = mem]_vars

-----------------------------------------------------------------------------
(* What the destination reads. *)
ElementView(c) ==
  IF HoldsSlices THEN [there |-> c # Nil, els |-> Contents(mem, c)] ELSE c
LeafView(s) == [i \in 1 .. s.len |-> ElementView(mem[s.buf][i])]
RowView(c) == [there |-> c # Nil, els |-> LeafView(c)]
View ==
  LET s == Load(mem, Field) IN
  IF array.nested THEN [i \in 1 .. s.len |-> RowView(mem[s.buf][i])] ELSE LeafView(s)

Wrapper == INSTANCE WrapperArray
  WITH strict <- StrictUTF8On(limits), value <- View, Strings <- WellFormed

(* Reused storage, pieces, gaps, reopened and declined elements and the     *)
(* limits change nothing of what the array promises (collectors.go).       *)
CollectsWhatArrived == Wrapper!Spec
=============================================================================
