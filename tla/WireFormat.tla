----------------------------- MODULE WireFormat -----------------------------
(***************************************************************************)
(* What a message means, independently of how it arrives: the wire format  *)
(* as a grammar over the whole byte string.  Parse gives the outcome of a  *)
(* message and the callbacks it deserves, a payload being one callback     *)
(* with all the bytes of it that are there.  The decoder, fed the same     *)
(* bytes in any chunks, must agree (MCDecoder).                            *)
(***************************************************************************)
EXTENDS Varint, SequencesExt

CONSTANTS IDMax, ArrayMax, MaxDepth, Fp32Width, Fp64Width, PolicyVisitors, Answers(_)

LOCAL From(s, n) == SubSeq(s, n + 1, Len(s))
LOCAL Upto(s, n) == SubSeq(s, 1, IF n < Len(s) THEN n ELSE Len(s))
LOCAL Count(n) == [k \in 1 .. n |-> k]
LOCAL Cb(to, m, i, args) == [to |-> to, m |-> m, id |-> i, args |-> args]

(* The varint at the head of s, by definition: groups up to the first byte  *)
(* without a flag, at most MaxVarintLen of them, the last at most 1.       *)
LOCAL Groups(s, len) ==
  FoldLeft(LAMBDA v, k : v + (s[k] % Cont) * (Cont ^ (k - 1)), 0, Count(len))

LOCAL NumberTo(s, stops, len) ==
  IF stops = {}
  THEN [is |-> IF Len(s) >= MaxVarintLen THEN "bad" ELSE "short", v |-> 0, n |-> 0]
  ELSE IF len > MaxVarintLen \/ (len = MaxVarintLen /\ s[len] > 1)
  THEN [is |-> "bad", v |-> 0, n |-> 0]
  ELSE [is |-> "ok", v |-> Groups(s, len), n |-> len]

Number(s) ==
  LET stops == {k \in 1 .. Len(s) : s[k] < Cont}
  IN  NumberTo(s, stops, CHOOSE k \in stops : \A j \in stops : k <= j)

(* count varints in a row. *)
LOCAL AndThen(r, h) ==
  IF h.is = "ok" THEN [is |-> "ok", n |-> r.n + h.n, vs |-> Append(r.vs, h.v)]
                 ELSE [r EXCEPT !.is = h.is]
Numbers(s, count) ==
  FoldLeft(LAMBDA r, k : IF r.is = "ok" THEN AndThen(r, Number(From(s, r.n))) ELSE r,
           [is |-> "ok", n |-> 0, vs |-> <<>>], Count(count))

(* A value is complete ("ok"), cut short or malformed; n is the bytes it    *)
(* takes and cbs the callbacks it makes to visitor v.  Below, s is what     *)
(* follows the value's first number h.                                     *)
LOCAL Value(is, n, cbs) == [is |-> is, n |-> n, cbs |-> cbs]
LOCAL Bad == Value("bad", 0, <<>>)

ScalarValue(h, v, i, signed) ==
  Value("ok", h.n, IF signed THEN <<Cb(v, "Signed", i, <<ZigzagDecode(h.v)>>)>>
                             ELSE <<Cb(v, "Unsigned", i, <<h.v>>)>>)

LOCAL IsFloat(w) == \/ w % 8 = 0 /\ w \div 8 = Fp32Width
                    \/ w % 8 = 1 /\ w \div 8 = Fp64Width

LOCAL Payload(h, v, i, t, n, got, policy) ==
  LET whole == Len(got) = n
      begin == Cb(v, "FixlenBegin", i, <<t, n>>)
  IN  Value(IF whole THEN "ok" ELSE "short", h.n + n,
        CASE t = 0 -> <<begin>> \o (IF whole THEN <<Cb(v, "Float32", i, got)>> ELSE <<>>)
          [] t = 1 -> <<begin>> \o (IF whole THEN <<Cb(v, "Float64", i, got)>> ELSE <<>>)
          [] t = 2 -> policy \o <<begin>>
                      \o (IF whole \/ got # <<>> THEN <<Cb(v, "String", i, <<n, 0>> \o got)>> ELSE <<>>)
          [] t = 3 -> <<begin>>
                      \o (IF whole \/ got # <<>> THEN <<Cb(v, "Bytes", i, <<n, 0>> \o got)>> ELSE <<>>))

FixlenValue(h, s, v, i, policy) ==
  IF h.v \div 8 > ArrayMax \/ h.v % 8 > 3 \/ (h.v % 8 < 2 /\ ~IsFloat(h.v)) THEN Bad
  ELSE Payload(h, v, i, h.v % 8, h.v \div 8, Upto(s, h.v \div 8), policy)

LOCAL ArrayOf(h, kind, v, i, is, n, elems) ==
  Value(is, n, <<Cb(v, "ArrayBegin", i, <<kind, h.v>>)>> \o elems
               \o (IF is = "ok" THEN <<Cb(v, "ArrayEnd", i, <<>>)>> ELSE <<>>))

LOCAL IntegersOf(h, r, v, i, signed) ==
  ArrayOf(h, IF signed THEN 1 ELSE 0, v, i, r.is, h.n + r.n,
    [k \in 1 .. Len(r.vs) |->
       IF signed THEN Cb(v, "ArraySigned", i, <<k - 1, ZigzagDecode(r.vs[k])>>)
                 ELSE Cb(v, "ArrayUnsigned", i, <<k - 1, r.vs[k]>>)])
IntArrayValue(h, s, v, i, signed) ==
  IF h.v > ArrayMax THEN Bad ELSE IntegersOf(h, Numbers(s, h.v), v, i, signed)

LOCAL Floats(h, w, body, size, v, i) ==
  LET full == Len(body) \div size IN
  ArrayOf(h, 2 + (w.v % 8), v, i, IF full = h.v THEN "ok" ELSE "short", h.n + w.n + h.v * size,
    [k \in 1 .. full |->
       Cb(v, IF w.v % 8 = 0 THEN "ArrayFloat32" ELSE "ArrayFloat64", i,
          <<k - 1>> \o SubSeq(body, (k - 1) * size + 1, k * size))])
LOCAL FloatsOf(h, w, s, v, i) ==
  CASE w.is # "ok" -> Value(w.is, 0, <<>>)
    [] w.is = "ok" /\ ~IsFloat(w.v) -> Bad
    [] OTHER -> Floats(h, w, Upto(From(s, w.n), h.v * (w.v \div 8)), w.v \div 8, v, i)
FloatArrayValue(h, s, v, i) ==
  IF h.v > ArrayMax THEN Bad ELSE FloatsOf(h, Number(s), s, v, i)

LOCAL ValueFrom(h, s, v, i, t, policy) ==
  CASE h.is # "ok"                -> Value(h.is, 0, <<>>)
    [] h.is = "ok" /\ t \in {0, 1} -> ScalarValue(h, v, i, t = 1)
    [] h.is = "ok" /\ t = 2        -> FixlenValue(h, s, v, i, policy)
    [] h.is = "ok" /\ t \in {3, 4} -> IntArrayValue(h, s, v, i, t = 4)
    [] h.is = "ok" /\ t = 5        -> FloatArrayValue(h, s, v, i)
FieldValue(s, v, i, t, policy) ==
  LET h == Number(s) IN ValueFrom(h, From(s, h.n), v, i, t, policy)

(* A parse: the bytes s left, the scopes open, the next visitor's number,   *)
(* the callbacks so far and, once it has ended, its outcome.  A scope is    *)
(* [v, said]: its visitor, 0 when it is declined or in a declined one, and  *)
(* whether its string policy was delivered.                                *)
LOCAL Start(s, root) ==
  [s |-> s, open |-> <<[v |-> root, said |-> FALSE]>>, next |-> root + 1, cbs |-> <<>>, out |-> ""]
LOCAL Stop(r, out) == [r EXCEPT !.out = out]
LOCAL To(r) == Last(r.open).v
LOCAL Says(r, cbs) == [r EXCEPT !.cbs = @ \o (IF To(r) = 0 THEN <<>> ELSE cbs)]

LOCAL Entered(r, i, child) ==
  [Says(r, <<Cb(To(r), "BeginSequence", i, <<child>>)>>) EXCEPT
     !.open = Append(@, [v |-> child, said |-> FALSE]),
     !.next = IF child = 0 THEN @ ELSE @ + 1]
LOCAL Open(r, i) ==
  IF Len(r.open) > MaxDepth THEN Stop(r, "Invalid")
  ELSE Entered(r, i, IF To(r) # 0
                        /\ "ok" \in Answers(Cb(To(r), "BeginSequence", i, <<r.next>>))
                     THEN r.next ELSE 0)

LOCAL Close(r) ==
  IF Len(r.open) = 1 THEN Stop(r, "Invalid")
  ELSE [Says(r, <<Cb(To(r), "EndSequence", 0, <<>>)>>) EXCEPT !.open = Front(@)]

LOCAL Policy(r) ==
  IF To(r) \in PolicyVisitors /\ ~Last(r.open).said
  THEN <<Cb(To(r), "SetStringCheck", 0, <<>>)>> ELSE <<>>
LOCAL HasString(cbs) == \E k \in DOMAIN cbs : cbs[k].m = "FixlenBegin" /\ cbs[k].args[1] = 2
LOCAL Took(r, f) ==
  [Says(r, f.cbs) EXCEPT
     !.s    = From(@, f.n),
     !.open = Append(Front(@), [Last(@) EXCEPT !.said = @ \/ HasString(f.cbs)]),
     !.out  = CASE f.is = "bad" -> "Invalid" [] f.is = "short" -> "Incomplete" [] f.is = "ok" -> ""]

LOCAL Item(r, i, t) ==
  CASE i > IDMax             -> Stop(r, "Invalid")
    [] i <= IDMax /\ t = 6    -> Open(r, i)
    [] i <= IDMax /\ t = 7    -> Close(r)
    [] i <= IDMax /\ t \notin {6, 7} -> Took(r, FieldValue(r.s, To(r), i, t, Policy(r)))
LOCAL Headed(r, h) ==
  CASE h.is = "short" -> Stop(r, "Incomplete")
    [] h.is = "bad"   -> Stop(r, "Invalid")
    [] h.is = "ok"    -> Item([r EXCEPT !.s = From(@, h.n)], h.v \div 8, h.v % 8)
LOCAL NextItem(r) ==
  IF r.s = <<>> THEN Stop(r, IF Len(r.open) = 1 THEN "Complete" ELSE "Incomplete")
                ELSE Headed(r, Number(r.s))

(* Every step takes a byte or ends the parse. *)
Fields(s, root) ==
  FoldLeft(LAMBDA r, k : IF r.out = "" THEN NextItem(r) ELSE r, Start(s, root), Count(Len(s) + 1))

(* A visitor's error ends the decode: nothing after it is delivered. *)
LOCAL Heard(r, fails) ==
  IF fails = {}
  THEN [out |-> r.out, err |-> IF r.out = "Invalid" THEN "ErrInvalidMsg" ELSE "nil", cbs |-> r.cbs]
  ELSE [out |-> "Invalid", err |-> "visitorErr",
        cbs |-> SubSeq(r.cbs, 1, CHOOSE k \in fails : \A j \in fails : k <= j)]
LOCAL HeardAll(r) ==
  Heard(r, {k \in DOMAIN r.cbs : r.cbs[k].m # "SetStringCheck" /\ "error" \in Answers(r.cbs[k])})
Parse(s, root) == HeardAll(Fields(s, root))
=============================================================================
