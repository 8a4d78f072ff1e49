-------------------------- MODULE CollectorsProofs --------------------------
(***************************************************************************)
(* Theorems about Collectors: the type invariant, what a collector holds of *)
(* the field in progress, that no two elements share storage however often  *)
(* a destination is decoded into, that a header allocates nothing, and that *)
(* the destination reads as WrapperArray promises.                         *)
(*                                                                         *)
(* The inductive invariant is about the headers of the destination by their *)
(* paths (Tree of SlicesProofs): a pointer moves when a slice grows, a path *)
(* does not.                                                               *)
(***************************************************************************)
EXTENDS Collectors, SlicesProofs

(* How deep headers go, and the row that is open, 0 for the field itself.  *)
Levels == Depth + (IF HoldsSlices THEN 1 ELSE 0)
LeafRow == IF array.nested THEN path[1] + 1 ELSE 0
LeafSlice == At(mem, LeafRow, 0)

Bytewise == Leaf.kind \in {"String", "Blob"}
OwnField == now # NoField /\ now.own

(* The field in progress is one of the wire's, of an element.              *)
NowInv ==
  /\ now = [id |-> now.id, own |-> now.own, told |-> now.told, want |-> now.want, off |-> now.off]
  /\ now # NoField =>
       /\ now.id \in Ids /\ now.own \in BOOLEAN /\ now.told \in BOOLEAN
       /\ now.want \in Leaf.offers /\ now.off \in 0 .. Len(now.want)
       /\ InLeaf /\ Leaf.kind # "Message" /\ (now.told \/ now.own)

(* Where the decoder is, and what the collectors point to for it.          *)
PathInv ==
  /\ path \in Seq(Ids) /\ Len(path) \in 0 .. Depth + 1
  /\ out = IF Len(path) >= Depth THEN PtrTo(mem, LeafRow) ELSE Nowhere
  /\ array.nested /\ path # <<>> => LeafRow <= At(mem, 0, 0).len
  /\ IF Len(path) = Depth + 1
     THEN /\ Leaf.kind = "Message" /\ elem = [buf |-> LeafSlice.buf, i |-> Last(path) + 1]
          /\ Last(path) + 1 <= LeafSlice.len
     ELSE elem = Nowhere

(* What a collector holds is the field's in progress: the bytes put         *)
(* together are in a buffer of their own, the row being built in one of its *)
(* own or in that of its stale slot.                                       *)
AccInv ==
  IF OwnField /\ Bytewise /\ now.off > 0
  THEN /\ SliceIn(mem, coll.acc) /\ coll.acc.len = now.off
       /\ coll.acc.buf \in 2 .. Len(mem) /\ Unused(mem, Levels, coll.acc.buf)
  ELSE coll.acc = Nil
CurInv ==
  IF OwnField /\ Leaf.kind \in Matrix
  THEN /\ SliceIn(mem, coll.cur) /\ coll.cur.len = now.off /\ coll.cur.buf # 1
       /\ \A i, j : In(mem, Levels, i, j) /\ coll.cur.buf # 0 /\ At(mem, i, j).buf = coll.cur.buf =>
            /\ i = SlotI(LeafRow, now.id + 1) /\ j = SlotJ(LeafRow, now.id + 1)
            /\ now.id >= LeafSlice.len
  ELSE coll.cur = Nil
CollInv ==
  /\ coll = [acc |-> coll.acc, cur |-> coll.cur, declined |-> coll.declined, check |-> coll.check]
  /\ coll.declined \in BOOLEAN /\ coll.check \in [waived : BOOLEAN]
  /\ coll.declined <=> now # NoField /\ ~now.own /\ Leaf.kind \in Matrix
  /\ AccInv /\ CurInv

PlainInv ==
  /\ array \in Arrays /\ limits \in [strictUTF8 : BOOLEAN, maxDepth : Int]
  /\ err \in {"ok", "InvalidMsg", "LimitExceeded", "Argument"}

Inv == PlainInv /\ Tree(mem, Levels) /\ NowInv /\ PathInv /\ CollInv

-----------------------------------------------------------------------------
(* newLimits: the options one after the other give limits.                 *)
LEMMA LimitsTyped ==
  ASSUME NEW opts \in Seq(Option)
  PROVE  NewLimits(opts) \in [strictUTF8 : BOOLEAN, maxDepth : Int]
<1> DEFINE T == [strictUTF8 : BOOLEAN, maxDepth : Int]
           N == Len(opts)
           Is(f, k) == f = [j \in 0 .. k |-> IF j = 0 THEN Default
                                             ELSE [f[j - 1] EXCEPT ![opts[j].sets] = opts[j].to]]
           Good(k) == \E f : Is(f, k) /\ \A j \in 0 .. k : f[j] \in T
           Without == {w \in Nat : w <= N /\ ~Good(w)}
<1>1. N \in Nat /\ \A j \in 1 .. N : opts[j] \in Option
  BY LenProperties, ElementOfSeq
<1>2. ASSUME NEW l \in T, NEW o \in Option PROVE [l EXCEPT ![o.sets] = o.to] \in T
  <2>1. CASE o \in [sets : {"maxDepth"}, to : Int]
    BY <2>1
  <2>2. CASE o \in [sets : {"strictUTF8"}, to : BOOLEAN]
    BY <2>2
  <2> QED BY <2>1, <2>2 DEF Option
<1>3. Default \in T
  BY DEF Default
<1>4. Without = {}
  <2>1. SUFFICES ASSUME Without # {} PROVE FALSE
    OBVIOUS
  <2>2. PICK x \in Without : \A y \in Without : x <= y
    <3>1. Without \subseteq Nat
      OBVIOUS
    <3> HIDE DEF Without
    <3> QED BY <2>1, <3>1, LeastNatural
  <2>3. x \in Nat /\ x <= N /\ ~Good(x)
    BY <2>2
  <2>4. x # 0
    <3> DEFINE f == [j \in 0 .. 0 |-> Default]
    <3>1. Is(f, 0)
      OBVIOUS
    <3>2. \A j \in 0 .. 0 : f[j] \in T
      BY <1>3
    <3> QED BY <2>3, <3>1, <3>2
  <2>5. x - 1 \in Nat /\ ~(x <= x - 1) /\ x - 1 <= N /\ x \in 1 .. N
    BY <1>1, <2>3, <2>4
  <2>6. Good(x - 1)
    BY <2>2, <2>5
  <2> HIDE DEF T
  <2>7. PICK f : Is(f, x - 1) /\ \A j \in 0 .. x - 1 : f[j] \in T
    BY <2>6
  <2> DEFINE more == [f[x - 1] EXCEPT ![opts[x].sets] = opts[x].to]
             g == [j \in 0 .. x |-> IF j = x THEN more ELSE f[j]]
  <2>8. more \in T
    <3>1. x - 1 \in 0 .. x - 1
      BY <2>5
    <3>2. f[x - 1] \in T
      BY <2>7, <3>1, Zenon
    <3>3. opts[x] \in Option
      BY <1>1, <2>5, Zenon
    <3> QED BY <1>2, <3>2, <3>3, Zenon
  <2>9. ASSUME NEW j \in 0 .. x
        PROVE  /\ g[j] = IF j = 0 THEN Default ELSE [g[j - 1] EXCEPT ![opts[j].sets] = opts[j].to]
               /\ g[j] \in T
    <3>1. CASE j = x
      <4>1. x - 1 \in 0 .. x /\ x - 1 # x /\ x \in 0 .. x
        BY <2>5
      <4>2. g[x - 1] = f[x - 1] /\ g[x] = more
        BY <4>1, Zenon
      <4> QED BY <2>4, <2>8, <3>1, <4>2, Zenon
    <3>2. CASE j # x
      <4>1. j \in 0 .. x - 1 /\ (j # 0 => j - 1 \in 0 .. x /\ j - 1 # x)
        BY <2>5, <3>2
      <4>2. f[j] = IF j = 0 THEN Default ELSE [f[j - 1] EXCEPT ![opts[j].sets] = opts[j].to]
        BY <2>7, <4>1, Zenon
      <4>3. g[j] = f[j] /\ (j # 0 => g[j - 1] = f[j - 1])
        BY <3>2, <4>1, Zenon
      <4> QED BY <2>7, <4>1, <4>2, <4>3, Zenon
    <3> QED BY <3>1, <3>2
  <2>10. Is(g, x)
    <3>1. g = [j \in 0 .. x |-> g[j]]
      OBVIOUS
    <3> HIDE DEF g
    <3> QED BY <2>9, <3>1
  <2> HIDE DEF g, Is
  <2> QED BY <2>3, <2>9, <2>10
<1>5. Good(N)
  <2> HIDE DEF Good
  <2> QED BY <1>1, <1>4
<1> DEFINE l == CHOOSE f : Is(f, N)
<1> HIDE DEF T
<1>6. PICK f : Is(f, N) /\ \A j \in 0 .. N : f[j] \in T
  BY <1>5
<1>7. Is(l, N)
  BY <1>6
<1>8. NewLimits(opts) = l[N]
  BY Zenon DEF NewLimits
<1> HIDE DEF l
<1>9. \A j \in 0 .. N : l[j] \in T
  <2> DEFINE Off == {w \in Nat : w <= N /\ l[w] \notin T}
  <2>1. SUFFICES ASSUME Off # {} PROVE FALSE
    BY <1>1
  <2>2. PICK x \in Off : \A y \in Off : x <= y
    <3>1. Off \subseteq Nat
      OBVIOUS
    <3> HIDE DEF Off
    <3> QED BY <2>1, <3>1, LeastNatural
  <2>3. x \in 0 .. N /\ x \in Nat /\ l[x] \notin T
    BY <1>1, <2>2
  <2>4. l[x] = IF x = 0 THEN Default ELSE [l[x - 1] EXCEPT ![opts[x].sets] = opts[x].to]
    BY <1>7, <2>3, Zenon
  <2>5. x # 0
    BY <1>3, <2>3, <2>4 DEF T
  <2>6. x - 1 \in Nat /\ ~(x <= x - 1) /\ x - 1 <= N /\ x \in 1 .. N
    BY <1>1, <2>3, <2>5
  <2>7. l[x - 1] \in T
    BY <2>2, <2>6
  <2> QED BY <1>1, <1>2, <2>3, <2>4, <2>5, <2>6, <2>7
<1> QED BY <1>1, <1>8, <1>9 DEF T

-----------------------------------------------------------------------------
(* The array described, by its Go types.                                   *)
LEMMA ArrayTyped ==
  ASSUME array \in Arrays
  PROVE  /\ array.nested \in BOOLEAN /\ Depth \in 0 .. 1 /\ Levels \in 0 .. 2 /\ Depth \in Nat
         /\ (array.nested <=> Depth = 1)
         /\ (HoldsSlices => Levels = Depth + 1) /\ (~HoldsSlices => Levels = Depth)
         /\ array.count \in Int /\ Leaf.count \in Int /\ Leaf.default \in Seq(Int)
         /\ Leaf.kind \in {"String", "Blob", "Message"} \cup Matrix
         /\ HoldsSlices <=> Leaf.kind \in Matrix \cup {"Blob"}
<1>1. /\ array.nested \in BOOLEAN /\ array.count \in Int /\ array.leaf.count \in Int
      /\ array.leaf.default \in Seq(Int) /\ array.leaf.kind \in {"String", "Blob", "Message"} \cup Matrix
  BY ArraysAssumption
<1>2. Depth \in 0 .. 1 /\ (array.nested <=> Depth = 1) /\ Depth \in Nat
  BY <1>1 DEF Depth
<1> QED BY <1>1, <1>2 DEF Levels, Leaf, HoldsSlices

(* What the wire offers.                                                   *)
LEMMA OfferListed ==
  ASSUME array \in Arrays, NEW want \in Leaf.offers
  PROVE  Listed(want) /\ Len(want) \in Nat /\ \A i \in 1 .. Len(want) : want[i] \in Int
<1>1. want \in Seq(Int)
  <2>1. want \in Seq(IF array.leaf.kind \in {"Unsigned", "Bool"} THEN Nat ELSE Int)
    BY ArraysAssumption DEF Leaf
  <2>2. Seq(Nat) \subseteq Seq(Int)
    OBVIOUS
  <2> QED BY <2>1, <2>2
<1> QED BY <1>1, SeqIsListed, LenProperties, ElementOfSeq

(* The bounds say ok or why not.                                           *)
LEMMA VerdictIsOne ==
  ASSUME array \in Arrays, NEW id, NEW n
  PROVE  /\ IndexVerdict(id) \in {"ok", "InvalidMsg", "LimitExceeded", "Argument"}
         /\ Verdict(id, n) \in {"ok", "InvalidMsg", "LimitExceeded", "Argument"}
         /\ \A cap, rcap : OverIndex(id, cap, rcap) \in {"ok", "InvalidMsg", "LimitExceeded", "Argument"}
BY DEF IndexVerdict, Verdict, OverIndex, OverLen

(* The leaf's collector is open: its slice is in the tree.                 *)
LEMMA WhereLeaf ==
  ASSUME Inv, Len(path) >= Depth
  PROVE  /\ In(mem, Levels, LeafRow, 0) /\ out = PtrTo(mem, LeafRow) /\ LeafRow \in Nat
         /\ (LeafRow = 0 <=> ~array.nested)
         /\ (HoldsSlices => Leafy(Levels, LeafRow) /\ (IF LeafRow = 0 THEN Levels >= 1 ELSE Levels = 2))
         /\ (~HoldsSlices => Bare(Levels, LeafRow) /\ ~(IF LeafRow = 0 THEN Levels >= 1 ELSE Levels = 2))
<1>1. array \in Arrays /\ Tree(mem, Levels) /\ path \in Seq(Ids) /\ out = PtrTo(mem, LeafRow)
  BY DEF Inv, PlainInv, PathInv
<1>2. /\ array.nested \in BOOLEAN /\ Levels \in 0 .. 2 /\ Depth = (IF array.nested THEN 1 ELSE 0)
      /\ Levels = Depth + (IF HoldsSlices THEN 1 ELSE 0)
  BY <1>1, ArrayTyped DEF Levels, Depth
<1>3. CASE ~array.nested
  BY <1>1, <1>2, <1>3 DEF LeafRow, In, Leafy, Bare
<1>4. CASE array.nested
  <2>1. path # <<>> /\ Len(path) \in Nat /\ Len(path) >= 1 /\ path[1] \in Ids /\ Ids \subseteq Nat
    BY <1>1, <1>2, <1>4, LenProperties, ElementOfSeq, ArraysAssumption
  <2>2. LeafRow = path[1] + 1 /\ LeafRow \in Nat /\ LeafRow # 0 /\ LeafRow >= 1
    <3>1. path[1] \in Nat
      BY <2>1
    <3>2. LeafRow = path[1] + 1
      BY <1>4 DEF LeafRow
    <3> QED BY <3>1, <3>2
  <2>3. LeafRow <= At(mem, 0, 0).len
    BY <1>4, <2>1 DEF Inv, PathInv
  <2>4. In(mem, Levels, 0, 0)
    BY DEF In
  <2>5. LeafRow \in 1 .. Cap(mem, At(mem, 0, 0))
    BY <1>1, <1>2, <2>2, <2>3, <2>4, TreeHas
  <2>6. In(mem, Levels, LeafRow, 0)
    BY <1>2, <1>4, <2>5 DEF In
  <2> QED BY <1>1, <1>2, <1>4, <2>2, <2>6 DEF Leafy, Bare
<1> QED BY <1>2, <1>3, <1>4

(* The array is the same, and with it what is said of it.                  *)
LEMMA SameArray ==
  ASSUME array' = array
  PROVE  /\ Leaf' = Leaf /\ Depth' = Depth /\ Levels' = Levels /\ (HoldsSlices' <=> HoldsSlices)
         /\ (Bytewise' <=> Bytewise)
BY DEF Leaf, Depth, Levels, HoldsSlices, Bytewise

(* A callback that fails leaves everything but the verdict.                *)
LEMMA FailKeeps ==
  ASSUME Inv, NEW e \in {"ok", "InvalidMsg", "LimitExceeded", "Argument"}, Fail(e)
  PROVE  Inv'
<1>1. UNCHANGED <<array, mem, limits, out, coll, elem, path, now>> /\ err' = e
  BY DEF Fail
<1>2. PlainInv'
  BY <1>1 DEF Inv, PlainInv
<1>3. Levels' = Levels /\ Leaf' = Leaf /\ Depth' = Depth
  BY <1>1, SameArray
<1>4. Tree(mem, Levels)' /\ NowInv'
  BY <1>1, <1>3 DEF Inv, NowInv, InLeaf
<1>5. LeafRow' = LeafRow /\ LeafSlice' = LeafSlice
  BY <1>1 DEF LeafRow, LeafSlice
<1>6. PathInv'
  BY <1>1, <1>3, <1>5 DEF Inv, PathInv
<1>7. CollInv'
  BY <1>1, <1>3, <1>5 DEF Inv, CollInv, AccInv, CurInv, OwnField, Bytewise
<1> QED BY <1>2, <1>4, <1>6, <1>7 DEF Inv

(* Between two fields a collector holds nothing.                           *)
LEMMA IdleColl ==
  ASSUME Inv, now = NoField
  PROVE  coll.acc = Nil /\ coll.cur = Nil /\ coll.declined = FALSE
         /\ coll.check \in [waived : BOOLEAN]
BY DEF Inv, CollInv, AccInv, CurInv, OwnField

(* A field has ended, and nothing of it is held.                           *)
LEMMA IdleInv ==
  ASSUME now' = NoField, coll' = [acc |-> coll'.acc, cur |-> coll'.cur, declined |-> coll'.declined,
                                  check |-> coll'.check],
         coll'.acc = Nil, coll'.cur = Nil, coll'.declined = FALSE, coll'.check \in [waived : BOOLEAN]
  PROVE  NowInv' /\ CollInv'
<1>1. NowInv'
  BY DEF NowInv, NoField
<1>2. AccInv' /\ CurInv'
  BY DEF AccInv, CurInv, OwnField
<1> QED BY <1>1, <1>2 DEF CollInv

(* The scopes are what they were, where the headers are.                   *)
LEMMA PathSame ==
  ASSUME Inv, UNCHANGED <<array, out, elem, path>>, SameHeaders(mem, mem', Levels)
  PROVE  /\ PathInv' /\ LeafRow' = LeafRow
         /\ Len(path) >= Depth => LeafSlice' = LeafSlice
<1>1. Levels' = Levels /\ Leaf' = Leaf /\ Depth' = Depth /\ LeafRow' = LeafRow
  BY SameArray DEF LeafRow
<1>2. In(mem, Levels, 0, 0) /\ At(mem', 0, 0) = At(mem, 0, 0)
  BY DEF SameHeaders, In
<1>3. Len(path) >= Depth => LeafSlice' = LeafSlice /\ PtrTo(mem', LeafRow) = PtrTo(mem, LeafRow)
  <2>1. Len(path) >= Depth => In(mem, Levels, LeafRow, 0)
    BY WhereLeaf
  <2>2. Len(path) >= Depth => At(mem', LeafRow, 0) = At(mem, LeafRow, 0)
    BY <2>1 DEF SameHeaders
  <2> QED BY <1>1, <1>2, <2>2 DEF LeafSlice, PtrTo
<1>4. PathInv
  BY DEF Inv
<1>5. out' = IF Len(path') >= Depth' THEN PtrTo(mem', LeafRow') ELSE Nowhere
  BY <1>1, <1>3, <1>4 DEF PathInv
<1>6. array.nested /\ path # <<>> => LeafRow <= At(mem', 0, 0).len
  BY <1>2, <1>4 DEF PathInv
<1>7. IF Len(path) = Depth + 1
      THEN /\ Leaf.kind = "Message" /\ elem = [buf |-> LeafSlice'.buf, i |-> Last(path) + 1]
           /\ Last(path) + 1 <= LeafSlice'.len
      ELSE elem = Nowhere
  <2>1. CASE Len(path) = Depth + 1
    <3>1. Len(path) >= Depth
      BY <2>1 DEF Depth
    <3> QED BY <1>3, <1>4, <2>1, <3>1 DEF PathInv
  <2>2. CASE Len(path) # Depth + 1
    BY <1>4, <2>2 DEF PathInv
  <2> QED BY <2>1, <2>2
<1>8. path' \in Seq(Ids) /\ Len(path') \in 0 .. Depth' + 1
  BY <1>1, <1>4 DEF PathInv
<1>9. PathInv'
  BY <1>1, <1>5, <1>6, <1>7, <1>8 DEF PathInv
<1> QED BY <1>1, <1>3, <1>9

(* The scopes are what they were, where the leaf has changed.              *)
LEMMA PathPlaced ==
  ASSUME Inv, UNCHANGED <<array, out, elem, path>>, InLeaf, Placed(mem, mem', Levels, LeafRow)
  PROVE  PathInv' /\ LeafRow' = LeafRow /\ Tree(mem, Levels)'
<1>1. Levels' = Levels /\ Leaf' = Leaf /\ Depth' = Depth /\ LeafRow' = LeafRow
  BY SameArray DEF LeafRow
<1>2. /\ Tree(mem', Levels) /\ PtrTo(mem', LeafRow) = PtrTo(mem, LeafRow)
      /\ LeafRow # 0 => At(mem', 0, 0) = At(mem, 0, 0)
  BY DEF Placed
<1>3. array \in Arrays /\ Depth \in Nat /\ Len(path) = Depth /\ PathInv
  BY ArrayTyped DEF Inv, PlainInv, InLeaf
<1>4. Len(path) >= Depth /\ Len(path) # Depth + 1
  BY <1>3
<1>5. array.nested => LeafRow # 0
  BY <1>4, WhereLeaf
<1>6. out' = IF Len(path') >= Depth' THEN PtrTo(mem', LeafRow') ELSE Nowhere
  BY <1>1, <1>2, <1>3, <1>4 DEF PathInv
<1>7. array.nested /\ path # <<>> => LeafRow <= At(mem', 0, 0).len
  BY <1>2, <1>3, <1>5 DEF PathInv
<1>8. elem = Nowhere
  BY <1>3, <1>4 DEF PathInv
<1>9. path' \in Seq(Ids) /\ Len(path') \in 0 .. Depth' + 1
  BY <1>1, <1>3 DEF PathInv
<1>10. PathInv'
  BY <1>1, <1>4, <1>6, <1>7, <1>8, <1>9 DEF PathInv
<1> QED BY <1>1, <1>2, <1>10

(* A memory that grew by buffers of its own.                               *)
LEMMA NewBuffers ==
  ASSUME NEW n \in 0 .. 2, NEW m, Tree(m, n), NEW t, Kept(m, t, {})
  PROVE  /\ SameHeaders(m, t, n) /\ Tree(t, n) /\ Len(m) \in Nat /\ Len(t) \in Nat /\ Len(t) >= Len(m)
         /\ \A b : Unused(m, n, b) => Unused(t, n, b)
         /\ \A b : b \in Len(m) + 1 .. Len(t) => Unused(t, n, b) /\ b # 1 /\ b # 0
<1>1. Len(m) \in Nat /\ Len(t) \in Nat /\ Len(t) >= Len(m) /\ Len(m) >= 1
  BY DEF Tree, Memory, Listed, Kept
<1>2. SameHeaders(m, t, n) /\ Tree(t, n) /\ \A b : Unused(m, n, b) => Unused(t, n, b)
  <2>1. SameHeaders(m, t, n)
    BY ElsewhereSame
  <2> QED BY <2>1, SameHeadersTree
<1>3. ASSUME NEW b, b \in Len(m) + 1 .. Len(t) PROVE Unused(t, n, b) /\ b # 1 /\ b # 0
  <2>1. b \notin 0 .. Len(m)
    BY <1>1, <1>3
  <2>2. Unused(m, n, b)
    BY <2>1, TreeHas DEF Unused
  <2> QED BY <1>1, <1>2, <1>3, <2>2
<1> QED BY <1>1, <1>2, <1>3

-----------------------------------------------------------------------------
(* What a header or a payload may be taken up from.                        *)
LEMMA StartsFrom ==
  ASSUME Inv, NEW id, Starts(id)
  PROVE  /\ now = NoField /\ err = "ok" /\ id \in Ids /\ id \in Nat /\ array \in Arrays
         /\ coll.acc = Nil /\ coll.cur = Nil /\ coll.declined = FALSE
         /\ coll.check \in [waived : BOOLEAN]
         /\ coll = [acc |-> coll.acc, cur |-> coll.cur, declined |-> coll.declined, check |-> coll.check]
BY IdleColl, ArraysAssumption DEF Starts, Ready, Inv, PlainInv, CollInv

(* A field has been announced: what it is, and that nothing of it is held.  *)
LEMMA Begun ==
  ASSUME Inv, array' = array, path' = path, InLeaf, Leaf.kind # "Message",
         NEW id \in Ids, NEW own \in BOOLEAN, NEW told \in BOOLEAN, told \/ own,
         NEW want \in Leaf.offers,
         now' = [id |-> id, own |-> own, told |-> told, want |-> want, off |-> 0]
  PROVE  NowInv' /\ now' # NoField
<1>1. Leaf' = Leaf /\ InLeaf' /\ Len(want) \in Nat
  BY SameArray, OfferListed DEF InLeaf, Inv, PlainInv
<1>2. now'.id = id /\ now'.own = own /\ now'.told = told /\ now'.want = want /\ now'.off = 0
  OBVIOUS
<1>3. now' # NoField
  <2>1. id \in Nat
    BY ArraysAssumption
  <2> QED BY <1>2, <2>1 DEF NoField
<1>4. now'.off \in 0 .. Len(now'.want)
  BY <1>1, <1>2
<1> QED BY <1>1, <1>2, <1>3, <1>4 DEF NowInv

(* PieceByHand and FixlenBegin: nothing is held yet.                       *)
LEMMA BytesBegun ==
  ASSUME Inv, array' = array, Bytewise, now = NoField, now' # NoField, now'.off = 0,
         coll' = [coll EXCEPT !.check = coll'.check], coll'.check \in [waived : BOOLEAN]
  PROVE  CollInv'
<1>1. /\ coll.acc = Nil /\ coll.cur = Nil /\ coll.declined = FALSE /\ Leaf' = Leaf /\ Leaf.kind \notin Matrix
      /\ coll = [acc |-> coll.acc, cur |-> coll.cur, declined |-> coll.declined, check |-> coll.check]
  BY IdleColl, SameArray DEF Inv, CollInv, Bytewise, Matrix
<1>2. coll' = [acc |-> Nil, cur |-> Nil, declined |-> FALSE, check |-> coll'.check]
  BY <1>1
<1>3. coll'.acc = Nil /\ coll'.cur = Nil /\ coll'.declined = FALSE
  BY <1>2
<1>4. AccInv' /\ CurInv'
  BY <1>1, <1>3 DEF AccInv, CurInv
<1> QED BY <1>1, <1>2, <1>3, <1>4 DEF CollInv

(* A payload without its header.                                           *)
LEMMA PieceByHandKeeps ==
  ASSUME Inv, NEW id, NEW want \in Leaf.offers, PieceByHand(id, want) PROVE Inv'
<1>1. /\ UNCHANGED <<array, mem, limits, out, coll, elem, path, err>> /\ InLeaf /\ Starts(id) /\ Bytewise
      /\ now' = [id |-> id, own |-> TRUE, told |-> FALSE, want |-> want, off |-> 0]
  BY DEF PieceByHand, Bytewise
<1>2. now = NoField /\ id \in Ids /\ coll.check \in [waived : BOOLEAN]
  BY <1>1, StartsFrom
<1>3. NowInv' /\ now' # NoField
  <2>1. Leaf.kind # "Message"
    BY <1>1 DEF Bytewise
  <2> QED BY <1>1, <1>2, <2>1, Begun
<1>4. CollInv'
  <2>1. coll' = [coll EXCEPT !.check = coll'.check] /\ now'.off = 0
    BY <1>1 DEF Inv, CollInv
  <2> QED BY <1>1, <1>2, <1>3, <2>1, BytesBegun
<1>5. PlainInv' /\ Tree(mem, Levels)' /\ PathInv'
  BY <1>1, SameArray DEF Inv, PlainInv, PathInv, LeafRow, LeafSlice
<1> QED BY <1>3, <1>4, <1>5 DEF Inv

(* The header of a string or of a blob.                                    *)
LEMMA FixlenBeginKeeps ==
  ASSUME Inv, NEW id, NEW subtype, NEW want \in Leaf.offers, FixlenBegin(id, subtype, want) PROVE Inv'
<1> DEFINE own == subtype = Leaf.kind
           verdict == IF own THEN Verdict(id, Len(want)) ELSE "ok"
<1>1. /\ InLeaf /\ Starts(id) /\ Bytewise
      /\ \/ verdict # "ok" /\ Fail(verdict)
         \/ /\ verdict = "ok" /\ Announced(id, own, want)
            /\ coll' = [coll EXCEPT !.check = IF Leaf.kind = "String" THEN Told(subtype) ELSE @]
            /\ UNCHANGED <<array, mem, limits, out, elem, path, err, decodes>>
  BY DEF FixlenBegin, Bytewise
<1>2. /\ now = NoField /\ id \in Ids /\ coll.check \in [waived : BOOLEAN] /\ array \in Arrays
      /\ coll = [acc |-> coll.acc, cur |-> coll.cur, declined |-> coll.declined, check |-> coll.check]
  BY <1>1, StartsFrom
<1>3. CASE verdict # "ok" /\ Fail(verdict)
  <2>1. verdict \in {"ok", "InvalidMsg", "LimitExceeded", "Argument"}
    BY <1>2, VerdictIsOne
  <2> QED BY <1>3, <2>1, FailKeeps
<1>4. CASE verdict = "ok" /\ Announced(id, own, want)
           /\ coll' = [coll EXCEPT !.check = IF Leaf.kind = "String" THEN Told(subtype) ELSE @]
           /\ UNCHANGED <<array, mem, limits, out, elem, path, err, decodes>>
  <2>1. now' = [id |-> id, own |-> own, told |-> TRUE, want |-> want, off |-> 0]
    BY <1>4 DEF Announced
  <2>2. own \in BOOLEAN
    OBVIOUS
  <2> HIDE DEF own
  <2>3. NowInv' /\ now' # NoField
    <3>1. Leaf.kind # "Message"
      BY <1>1 DEF Bytewise
    <3> QED BY <1>1, <1>2, <1>4, <2>1, <2>2, <3>1, Begun
  <2>4. coll' = [coll EXCEPT !.check = coll'.check] /\ coll'.check \in [waived : BOOLEAN] /\ now'.off = 0
    <3>1. Told(subtype) \in [waived : BOOLEAN]
      BY <1>2 DEF Told, StringCheck, Inv, PlainInv
    <3> DEFINE c == IF Leaf.kind = "String" THEN Told(subtype) ELSE coll.check
    <3>2. c \in [waived : BOOLEAN] /\ coll' = [coll EXCEPT !.check = c]
      BY <1>2, <1>4, <3>1
    <3> HIDE DEF c
    <3>3. coll' = [acc |-> coll.acc, cur |-> coll.cur, declined |-> coll.declined, check |-> c]
      BY <1>2, <3>2
    <3>4. coll'.check = c
      BY <3>3
    <3> QED BY <2>1, <3>2, <3>4
  <2>5. CollInv'
    BY <1>1, <1>2, <1>4, <2>3, <2>4, BytesBegun
  <2>6. PlainInv' /\ Tree(mem, Levels)' /\ PathInv'
    BY <1>4, SameArray DEF Inv, PlainInv, PathInv, LeafRow, LeafSlice
  <2> QED BY <2>3, <2>5, <2>6 DEF Inv
<1> QED BY <1>1, <1>3, <1>4

(* The header of a row: cur is over the stale slot, if any.                *)
LEMMA ArrayBeginKeeps ==
  ASSUME Inv, NEW id, NEW kind, NEW want \in Leaf.offers, ArrayBegin(id, kind, want) PROVE Inv'
<1> DEFINE own == kind = WireKind
           verdict == IF own THEN Verdict(id, Len(want)) ELSE "ok"
           opened == IF own THEN Opened(id, Len(want)) ELSE [mem |-> mem, val |-> coll.cur]
<1>1. /\ InLeaf /\ Starts(id) /\ Leaf.kind \in Matrix
      /\ IF verdict # "ok" THEN Fail(verdict)
         ELSE /\ Announced(id, own, want)
              /\ coll' = [coll EXCEPT !.declined = ~own, !.cur = opened.val]
              /\ mem' = opened.mem
              /\ UNCHANGED <<array, limits, out, elem, path, err, decodes>>
  BY DEF ArrayBegin
<1>2. /\ now = NoField /\ id \in Ids /\ id \in Nat /\ coll.check \in [waived : BOOLEAN] /\ array \in Arrays
      /\ coll = [acc |-> coll.acc, cur |-> coll.cur, declined |-> coll.declined, check |-> coll.check]
      /\ coll.acc = Nil /\ coll.cur = Nil
  BY <1>1, StartsFrom
<1>3. CASE verdict # "ok"
  <2>1. verdict \in {"ok", "InvalidMsg", "LimitExceeded", "Argument"}
    BY <1>2, VerdictIsOne
  <2> QED BY <1>1, <1>3, <2>1, FailKeeps
<1>4. CASE verdict = "ok"
  <2> DEFINE x == Truncated(Stale(mem, LeafSlice, id, Nil))
  <2>1. now' = [id |-> id, own |-> own, told |-> TRUE, want |-> want, off |-> 0]
    BY <1>1, <1>4 DEF Announced
  <2>2. own \in BOOLEAN
    OBVIOUS
  <2>3. /\ In(mem, Levels, LeafRow, 0) /\ out = PtrTo(mem, LeafRow) /\ Load(mem, out) = LeafSlice
        /\ (IF LeafRow = 0 THEN Levels >= 1 ELSE Levels = 2)
        /\ Levels \in 0 .. 2 /\ Tree(mem, Levels)
    <3>1. Len(path) >= Depth /\ Levels \in 0 .. 2 /\ HoldsSlices /\ Tree(mem, Levels)
      BY <1>1, <1>2, ArrayTyped DEF InLeaf, Inv
    <3> QED BY <3>1, WhereLeaf, PtrToHolds DEF LeafSlice
  <2>4. opened.mem = mem /\ opened.val = (IF own THEN x ELSE Nil)
    BY <1>2, <2>3 DEF Opened
  <2> HIDE DEF own, verdict, opened
  <2>5. /\ SliceIn(mem, x) /\ x.len = 0 /\ x.buf # 1
        /\ \A i, j : In(mem, Levels, i, j) /\ x.buf # 0 /\ At(mem, i, j).buf = x.buf =>
             i = SlotI(LeafRow, id + 1) /\ j = SlotJ(LeafRow, id + 1) /\ id >= LeafSlice.len
    <3> DEFINE v == Stale(mem, LeafSlice, id, Nil)
    <3>1. /\ SliceIn(mem, v) /\ v.buf # 1
          /\ \A i, j : In(mem, Levels, i, j) /\ v.buf # 0 /\ At(mem, i, j).buf = v.buf
               => i = SlotI(LeafRow, id + 1) /\ j = SlotJ(LeafRow, id + 1) /\ id >= At(mem, LeafRow, 0).len
      BY <1>2, <2>3, StaleHeader DEF LeafSlice
    <3> HIDE DEF v
    <3>2. v = [buf |-> v.buf, len |-> v.len] /\ x = [v EXCEPT !.len = 0]
      BY <3>1, Zenon DEF SliceIn, Truncated, v
    <3>3. x = [buf |-> v.buf, len |-> 0]
      BY <3>2
    <3>4. x.buf = v.buf /\ x.len = 0 /\ Cap(mem, x) = Cap(mem, v)
      BY <3>3 DEF Cap
    <3>5. Cap(mem, v) \in Nat
      BY <2>3, <3>1 DEF SliceIn, Cap, Tree, Memory, Listed
    <3>6. SliceIn(mem, x)
      BY <3>1, <3>3, <3>4, <3>5 DEF SliceIn
    <3> QED BY <3>1, <3>4, <3>6 DEF LeafSlice
  <2> HIDE DEF x
  <2>6. UNCHANGED <<array, mem, limits, out, elem, path, err>>
        /\ coll' = [coll EXCEPT !.declined = ~own, !.cur = opened.val]
    BY <1>1, <1>4, <2>4
  <2>7. NowInv' /\ now' # NoField
    <3>1. Leaf.kind # "Message"
      BY <1>1 DEF Matrix
    <3> QED BY <1>1, <1>2, <2>1, <2>2, <2>6, <3>1, Begun
  <2>8. coll' = [acc |-> Nil, cur |-> IF own THEN x ELSE Nil, declined |-> ~own, check |-> coll.check]
    BY <1>2, <2>4, <2>6
  <2>9. coll'.acc = Nil /\ coll'.cur = (IF own THEN x ELSE Nil) /\ coll'.declined = (~own)
        /\ coll'.check = coll.check /\ now'.own = own /\ now'.id = id /\ now'.off = 0
    BY <2>1, <2>8
  <2>10. Leaf' = Leaf /\ Levels' = Levels /\ LeafRow' = LeafRow /\ LeafSlice' = LeafSlice
    BY <2>6, SameArray DEF LeafRow, LeafSlice
  <2>11. AccInv'
    BY <2>9, <2>10 DEF AccInv
  <2>12. CurInv'
    <3>1. OwnField' <=> own
      BY <2>7, <2>9 DEF OwnField
    <3>2. CASE own
      <4>1. coll'.cur = x
        BY <2>9, <3>2
      <4> QED BY <1>1, <2>5, <2>6, <2>9, <2>10, <3>1, <3>2, <4>1 DEF CurInv
    <3>3. CASE ~own
      BY <2>9, <3>1, <3>3 DEF CurInv
    <3> QED BY <3>2, <3>3
  <2>13. CollInv'
    BY <1>1, <1>2, <2>2, <2>7, <2>8, <2>9, <2>10, <2>11, <2>12 DEF CollInv
  <2>14. PlainInv' /\ Tree(mem, Levels)' /\ PathInv'
    BY <2>6, SameArray DEF Inv, PlainInv, PathInv, LeafRow, LeafSlice
  <2> QED BY <2>7, <2>13, <2>14 DEF Inv
<1> QED BY <1>3, <1>4

(* A payload of another kind goes past: nothing is held of it.             *)
PieceSkipped(n) ==
  /\ now # NoField /\ Leaf.kind \in {"String", "Blob"} /\ ~now.own
  /\ n \in now.off .. Len(now.want)
  /\ now' = IF n = Len(now.want) THEN NoField ELSE [now EXCEPT !.off = n]
  /\ UNCHANGED <<array, mem, limits, out, coll, elem, path, err, decodes>>

(* A field goes on: what has arrived of it is n.                           *)
LEMMA GoneOn ==
  ASSUME Inv, array' = array, path' = path, now # NoField, NEW n, n \in now.off .. Len(now.want),
         now' = [now EXCEPT !.off = n]
  PROVE  /\ NowInv' /\ now'.off = n /\ now' # NoField /\ n \in Nat /\ Len(now.want) \in Nat
         /\ now'.own = now.own /\ now'.id = now.id /\ now'.want = now.want
<1>1. /\ now.id \in Ids /\ now.own \in BOOLEAN /\ now.told \in BOOLEAN
      /\ now.want \in Leaf.offers /\ now.off \in 0 .. Len(now.want)
      /\ InLeaf /\ Leaf.kind # "Message" /\ (now.told \/ now.own) /\ array \in Arrays
      /\ now = [id |-> now.id, own |-> now.own, told |-> now.told, want |-> now.want, off |-> now.off]
  BY DEF Inv, NowInv, PlainInv
<1>2. Len(now.want) \in Nat /\ Leaf' = Leaf /\ InLeaf' /\ now.id \in Nat
  BY <1>1, OfferListed, SameArray, ArraysAssumption DEF InLeaf
<1>3. now' = [id |-> now.id, own |-> now.own, told |-> now.told, want |-> now.want, off |-> n]
  BY <1>1
<1>4. now'.id = now.id /\ now'.own = now.own /\ now'.told = now.told /\ now'.want = now.want /\ now'.off = n
  BY <1>3
<1>5. now' # NoField
  BY <1>2, <1>4 DEF NoField
<1>6. n \in 0 .. Len(now.want) /\ n \in Nat
  BY <1>1, <1>2
<1>7. now' = [id |-> now'.id, own |-> now'.own, told |-> now'.told, want |-> now'.want, off |-> now'.off]
  BY <1>3, <1>4
<1>8. NowInv'
  BY <1>1, <1>2, <1>4, <1>6, <1>7 DEF NowInv
<1> QED BY <1>2, <1>4, <1>5, <1>6, <1>8

(* A piece of a field of another kind.                                     *)
LEMMA PieceSkippedKeeps ==
  ASSUME Inv, NEW n, PieceSkipped(n) PROVE Inv'
<1>1. /\ now # NoField /\ Bytewise /\ ~now.own /\ n \in now.off .. Len(now.want)
      /\ UNCHANGED <<array, mem, limits, out, coll, elem, path, err>>
      /\ now' = IF n = Len(now.want) THEN NoField ELSE [now EXCEPT !.off = n]
  BY DEF PieceSkipped, Bytewise
<1>2. /\ coll.acc = Nil /\ coll.cur = Nil /\ coll.declined = FALSE /\ coll.check \in [waived : BOOLEAN]
      /\ coll = [acc |-> coll.acc, cur |-> coll.cur, declined |-> coll.declined, check |-> coll.check]
      /\ Leaf.kind \notin Matrix
  BY <1>1 DEF Inv, CollInv, AccInv, CurInv, OwnField, Bytewise, Matrix
<1>3. PlainInv' /\ Tree(mem, Levels)' /\ PathInv'
  BY <1>1, SameArray DEF Inv, PlainInv, PathInv, LeafRow, LeafSlice
<1>4. CASE n = Len(now.want)
  <2>1. now' = NoField
    BY <1>1, <1>4
  <2>2. NowInv' /\ CollInv'
    BY <1>1, <1>2, <2>1, IdleInv
  <2> QED BY <1>3, <2>2 DEF Inv
<1>5. CASE n # Len(now.want)
  <2>1. NowInv' /\ now'.own = now.own
    <3>1. now' = [now EXCEPT !.off = n]
      BY <1>1, <1>5
    <3> QED BY <1>1, <3>1, GoneOn
  <2>2. CollInv'
    <3>1. ~OwnField' /\ Leaf' = Leaf
      BY <1>1, <2>1, SameArray DEF OwnField
    <3> QED BY <1>1, <1>2, <3>1 DEF CollInv, AccInv, CurInv
  <2> QED BY <1>3, <2>1, <2>2 DEF Inv
<1> QED BY <1>4, <1>5

(* A message element is open.                                              *)
LEMMA MessageOpen ==
  ASSUME Inv, elem # Nowhere
  PROVE  /\ Len(path) = Depth + 1 /\ Len(path) >= Depth /\ Leaf.kind = "Message"
         /\ elem = [buf |-> LeafSlice.buf, i |-> Last(path) + 1]
         /\ Last(path) \in Nat /\ Last(path) + 1 <= LeafSlice.len /\ path # <<>>
<1>1. /\ array \in Arrays /\ path \in Seq(Ids)
      /\ Len(path) = Depth + 1 /\ Leaf.kind = "Message"
      /\ elem = [buf |-> LeafSlice.buf, i |-> Last(path) + 1] /\ Last(path) + 1 <= LeafSlice.len
  BY DEF Inv, PathInv, PlainInv
<1>2. Depth \in Nat /\ Len(path) >= Depth /\ Len(path) >= 1 /\ path # <<>>
  BY <1>1, ArrayTyped
<1>3. Last(path) \in Ids
  BY <1>1, <1>2, ElementOfSeq, LenProperties DEF Last
<1> QED BY <1>1, <1>2, <1>3, ArraysAssumption

(* A message element is set in place.                                      *)
LEMMA SetMemberKeeps ==
  ASSUME Inv, NEW f, NEW v, SetMember(f, v) PROVE Inv'
<1> DEFINE s == LeafSlice
           x == [Load(mem, elem) EXCEPT ![f] = v]
<1>1. /\ now = NoField /\ elem # Nowhere /\ mem' = Save(mem, elem, x)
      /\ UNCHANGED <<array, limits, out, coll, elem, path, now, err>>
  BY DEF SetMember, Ready
<1> HIDE DEF x
<1>2. /\ Len(path) >= Depth /\ Leaf.kind = "Message" /\ elem = [buf |-> s.buf, i |-> Last(path) + 1]
      /\ Last(path) \in Nat /\ Last(path) + 1 <= s.len
  BY <1>1, MessageOpen
<1>3. /\ array \in Arrays /\ Levels \in 0 .. 2 /\ Tree(mem, Levels) /\ ~HoldsSlices
  BY <1>2, ArrayTyped DEF Inv, PlainInv, HoldsSlices, Matrix
<1>4. In(mem, Levels, LeafRow, 0) /\ Bare(Levels, LeafRow)
  BY <1>2, <1>3, WhereLeaf
<1>5. /\ Memory(mem) /\ s.len \in 0 .. Cap(mem, s) /\ s.buf \in 0 .. Len(mem) /\ Cap(mem, s) \in Nat
      /\ (s.buf = 0 => Cap(mem, s) = 0) /\ Len(mem) \in Nat
  BY <1>3, <1>4, TreeHas DEF LeafSlice
<1> HIDE DEF s
<1>6. Last(path) + 1 \in 1 .. Cap(mem, s) /\ s.buf # 0 /\ elem.buf = s.buf /\ elem.i = Last(path) + 1
  BY <1>2, <1>5
<1>7. PointsIn(mem, elem)
  <2>1. s.buf \in 1 .. Len(mem) /\ Last(path) + 1 \in 1 .. Len(mem[s.buf])
    BY <1>5, <1>6 DEF Cap
  <2> QED BY <1>6, <2>1 DEF PointsIn
<1>8. Kept(mem, mem', {At(mem, LeafRow, 0).buf})
  <2>1. OneCell(mem, Save(mem, elem, x), elem.buf, elem.i, x)
    BY <1>5, <1>7, Saved
  <2> QED BY <1>1, <1>6, <2>1 DEF OneCell, s, LeafSlice
<1>9. SameHeaders(mem, mem', Levels) /\ Tree(mem', Levels)
  BY <1>3, <1>4, <1>8, BareSame
<1>10. PathInv' /\ Levels' = Levels
  BY <1>1, <1>9, PathSame, SameArray
<1>11. NowInv' /\ CollInv'
  <2>1. /\ coll.acc = Nil /\ coll.cur = Nil /\ coll.declined = FALSE /\ coll.check \in [waived : BOOLEAN]
        /\ coll = [acc |-> coll.acc, cur |-> coll.cur, declined |-> coll.declined, check |-> coll.check]
    BY <1>1, IdleColl DEF Inv, CollInv
  <2> QED BY <1>1, <2>1, IdleInv
<1>12. PlainInv'
  BY <1>1 DEF Inv, PlainInv
<1> QED BY <1>9, <1>10, <1>11, <1>12 DEF Inv

(* A row, a message or an inner array ends.                                *)
LEMMA EndSequenceKeeps ==
  ASSUME Inv, EndSequence PROVE Inv'
<1>1. /\ now = NoField /\ path # <<>> /\ path' = Front(path) /\ elem' = Nowhere
      /\ out' = IF elem = Nowhere THEN Nowhere ELSE out
      /\ UNCHANGED <<array, mem, limits, coll, now, err>>
  BY DEF EndSequence, Ready, Left
<1>2. /\ array \in Arrays /\ path \in Seq(Ids) /\ Len(path) \in 0 .. Depth + 1 /\ PathInv
      /\ Leaf' = Leaf /\ Depth' = Depth /\ Levels' = Levels
  BY <1>1, SameArray DEF Inv, PlainInv, PathInv
<1>3. /\ Depth \in 0 .. 1 /\ (array.nested <=> Depth = 1) /\ array.nested \in BOOLEAN /\ Depth \in Nat
  BY <1>2, ArrayTyped
<1>4. Len(path) \in Nat /\ Len(path) >= 1
  BY <1>1, <1>2, LenProperties
<1>5. /\ path' \in Seq(Ids) /\ Len(path') = Len(path) - 1
      /\ \A k \in 1 .. Len(path) - 1 : path'[k] = path[k]
  <2>1. path' = SubSeq(path, 1, Len(path) - 1)
    BY <1>1 DEF Front
  <2>2. 1 \in 1 .. Len(path) + 1 /\ Len(path) - 1 \in 0 .. Len(path)
    BY <1>4
  <2>3. /\ SubSeq(path, 1, Len(path) - 1) \in Seq(Ids)
        /\ Len(SubSeq(path, 1, Len(path) - 1)) = IF 1 <= Len(path) - 1 THEN Len(path) - 1 - 1 + 1 ELSE 0
        /\ \A k \in 1 .. Len(path) - 1 - 1 + 1 : SubSeq(path, 1, Len(path) - 1)[k] = path[1 + k - 1]
    BY <1>2, <2>2, SubSeqProperties
  <2>4. /\ Len(path) - 1 - 1 + 1 = Len(path) - 1
        /\ (~(1 <= Len(path) - 1) => 0 = Len(path) - 1)
    <3> DEFINE l == Len(path)
    <3>1. l \in Nat /\ l >= 1
      BY <1>4
    <3> HIDE DEF l
    <3>2. (l - 1 - 1) + 1 = l - 1 /\ (~(1 <= l - 1) => 0 = l - 1)
      BY <3>1
    <3> QED BY <3>2 DEF l
  <2>5. ASSUME NEW k \in 1 .. Len(path) - 1 PROVE path'[k] = path[k]
    <3>1. 1 + k - 1 = k
      OBVIOUS
    <3>2. SubSeq(path, 1, Len(path) - 1)[k] = path[1 + k - 1]
      BY <2>3, <2>4
    <3> QED BY <2>1, <3>1, <3>2
  <2> QED BY <2>1, <2>3, <2>4, <2>5
<1>6. CASE Len(path) = Depth + 1
  <2>1. elem = [buf |-> LeafSlice.buf, i |-> Last(path) + 1] /\ Last(path) \in Nat
    <3>1. Last(path) \in Ids
      BY <1>2, <1>4, ElementOfSeq DEF Last
    <3> QED BY <1>2, <1>6, <3>1, ArraysAssumption DEF PathInv
  <2>2. elem # Nowhere
    <3>1. elem.i = Last(path) + 1 /\ Nowhere.i = 0
      BY <2>1 DEF Nowhere
    <3> QED BY <2>1, <3>1
  <2>3. LeafRow' = LeafRow /\ (array.nested => path[1] = path'[1])
    <3>1. array.nested => 1 \in 1 .. Len(path) - 1
      BY <1>3, <1>6
    <3> QED BY <1>1, <1>5, <3>1 DEF LeafRow
  <2>4. out' = PtrTo(mem', LeafRow') /\ Len(path') = Depth
    <3>1. Len(path) >= Depth
      BY <1>3, <1>6
    <3>2. out = PtrTo(mem, LeafRow)
      BY <1>2, <3>1 DEF PathInv
    <3> QED BY <1>1, <1>3, <1>5, <1>6, <2>2, <2>3, <3>2
  <2>5. array.nested => LeafRow' <= At(mem', 0, 0).len
    BY <1>1, <1>2, <2>3 DEF PathInv
  <2>6. Len(path') >= Depth' /\ Len(path') # Depth' + 1 /\ Len(path') \in 0 .. Depth' + 1 /\ array' = array
    BY <1>1, <1>2, <1>3, <2>4
  <2>7. PathInv'
    BY <1>1, <1>5, <2>4, <2>5, <2>6, Zenon DEF PathInv
  <2> QED BY <1>1, <1>2, <2>7, IdleColl, IdleInv DEF Inv, PlainInv, CollInv
<1>7. CASE Len(path) # Depth + 1
  <2>1. Len(path) = 1 /\ Depth = 1
    <3> DEFINE l == Len(path)
               d == Depth
    <3>1. l \in 0 .. d + 1 /\ d \in 0 .. 1 /\ l \in Nat /\ l >= 1 /\ l # d + 1
      BY <1>2, <1>3, <1>4, <1>7
    <3> HIDE DEF l, d
    <3>2. l = 1 /\ d = 1
      BY <3>1
    <3> QED BY <3>2 DEF l, d
  <2>2. elem = Nowhere
    BY <1>2, <1>7 DEF PathInv
  <2>3. out' = Nowhere /\ Len(path') = 0 /\ path' = <<>>
    BY <1>1, <1>5, <2>1, <2>2, EmptySeq
  <2>4. ~(Len(path') >= Depth') /\ Len(path') # Depth' + 1 /\ Len(path') \in 0 .. Depth' + 1
    BY <1>2, <2>1, <2>3
  <2>5. PathInv'
    BY <1>1, <1>5, <2>3, <2>4 DEF PathInv
  <2> QED BY <1>1, <1>2, <2>5, IdleColl, IdleInv DEF Inv, PlainInv, CollInv
<1> QED BY <1>6, <1>7

-----------------------------------------------------------------------------
(* The field is opened anew.                                               *)
LEMMA OpenArrayKeeps ==
  ASSUME Inv, OpenArray PROVE Inv'
<1>1. PICK opts \in OptionLists(array) :
        /\ limits' = NewLimits(opts)
        /\ out' = IF array.nested THEN Nowhere ELSE Field
        /\ coll' = NewCollector /\ elem' = Nowhere
        /\ path' = <<>> /\ now' = NoField /\ err' = "ok"
  BY DEF OpenArray, Start
<1>2. array' = array /\ mem' = Save(mem, Field, Truncated(Load(mem, Field)))
  BY DEF OpenArray
<1>3. /\ array \in Arrays /\ Levels \in 0 .. 2 /\ Tree(mem, Levels) /\ array.nested \in BOOLEAN
      /\ Depth \in 0 .. 1 /\ (array.nested <=> Depth = 1) /\ In(mem, Levels, 0, 0)
  BY ArrayTyped DEF Inv, PlainInv, In
<1>4. Leaf' = Leaf /\ Depth' = Depth /\ Levels' = Levels
  BY <1>2, SameArray
<1>5. PlainInv'
  <2>1. opts \in Seq(Option)
    BY <1>1, <1>3, ArraysAssumption
  <2> QED BY <1>1, <1>2, <1>3, <2>1, LimitsTyped DEF PlainInv
<1>6. Tree(mem', Levels)
  <2> DEFINE F == At(mem, 0, 0)
             x == Truncated(F)
  <2>1. Field = PtrTo(mem, 0) /\ Load(mem, PtrTo(mem, 0)) = F
    BY <1>3, PtrToHolds DEF Field, PtrTo
  <2>2. SliceIn(mem, F) /\ Cap(mem, F) \in Nat
    BY <1>3, TreeHas
  <2>3. mem' = Save(mem, PtrTo(mem, 0), x)
    BY <1>2, <2>1
  <2> HIDE DEF F
  <2>4. F = [buf |-> F.buf, len |-> F.len] /\ x = [F EXCEPT !.len = 0]
    BY <2>2, Zenon DEF SliceIn, Truncated
  <2>5. x = [buf |-> F.buf, len |-> 0]
    BY <2>4
  <2> HIDE DEF x
  <2>6. x.buf = F.buf /\ x.len = 0
    BY <2>5
  <2>7. Cap(mem, x) = Cap(mem, F)
    BY <2>6 DEF Cap
  <2>8. SliceIn(mem, x)
    BY <2>2, <2>5, <2>6, <2>7 DEF SliceIn
  <2>9. x.buf = At(mem, 0, 0).buf
    BY <2>6 DEF F
  <2> QED BY <1>3, <2>3, <2>8, <2>9, FieldSaved
<1>7. NowInv' /\ CollInv'
  <2>1. /\ coll'.acc = Nil /\ coll'.cur = Nil /\ coll'.declined = FALSE /\ coll'.check = ZeroCheck
        /\ coll' = [acc |-> coll'.acc, cur |-> coll'.cur, declined |-> coll'.declined, check |-> coll'.check]
    BY <1>1 DEF NewCollector
  <2>2. coll'.check \in [waived : BOOLEAN]
    BY <2>1 DEF ZeroCheck
  <2> QED BY <1>1, <2>1, <2>2, IdleInv
<1>8. PathInv'
  <2>1. path' \in Seq(Ids) /\ Len(path') = 0
    BY <1>1
  <2>2. Len(path') \in 0 .. Depth' + 1 /\ Len(path') # Depth' + 1 /\ (Len(path') >= Depth' <=> ~array.nested)
    BY <1>3, <1>4, <2>1
  <2>3. out' = IF Len(path') >= Depth' THEN PtrTo(mem', LeafRow') ELSE Nowhere
    BY <1>1, <1>2, <1>3, <2>2 DEF PtrTo, LeafRow, Field
  <2> QED BY <1>1, <2>1, <2>2, <2>3 DEF PathInv
<1> QED BY <1>4, <1>5, <1>6, <1>7, <1>8 DEF Inv

(* A message element is opened.                                            *)
LEMMA MessageBeginSequenceKeeps ==
  ASSUME Inv, NEW id, MessageBeginSequence(id) PROVE Inv'
<1>1. /\ Starts(id) /\ Leaf.kind = "Message" /\ InLeaf
      /\ \/ IndexVerdict(id) # "ok" /\ Fail(IndexVerdict(id))
         \/ /\ mem' = WithMessage(mem, out, id)
            /\ elem' = ElementAt(mem', out, id)
            /\ path' = Append(path, id)
            /\ UNCHANGED <<array, limits, out, coll, now, err>>
  BY DEF MessageBeginSequence
<1>2. /\ now = NoField /\ id \in Ids /\ id \in Nat /\ array \in Arrays /\ coll.acc = Nil /\ coll.cur = Nil
      /\ coll.declined = FALSE /\ coll.check \in [waived : BOOLEAN]
      /\ coll = [acc |-> coll.acc, cur |-> coll.cur, declined |-> coll.declined, check |-> coll.check]
  BY <1>1, StartsFrom
<1>3. CASE IndexVerdict(id) # "ok" /\ Fail(IndexVerdict(id))
  BY <1>2, <1>3, VerdictIsOne, FailKeeps
<1>4. CASE /\ mem' = WithMessage(mem, out, id)
           /\ elem' = ElementAt(mem', out, id)
           /\ path' = Append(path, id)
           /\ UNCHANGED <<array, limits, out, coll, now, err>>
  <2>1. /\ Levels \in 0 .. 2 /\ Tree(mem, Levels) /\ Len(path) >= Depth /\ Depth \in 0 .. 1 /\ Len(path) = Depth
        /\ ~HoldsSlices /\ Leaf.count \in Int /\ PathInv /\ path \in Seq(Ids)
        /\ (array.nested <=> Depth = 1) /\ array.nested \in BOOLEAN /\ Depth \in Nat
        /\ Leaf' = Leaf /\ Depth' = Depth /\ Levels' = Levels
    BY <1>1, <1>2, <1>4, ArrayTyped, SameArray DEF InLeaf, Inv, HoldsSlices, Matrix, PathInv
  <2>2. /\ In(mem, Levels, LeafRow, 0) /\ out = PtrTo(mem, LeafRow)
        /\ ~(IF LeafRow = 0 THEN Levels >= 1 ELSE Levels = 2) /\ (LeafRow = 0 <=> ~array.nested)
    BY <2>1, WhereLeaf
  <2>3. Reached(mem, mem', Levels, LeafRow, id, Leaf.default, Zero)
    <3>1. mem' = Filled(ReserveRows(mem, out, id, Leaf.count, Zero), out, id, Leaf.default, Zero)
      BY <1>4 DEF WithMessage
    <3> QED BY <1>2, <2>1, <2>2, <3>1, GrownToReach
  <2>4. Placed(mem, mem', Levels, LeafRow)
    BY <2>3, ReachedPlaced
  <2>5. /\ id + 1 \in 1 .. At(mem', LeafRow, 0).len
        /\ ElementAt(mem', PtrTo(mem, LeafRow), id) = [buf |-> At(mem', LeafRow, 0).buf, i |-> id + 1]
    BY <2>3 DEF Reached
  <2>6. /\ Tree(mem', Levels) /\ PtrTo(mem', LeafRow) = PtrTo(mem, LeafRow)
        /\ LeafRow # 0 => At(mem', 0, 0) = At(mem, 0, 0)
    BY <2>4 DEF Placed
  <2>7. /\ path' \in Seq(Ids) /\ Len(path') = Len(path) + 1
        /\ path'[Len(path) + 1] = id /\ \A k \in 1 .. Len(path) : path'[k] = path[k]
    BY <1>2, <1>4, <2>1, AppendProperties
  <2>8. LeafRow' = LeafRow /\ LeafSlice' = At(mem', LeafRow, 0)
    <3>1. array.nested => path'[1] = path[1]
      <4>1. array.nested => 1 \in 1 .. Len(path)
        BY <2>1
      <4> QED BY <2>7, <4>1
    <3> QED BY <1>4, <3>1 DEF LeafRow, LeafSlice
  <2>9. Last(path') = id /\ Len(path') = Depth + 1 /\ Len(path') >= Depth /\ Len(path') \in 0 .. Depth + 1
    BY <2>1, <2>7 DEF Last
  <2>10. out' = PtrTo(mem', LeafRow')
    BY <1>4, <2>2, <2>6, <2>8
  <2>11. array.nested => LeafRow <= At(mem', 0, 0).len
    <3>1. array.nested => path # <<>>
      BY <2>1
    <3> QED BY <2>1, <2>2, <2>6, <3>1 DEF PathInv
  <2>12. elem' = [buf |-> LeafSlice'.buf, i |-> Last(path') + 1] /\ Last(path') + 1 <= LeafSlice'.len
    <3>1. id + 1 <= At(mem', LeafRow, 0).len
      BY <1>2, <2>5
    <3> QED BY <1>4, <2>2, <2>5, <2>8, <2>9, <3>1
  <2>13. PathInv'
    <3>1. Leaf'.kind = "Message" /\ array' = array
      BY <1>1, <1>4, <2>1
    <3> QED BY <2>1, <2>7, <2>8, <2>9, <2>10, <2>11, <2>12, <3>1, Zenon DEF PathInv
  <2>14. NowInv' /\ CollInv'
    BY <1>2, <1>4, IdleInv
  <2>15. PlainInv'
    BY <1>4 DEF Inv, PlainInv
  <2> QED BY <2>1, <2>6, <2>13, <2>14, <2>15 DEF Inv
<1> QED BY <1>1, <1>3, <1>4

(* OpenedRow: the row's slot holds an empty slice over what an earlier      *)
(* decode left there, over the row that is there, or over nothing.         *)
LEMMA RowOpened ==
  ASSUME NEW n \in 1 .. 2, NEW m, Tree(m, n), NEW id \in Nat, NEW t, Reached(m, t, n, 0, id, Nil, Nil),
         NEW v, v = Stale(m, At(m, 0, 0), id, Nil),
         NEW p, p = [buf |-> At(t, 0, 0).buf, i |-> id + 1],
         NEW u, u = OpenedRow(t, p, v)
  PROVE  \E x : /\ CellSet(t, u, At(t, 0, 0).buf, id + 1, x) /\ SliceIn(u, x) /\ x.len = 0 /\ x.buf # 0
                /\ \/ In(m, n, id + 1, 0) /\ x.buf = At(m, id + 1, 0).buf
                   \/ x.buf \in Len(t) + 1 .. Len(u) /\ Cap(u, x) = 0
<1> DEFINE b == At(t, 0, 0).buf
           c == id + 1
           w == IF v # Nil THEN Save(t, p, v) ELSE t
           h == Load(w, p)
           r == ReuseSlice(w, h, 0, Zero)
<1>1. /\ Tree(t, n) /\ In(t, n, 0, 0) /\ In(m, n, 0, 0) /\ Memory(t) /\ Len(t) \in Nat
      /\ \A i, j : In(t, n, i, j) =>
           At(t, i, j) = Nil \/ (i = 0 /\ j = 0) \/ (In(m, n, i, j) /\ At(t, i, j) = At(m, i, j))
      /\ c \in 1 .. Cap(t, At(t, 0, 0)) /\ c # 0 /\ n \in 0 .. 2 /\ n >= 1 /\ Len(t) >= Len(m)
      /\ Kept(m, t, {PtrTo(m, 0).buf, At(m, 0, 0).buf})
  BY DEF Reached, Grew, In
<1>2. b \in 1 .. Len(t) /\ c \in 1 .. Len(t[b]) /\ p.buf = b /\ p.i = c
  <2>1. b \in 0 .. Len(t) /\ (b = 0 => Cap(t, At(t, 0, 0)) = 0)
    BY <1>1, TreeHas
  <2> QED BY <1>1, <2>1 DEF Cap
<1>3. PointsIn(t, p)
  BY <1>2 DEF PointsIn
<1>4. /\ SliceIn(m, v)
      /\ v = Nil \/ (In(m, n, c, 0) /\ v = At(m, c, 0))
  <2>1. SlotI(0, c) = c /\ SlotJ(0, c) = 0
    BY DEF SlotI, SlotJ
  <2> QED BY <1>1, <2>1, StaleHeader
<1>5. In(t, n, c, 0) /\ Load(t, p) = At(t, c, 0)
  <2>1. At(t, c, 0) = Cell(t, b, c)
    BY <1>1, RowPath
  <2> QED BY <1>1, <1>2, <2>1 DEF In, Load, Cell
<1> HIDE DEF b, c
(* The header the slot holds before it is truncated. *)
<1>6. /\ Kept(t, w, {b}) /\ Len(w) = Len(t) /\ Memory(w) /\ SliceIn(w, h)
      /\ \A j \in 1 .. Len(t[b]) : j # c => Cell(w, b, j) = Cell(t, b, j)
      /\ h = Nil \/ (In(m, n, c, 0) /\ h.buf = At(m, c, 0).buf)
  <2>1. CASE v # Nil
    <3>1. OneCell(t, w, b, c, v) /\ Load(w, p) = v
      <4>1. w = Save(t, p, v)
        BY <2>1
      <4>2. OneCell(t, w, p.buf, p.i, v)
        BY <1>1, <1>3, <4>1, Saved
      <4> HIDE DEF w
      <4> QED BY <1>2, <4>2 DEF OneCell, Load
    <3> HIDE DEF w
    <3>2. SliceIn(t, v) /\ SliceIn(w, v)
      <4>1. SliceIn(t, v)
        BY <1>1, <1>4, KeptSlice DEF Tree
      <4> QED BY <1>1, <3>1, <4>1, KeptSlice DEF OneCell
    <3>3. Kept(t, w, {b}) /\ Len(w) = Len(t) /\ \A j \in 1 .. Len(t[b]) : j # c => Cell(w, b, j) = Cell(t, b, j)
      BY <3>1, Zenon DEF OneCell, Cell
    <3> QED BY <1>4, <2>1, <3>1, <3>2, <3>3 DEF Kept
  <2>2. CASE v = Nil
    <3>1. w = t
      BY <2>2
    <3>2. h = At(t, c, 0) /\ SliceIn(t, h)
      BY <1>1, <1>5, <3>1, TreeHas
    <3>3. h = Nil \/ (In(m, n, c, 0) /\ h.buf = At(m, c, 0).buf)
      <4>1. At(t, c, 0) = Nil \/ (In(m, n, c, 0) /\ At(t, c, 0) = At(m, c, 0))
        BY <1>1, <1>5
      <4> QED BY <3>2, <4>1
    <3> QED BY <1>1, <3>1, <3>2, <3>3, KeptAsIs
  <2> QED BY <2>1, <2>2
<1>7. u = Save(r.mem, p, r.val)
  BY Zenon DEF OpenedRow
<1> HIDE DEF w, h
<1>8. /\ Kept(w, r.mem, {}) /\ SliceIn(r.mem, r.val) /\ r.val.len = 0 /\ r.val.buf # 0
      /\ \/ r.mem = w /\ r.val.buf = h.buf
         \/ r.val.buf = Len(w) + 1 /\ Len(r.mem) = Len(w) + 1 /\ Cap(r.mem, r.val) = 0
  <2>1. 0 \in Nat
    OBVIOUS
  <2> QED BY <1>6, <2>1, Reused
<1> HIDE DEF r
<1>9. /\ Memory(r.mem) /\ Len(r.mem) \in Nat /\ r.mem[b] = w[b] /\ Len(w[b]) = Len(t[b])
      /\ Len(r.mem) >= Len(t)
  BY <1>1, <1>2, <1>6, <1>8 DEF Kept, Memory, Listed
<1>10. OneCell(r.mem, u, b, c, r.val)
  <2>1. PointsIn(r.mem, p)
    <3>1. Len(r.mem[p.buf]) = Len(t[b]) /\ p.buf \in 1 .. Len(r.mem)
      BY <1>1, <1>2, <1>9
    <3> QED BY <1>2, <3>1 DEF PointsIn
  <2>2. OneCell(r.mem, u, p.buf, p.i, r.val)
    BY <1>7, <1>9, <2>1, Saved
  <2> QED BY <1>2, <2>2
<1>11. CellSet(t, u, b, c, r.val)
  <2>1. Kept(r.mem, u, {b}) /\ Len(u) = Len(r.mem) /\ Cell(u, b, c) = r.val
    BY <1>10 DEF OneCell, Cell
  <2>2. Kept(w, r.mem, {b})
    BY <1>8, KeptLess
  <2>3. Kept(w, u, {b})
    BY <1>6, <2>1, <2>2, KeptTwice
  <2>4. Kept(t, u, {b})
    BY <1>1, <1>6, <2>3, KeptTwice
  <2>5. ASSUME NEW j \in 1 .. Len(t[b]), j # c PROVE Cell(u, b, j) = Cell(t, b, j)
    <3>1. Cell(u, b, j) = Cell(r.mem, b, j)
      BY <1>9, <1>10, <2>5 DEF OneCell, Cell
    <3>2. Cell(r.mem, b, j) = Cell(w, b, j)
      BY <1>9 DEF Cell
    <3> QED BY <1>6, <2>5, <3>1, <3>2
  <2> QED BY <2>1, <2>4, <2>5 DEF CellSet
<1>12. SliceIn(u, r.val) /\ Len(u) = Len(r.mem) /\ Cap(u, r.val) = Cap(r.mem, r.val)
  BY <1>8, <1>9, <1>10, KeptSlice DEF OneCell
<1>13. \/ In(m, n, c, 0) /\ r.val.buf = At(m, c, 0).buf
       \/ r.val.buf \in Len(t) + 1 .. Len(u) /\ Cap(u, r.val) = 0
  <2>1. CASE r.mem = w /\ r.val.buf = h.buf
    <3>1. h # Nil
      BY <1>8, <2>1 DEF Nil
    <3> QED BY <1>6, <2>1, <3>1
  <2>2. CASE r.val.buf = Len(w) + 1 /\ Len(r.mem) = Len(w) + 1 /\ Cap(r.mem, r.val) = 0
    BY <1>1, <1>6, <1>12, <2>2
  <2> QED BY <1>8, <2>1, <2>2
<1> QED BY <1>8, <1>11, <1>12, <1>13 DEF b, c

(* A row is opened.                                                        *)
LEMMA NestedBeginSequenceKeeps ==
  ASSUME Inv, NEW id, NestedBeginSequence(id) PROVE Inv'
<1> DEFINE verdict == OverIndex(id, array.count, array.caps.arrayCount)
           g == Grow(mem, Field, id, array.count, Nil)
           slot == ElementAt(g.mem, Field, id)
<1>1. /\ Starts(id) /\ array.nested /\ path = <<>>
      /\ \/ verdict # "ok" /\ Fail(verdict)
         \/ /\ mem' = OpenedRow(g.mem, slot, g.val) /\ out' = slot
            /\ coll' = NewCollector /\ path' = <<id>>
            /\ UNCHANGED <<array, limits, elem, now, err>>
  BY DEF NestedBeginSequence
<1>2. now = NoField /\ id \in Ids /\ id \in Nat /\ array \in Arrays
  BY <1>1, StartsFrom
<1>3. CASE verdict # "ok" /\ Fail(verdict)
  BY <1>2, <1>3, VerdictIsOne, FailKeeps
<1>4. CASE /\ mem' = OpenedRow(g.mem, slot, g.val) /\ out' = slot
           /\ coll' = NewCollector /\ path' = <<id>>
           /\ UNCHANGED <<array, limits, elem, now, err>>
  <2> DEFINE t == g.mem
  <2>1. /\ Levels \in 1 .. 2 /\ Levels \in 0 .. 2 /\ Tree(mem, Levels) /\ Depth = 1 /\ array.count \in Int
        /\ Levels >= 1 /\ PathInv /\ In(mem, Levels, 0, 0)
    BY <1>1, <1>2, ArrayTyped DEF Inv, In, Levels
  <2>2. Field = PtrTo(mem, 0) /\ Load(mem, Field) = At(mem, 0, 0)
    BY <2>1, PtrToHolds DEF Field, PtrTo
  <2>3. /\ t = Filled(ReserveRows(mem, Field, id, array.count, Nil), Field, id, Nil, Nil)
        /\ g.val = Stale(mem, At(mem, 0, 0), id, Nil)
    BY <2>2 DEF Grow
  <2> HIDE DEF g
  <2>4. Reached(mem, t, Levels, 0, id, Nil, Nil)
    BY <1>2, <2>1, <2>2, <2>3, GrownToReach
  <2>5. slot = [buf |-> At(t, 0, 0).buf, i |-> id + 1] /\ id + 1 \in 1 .. At(t, 0, 0).len
    BY <2>2, <2>4 DEF Reached
  <2> HIDE DEF slot, t
  <2>6. mem' = OpenedRow(t, slot, g.val)
    BY <1>4 DEF t
  <2>7. PICK x : /\ CellSet(t, mem', At(t, 0, 0).buf, id + 1, x) /\ SliceIn(mem', x) /\ x.len = 0 /\ x.buf # 0
                 /\ \/ In(mem, Levels, id + 1, 0) /\ x.buf = At(mem, id + 1, 0).buf
                    \/ x.buf \in Len(t) + 1 .. Len(mem') /\ Cap(mem', x) = 0
    BY <1>2, <2>1, <2>3, <2>4, <2>5, <2>6, RowOpened
  <2>8. Tree(mem', Levels) /\ At(mem', 0, 0) = At(t, 0, 0)
    BY <1>2, <2>1, <2>4, <2>7, RowSaved
  <2>9. /\ path' \in Seq(Ids) /\ Len(path') = 1 /\ path'[1] = id /\ path' # <<>>
        /\ Leaf' = Leaf /\ Depth' = Depth /\ Levels' = Levels /\ elem' = Nowhere
    <3>1. Len(path) = 0
      BY <1>1
    <3>2. elem = Nowhere
      BY <2>1, <3>1 DEF PathInv
    <3> QED BY <1>2, <1>4, <3>2, SameArray
  <2>10. LeafRow' = id + 1
    BY <1>1, <1>4, <2>9 DEF LeafRow
  <2>11. out' = PtrTo(mem', LeafRow')
    <3>1. id + 1 # 0
      BY <1>2
    <3> QED BY <1>4, <2>5, <2>8, <2>10, <3>1 DEF PtrTo
  <2>12. LeafRow' <= At(mem', 0, 0).len
    BY <1>2, <2>5, <2>8, <2>10
  <2>13. Len(path') >= Depth' /\ Len(path') # Depth' + 1 /\ Len(path') \in 0 .. Depth' + 1
    BY <2>1, <2>9
  <2>14. PathInv'
    BY <2>9, <2>11, <2>12, <2>13, Zenon DEF PathInv
  <2>15. NowInv' /\ CollInv'
    <3>1. /\ coll'.acc = Nil /\ coll'.cur = Nil /\ coll'.declined = FALSE /\ coll'.check = ZeroCheck
          /\ coll' = [acc |-> coll'.acc, cur |-> coll'.cur, declined |-> coll'.declined, check |-> coll'.check]
      BY <1>4 DEF NewCollector
    <3>2. coll'.check \in [waived : BOOLEAN] /\ now' = NoField
      BY <1>2, <1>4, <3>1 DEF ZeroCheck
    <3> QED BY <3>1, <3>2, IdleInv
  <2>16. PlainInv'
    BY <1>4 DEF Inv, PlainInv
  <2> QED BY <2>8, <2>9, <2>14, <2>15, <2>16 DEF Inv
<1> QED BY <1>1, <1>3, <1>4

-----------------------------------------------------------------------------
(* ArrayElement: a cell more in the row being built.                       *)
LEMMA ArrayElementKeeps ==
  ASSUME Inv, ArrayElement PROVE Inv'
<1> DEFINE v == now.want[now.off + 1]
           r == IF now.own THEN AppendTo(mem, coll.cur, Narrowed(v), ZeroCell) ELSE [mem |-> mem, val |-> coll.cur]
           n == now.off + 1
<1>1. /\ now # NoField /\ Leaf.kind \in Matrix /\ now.off < Len(now.want)
      /\ IF now.own /\ TooWide(Leaf, v) THEN Fail("InvalidMsg")
         ELSE /\ mem' = r.mem /\ coll' = [coll EXCEPT !.cur = r.val]
              /\ now' = [now EXCEPT !.off = @ + 1]
              /\ UNCHANGED <<array, limits, out, elem, path, err>>
  BY DEF ArrayElement
<1>2. CASE now.own /\ TooWide(Leaf, v)
  BY <1>1, <1>2, FailKeeps
<1>3. CASE ~(now.own /\ TooWide(Leaf, v))
  <2>1. /\ mem' = r.mem /\ coll' = [coll EXCEPT !.cur = r.val]
        /\ now' = [now EXCEPT !.off = n]
        /\ UNCHANGED <<array, limits, out, elem, path, err>>
    <3>1. now' = [now EXCEPT !.off = now.off + 1]
      BY <1>1, <1>3
    <3> QED BY <1>1, <1>3, <3>1
  <2>2. /\ array \in Arrays /\ now.want \in Leaf.offers /\ now.off \in 0 .. Len(now.want) /\ InLeaf
        /\ now.id \in Ids /\ now.id \in Nat /\ Len(now.want) \in Nat /\ Tree(mem, Levels)
        /\ coll = [acc |-> coll.acc, cur |-> coll.cur, declined |-> coll.declined, check |-> coll.check]
        /\ coll.declined \in BOOLEAN /\ coll.check \in [waived : BOOLEAN]
        /\ (coll.declined <=> ~now.own) /\ coll.acc = Nil /\ CurInv /\ now.own \in BOOLEAN
    <3>1. ~Bytewise
      BY <1>1 DEF Bytewise, Matrix
    <3>2. array \in Arrays /\ now.want \in Leaf.offers /\ now.id \in Ids
      BY <1>1 DEF Inv, PlainInv, NowInv
    <3>3. now.id \in Nat /\ Len(now.want) \in Nat
      BY <3>2, OfferListed, ArraysAssumption
    <3> QED BY <1>1, <3>1, <3>2, <3>3 DEF Inv, NowInv, CollInv, AccInv
  <2>3. /\ Levels \in 0 .. 2 /\ HoldsSlices /\ Len(path) >= Depth /\ Depth \in Nat
    BY <1>1, <2>2, ArrayTyped DEF InLeaf
  <2>4. /\ In(mem, Levels, LeafRow, 0) /\ Leafy(Levels, LeafRow)
    BY <2>3, WhereLeaf
  <2>5. n \in now.off .. Len(now.want) /\ n \in Nat
    BY <1>1, <2>2
  <2>6. /\ NowInv' /\ now'.off = n /\ now' # NoField /\ now'.own = now.own /\ now'.id = now.id
    BY <1>1, <2>1, <2>5, GoneOn
  <2>7. Leaf' = Leaf /\ Levels' = Levels
    BY <2>1, SameArray
  <2>8. coll' = [acc |-> Nil, cur |-> r.val, declined |-> coll.declined, check |-> coll.check]
    BY <2>1, <2>2
  <2>9. coll'.acc = Nil /\ coll'.cur = r.val /\ coll'.declined = coll.declined /\ coll'.check = coll.check
    BY <2>8
  <2>10. AccInv'
    BY <1>1, <2>7, <2>9 DEF AccInv, Bytewise, Matrix
  <2>11. /\ SameHeaders(mem, mem', Levels) /\ Tree(mem', Levels)
         /\ now.own => /\ SliceIn(mem', r.val) /\ r.val.len = n /\ r.val.buf # 1
                       /\ \A i, j : In(mem', Levels, i, j) /\ r.val.buf # 0 /\ At(mem', i, j).buf = r.val.buf =>
                            /\ i = SlotI(LeafRow, now.id + 1) /\ j = SlotJ(LeafRow, now.id + 1)
                            /\ now.id >= LeafSlice.len
         /\ ~now.own => r.val = Nil
    <3>1. CASE ~now.own
      <4>1. mem' = mem /\ r.val = coll.cur
        BY <2>1, <3>1
      <4>2. coll.cur = Nil
        BY <2>2, <3>1 DEF CurInv, OwnField
      <4> QED BY <2>2, <3>1, <4>1, <4>2 DEF SameHeaders
    <3>2. CASE now.own
      <4> DEFINE s == coll.cur
                 e == AppendTo(mem, s, Narrowed(v), ZeroCell)
      <4>1. /\ SliceIn(mem, s) /\ s.len = now.off /\ s.buf # 1
            /\ \A i, j : In(mem, Levels, i, j) /\ s.buf # 0 /\ At(mem, i, j).buf = s.buf =>
                 /\ i = SlotI(LeafRow, now.id + 1) /\ j = SlotJ(LeafRow, now.id + 1)
                 /\ now.id >= LeafSlice.len
        BY <1>1, <2>2, <3>2 DEF CurInv, OwnField
      <4>2. r = e /\ mem' = e.mem /\ Memory(mem) /\ Len(mem) \in Nat /\ Len(mem) >= 1
        BY <2>1, <2>2, <3>2 DEF Tree, Memory, Listed
      <4> HIDE DEF r, e, s
      <4>3. /\ Kept(mem, e.mem, {s.buf}) /\ SliceIn(e.mem, e.val) /\ e.val.len = n
            /\ e.val.buf = s.buf \/ e.val.buf \in Len(mem) + 1 .. Len(e.mem)
        <5> DEFINE w == <<Narrowed(v)>>
        <5>1. Appended(mem, s, e.mem, e.val, w, 1, ZeroCell)
          BY <4>1, <4>2, AppendedOne DEF e
        <5> HIDE DEF w, n
        <5>2. /\ Kept(mem, e.mem, {s.buf}) /\ SliceIn(e.mem, e.val) /\ e.val.len = s.len + 1
              /\ e.val.buf = s.buf \/ e.val.buf \in Len(mem) + 1 .. Len(e.mem)
          BY <5>1, Zenon DEF Appended, Longer
        <5> QED BY <4>1, <5>2 DEF n
      <4>4. SlotI(LeafRow, now.id + 1) # 0 /\ ~(IF SlotI(LeafRow, now.id + 1) = 0 THEN Levels >= 1
                                                ELSE Levels = 2 /\ SlotJ(LeafRow, now.id + 1) = 0)
        BY <2>2, <2>4 DEF SlotI, SlotJ, Leafy
      <4>5. SameHeaders(mem, e.mem, Levels) /\ Tree(e.mem, Levels)
        <5>1. s.buf # 0 => \A i, j : In(mem, Levels, i, j) /\ At(mem, i, j).buf = s.buf =>
                                ~(IF i = 0 THEN Levels >= 1 ELSE Levels = 2 /\ j = 0)
          BY <4>1, <4>4
        <5> QED BY <2>2, <2>3, <4>1, <4>3, <5>1, BelowSame
      <4>6. e.val.buf # 1
        BY <4>1, <4>2, <4>3
      <4>7. ASSUME NEW i, NEW j, In(e.mem, Levels, i, j), e.val.buf # 0, At(e.mem, i, j).buf = e.val.buf
            PROVE  /\ i = SlotI(LeafRow, now.id + 1) /\ j = SlotJ(LeafRow, now.id + 1)
                   /\ now.id >= LeafSlice.len
        <5>1. In(mem, Levels, i, j) /\ At(mem, i, j).buf = e.val.buf
          BY <4>5, <4>7 DEF SameHeaders
        <5>2. At(mem, i, j).buf \in 0 .. Len(mem)
          BY <2>2, <2>3, <5>1, TreeHas
        <5>3. e.val.buf = s.buf
          BY <4>2, <4>3, <5>1, <5>2
        <5> QED BY <4>1, <4>7, <5>1, <5>3
      <4> QED BY <3>2, <4>2, <4>3, <4>5, <4>6, <4>7
    <3> QED BY <3>1, <3>2
  <2>12. PathInv' /\ LeafRow' = LeafRow /\ LeafSlice' = LeafSlice
    BY <2>1, <2>3, <2>11, PathSame
  <2> HIDE DEF r
  <2>13. CurInv'
    <3>1. OwnField' <=> now.own
      BY <2>6 DEF OwnField
    <3>2. CASE now.own
      BY <1>1, <2>6, <2>7, <2>9, <2>11, <2>12, <3>1, <3>2 DEF CurInv
    <3>3. CASE ~now.own
      BY <2>9, <2>11, <3>1, <3>3 DEF CurInv
    <3> QED BY <3>2, <3>3
  <2>14. CollInv'
    BY <1>1, <2>2, <2>6, <2>7, <2>8, <2>9, <2>10, <2>13 DEF CollInv
  <2>15. PlainInv'
    BY <2>1 DEF Inv, PlainInv
  <2> QED BY <2>6, <2>7, <2>11, <2>12, <2>14, <2>15 DEF Inv
<1> QED BY <1>2, <1>3

-----------------------------------------------------------------------------
(* A leaf changed in a memory with the same headers.                       *)
LEMMA PlacedOver ==
  ASSUME NEW n, NEW m, NEW w, NEW u, NEW a, In(m, n, a, 0), SameHeaders(m, w, n), Len(w) >= Len(m),
         Len(m) \in Nat, Len(w) \in Nat, Len(u) \in Nat, Placed(w, u, n, a)
  PROVE  Placed(m, u, n, a)
<1>1. In(m, n, 0, 0) /\ At(w, 0, 0) = At(m, 0, 0)
  BY DEF In, SameHeaders
<1>2. PtrTo(w, a) = PtrTo(m, a)
  BY <1>1 DEF PtrTo
<1>3. Len(u) >= Len(m)
  BY DEF Placed
<1> QED BY <1>1, <1>2, <1>3 DEF Placed

(* A slice the leaf may be given: no header has its buffer but the slot's   *)
(* own, past the length.                                                   *)
Spare(m, s, id) ==
  /\ SliceIn(m, s) /\ s.buf # 1
  /\ s.buf # 0 => \A i, j : In(m, Levels, i, j) /\ At(m, i, j).buf = s.buf =>
       /\ i = SlotI(LeafRow, id + 1) /\ j = SlotJ(LeafRow, id + 1) /\ id >= At(m, LeafRow, 0).len

(* A row is placed.                                                        *)
LEMMA RowPlaced ==
  ASSUME Inv, InLeaf, Leaf.kind \in Matrix, NEW id \in Nat, NEW r, Kept(mem, r.mem, {}),
         Spare(r.mem, r.val, id), NEW u, u = PlacedRow(r, id)
  PROVE  Placed(mem, u, Levels, LeafRow)
<1> DEFINE w == r.mem
           g == Grow(w, out, id, Leaf.count, Nil)
           t == g.mem
           x == r.val
           a == LeafRow
           N == Levels
<1>1. /\ array \in Arrays /\ N \in 0 .. 2 /\ HoldsSlices /\ Len(path) >= Depth /\ Tree(mem, N)
      /\ Leaf.count \in Int
  BY ArrayTyped DEF InLeaf, Inv, PlainInv
<1>2. /\ In(mem, N, a, 0) /\ out = PtrTo(mem, a) /\ Leafy(N, a) /\ (IF a = 0 THEN N >= 1 ELSE N = 2)
  BY <1>1, WhereLeaf
<1>3. /\ SameHeaders(mem, w, N) /\ Tree(w, N) /\ Len(mem) \in Nat /\ Len(w) \in Nat /\ Len(w) >= Len(mem)
  BY <1>1, NewBuffers
<1>4. In(w, N, a, 0) /\ out = PtrTo(w, a) /\ Load(w, out) = At(w, a, 0)
  <2>1. In(w, N, a, 0) /\ In(mem, N, 0, 0) /\ At(w, 0, 0) = At(mem, 0, 0)
    BY <1>2, <1>3 DEF SameHeaders, In
  <2>2. out = PtrTo(w, a)
    BY <1>2, <2>1 DEF PtrTo
  <2> QED BY <1>1, <1>3, <2>1, <2>2, PtrToHolds
<1>5. u = Save(t, ElementAt(t, out, id), x)
  BY DEF PlacedRow
<1>6. t = Filled(ReserveRows(w, out, id, Leaf.count, Nil), out, id, Nil, Nil)
  BY DEF Grow
<1>7. /\ SliceIn(w, x) /\ x.buf # 1
      /\ x.buf # 0 => \A i, j : In(w, N, i, j) /\ At(w, i, j).buf = x.buf =>
           /\ i = SlotI(a, id + 1) /\ j = SlotJ(a, id + 1) /\ id >= At(w, a, 0).len
  BY DEF Spare
<1> HIDE DEF w, g, t, x, a, N
<1>8. Reached(w, t, N, a, id, Nil, Nil)
  BY <1>1, <1>2, <1>3, <1>4, <1>6, GrownToReach
<1>9. /\ Lengthened(w, t, PtrTo(w, a), Reaching(At(w, a, 0).len, id), Nil, Nil) /\ Grew(w, t, N, a)
      /\ At(t, a, 0) = Load(t, PtrTo(w, a)) /\ Memory(t) /\ Memory(w)
      /\ Kept(w, t, {PtrTo(w, a).buf, At(w, a, 0).buf})
  BY <1>3, <1>8 DEF Reached, Tree
<1>10. SliceIn(t, x)
  BY <1>7, <1>9, KeptSlice
<1>11. x.buf = 0 \/ Unused(t, N, x.buf)
  <2>1. SUFFICES ASSUME x.buf # 0 PROVE Unused(t, N, x.buf)
    OBVIOUS
  <2>2. x.buf \in 1 .. Len(w)
    BY <1>3, <1>7, <2>1 DEF SliceIn
  <2>3. \A i, j : In(w, N, i, j) /\ At(w, i, j).buf = x.buf =>
           /\ i = SlotI(a, id + 1) /\ j = SlotJ(a, id + 1) /\ id >= At(w, a, 0).len
    BY <1>7, <2>1
  <2> QED BY <1>1, <1>2, <1>3, <1>4, <1>9, <2>2, <2>3, SharedGone
<1>12. Placed(w, u, N, a)
  <2> DEFINE y == 0
  <2>1. y = 0 /\ y # 1
    OBVIOUS
  <2> HIDE DEF y
  <2>2. Kept(t, t, {y}) /\ (y = 0 \/ Unused(t, N, y))
    BY <1>9, <2>1, KeptAsIs
  <2>3. u = Save(t, ElementAt(t, PtrTo(w, a), id), x)
    BY <1>4, <1>5
  <2>4. x.buf = 0 \/ x.buf = y \/ Unused(t, N, x.buf)
    BY <1>11
  <2>5. x.buf # 1
    BY <1>7
  <2>6. /\ N \in 0 .. 2 /\ Tree(w, N) /\ In(w, N, a, 0) /\ Leafy(N, a) /\ id \in Nat
        /\ Reached(w, t, N, a, id, Nil, Nil) /\ y # 1 /\ SliceIn(t, x)
    BY <1>1, <1>2, <1>3, <1>4, <1>8, <1>10, <2>1
  <2> QED BY ONLY <2>2, <2>3, <2>4, <2>5, <2>6, LeafPlaced
<1>13. Len(u) \in Nat
  BY <1>12 DEF Placed, Tree, Memory, Listed
<1> QED BY <1>2, <1>3, <1>12, <1>13, PlacedOver DEF w, a, N

(* PlaceRow: a row of the caller's.                                        *)
LEMMA PlaceRowKeeps ==
  ASSUME Inv, NEW id, NEW row, Listed(row), PlaceRow(id, row) PROVE Inv'
<1> DEFINE r == Made(mem, row, Len(row), ZeroCell)
<1>1. /\ Starts(id) /\ InLeaf /\ Leaf.kind \in Matrix
      /\ IF IndexVerdict(id) # "ok" THEN Fail(IndexVerdict(id))
         ELSE /\ mem' = PlacedRow(r, id)
              /\ UNCHANGED <<array, limits, out, coll, elem, path, now, err>>
  BY DEF PlaceRow
<1>2. /\ now = NoField /\ id \in Nat /\ array \in Arrays /\ coll.acc = Nil /\ coll.cur = Nil
      /\ coll.declined = FALSE /\ coll.check \in [waived : BOOLEAN]
      /\ coll = [acc |-> coll.acc, cur |-> coll.cur, declined |-> coll.declined, check |-> coll.check]
  BY <1>1, StartsFrom
<1>3. CASE IndexVerdict(id) # "ok"
  BY <1>1, <1>2, <1>3, VerdictIsOne, FailKeeps
<1>4. CASE IndexVerdict(id) = "ok"
  <2>1. mem' = PlacedRow(r, id) /\ UNCHANGED <<array, limits, out, coll, elem, path, now, err>>
    BY <1>1, <1>4
  <2>2. /\ Levels \in 0 .. 2 /\ Tree(mem, Levels) /\ Memory(mem) /\ Len(row) \in Nat /\ Len(row) <= Len(row)
        /\ Len(mem) \in Nat /\ Len(mem) >= 1
    BY <1>2, ArrayTyped DEF Inv, Tree, Memory, Listed
  <2>3. /\ Kept(mem, r.mem, {}) /\ Len(r.mem) = Len(mem) + 1
        /\ r.val = [buf |-> Len(mem) + 1, len |-> Len(row)]
        /\ Len(r.mem[Len(mem) + 1]) = Len(row)
    BY <2>2, MadeNew
  <2> HIDE DEF r
  <2>4. r.val.buf = Len(mem) + 1 /\ r.val.len = Len(row) /\ r.val = [buf |-> r.val.buf, len |-> r.val.len]
    BY <2>3
  <2>5. SliceIn(r.mem, r.val) /\ r.val.buf # 1 /\ r.val.buf \in Len(mem) + 1 .. Len(r.mem)
    <3>1. Cap(r.mem, r.val) = Len(row)
      BY <2>2, <2>3, <2>4 DEF Cap
    <3> QED BY <2>2, <2>3, <2>4, <3>1 DEF SliceIn
  <2>6. Unused(r.mem, Levels, r.val.buf)
    BY <2>2, <2>3, <2>5, NewBuffers
  <2>7. Spare(r.mem, r.val, id)
    BY <2>5, <2>6 DEF Spare, Unused
  <2>8. Placed(mem, mem', Levels, LeafRow)
    BY <1>1, <1>2, <2>1, <2>3, <2>7, RowPlaced
  <2>9. PathInv' /\ Tree(mem, Levels)'
    BY <1>1, <2>1, <2>8, PathPlaced
  <2> QED BY <1>2, <2>1, <2>9, IdleInv DEF Inv, PlainInv
<1> QED BY <1>3, <1>4

(* ArrayEnd: the row that was built is placed.                             *)
LEMMA ArrayEndKeeps ==
  ASSUME Inv, ArrayEnd PROVE Inv'
<1>1. /\ now # NoField /\ Leaf.kind \in Matrix /\ now' = NoField
      /\ UNCHANGED <<array, limits, out, elem, path>>
      /\ IF coll.declined THEN UNCHANGED <<mem, err>> /\ coll' = [coll EXCEPT !.declined = FALSE]
         ELSE /\ err' = IndexVerdict(now.id)
              /\ mem' = IF err' = "ok" THEN PlacedRow(ArrivedRow(mem, coll.cur), now.id)
                        ELSE ArrivedRow(mem, coll.cur).mem
              /\ coll' = [coll EXCEPT !.declined = FALSE, !.cur = Nil]
  BY DEF ArrayEnd, Ended
<1>2. /\ coll = [acc |-> coll.acc, cur |-> coll.cur, declined |-> coll.declined, check |-> coll.check]
      /\ coll.check \in [waived : BOOLEAN] /\ (coll.declined <=> ~now.own) /\ coll.acc = Nil /\ CurInv
      /\ InLeaf /\ now.id \in Nat /\ array \in Arrays
  <2>1. ~Bytewise
    BY <1>1 DEF Bytewise, Matrix
  <2>2. array \in Arrays /\ now.id \in Ids /\ InLeaf
    BY <1>1 DEF Inv, PlainInv, NowInv
  <2>3. now.id \in Nat
    BY <2>2, ArraysAssumption
  <2> QED BY <1>1, <2>1, <2>2, <2>3 DEF Inv, CollInv, AccInv
<1>3. PlainInv' /\ Levels' = Levels
  <2>1. err' = err \/ err' = IndexVerdict(now.id)
    BY <1>1
  <2>2. err' \in {"ok", "InvalidMsg", "LimitExceeded", "Argument"}
    BY <1>2, <2>1, VerdictIsOne DEF Inv, PlainInv
  <2> QED BY <1>1, <2>2, SameArray DEF Inv, PlainInv
<1>4. CASE coll.declined
  <2>1. coll.cur = Nil
    BY <1>2, <1>4 DEF CurInv, OwnField
  <2>2. coll' = [acc |-> Nil, cur |-> Nil, declined |-> FALSE, check |-> coll.check]
    BY <1>1, <1>2, <1>4, <2>1
  <2>3. NowInv' /\ CollInv'
    BY <1>1, <1>2, <2>2, IdleInv
  <2>4. Tree(mem, Levels)' /\ PathInv'
    BY <1>1, <1>3, <1>4, SameArray DEF Inv, PathInv, LeafRow, LeafSlice
  <2> QED BY <1>3, <2>3, <2>4 DEF Inv
<1>5. CASE ~coll.declined
  <2> DEFINE r == ArrivedRow(mem, coll.cur)
  <2>1. /\ mem' = IF err' = "ok" THEN PlacedRow(r, now.id) ELSE r.mem
        /\ coll' = [acc |-> Nil, cur |-> Nil, declined |-> FALSE, check |-> coll.check]
    BY <1>1, <1>2, <1>5
  <2>2. NowInv' /\ CollInv'
    BY <1>1, <1>2, <2>1, IdleInv
  <2>3. /\ Levels \in 0 .. 2 /\ Tree(mem, Levels) /\ Memory(mem) /\ Len(mem) \in Nat /\ Len(mem) >= 1
    BY <1>2, ArrayTyped DEF Inv, Tree, Memory, Listed
  <2>4. /\ SliceIn(mem, coll.cur) /\ coll.cur.buf # 1
        /\ \A i, j : In(mem, Levels, i, j) /\ coll.cur.buf # 0 /\ At(mem, i, j).buf = coll.cur.buf =>
             /\ i = SlotI(LeafRow, now.id + 1) /\ j = SlotJ(LeafRow, now.id + 1)
             /\ now.id >= LeafSlice.len
    BY <1>1, <1>2, <1>5 DEF CurInv, OwnField
  <2>5. Kept(mem, r.mem, {}) /\ Spare(r.mem, r.val, now.id)
    <3>1. CASE coll.cur # Nil
      <4>1. r.mem = mem /\ r.val = coll.cur
        BY <3>1 DEF ArrivedRow
      <4> HIDE DEF r
      <4> QED BY <2>3, <2>4, <4>1, KeptAsIs DEF Spare, LeafSlice
    <3>2. CASE coll.cur = Nil
      <4> DEFINE d == Made(mem, <<>>, 0, ZeroCell)
      <4>1. r = d
        BY <3>2 DEF ArrivedRow
      <4>2. Listed(<<>>) /\ Len(<<>>) = 0 /\ Len(<<>>) <= 0 /\ 0 \in Nat
        BY EmptyListed
      <4>3. /\ Kept(mem, d.mem, {}) /\ Len(d.mem) = Len(mem) + 1
            /\ d.val = [buf |-> Len(mem) + 1, len |-> Len(<<>>)]
        BY <2>3, <4>2, MadeNew
      <4> HIDE DEF d, r
      <4>4. r.val.buf = Len(mem) + 1 /\ r.val.len = 0 /\ r.val = [buf |-> r.val.buf, len |-> r.val.len]
        BY <4>1, <4>2, <4>3
      <4>5. r.val.buf \in Len(mem) + 1 .. Len(r.mem) /\ r.val.buf # 1 /\ Len(r.mem) \in Nat /\ Memory(r.mem)
        BY <2>3, <4>1, <4>3, <4>4 DEF Kept
      <4>6. SliceIn(r.mem, r.val)
        <5>1. Cap(r.mem, r.val) \in Nat
          BY <2>3, <4>4, <4>5 DEF Cap, Memory, Listed
        <5> QED BY <2>3, <4>4, <4>5, <5>1 DEF SliceIn
      <4>7. Unused(r.mem, Levels, r.val.buf)
        BY <2>3, <4>1, <4>3, <4>5, NewBuffers
      <4> QED BY <4>1, <4>3, <4>5, <4>6, <4>7 DEF Spare, Unused
    <3> QED BY <3>1, <3>2
  <2> HIDE DEF r
  <2>6. CASE err' = "ok"
    <3>1. mem' = PlacedRow(r, now.id)
      BY <2>1, <2>6
    <3>2. Placed(mem, mem', Levels, LeafRow)
      BY <1>1, <1>2, <2>5, <3>1, RowPlaced
    <3>3. PathInv' /\ Tree(mem, Levels)'
      BY <1>1, <1>2, <3>2, PathPlaced
    <3> QED BY <1>3, <2>2, <3>3 DEF Inv
  <2>7. CASE err' # "ok"
    <3>1. mem' = r.mem
      BY <2>1, <2>7
    <3>2. Kept(mem, mem', {})
      BY <2>5, <3>1
    <3>3. SameHeaders(mem, mem', Levels) /\ Tree(mem', Levels)
      BY <2>3, <3>2, NewBuffers
    <3>4. PathInv'
      BY <1>1, <3>3, PathSame
    <3> QED BY <1>3, <2>2, <3>3, <3>4 DEF Inv
  <2> QED BY <2>6, <2>7
<1> QED BY <1>4, <1>5

-----------------------------------------------------------------------------
(* Take: the bytes so far are in a buffer of the accumulator's own; it is   *)
(* empty again when they are all there.                                    *)
Taken(m, t, n, total) ==
  /\ SameHeaders(m, t.mem, Levels) /\ Tree(t.mem, Levels) /\ Len(t.mem) >= Len(m) /\ Len(t.mem) \in Nat
  /\ Kept(m, t.mem, {coll.acc.buf})
  /\ Listed(t.bytes) /\ SliceIn(t.mem, t.own) /\ t.own.buf # 1
  /\ t.own.buf = 0 \/ Unused(t.mem, Levels, t.own.buf)
  /\ IF t.done THEN n = total /\ t.acc = Nil
     ELSE /\ n > 0 /\ SliceIn(t.mem, t.acc) /\ t.acc.len = n
          /\ t.acc.buf \in 2 .. Len(t.mem) /\ Unused(t.mem, Levels, t.acc.buf)

(* An accumulator without a buffer opens one, at accChunk at most.         *)
LEMMA OpensFresh ==
  ASSUME NEW total \in Nat
  PROVE  OpenAcc(Nil, total) = ReuseSlice(mem, Nil, FirstCap(total), 0) /\ FirstCap(total) \in Nat
<1>1. FirstCap(total) \in Nat
  BY ArraysAssumption DEF FirstCap
<1>2. Cap(mem, Nil) = 0
  BY DEF Cap, Nil
<1>3. OpenAcc(Nil, total) = Made(mem, <<>>, FirstCap(total), 0)
  BY <1>2, Zenon DEF OpenAcc
<1>4. ReuseSlice(mem, Nil, FirstCap(total), 0) = Made(mem, <<>>, FirstCap(total), 0)
  BY Zenon DEF ReuseSlice
<1> QED BY <1>1, <1>3, <1>4

(* PayloadAcc.Take: what it returns is in buffers no header has.           *)
LEMMA TakeDoes ==
  ASSUME Inv, now # NoField, now.own, Bytewise, NEW n \in now.off .. Len(now.want),
         n = now.off => now.want = <<>>,
         NEW t, t = Take(coll.acc, Len(now.want), now.off, SubSeq(now.want, now.off + 1, n))
  PROVE  Taken(mem, t, n, Len(now.want)) /\ t.done \in BOOLEAN
<1> DEFINE total == Len(now.want)
           off == now.off
           chunk == SubSeq(now.want, off + 1, n)
           acc == coll.acc
           open == IF off > 0 THEN [mem |-> mem, val |-> acc] ELSE OpenAcc(acc, total)
           r == AppendAll(open.mem, open.val, chunk, 0)
<1>1. /\ array \in Arrays /\ now.want \in Leaf.offers /\ off \in 0 .. total /\ Levels \in 0 .. 2
      /\ Listed(now.want) /\ total \in Nat /\ off \in Nat /\ n \in Nat /\ n <= total /\ off <= n
      /\ Tree(mem, Levels) /\ Memory(mem) /\ Len(mem) \in Nat /\ Len(mem) >= 1 /\ AccInv
  <2>1. array \in Arrays /\ now.want \in Leaf.offers /\ off \in 0 .. total /\ Tree(mem, Levels) /\ AccInv
    BY DEF Inv, PlainInv, NowInv, CollInv
  <2>2. Listed(now.want) /\ total \in Nat /\ Levels \in 0 .. 2
    BY <2>1, OfferListed, ArrayTyped
  <2> QED BY <2>1, <2>2 DEF Tree, Memory, Listed
<1>2. Listed(chunk) /\ Len(chunk) = n - off /\ Len(chunk) \in Nat
  <2>1. off + 1 \in 1 .. total + 1 /\ n \in off .. total
    BY <1>1
  <2>2. Listed(chunk) /\ Len(chunk) = n - off
    BY <1>1, <2>1, SubListed
  <2> QED BY <2>2 DEF Listed
<1>3. acc = Nil \/ (off > 0 /\ SliceIn(mem, acc) /\ acc.len = off /\ acc.buf \in 2 .. Len(mem)
                    /\ Unused(mem, Levels, acc.buf))
  BY <1>1 DEF AccInv, OwnField
<1>4. (off = 0 => acc = Nil) /\ (off > 0 => acc # Nil \/ acc.len = off)
  BY <1>1 DEF AccInv, OwnField
<1>5. /\ Nil.buf = 0 /\ Nil.len = 0 /\ SliceIn(mem, Nil) /\ Truncated(Nil) = Nil
      /\ \A m : Len(m) \in Nat => SliceIn(m, Nil)
  <2>1. Nil.buf = 0 /\ Nil.len = 0 /\ Truncated(Nil) = Nil
    BY DEF Nil, Truncated
  <2>2. \A m : Cap(m, Nil) = 0
    BY <2>1 DEF Cap
  <2>3. Nil = [buf |-> Nil.buf, len |-> Nil.len]
    BY DEF Nil
  <2>4. ASSUME NEW m, Len(m) \in Nat PROVE SliceIn(m, Nil)
    <3>1. 0 \in 0 .. Len(m) /\ 0 \in 0 .. 0
      BY <2>4
    <3> QED BY <2>1, <2>2, <2>3, <3>1, Zenon DEF SliceIn
  <2> QED BY <1>1, <2>1, <2>4
<1> HIDE DEF total, chunk, acc
(* The whole payload in one piece. *)
<1>6. CASE off = 0 /\ Len(chunk) >= total
  <2>1. t = [done |-> TRUE, bytes |-> chunk, mem |-> mem, acc |-> Truncated(acc), own |-> Nil]
    BY <1>6, Zenon DEF Take, total, chunk, acc
  <2>2. t.done = TRUE /\ t.bytes = chunk /\ t.mem = mem /\ t.acc = Nil /\ t.own = Nil
    BY <1>4, <1>5, <1>6, <2>1
  <2>3. n = total
    BY <1>1, <1>2, <1>6
  <2>4. SameHeaders(mem, mem, Levels) /\ Kept(mem, mem, {coll.acc.buf})
    BY <1>1, KeptAsIs DEF SameHeaders
  <2>5. /\ SameHeaders(mem, t.mem, Levels) /\ Tree(t.mem, Levels) /\ Len(t.mem) >= Len(mem) /\ Len(t.mem) \in Nat
        /\ Kept(mem, t.mem, {coll.acc.buf})
        /\ Listed(t.bytes) /\ SliceIn(t.mem, t.own) /\ t.own.buf # 1 /\ t.own.buf = 0
    <3>1. SliceIn(t.mem, t.own) /\ t.own.buf = 0 /\ t.own.buf # 1
      <4>1. SliceIn(t.mem, t.own) /\ t.own.buf = 0
        BY <1>5, <2>2, Zenon
      <4> QED BY <4>1
    <3>2. Len(t.mem) >= Len(mem) /\ Len(t.mem) \in Nat
      BY <1>1, <2>2
    <3> QED BY <1>1, <1>2, <2>2, <2>4, <3>1, <3>2, Zenon
  <2> QED BY <2>2, <2>3, <2>5, Zenon DEF Taken, total
(* One of several. *)
<1>7. CASE ~(off = 0 /\ Len(chunk) >= total)
  <2>1. n > 0
    <3>1. CASE n = 0
      <4>1. off = 0 /\ now.want = <<>>
        BY <1>1, <3>1
      <4>2. total = 0
        BY <1>1, <4>1, EmptyIffLen DEF total
      <4> QED BY <1>2, <1>7, <3>1, <4>1, <4>2
    <3> QED BY <1>1, <3>1
  <2>2. t = IF r.val.len < total
            THEN [done |-> FALSE, bytes |-> <<>>, mem |-> r.mem, acc |-> r.val, own |-> Nil]
            ELSE [done |-> TRUE, bytes |-> Contents(r.mem, r.val), mem |-> r.mem, acc |-> Nil, own |-> r.val]
    BY <1>7, Zenon DEF Take, AfterHandOver, total, chunk, acc
  <2>3. /\ Kept(mem, open.mem, {}) /\ SliceIn(open.mem, open.val) /\ open.val.len = off
        /\ open.val.buf = acc.buf \/ open.val.buf \in Len(mem) + 1 .. Len(open.mem)
        /\ open.val.buf # 0 /\ open.val.buf # 1 /\ Unused(open.mem, Levels, open.val.buf)
    <3>1. CASE off > 0
      <4>1. open.mem = mem /\ open.val = acc
        BY <3>1
      <4>2. SliceIn(mem, acc) /\ acc.len = off /\ acc.buf \in 2 .. Len(mem) /\ Unused(mem, Levels, acc.buf)
        BY <1>1, <3>1 DEF AccInv, OwnField, acc
      <4> HIDE DEF open
      <4> QED BY <1>1, <4>1, <4>2, KeptAsIs
    <3>2. CASE ~(off > 0)
      <4> DEFINE first == FirstCap(total)
      <4>1. open = ReuseSlice(mem, Nil, first, 0) /\ off = 0 /\ first \in Nat
        <5>1. off = 0 /\ acc = Nil
          BY <1>1, <1>4, <3>2
        <5>2. open = OpenAcc(Nil, total)
          BY <3>2, <5>1
        <5> QED BY <1>1, <5>1, <5>2, OpensFresh
      <4> HIDE DEF open, first
      <4>2. /\ Kept(mem, open.mem, {}) /\ SliceIn(open.mem, open.val) /\ open.val.len = 0 /\ open.val.buf # 0
            /\ \/ open.mem = mem /\ open.val.buf = Nil.buf
               \/ open.val.buf = Len(mem) + 1 /\ Len(open.mem) = Len(mem) + 1
        <5> DEFINE z == Nil
        <5>1. SliceIn(mem, z) /\ open = ReuseSlice(mem, z, first, 0)
          BY <1>5, <4>1
        <5> HIDE DEF z
        <5>2. /\ Kept(mem, open.mem, {}) /\ SliceIn(open.mem, open.val) /\ open.val.len = 0 /\ open.val.buf # 0
              /\ \/ open.mem = mem /\ open.val = Truncated(z) /\ open.val.buf = z.buf
                 \/ open.val.buf = Len(mem) + 1 /\ Len(open.mem) = Len(mem) + 1 /\ Cap(open.mem, open.val) = first
          BY <1>1, <4>1, <5>1, Reused
        <5> QED BY <5>2 DEF z
      <4>3. open.val.buf \in Len(mem) + 1 .. Len(open.mem)
        BY <1>1, <1>5, <4>2
      <4>4. Unused(open.mem, Levels, open.val.buf) /\ open.val.buf # 1
        BY <1>1, <4>2, <4>3, NewBuffers
      <4> QED BY <4>1, <4>2, <4>3, <4>4
    <3> QED BY <3>1, <3>2
  <2>4. SameHeaders(mem, open.mem, Levels) /\ Tree(open.mem, Levels) /\ Len(open.mem) >= Len(mem)
        /\ Memory(open.mem) /\ Len(open.mem) \in Nat
    BY <1>1, <2>3, NewBuffers DEF Tree
  <2> HIDE DEF open
  <2>5. /\ Kept(open.mem, r.mem, {open.val.buf}) /\ SliceIn(r.mem, r.val) /\ r.val.len = n
        /\ r.val.buf = open.val.buf \/ r.val.buf \in Len(open.mem) + 1 .. Len(r.mem)
    <3>1. Appended(open.mem, open.val, r.mem, r.val, chunk, Len(chunk), 0)
      BY <1>2, <2>3, <2>4, AppendedAll
    <3> HIDE DEF r
    <3>2. /\ Kept(open.mem, r.mem, {open.val.buf}) /\ SliceIn(r.mem, r.val)
          /\ r.val.len = open.val.len + Len(chunk)
          /\ r.val.buf = open.val.buf \/ r.val.buf \in Len(open.mem) + 1 .. Len(r.mem)
      BY <3>1, Zenon DEF Appended, Longer
    <3> QED BY <1>1, <1>2, <2>3, <3>2
  <2> HIDE DEF r
  <2>6. SameHeaders(open.mem, r.mem, Levels) /\ Tree(r.mem, Levels)
        /\ \A b : Unused(open.mem, Levels, b) => Unused(r.mem, Levels, b)
    <3>1. \A i, j : In(open.mem, Levels, i, j) /\ At(open.mem, i, j).buf = open.val.buf => FALSE
      BY <2>3 DEF Unused
    <3>2. open.val.buf # 0 => \A i, j : In(open.mem, Levels, i, j) /\ At(open.mem, i, j).buf = open.val.buf =>
                                         ~(IF i = 0 THEN Levels >= 1 ELSE Levels = 2 /\ j = 0)
      BY <3>1
    <3> QED BY <1>1, <2>3, <2>4, <2>5, <3>2, BelowSame
  <2>7. SameHeaders(mem, r.mem, Levels)
    BY <2>4, <2>6 DEF SameHeaders
  <2>8. Len(r.mem) \in Nat /\ Len(r.mem) >= Len(open.mem) /\ Len(r.mem) >= Len(mem) /\ Memory(r.mem)
    <3>1. Len(r.mem) \in Nat /\ Len(r.mem) >= Len(open.mem) /\ Memory(r.mem)
      BY <2>5 DEF Kept, Memory, Listed
    <3> QED BY <1>1, <2>4, <3>1
  <2>9. Unused(r.mem, Levels, r.val.buf) /\ r.val.buf # 1 /\ r.val.buf # 0 /\ r.val.buf \in 2 .. Len(r.mem)
    <3>1. r.val.buf \in 0 .. Len(r.mem)
      BY <2>5 DEF SliceIn
    <3>2. CASE r.val.buf = open.val.buf
      BY <2>3, <2>6, <2>8, <3>1, <3>2
    <3>3. CASE r.val.buf \in Len(open.mem) + 1 .. Len(r.mem)
      <4>1. r.val.buf \notin 0 .. Len(open.mem) /\ r.val.buf # 1 /\ r.val.buf # 0 /\ r.val.buf \in 2 .. Len(r.mem)
        BY <1>1, <2>4, <2>8, <3>3
      <4>2. Unused(open.mem, Levels, r.val.buf)
        BY <1>1, <2>4, <4>1, TreeHas DEF Unused
      <4> QED BY <2>6, <4>1, <4>2
    <3> QED BY <2>5, <3>2, <3>3
  <2>10. Kept(mem, r.mem, {coll.acc.buf})
    <3>1. ASSUME NEW b \in 1 .. Len(mem) PROVE Len(r.mem[b]) = Len(mem[b]) /\ (b \notin {acc.buf} => r.mem[b] = mem[b])
      <4>1. b \in 1 .. Len(open.mem)
        BY <1>1, <2>4
      <4>2. open.mem[b] = mem[b]
        BY <2>3 DEF Kept
      <4>3. b # acc.buf => b # open.val.buf
        BY <1>1, <2>3
      <4> QED BY <2>5, <4>1, <4>2, <4>3 DEF Kept
    <3> QED BY <2>8, <3>1 DEF Kept, acc
  <2>11. CASE r.val.len < total
    <3>1. t = [done |-> FALSE, bytes |-> <<>>, mem |-> r.mem, acc |-> r.val, own |-> Nil]
      BY <2>2, <2>11, Zenon
    <3>2. t.done = FALSE /\ t.bytes = <<>> /\ t.mem = r.mem /\ t.acc = r.val /\ t.own = Nil
      BY <3>1
    <3>3. SliceIn(t.mem, t.own) /\ t.own.buf # 1 /\ t.own.buf = 0 /\ Listed(t.bytes)
      <4>1. SliceIn(t.mem, t.own) /\ t.own.buf = 0 /\ Listed(t.bytes)
        BY <1>5, <2>8, <3>2, EmptyListed, Zenon
      <4> QED BY <4>1
    <3> QED BY <2>1, <2>5, <2>6, <2>7, <2>8, <2>9, <2>10, <3>2, <3>3, Zenon DEF Taken
  <2>12. CASE ~(r.val.len < total)
    <3>1. t = [done |-> TRUE, bytes |-> Contents(r.mem, r.val), mem |-> r.mem, acc |-> Nil, own |-> r.val]
      BY <2>2, <2>12, Zenon
    <3>2. t.done = TRUE /\ t.bytes = Contents(r.mem, r.val) /\ t.mem = r.mem /\ t.acc = Nil /\ t.own = r.val
      BY <3>1
    <3>3. Listed(t.bytes)
      BY <2>5, <2>8, <3>2, ContentsListed
    <3>4. n = total
      BY <1>1, <2>5, <2>12
    <3> QED BY <2>5, <2>6, <2>7, <2>8, <2>9, <2>10, <3>2, <3>3, <3>4, Zenon DEF Taken, total
  <2> QED BY <2>11, <2>12
<1> QED BY <1>6, <1>7

(* Where the leaf is after Take.                                           *)
LEMMA TakenLeaf ==
  ASSUME Inv, InLeaf, NEW t, NEW n, NEW total, Taken(mem, t, n, total)
  PROVE  /\ Levels \in 0 .. 2 /\ Tree(t.mem, Levels) /\ In(t.mem, Levels, LeafRow, 0)
         /\ In(mem, Levels, LeafRow, 0) /\ At(t.mem, LeafRow, 0) = At(mem, LeafRow, 0)
         /\ out = PtrTo(t.mem, LeafRow) /\ Load(t.mem, out) = At(t.mem, LeafRow, 0)
         /\ SameHeaders(mem, t.mem, Levels) /\ Len(t.mem) >= Len(mem)
         /\ Len(t.mem) \in Nat /\ Len(mem) \in Nat
<1>1. /\ Levels \in 0 .. 2 /\ Len(path) >= Depth /\ Tree(mem, Levels)
  BY ArrayTyped DEF InLeaf, Inv, PlainInv
<1>2. In(mem, Levels, LeafRow, 0) /\ out = PtrTo(mem, LeafRow) /\ Len(mem) \in Nat
  BY <1>1, WhereLeaf, TreeHas
<1>3. SameHeaders(mem, t.mem, Levels) /\ Tree(t.mem, Levels) /\ Len(t.mem) >= Len(mem) /\ Len(t.mem) \in Nat
  BY DEF Taken
<1>4. /\ In(t.mem, Levels, LeafRow, 0) /\ In(mem, Levels, 0, 0) /\ At(t.mem, 0, 0) = At(mem, 0, 0)
      /\ At(t.mem, LeafRow, 0) = At(mem, LeafRow, 0)
  BY <1>2, <1>3 DEF SameHeaders, In
<1>5. out = PtrTo(t.mem, LeafRow)
  BY <1>2, <1>4 DEF PtrTo
<1> QED BY <1>1, <1>2, <1>3, <1>4, <1>5, PtrToHolds

(* A string is placed.                                                     *)
LEMMA StringPlaced ==
  ASSUME Inv, InLeaf, Leaf.kind = "String", NEW id \in Nat, NEW t, NEW n, NEW total, Taken(mem, t, n, total),
         NEW u, u = PlacedString(t, id)
  PROVE  Placed(mem, u, Levels, LeafRow)
<1> DEFINE w == t.mem
           g == Grow(w, out, id, Leaf.count, <<>>)
           v == g.mem
           a == LeafRow
           N == Levels
           zero == <<>>
<1>1. /\ N \in 0 .. 2 /\ Tree(w, N) /\ In(w, N, a, 0) /\ In(mem, N, a, 0) /\ out = PtrTo(w, a)
      /\ SameHeaders(mem, w, N) /\ Len(w) >= Len(mem) /\ Len(w) \in Nat /\ Len(mem) \in Nat
  BY TakenLeaf
<1>2. Bare(N, a) /\ ~(IF a = 0 THEN N >= 1 ELSE N = 2) /\ Leaf.count \in Int
  <2>1. ~HoldsSlices /\ Len(path) >= Depth /\ Leaf.count \in Int
    BY ArrayTyped DEF HoldsSlices, Matrix, InLeaf, Inv, PlainInv
  <2> QED BY <2>1, WhereLeaf
<1>3. u = Save(v, ElementAt(v, out, id), t.bytes)
  BY DEF PlacedString
<1>4. v = Filled(ReserveRows(w, out, id, Leaf.count, zero), out, id, zero, zero)
  BY DEF Grow
<1> HIDE DEF w, g, v, a, N, zero
<1>5. Reached(w, v, N, a, id, zero, zero)
  BY <1>1, <1>2, <1>4, GrownToReach
<1>6. Placed(w, u, N, a)
  <2>1. u = Save(v, ElementAt(v, PtrTo(w, a), id), t.bytes)
    BY <1>1, <1>3
  <2> QED BY <1>1, <1>2, <1>5, <2>1, BarePlaced
<1>7. Len(u) \in Nat
  BY <1>6 DEF Placed, Tree, Memory, Listed
<1> QED BY <1>1, <1>6, <1>7, PlacedOver DEF w, a, N

(* A blob is placed: kept as it was put together, or copied over what an    *)
(* earlier decode left in the slot.                                        *)
LEMMA BlobPlaced ==
  ASSUME Inv, InLeaf, Leaf.kind = "Blob", NEW id \in Nat, NEW t, NEW n, NEW total, Taken(mem, t, n, total),
         NEW offset, NEW u, u = PlacedBlob(t, id, offset)
  PROVE  Placed(mem, u, Levels, LeafRow)
<1> DEFINE w == t.mem
           g == Grow(w, out, id, Leaf.count, Nil)
           v == g.mem
           a == LeafRow
           N == Levels
           s == g.val
           keep == offset > 0 /\ Cap(v, s) < Len(t.bytes)
           r == IF keep THEN [mem |-> v, val |-> t.own] ELSE ReuseBytes(v, s, t.bytes)
           x == r.val
<1>1. /\ N \in 0 .. 2 /\ Tree(w, N) /\ In(w, N, a, 0) /\ In(mem, N, a, 0) /\ out = PtrTo(w, a)
      /\ SameHeaders(mem, w, N) /\ Len(w) >= Len(mem) /\ Len(w) \in Nat /\ Len(mem) \in Nat
      /\ Load(w, out) = At(w, a, 0) /\ Memory(w)
  BY TakenLeaf DEF Tree
<1>2. Leafy(N, a) /\ (IF a = 0 THEN N >= 1 ELSE N = 2) /\ Leaf.count \in Int
  <2>1. HoldsSlices /\ Len(path) >= Depth /\ Leaf.count \in Int
    BY ArrayTyped DEF HoldsSlices, InLeaf, Inv, PlainInv
  <2> QED BY <2>1, WhereLeaf
<1>3. Listed(t.bytes) /\ SliceIn(w, t.own) /\ t.own.buf # 1 /\ (t.own.buf = 0 \/ Unused(w, N, t.own.buf))
  BY DEF Taken
<1>4. u = Save(r.mem, ElementAt(r.mem, out, id), x)
  BY DEF PlacedBlob
<1>5. v = Filled(ReserveRows(w, out, id, Leaf.count, Nil), out, id, Nil, Nil)
      /\ s = Stale(w, At(w, a, 0), id, Nil)
  BY <1>1 DEF Grow
<1> HIDE DEF w, g, v, a, N, s
<1>6. Reached(w, v, N, a, id, Nil, Nil)
  BY <1>1, <1>2, <1>5, GrownToReach
<1>7. /\ Lengthened(w, v, PtrTo(w, a), Reaching(At(w, a, 0).len, id), Nil, Nil) /\ Grew(w, v, N, a)
      /\ At(v, a, 0) = Load(v, PtrTo(w, a)) /\ Memory(v) /\ Len(v) \in Nat /\ Len(v) >= Len(w)
      /\ Kept(w, v, {PtrTo(w, a).buf, At(w, a, 0).buf}) /\ Tree(v, N)
  <2>1. Grew(w, v, N, a)
    BY <1>6 DEF Reached
  <2> QED BY <1>6, <2>1 DEF Reached, Grew
<1>8. /\ SliceIn(w, s) /\ s.buf # 1 /\ s.buf \in 0 .. Len(w)
      /\ \A i, j : In(w, N, i, j) /\ s.buf # 0 /\ At(w, i, j).buf = s.buf
           => i = SlotI(a, id + 1) /\ j = SlotJ(a, id + 1) /\ id >= At(w, a, 0).len
  BY <1>1, <1>2, <1>5, StaleHeader
<1>9. SliceIn(v, s) /\ SliceIn(v, t.own)
  BY <1>1, <1>3, <1>7, <1>8, KeptSlice
<1>10. s.buf = 0 \/ Unused(v, N, s.buf)
  <2>1. SUFFICES ASSUME s.buf # 0 PROVE Unused(v, N, s.buf)
    OBVIOUS
  <2>2. s.buf \in 1 .. Len(w)
    BY <1>1, <1>8, <2>1
  <2>3. \A i, j : In(w, N, i, j) /\ At(w, i, j).buf = s.buf =>
           /\ i = SlotI(a, id + 1) /\ j = SlotJ(a, id + 1) /\ id >= At(w, a, 0).len
    BY <1>8, <2>1
  <2> QED BY <1>1, <1>2, <1>7, <2>2, <2>3, SharedGone
<1>11. /\ Kept(v, r.mem, {s.buf}) /\ SliceIn(r.mem, x) /\ x.buf # 1
       /\ x.buf = 0 \/ x.buf = s.buf \/ Unused(v, N, x.buf)
  <2>1. CASE keep
    <3>1. r.mem = v /\ x = t.own
      BY <2>1
    <3>2. t.own.buf = 0 \/ Unused(v, N, t.own.buf)
      <4>1. CASE t.own.buf # 0
        <5>1. t.own.buf \in 1 .. Len(w) /\ Unused(w, N, t.own.buf)
          BY <1>1, <1>3, <4>1 DEF SliceIn
        <5> QED BY <1>1, <1>7, <5>1, GrewUnused
      <4> QED BY <4>1
    <3> HIDE DEF r, x
    <3> QED BY <1>3, <1>7, <1>9, <3>1, <3>2, KeptAsIs
  <2>2. CASE ~keep
    <3>1. r = ReuseBytes(v, s, t.bytes)
      BY <2>2
    <3> HIDE DEF r, keep
    <3>2. BytesIn(v, s, t.bytes, r.mem, r.val)
      BY <1>3, <1>7, <1>9, <3>1, ReusedBytes
    <3>3. Kept(v, r.mem, {s.buf}) /\ SliceIn(r.mem, x) /\ (x.buf = 0 \/ x.buf = s.buf \/ x.buf \in Len(v) + 1 .. Len(r.mem))
      BY <3>2 DEF BytesIn
    <3> HIDE DEF x
    <3>4. CASE x.buf \in Len(v) + 1 .. Len(r.mem)
      <4>1. x.buf \notin 0 .. Len(v) /\ x.buf # 1
        <5>1. Len(v) >= 1 /\ Len(r.mem) \in Nat
          BY <1>7, <3>3 DEF Tree, Kept, Memory, Listed
        <5> QED BY <1>7, <3>4, <5>1
      <4>2. Unused(v, N, x.buf)
        BY <1>1, <1>7, <4>1, TreeHas DEF Unused
      <4> QED BY <3>3, <4>1, <4>2
    <3>5. CASE x.buf = 0 \/ x.buf = s.buf
      BY <1>8, <3>3, <3>5
    <3> QED BY <3>3, <3>4, <3>5
  <2> QED BY <2>1, <2>2
<1> HIDE DEF r, x
<1>12. Placed(w, u, N, a)
  <2> DEFINE y == s.buf
             z == r.mem
  <2>1. u = Save(z, ElementAt(z, PtrTo(w, a), id), x)
    BY <1>1, <1>4
  <2>2. /\ N \in 0 .. 2 /\ Tree(w, N) /\ In(w, N, a, 0) /\ Leafy(N, a) /\ id \in Nat
        /\ Reached(w, v, N, a, id, Nil, Nil) /\ y # 1 /\ SliceIn(z, x) /\ Kept(v, z, {y})
    BY <1>1, <1>2, <1>6, <1>8, <1>11
  <2>3. y = 0 \/ Unused(v, N, y)
    BY <1>10
  <2>4. x.buf # 1 /\ (x.buf = 0 \/ x.buf = y \/ Unused(v, N, x.buf))
    BY <1>11
  <2> HIDE DEF y, z
  <2> QED BY ONLY <2>1, <2>2, <2>3, <2>4, LeafPlaced
<1>13. Len(u) \in Nat
  BY <1>12 DEF Placed, Tree, Memory, Listed
<1> QED BY <1>1, <1>12, <1>13, PlacedOver DEF w, a, N

(* StringSeq.String and BlobSeq.Bytes.                                     *)
LEMMA CollectKeeps ==
  ASSUME Inv, now # NoField, now.own, Bytewise, NEW n \in now.off .. Len(now.want),
         n = now.off => now.want = <<>>, Collect(SubSeq(now.want, now.off + 1, n), n)
  PROVE  Inv'
<1> DEFINE piece == SubSeq(now.want, now.off + 1, n)
           t == Take(coll.acc, Len(now.want), now.off, piece)
           verdict == Verdict(now.id, Len(now.want))
<1>1. IF verdict # "ok" THEN Fail(verdict)
      ELSE /\ coll' = [coll EXCEPT !.acc = t.acc]
           /\ now' = IF t.done THEN NoField ELSE [now EXCEPT !.off = n]
           /\ err' = IF Rejects(t, piece) THEN "InvalidMsg" ELSE err
           /\ mem' = IF ~t.done \/ Rejects(t, piece) THEN t.mem
                     ELSE IF Leaf.kind = "String" THEN PlacedString(t, now.id)
                     ELSE PlacedBlob(t, now.id, now.off)
           /\ UNCHANGED <<array, limits, out, elem, path, decodes>>
  BY DEF Collect
<1>2. Taken(mem, t, n, Len(now.want)) /\ t.done \in BOOLEAN
  BY TakeDoes
<1>3. /\ array \in Arrays /\ InLeaf /\ now.id \in Nat /\ coll.cur = Nil /\ coll.declined = FALSE
      /\ coll.check \in [waived : BOOLEAN] /\ Leaf.kind \in {"String", "Blob"} /\ Leaf.kind \notin Matrix
      /\ coll = [acc |-> coll.acc, cur |-> coll.cur, declined |-> coll.declined, check |-> coll.check]
  <2>1. array \in Arrays /\ now.id \in Ids /\ InLeaf
    BY DEF Inv, PlainInv, NowInv
  <2>2. Leaf.kind \in {"String", "Blob"} /\ Leaf.kind \notin Matrix
    BY DEF Bytewise, Matrix
  <2> QED BY <2>1, <2>2, ArraysAssumption DEF Inv, CollInv, CurInv
<1> HIDE DEF t, piece
<1>4. CASE verdict # "ok"
  BY <1>1, <1>3, <1>4, VerdictIsOne, FailKeeps
<1>5. CASE verdict = "ok"
  <2>1. /\ coll' = [coll EXCEPT !.acc = t.acc]
        /\ now' = IF t.done THEN NoField ELSE [now EXCEPT !.off = n]
        /\ err' = err \/ err' = "InvalidMsg"
        /\ mem' = IF ~t.done \/ Rejects(t, piece) THEN t.mem
                  ELSE IF Leaf.kind = "String" THEN PlacedString(t, now.id)
                  ELSE PlacedBlob(t, now.id, now.off)
        /\ UNCHANGED <<array, limits, out, elem, path>>
    BY <1>1, <1>5
  <2>2. PlainInv' /\ Leaf' = Leaf /\ Levels' = Levels
    BY <2>1, SameArray DEF Inv, PlainInv
  <2>3. coll' = [acc |-> t.acc, cur |-> Nil, declined |-> FALSE, check |-> coll.check]
    BY <1>3, <2>1
  <2>4. coll'.acc = t.acc /\ coll'.cur = Nil /\ coll'.declined = FALSE /\ coll'.check = coll.check
    BY <2>3
  <2>5. CASE t.done
    <3>1. now' = NoField /\ t.acc = Nil
      BY <1>2, <2>1, <2>5 DEF Taken
    <3>2. ASSUME ~Rejects(t, piece) PROVE Placed(mem, mem', Levels, LeafRow)
      <4>1. CASE Leaf.kind = "String"
        <5>1. mem' = PlacedString(t, now.id)
          BY <2>1, <2>5, <3>2, <4>1
        <5> QED BY <1>2, <1>3, <4>1, <5>1, StringPlaced
      <4>2. CASE Leaf.kind = "Blob"
        <5>1. mem' = PlacedBlob(t, now.id, now.off)
          BY <2>1, <2>5, <3>2, <4>2
        <5> QED BY <1>2, <1>3, <4>2, <5>1, BlobPlaced
      <4> QED BY <1>3, <4>1, <4>2
    <3>3. PathInv' /\ Tree(mem, Levels)'
      <4>1. CASE ~Rejects(t, piece)
        BY <1>3, <2>1, <3>2, <4>1, PathPlaced
      <4>2. CASE Rejects(t, piece)
        <5>1. mem' = t.mem
          BY <2>1, <4>2
        <5>2. SameHeaders(mem, mem', Levels) /\ Tree(mem', Levels)
          BY <1>2, <5>1 DEF Taken
        <5> QED BY <2>1, <2>2, <5>2, PathSame
      <4> QED BY <4>1, <4>2
    <3>4. NowInv' /\ CollInv'
      BY <1>3, <2>3, <2>4, <3>1, IdleInv
    <3> QED BY <2>2, <3>3, <3>4 DEF Inv
  <2>6. CASE ~t.done
    <3>1. mem' = t.mem /\ now' = [now EXCEPT !.off = n]
      <4>1. mem' = t.mem
        BY <2>1, <2>6
      <4>2. now' = [now EXCEPT !.off = n]
        BY <2>1, <2>6, Zenon
      <4> QED BY <4>1, <4>2
    <3>2. /\ SameHeaders(mem, mem', Levels) /\ Tree(mem', Levels)
          /\ n > 0 /\ SliceIn(mem', t.acc) /\ t.acc.len = n
          /\ t.acc.buf \in 2 .. Len(mem') /\ Unused(mem', Levels, t.acc.buf)
      BY <1>2, <2>6, <3>1 DEF Taken
    <3>3. PathInv' /\ LeafRow' = LeafRow
      BY <2>1, <3>2, PathSame
    <3>4. NowInv' /\ now'.off = n /\ now' # NoField /\ now'.own = now.own
      BY <2>1, <3>1, GoneOn
    <3>5. AccInv'
      <4>1. OwnField' /\ Bytewise' /\ now'.off > 0
        BY <2>2, <3>2, <3>4 DEF OwnField, Bytewise
      <4> QED BY <2>2, <2>4, <3>2, <3>4, <4>1 DEF AccInv
    <3>6. CurInv'
      BY <1>3, <2>2, <2>4 DEF CurInv
    <3>7. CollInv'
      BY <1>3, <2>2, <2>3, <2>4, <3>5, <3>6 DEF CollInv
    <3> QED BY <2>2, <3>2, <3>3, <3>4, <3>7 DEF Inv
  <2> QED BY <1>2, <2>5, <2>6
<1> QED BY <1>4, <1>5

(* What the wire offers, in the Go type of the row.                        *)
LEMMA NarrowedListed ==
  ASSUME Inv, NEW want \in Leaf.offers
  PROVE  LET row == [i \in DOMAIN want |-> Narrowed(want[i])] IN
         Listed(row) /\ Len(row) = Len(want) /\ \A i \in 1 .. Len(want) : row[i] = Narrowed(want[i])
<1> DEFINE row == [i \in DOMAIN want |-> Narrowed(want[i])]
<1>1. Listed(want) /\ Len(want) \in Nat
  BY OfferListed DEF Inv, PlainInv
<1>2. DOMAIN want = 1 .. Len(want)
  <2>1. want = [j \in 1 .. Len(want) |-> want[j]]
    BY <1>1 DEF Listed
  <2>2. DOMAIN [j \in 1 .. Len(want) |-> want[j]] = 1 .. Len(want)
    OBVIOUS
  <2> QED BY <2>1, <2>2, Zenon
<1>3. row = [i \in 1 .. Len(want) |-> row[i]]
  BY <1>2
<1>4. \A i \in 1 .. Len(want) : row[i] = Narrowed(want[i])
  BY <1>2
<1> HIDE DEF row
<1>5. Listed(row) /\ Len(row) = Len(want)
  BY <1>1, <1>3, TabulatedIsListed
<1> QED BY <1>4, <1>5 DEF row

(* A piece of a string or of a blob.                                       *)
LEMMA PieceKeeps ==
  ASSUME Inv, NEW n, Piece(n) PROVE Inv'
<1>1. /\ now # NoField /\ Bytewise /\ n \in now.off .. Len(now.want) /\ (n = now.off => now.want = <<>>)
      /\ IF now.own THEN Collect(SubSeq(now.want, now.off + 1, n), n)
         ELSE /\ now' = IF n = Len(now.want) THEN NoField ELSE [now EXCEPT !.off = n]
              /\ UNCHANGED <<array, mem, limits, out, coll, elem, path, err, decodes>>
  BY DEF Piece, Bytewise
<1>2. CASE now.own
  BY <1>1, <1>2, CollectKeeps
<1>3. CASE ~now.own
  <2>1. PieceSkipped(n)
    BY <1>1, <1>3 DEF PieceSkipped, Piece, Bytewise
  <2> QED BY <2>1, PieceSkippedKeeps
<1> QED BY <1>2, <1>3

-----------------------------------------------------------------------------
(* Before the first field: the destination is one nil slice.               *)
LEMMA EmptyTree ==
  ASSUME NEW n \in 0 .. 2
  PROVE  Tree(<<<<Nil>>>>, n) /\ At(<<<<Nil>>>>, 0, 0) = Nil
<1> DEFINE m == <<<<Nil>>>>
<1>1. m[1] = <<Nil>> /\ m[1][1] = Nil /\ Len(m) = 1 /\ Len(m[1]) = 1 /\ Len(<<Nil>>) = 1
  OBVIOUS
<1>2. Memory(m)
  <2>1. Listed(<<Nil>>) /\ Listed(m)
    <3>1. <<Nil>> \in Seq({Nil}) /\ m \in Seq({<<Nil>>})
      OBVIOUS
    <3> QED BY <3>1, SeqIsListed
  <2> QED BY <1>1, <2>1 DEF Memory
<1> HIDE DEF m
<1>3. At(m, 0, 0) = Nil
  BY <1>1, Zenon DEF At
<1>4. Nil.buf = 0 /\ Nil.len = 0 /\ Cap(m, Nil) = 0
  BY DEF Nil, Cap
<1>5. \A i, j : In(m, n, i, j) => i = 0 /\ j = 0
  BY <1>3, <1>4 DEF In
<1>6. SliceIn(m, Nil)
  <2>1. Nil = [buf |-> Nil.buf, len |-> Nil.len]
    BY DEF Nil
  <2> QED BY <1>1, <1>4, <2>1 DEF SliceIn
<1>7. \A i, j : In(m, n, i, j) => SliceIn(m, At(m, i, j)) /\ At(m, i, j).buf # 1
  BY <1>3, <1>4, <1>5, <1>6
<1>8. \A i, j, k, l : In(m, n, i, j) /\ In(m, n, k, l) /\ At(m, i, j).buf # 0
        /\ At(m, i, j).buf = At(m, k, l).buf => i = k /\ j = l
  BY <1>5
<1>9. Tree(m, n)
  BY <1>1, <1>2, <1>7, <1>8 DEF Tree
<1> QED BY <1>3, <1>9 DEF m

(* A decode into a new destination.                                        *)
LEMMA InitInv ==
  ASSUME Init PROVE Inv
<1>1. /\ array \in Arrays /\ mem = <<<<Nil>>>> /\ coll = NewCollector /\ elem = Nowhere
      /\ path = <<>> /\ now = NoField /\ err = "ok"
      /\ out = IF array.nested THEN Nowhere ELSE Field
  BY DEF Init
<1>2. limits \in [strictUTF8 : BOOLEAN, maxDepth : Int]
  <2>1. PICK opts \in OptionLists(array) : limits = NewLimits(opts)
    BY DEF Init
  <2>2. opts \in Seq(Option)
    BY <1>1, <2>1, ArraysAssumption
  <2> QED BY <2>1, <2>2, LimitsTyped
<1>3. Depth \in 0 .. 1 /\ Levels \in 0 .. 2 /\ (array.nested <=> Depth = 1) /\ array.nested \in BOOLEAN
  BY <1>1, ArrayTyped
<1>4. Tree(mem, Levels) /\ At(mem, 0, 0) = Nil
  BY <1>1, <1>3, EmptyTree
<1>5. NowInv
  BY <1>1 DEF NowInv, NoField
<1>6. CollInv
  <2>1. /\ coll.acc = Nil /\ coll.cur = Nil /\ coll.declined = FALSE /\ coll.check = ZeroCheck
        /\ coll = [acc |-> coll.acc, cur |-> coll.cur, declined |-> coll.declined, check |-> coll.check]
    BY <1>1 DEF NewCollector
  <2>2. ZeroCheck \in [waived : BOOLEAN]
    BY DEF ZeroCheck
  <2> QED BY <1>1, <2>1, <2>2 DEF CollInv, AccInv, CurInv, OwnField
<1>7. PathInv
  <2>1. path \in Seq(Ids) /\ Len(path) = 0
    BY <1>1
  <2>2. out = IF Len(path) >= Depth THEN PtrTo(mem, LeafRow) ELSE Nowhere
    BY <1>1, <1>3, <2>1 DEF PtrTo, LeafRow, Field
  <2> QED BY <1>1, <1>3, <2>1, <2>2 DEF PathInv
<1>8. PlainInv
  BY <1>1, <1>2 DEF PlainInv
<1> QED BY <1>4, <1>5, <1>6, <1>7, <1>8 DEF Inv

(* A step that changes nothing.                                            *)
LEMMA StutterKeeps ==
  ASSUME Inv, UNCHANGED vars PROVE Inv'
<1>1. UNCHANGED <<array, mem, limits, out, coll, elem, path, now, err>>
  BY DEF vars
<1>2. Levels' = Levels /\ Leaf' = Leaf /\ Depth' = Depth /\ LeafRow' = LeafRow /\ LeafSlice' = LeafSlice
  BY <1>1, SameArray DEF LeafRow, LeafSlice
<1>3. PlainInv' /\ Tree(mem, Levels)' /\ NowInv' /\ PathInv'
  BY <1>1, <1>2 DEF Inv, PlainInv, NowInv, InLeaf, PathInv
<1>4. CollInv'
  BY <1>1, <1>2 DEF Inv, CollInv, AccInv, CurInv, OwnField, Bytewise
<1> QED BY <1>3, <1>4 DEF Inv

(* Every callback.                                                         *)
LEMMA NextKeeps ==
  ASSUME Inv, [Next]_vars PROVE Inv'
<1>1. CASE OpenArray
  BY <1>1, OpenArrayKeeps
<1>2. CASE \E id \in Ids : NestedBeginSequence(id) \/ MessageBeginSequence(id)
  BY <1>2, NestedBeginSequenceKeeps, MessageBeginSequenceKeeps
<1>3. CASE \E f \in DOMAIN Leaf.default, v \in Leaf.range : SetMember(f, v)
  BY <1>3, SetMemberKeeps
<1>4. CASE EndSequence
  BY <1>4, EndSequenceKeeps
<1>5. ASSUME NEW id \in Ids, NEW want \in Leaf.offers,
             \/ \E subtype \in {"String", "Blob"} : FixlenBegin(id, subtype, want)
             \/ \E kind \in {WireKind, "Other"} : ArrayBegin(id, kind, want)
             \/ PieceByHand(id, want)
             \/ PlaceRow(id, [i \in DOMAIN want |-> Narrowed(want[i])])
      PROVE  Inv'
  <2>1. CASE \E subtype \in {"String", "Blob"} : FixlenBegin(id, subtype, want)
    BY <2>1, FixlenBeginKeeps
  <2>2. CASE \E kind \in {WireKind, "Other"} : ArrayBegin(id, kind, want)
    BY <2>2, ArrayBeginKeeps
  <2>3. CASE PieceByHand(id, want)
    BY <2>3, PieceByHandKeeps
  <2>4. CASE PlaceRow(id, [i \in DOMAIN want |-> Narrowed(want[i])])
    <3> DEFINE row == [i \in DOMAIN want |-> Narrowed(want[i])]
    <3>1. Listed(row)
      BY NarrowedListed
    <3> HIDE DEF row
    <3>2. PlaceRow(id, row)
      BY <2>4 DEF row
    <3> QED BY <3>1, <3>2, PlaceRowKeeps
  <2> QED BY <1>5, <2>1, <2>2, <2>3, <2>4
<1>6. CASE \E n \in 0 .. Len(now.want) : Piece(n)
  BY <1>6, PieceKeeps
<1>7. CASE ArrayElement
  BY <1>7, ArrayElementKeeps
<1>8. CASE ArrayEnd
  BY <1>8, ArrayEndKeeps
<1>9. CASE UNCHANGED vars
  BY <1>9, StutterKeeps
<1>10. CASE Next
  BY <1>1, <1>2, <1>3, <1>4, <1>5, <1>6, <1>7, <1>8, <1>10 DEF Next
<1> QED BY <1>9, <1>10

-----------------------------------------------------------------------------
(* What every decode of a wrapper array keeps.                             *)
THEOREM InvHolds == Spec => []Inv
<1>1. Init => Inv
  BY InitInv
<1>2. Inv /\ [Next]_vars => Inv'
  BY NextKeeps
<1> QED BY <1>1, <1>2, PTL DEF Spec

(* Slices stay inside their buffers, and a scope is open exactly where the  *)
(* path says so.                                                           *)
LEMMA InvTypeOK ==
  ASSUME Inv PROVE TypeOK
<1>1. /\ array \in Arrays /\ limits \in [strictUTF8 : BOOLEAN, maxDepth : Int]
      /\ err \in {"ok", "InvalidMsg", "LimitExceeded", "Argument"}
      /\ coll.declined \in BOOLEAN /\ coll.check \in [waived : BOOLEAN]
      /\ Levels \in 0 .. 2 /\ Depth \in 0 .. 1 /\ Tree(mem, Levels)
  BY ArrayTyped DEF Inv, PlainInv, CollInv
<1>2. SliceIn(mem, Nil)
  <2>1. Len(mem) \in Nat /\ Nil = [buf |-> Nil.buf, len |-> Nil.len] /\ Nil.buf = 0 /\ Nil.len = 0
    BY <1>1 DEF Nil, Tree, Memory, Listed
  <2> QED BY <2>1 DEF SliceIn, Cap
<1>3. SliceIn(mem, coll.acc) /\ SliceIn(mem, coll.cur)
  BY <1>2 DEF Inv, CollInv, AccInv, CurInv
<1>4. SliceIn(mem, Load(mem, Field))
  <2>1. Load(mem, Field) = At(mem, 0, 0)
    BY DEF Load, Field, At
  <2> QED BY <1>1, <2>1, TreeHas DEF In
<1>5. path \in Seq(Ids) /\ Len(path) \in 0 .. Depth + 1 /\ \A k \in DOMAIN path : path[k] \in Ids
  <2>1. path \in Seq(Ids) /\ Len(path) \in 0 .. Depth + 1
    BY DEF Inv, PathInv
  <2> QED BY <2>1, LenProperties, ElementOfSeq
<1>6. now.off \in 0 .. Len(now.want)
  <2>1. CASE now = NoField
    <3>1. now.off = 0 /\ now.want = <<>>
      BY <2>1 DEF NoField
    <3> QED BY <3>1
  <2> QED BY <2>1 DEF Inv, NowInv
<1>7. out # Nowhere <=> Len(path) >= Depth
  <2>1. CASE Len(path) >= Depth
    <3>1. out = PtrTo(mem, LeafRow) /\ In(mem, Levels, LeafRow, 0)
      BY <2>1, WhereLeaf
    <3>2. out.buf \in 1 .. Len(mem)
      BY <1>1, <3>1, PtrToHolds
    <3> QED BY <2>1, <3>2 DEF Nowhere
  <2> QED BY <2>1 DEF Inv, PathInv
<1>8. elem # Nowhere <=> Len(path) = Depth + 1
  <2>1. CASE Len(path) = Depth + 1
    <3>1. elem = [buf |-> LeafSlice.buf, i |-> Last(path) + 1] /\ Last(path) \in Nat
      <4>1. elem = [buf |-> LeafSlice.buf, i |-> Last(path) + 1]
        BY <2>1 DEF Inv, PathInv
      <4>2. Last(path) \in Ids
        <5>1. Len(path) >= 1
          BY <1>1, <2>1
        <5> QED BY <1>5, <5>1, ElementOfSeq, LenProperties DEF Last
      <4> QED BY <4>1, <4>2, ArraysAssumption
    <3>2. elem.i # 0
      BY <3>1
    <3> QED BY <2>1, <3>2 DEF Nowhere
  <2> QED BY <2>1 DEF Inv, PathInv
<1> QED BY <1>1, <1>3, <1>4, <1>5, <1>6, <1>7, <1>8 DEF TypeOK, SliceOK, SliceIn

(* Slices stay inside their buffers, pointers name cells, and a scope is open*)
(* exactly where the path says so (the collectors' fields).                *)
THEOREM TypesHold == Spec => []TypeOK
<1>1. Inv => TypeOK
  BY InvTypeOK
<1> QED BY <1>1, InvHolds, PTL

(* What a collector holds is the field's in progress, and the latch that     *)
(* declines a row is that row's (acc, cur, rowGate).                       *)
LEMMA InvFieldInStep ==
  ASSUME Inv PROVE FieldInStep
<1>1. coll.declined <=> now # NoField /\ ~now.own /\ Leaf.kind \in Matrix
  BY DEF Inv, CollInv
<1>2. Nil.len = 0 /\ (now # NoField => now.off \in 0 .. Len(now.want) /\ Len(now.want) \in Nat)
  <2>1. now # NoField => now.off \in 0 .. Len(now.want) /\ Len(now.want) \in Nat
    BY OfferListed DEF Inv, NowInv, PlainInv
  <2> QED BY <2>1 DEF Nil
<1>3. coll.acc.len = IF OwnField /\ Bytewise THEN now.off ELSE 0
  <2>1. CASE OwnField /\ Bytewise /\ now.off > 0
    BY <2>1 DEF Inv, CollInv, AccInv
  <2>2. CASE ~(OwnField /\ Bytewise /\ now.off > 0)
    <3>1. coll.acc = Nil
      BY <2>2 DEF Inv, CollInv, AccInv
    <3>2. OwnField /\ Bytewise => now.off = 0
      BY <1>2, <2>2 DEF OwnField
    <3> QED BY <1>2, <3>1, <3>2
  <2> QED BY <2>1, <2>2
<1>4. coll.cur.len = IF OwnField /\ Leaf.kind \in Matrix THEN now.off ELSE 0
  <2>1. CASE OwnField /\ Leaf.kind \in Matrix
    BY <2>1 DEF Inv, CollInv, CurInv
  <2>2. CASE ~(OwnField /\ Leaf.kind \in Matrix)
    BY <1>2, <2>2 DEF Inv, CollInv, CurInv
  <2> QED BY <2>1, <2>2
<1> QED BY <1>1, <1>3, <1>4 DEF FieldInStep, OwnField, Bytewise

(* Nothing of one field leaks into the next (acc, cur, rowGate).           *)
THEOREM FieldsStayInStep == Spec => []FieldInStep
<1>1. Inv => FieldInStep
  BY InvFieldInStep
<1> QED BY <1>1, InvHolds, PTL

(* The pointer to the header of a path.                                    *)
Pointer(i, j) == IF i = 0 THEN [buf |-> 1, i |-> 1]
                 ELSE IF j = 0 THEN [buf |-> At(mem, 0, 0).buf, i |-> i]
                 ELSE [buf |-> At(mem, i, 0).buf, i |-> j]

(* The cells the field reaches that hold a slice are the tree's headers.   *)
LEMMA HeaderPath ==
  ASSUME Inv, NEW p \in Headers
  PROVE  \E i, j : In(mem, Levels, i, j) /\ Load(mem, p) = At(mem, i, j) /\ p = Pointer(i, j)
<1>1. array \in Arrays /\ Tree(mem, Levels)
  BY DEF Inv, PlainInv
<1>2. /\ Levels \in 0 .. 2 /\ (array.nested \/ HoldsSlices => Levels >= 1)
      /\ (array.nested /\ HoldsSlices => Levels = 2)
  BY <1>1, ArrayTyped
<1>3. Load(mem, Field) = At(mem, 0, 0) /\ Field = Pointer(0, 0) /\ In(mem, Levels, 0, 0)
  BY DEF Load, Field, At, Pointer, In
<1>4. CASE p = Field
  BY <1>3, <1>4
<1>5. ASSUME NEW q, q \in CellsOf(Field), array.nested \/ HoldsSlices
      PROVE  \E i : /\ i \in 1 .. Cap(mem, At(mem, 0, 0)) /\ i # 0 /\ In(mem, Levels, i, 0)
                    /\ Load(mem, q) = At(mem, i, 0) /\ q = Pointer(i, 0)
  <2>1. PICK i \in 1 .. Cap(mem, At(mem, 0, 0)) : q = [buf |-> At(mem, 0, 0).buf, i |-> i]
    BY <1>3, <1>5 DEF CellsOf
  <2>2. i # 0 /\ In(mem, Levels, i, 0)
    <3>1. Cap(mem, At(mem, 0, 0)) \in Nat
      BY <1>1, <1>2, <1>3, TreeHas
    <3> QED BY <1>2, <1>5, <2>1, <3>1 DEF In
  <2>3. q.buf = At(mem, 0, 0).buf /\ q.i = i
    BY <2>1
  <2>4. Load(mem, q) = At(mem, i, 0)
    BY <2>2, <2>3, RowPath DEF Load, Cell
  <2> QED BY <2>1, <2>2, <2>4 DEF Pointer
<1>6. CASE p \in CellsOf(Field) /\ (array.nested \/ HoldsSlices)
  BY <1>5, <1>6
<1>7. ASSUME NEW q \in CellsOf(Field), p \in CellsOf(q), array.nested, HoldsSlices
      PROVE  \E i, j : In(mem, Levels, i, j) /\ Load(mem, p) = At(mem, i, j) /\ p = Pointer(i, j)
  <2>1. PICK i : /\ i \in 1 .. Cap(mem, At(mem, 0, 0)) /\ i # 0 /\ In(mem, Levels, i, 0)
                 /\ Load(mem, q) = At(mem, i, 0)
    BY <1>5, <1>7
  <2>2. PICK j \in 1 .. Cap(mem, At(mem, i, 0)) : p = [buf |-> At(mem, i, 0).buf, i |-> j]
    BY <1>7, <2>1 DEF CellsOf
  <2>3. j # 0 /\ In(mem, Levels, i, j)
    <3>1. Cap(mem, At(mem, i, 0)) \in Nat
      BY <1>1, <1>2, <2>1, TreeHas
    <3> QED BY <1>2, <1>7, <2>1, <2>2, <3>1 DEF In
  <2>4. p.buf = At(mem, i, 0).buf /\ p.i = j
    BY <2>2
  <2>5. Load(mem, p) = At(mem, i, j)
    BY <2>1, <2>3, <2>4, Paths DEF Load, Cell
  <2> QED BY <2>1, <2>2, <2>3, <2>5 DEF Pointer
<1> QED BY <1>4, <1>6, <1>7 DEF Headers

(* No two elements share storage, and neither does what is being put         *)
(* together; the pointers held are into the slices as they are now (stale,  *)
(* grow).                                                                  *)
LEMMA InvStorageOwned ==
  ASSUME Inv PROVE StorageOwned
<1>1. array \in Arrays /\ Tree(mem, Levels) /\ Levels \in 0 .. 2
  BY ArrayTyped DEF Inv, PlainInv
<1>2. ASSUME NEW s, SliceIn(mem, s), s.buf = 0 PROVE s = Nil
  <2>1. s = [buf |-> s.buf, len |-> s.len] /\ s.len \in 0 .. 0
    BY <1>2 DEF SliceIn, Cap
  <2>2. s.len = 0
    BY <2>1
  <2> QED BY <1>2, <2>1, <2>2 DEF Nil
<1>3. ASSUME NEW p \in Headers, NEW q \in Headers, Load(mem, p) # Nil,
             Load(mem, p).buf = Load(mem, q).buf
      PROVE  p = q
  <2>1. PICK i, j : In(mem, Levels, i, j) /\ Load(mem, p) = At(mem, i, j) /\ p = Pointer(i, j)
    BY HeaderPath
  <2>2. PICK k, l : In(mem, Levels, k, l) /\ Load(mem, q) = At(mem, k, l) /\ q = Pointer(k, l)
    BY HeaderPath
  <2>3. SliceIn(mem, At(mem, i, j))
    BY <1>1, <2>1, TreeHas
  <2>4. At(mem, i, j).buf # 0
    BY <1>2, <1>3, <2>1, <2>3
  <2>5. i = k /\ j = l
    BY <1>1, <1>3, <2>1, <2>2, <2>4 DEF Tree
  <2> QED BY <2>1, <2>2, <2>5
<1>4. ASSUME NEW p \in Headers, coll.acc # Nil PROVE Load(mem, p).buf # coll.acc.buf
  <2>1. PICK i, j : In(mem, Levels, i, j) /\ Load(mem, p) = At(mem, i, j)
    BY HeaderPath
  <2>2. Unused(mem, Levels, coll.acc.buf)
    BY <1>4 DEF Inv, CollInv, AccInv
  <2> QED BY <2>1, <2>2 DEF Unused
<1>5. InLeaf => Load(mem, out) = LeafSlice /\ Len(path) >= Depth
  <2>1. InLeaf => Len(path) >= Depth
    BY <1>1, ArrayTyped DEF InLeaf
  <2> QED BY <1>1, <2>1, WhereLeaf, PtrToHolds DEF LeafSlice
<1>6. ASSUME NEW p \in Headers, coll.cur # Nil, Load(mem, p).buf = coll.cur.buf
      PROVE  p = ElementAt(mem, out, now.id) /\ now.id >= Load(mem, out).len
  <2>1. PICK i, j : In(mem, Levels, i, j) /\ Load(mem, p) = At(mem, i, j) /\ p = Pointer(i, j)
    BY HeaderPath
  <2>2. OwnField /\ SliceIn(mem, coll.cur)
    BY <1>6 DEF Inv, CollInv, CurInv
  <2>3. coll.cur.buf # 0
    BY <1>2, <1>6, <2>2
  <2>4. i = SlotI(LeafRow, now.id + 1) /\ j = SlotJ(LeafRow, now.id + 1) /\ now.id >= LeafSlice.len
    BY <1>6, <2>1, <2>3 DEF Inv, CollInv, CurInv
  <2>5. InLeaf /\ now.id \in Nat
    BY <2>2, ArraysAssumption DEF OwnField, Inv, NowInv
  <2>6. Load(mem, out) = LeafSlice /\ LeafRow \in Nat
    BY <1>5, <2>5, WhereLeaf
  <2>7. Pointer(i, j) = [buf |-> LeafSlice.buf, i |-> now.id + 1]
    <3>1. now.id + 1 # 0
      BY <2>5
    <3>2. CASE LeafRow = 0
      BY <2>4, <3>1, <3>2 DEF SlotI, SlotJ, Pointer, LeafSlice
    <3>3. CASE LeafRow # 0
      BY <2>4, <3>1, <3>3 DEF SlotI, SlotJ, Pointer, LeafSlice
    <3> QED BY <3>2, <3>3
  <2> QED BY <2>1, <2>4, <2>6, <2>7 DEF ElementAt
<1>7. elem # Nowhere => elem.buf = Load(mem, out).buf /\ elem.i <= Load(mem, out).len
  <2>1. SUFFICES ASSUME elem # Nowhere PROVE elem.buf = Load(mem, out).buf /\ elem.i <= Load(mem, out).len
    OBVIOUS
  <2>2. /\ Len(path) >= Depth /\ elem = [buf |-> LeafSlice.buf, i |-> Last(path) + 1]
        /\ Last(path) + 1 <= LeafSlice.len
    BY <2>1, MessageOpen
  <2>3. Load(mem, out) = LeafSlice
    BY <1>1, <2>2, WhereLeaf, PtrToHolds DEF LeafSlice
  <2> QED BY <2>2, <2>3
<1>8. out # Nowhere /\ array.nested => out = ElementAt(mem, Field, path[1])
  <2>1. SUFFICES ASSUME out # Nowhere, array.nested PROVE out = ElementAt(mem, Field, path[1])
    OBVIOUS
  <2>2. Len(path) >= Depth
    BY <2>1 DEF Inv, PathInv
  <2>3. out = PtrTo(mem, LeafRow) /\ LeafRow # 0 /\ LeafRow = path[1] + 1
    BY <2>1, <2>2, WhereLeaf DEF LeafRow
  <2>4. Load(mem, Field) = At(mem, 0, 0)
    BY DEF Load, Field, At
  <2> QED BY <2>3, <2>4 DEF PtrTo, ElementAt
<1> QED BY <1>3, <1>4, <1>6, <1>7, <1>8 DEF StorageOwned

(* However often a destination is decoded into, no two elements share      *)
(* storage, nor an element and what is being built (stale, grow, ReuseBytes).*)
THEOREM StorageStaysOwned == Spec => []StorageOwned
<1>1. Inv => StorageOwned
  BY InvStorageOwned
<1> QED BY <1>1, InvHolds, PTL

(* Whatever count or length a header announces, and whatever header is     *)
(* refused, the storage is as it was.                                      *)
LEMMA StepHeaders ==
  ASSUME [Next]_vars PROVE Ready /\ (now' # NoField \/ err' # "ok") => mem' = mem
<1>1. SUFFICES ASSUME now = NoField, err = "ok", now' # NoField \/ err' # "ok" PROVE mem' = mem
  BY DEF Ready
<1>2. CASE OpenArray
  BY <1>1, <1>2 DEF OpenArray, Start
<1>3. CASE \E id \in Ids : NestedBeginSequence(id) \/ MessageBeginSequence(id)
  <2>1. PICK id \in Ids : NestedBeginSequence(id) \/ MessageBeginSequence(id)
    BY <1>3
  <2>2. CASE NestedBeginSequence(id)
    BY <1>1, <2>2 DEF NestedBeginSequence, Fail
  <2>3. CASE MessageBeginSequence(id)
    BY <1>1, <2>3 DEF MessageBeginSequence, Fail
  <2> QED BY <2>1, <2>2, <2>3
<1>4. CASE \E f \in DOMAIN Leaf.default, v \in Leaf.range : SetMember(f, v)
  BY <1>1, <1>4 DEF SetMember
<1>5. CASE EndSequence
  BY <1>5 DEF EndSequence
<1>6. ASSUME NEW id \in Ids, NEW want \in Leaf.offers,
             \/ \E subtype \in {"String", "Blob"} : FixlenBegin(id, subtype, want)
             \/ \E kind \in {WireKind, "Other"} : ArrayBegin(id, kind, want)
             \/ PieceByHand(id, want)
             \/ PlaceRow(id, [i \in DOMAIN want |-> Narrowed(want[i])])
      PROVE  mem' = mem
  <2>1. CASE \E subtype \in {"String", "Blob"} : FixlenBegin(id, subtype, want)
    BY <2>1 DEF FixlenBegin, Fail
  <2>2. CASE \E kind \in {WireKind, "Other"} : ArrayBegin(id, kind, want)
    BY <2>2 DEF ArrayBegin, Opened, Fail
  <2>3. CASE PieceByHand(id, want)
    BY <2>3 DEF PieceByHand
  <2>4. CASE PlaceRow(id, [i \in DOMAIN want |-> Narrowed(want[i])])
    BY <1>1, <2>4 DEF PlaceRow, Fail
  <2> QED BY <1>6, <2>1, <2>2, <2>3, <2>4
<1>7. CASE \/ \E n \in 0 .. Len(now.want) : Piece(n)
           \/ ArrayElement \/ ArrayEnd
  BY <1>1, <1>7 DEF Piece, ArrayElement, ArrayEnd
<1>8. CASE UNCHANGED vars
  BY <1>8 DEF vars
<1> QED BY <1>2, <1>3, <1>4, <1>5, <1>6, <1>7, <1>8 DEF Next

(* No header allocates, whatever it announces, and none that is refused     *)
(* does (FixlenBegin, ArrayBegin, BeginSequence, PlaceRow).                *)
THEOREM HeadersStayFree == Spec => HeadersAllocateNothing
<1>1. [Next]_vars => (Ready /\ (now' # NoField \/ err' # "ok") => mem' = mem)
  BY StepHeaders
<1> QED BY <1>1, PTL DEF Spec, HeadersAllocateNothing

-----------------------------------------------------------------------------
(* The view is the one of the tree.                                        *)
LEMMA ViewIs ==
  ASSUME Inv PROVE View = ViewOf(array.nested, HoldsSlices, mem)
<1>1. At(mem, 0, 0).len \in Nat
  BY ArrayTyped, TreeHas DEF Inv, PlainInv, In
<1>2. Load(mem, Field) = At(mem, 0, 0)
  BY DEF Load, Field, At
<1>3. ASSUME NEW i \in 1 .. At(mem, 0, 0).len PROVE mem[At(mem, 0, 0).buf][i] = At(mem, i, 0)
  <2>1. i # 0
    BY <1>1
  <2> QED BY <2>1, RowPath DEF Cell
<1>4. \A s : LeafView(s) = LeafOf(HoldsSlices, mem, s)
  BY DEF LeafView, LeafOf, ElementView, EntryOf, Cell
<1>5. \A s : RowView(s) = RowOf(HoldsSlices, mem, s)
  BY <1>4 DEF RowView, RowOf
<1> QED BY <1>2, <1>3, <1>4, <1>5 DEF View, ViewOf

(* And after a step.                                                       *)
LEMMA ViewIsNext ==
  ASSUME Inv' PROVE View' = ViewOf(array'.nested, HoldsSlices', mem')
<1>1. At(mem', 0, 0).len \in Nat
  <2>1. Levels' \in 0 .. 2
    BY ArraysAssumption DEF Inv, PlainInv, Levels, Depth
  <2> QED BY <2>1, TreeHas DEF Inv, In
<1>2. Load(mem', Field) = At(mem', 0, 0)
  BY DEF Load, Field, At
<1>3. ASSUME NEW i \in 1 .. At(mem', 0, 0).len PROVE mem'[At(mem', 0, 0).buf][i] = At(mem', i, 0)
  <2>1. i # 0
    BY <1>1
  <2> QED BY <2>1, RowPath DEF Cell
<1>4. \A s : LeafView(s)' = LeafOf(HoldsSlices', mem', s)
  BY DEF LeafView, LeafOf, ElementView, EntryOf, Cell
<1>5. \A s : RowView(s)' = RowOf(HoldsSlices', mem', s)
  BY <1>4 DEF RowView, RowOf
<1> QED BY <1>2, <1>3, <1>4, <1>5 DEF View, ViewOf

(* They are the ones of WrapperArray.                                      *)
LEMMA PutIs ==
  ASSUME NEW k \in Nat, NEW els, Len(els) = k, NEW id \in Nat, NEW gap, NEW x
  PROVE  /\ Wrapper!Extended(els, id, gap) = Ext(els, k, id, gap)
         /\ Wrapper!Placed(els, id, gap, x) = Put(els, k, id, gap, x)
<1>1. Wrapper!Extended(els, id, gap) = Ext(els, k, id, gap)
  BY DEF Wrapper!Extended, Ext, Reaching
<1>2. id + 1 \in 1 .. Reaching(k, id)
  BY DEF Reaching
<1> DEFINE D == 1 .. Reaching(k, id)
           e == Ext(els, k, id, gap)
<1>3. e = [i \in D |-> IF i <= k THEN els[i] ELSE gap]
  BY DEF Ext
<1> HIDE DEF D, e
<1>4. [e EXCEPT ![id + 1] = x] = [i \in D |-> IF i = id + 1 THEN x ELSE e[i]]
  BY <1>3
<1>5. \A i \in D : e[i] = IF i <= k THEN els[i] ELSE gap
  BY <1>3
<1>6. [e EXCEPT ![id + 1] = x] = Put(els, k, id, gap, x)
  BY <1>4, <1>5 DEF Put, D
<1>7. Wrapper!Placed(els, id, gap, x) = [e EXCEPT ![id + 1] = x]
  BY <1>1 DEF Wrapper!Placed, e
<1> QED BY <1>1, <1>6, <1>7 DEF e

(* What a collector holds is what arrived, within its bounds, and it judges *)
(* strings as the decode says, or more strictly while nobody told it.      *)
Truth ==
  /\ coll.check.waived => ~limits.strictUTF8
  /\ OwnField /\ now.told => Verdict(now.id, Len(now.want)) = "ok"
  /\ OwnField /\ now.told /\ Leaf.kind = "String" => coll.check = StringCheck(limits)
  /\ OwnField /\ Leaf.kind \in Matrix => now.told
  /\ OwnField /\ Bytewise => \A i \in 1 .. now.off : Cell(mem, coll.acc.buf, i) = now.want[i]
  /\ OwnField /\ Leaf.kind \in Matrix => \A i \in 1 .. now.off :
       ~TooWide(Leaf, now.want[i]) /\ Cell(mem, coll.cur.buf, i) = Narrowed(now.want[i])

(* A step of what WrapperArray promises, and the collector stays true.     *)
Promised == Truth' /\ [Wrapper!Next]_(Wrapper!vars)

(* The bounds give the reasons.                                            *)
LEMMA Reasons ==
  ASSUME array \in Arrays, NEW id \in Nat
  PROVE  /\ IndexVerdict(id) = Wrapper!Reason(id + 1, array.leaf.count, array.caps.arrayCount)
         /\ OverIndex(id, array.count, array.caps.arrayCount) = Wrapper!Reason(id + 1, array.count, array.caps.arrayCount)
         /\ \A k \in Nat : Verdict(id, k) = Wrapper!FieldReason(id, k)
<1>1. /\ array.count \in Int /\ Leaf.count \in Int /\ Leaf.elemLen \in Int /\ Leaf = array.leaf
      /\ array.caps.arrayCount \in Int /\ array.caps.stringLen \in Int /\ array.caps.blobLen \in Int
  BY ArraysAssumption DEF Leaf
<1>2. \A k, cap, rcap \in Int : OverIndex(k, cap, rcap) = Wrapper!Reason(k + 1, cap, rcap)
  BY DEF OverIndex, Wrapper!Reason
<1>3. \A k, cap, rcap \in Int : OverLen(k, cap, rcap) = Wrapper!Reason(k, cap, rcap)
  BY DEF OverLen, Wrapper!Reason
<1>4. IndexVerdict(id) = Wrapper!Reason(id + 1, array.leaf.count, array.caps.arrayCount)
  BY <1>1, <1>2 DEF IndexVerdict
<1>5. LenCap \in Int /\ LenCap = Wrapper!LengthCap(array.leaf, array.caps)
  BY <1>1 DEF LenCap, Wrapper!LengthCap
<1>6. ASSUME NEW k \in Nat PROVE Verdict(id, k) = Wrapper!FieldReason(id, k)
  <2>1. OverLen(k, Leaf.elemLen, LenCap) = Wrapper!Reason(k, array.leaf.elemLen, Wrapper!LengthCap(array.leaf, array.caps))
    BY <1>1, <1>3, <1>5
  <2> QED BY <1>4, <2>1 DEF Verdict, Wrapper!FieldReason
<1>7. OverIndex(id, array.count, array.caps.arrayCount) = Wrapper!Reason(id + 1, array.count, array.caps.arrayCount)
  <2> DEFINE c == array.count
             r == array.caps.arrayCount
  <2>1. c \in Int /\ r \in Int /\ id \in Int
    BY <1>1
  <2> HIDE DEF c, r
  <2>2. OverIndex(id, c, r) = Wrapper!Reason(id + 1, c, r)
    BY <1>2, <2>1
  <2> QED BY <2>2 DEF c, r
<1> QED BY <1>4, <1>6, <1>7

(* Nothing that is read has changed.                                       *)
LEMMA SameView == ASSUME array' = array, mem' = mem PROVE View' = View
BY DEF View, LeafView, RowView, ElementView, HoldsSlices, Leaf, Matrix, Load, Contents, Field

(* The leaf that is open, among what is read.                              *)
LEMMA LeafOpen ==
  ASSUME Inv, Len(path) >= Depth
  PROVE  /\ AtLeaf(array.nested, HoldsSlices, Levels, mem, LeafRow)
         /\ LeafSlice.len \in Nat
         /\ Wrapper!Elements = LeafOf(HoldsSlices, mem, LeafSlice)
         /\ Len(Wrapper!Elements) = LeafSlice.len
         /\ \A els : Wrapper!WithElements(els) = With(array.nested, View, LeafRow, els)
<1>1. array \in Arrays /\ Tree(mem, Levels) /\ path \in Seq(Ids) /\ PathInv
  BY DEF Inv, PlainInv, PathInv
<1>2. /\ array.nested \in BOOLEAN /\ Levels \in 0 .. 2 /\ (array.nested <=> Depth = 1) /\ Depth \in Nat
      /\ (HoldsSlices => Levels = Depth + 1) /\ (~HoldsSlices => Levels = Depth)
  BY <1>1, ArrayTyped
<1>3. /\ In(mem, Levels, LeafRow, 0) /\ LeafRow \in Nat /\ (LeafRow = 0 <=> ~array.nested)
      /\ (HoldsSlices => Leafy(Levels, LeafRow)) /\ (~HoldsSlices => Bare(Levels, LeafRow))
  BY WhereLeaf
<1>4. Deep(array.nested, HoldsSlices, Levels) /\ HoldsSlices \in BOOLEAN
  <2>1. HoldsSlices \in BOOLEAN
    BY DEF HoldsSlices
  <2>2. Levels = Depth + (IF HoldsSlices THEN 1 ELSE 0)
    BY DEF Levels
  <2> QED BY <2>1, <2>2 DEF Deep, Depth
<1>5. array.nested => LeafRow \in 1 .. At(mem, 0, 0).len /\ LeafRow = path[1] + 1
  <2>1. SUFFICES ASSUME array.nested PROVE LeafRow \in 1 .. At(mem, 0, 0).len /\ LeafRow = path[1] + 1
    OBVIOUS
  <2>2. path # <<>>
    BY <1>1, <1>2, <2>1
  <2>3. LeafRow <= At(mem, 0, 0).len
    BY <1>1, <2>1, <2>2 DEF PathInv
  <2>4. At(mem, 0, 0).len \in Nat
    BY <1>1, <1>2, TreeHas DEF In
  <2> QED BY <1>3, <2>1, <2>3, <2>4 DEF LeafRow
<1>6. AtLeaf(array.nested, HoldsSlices, Levels, mem, LeafRow)
  BY <1>1, <1>2, <1>3, <1>4, <1>5 DEF AtLeaf
<1>7. LeafSlice.len \in Nat
  BY <1>1, <1>2, <1>3, TreeHas DEF LeafSlice
<1>8. View = ViewOf(array.nested, HoldsSlices, mem)
  BY ViewIs
<1>9. Wrapper!Elements = LeafOf(HoldsSlices, mem, LeafSlice)
  <2>1. CASE array.nested
    <3>1. View[LeafRow] = RowOf(HoldsSlices, mem, At(mem, LeafRow, 0))
      BY <1>5, <1>8, <2>1 DEF ViewOf
    <3> QED BY <1>5, <2>1, <3>1 DEF Wrapper!Elements, RowOf, LeafSlice
  <2>2. CASE ~array.nested
    BY <1>3, <1>8, <2>2 DEF Wrapper!Elements, ViewOf, LeafSlice
  <2> QED BY <2>1, <2>2
<1>10. Len(Wrapper!Elements) = LeafSlice.len
  BY <1>7, <1>9, LeafListed
<1>11. ASSUME NEW els PROVE Wrapper!WithElements(els) = With(array.nested, View, LeafRow, els)
  <2>1. CASE array.nested
    BY <1>5, <2>1 DEF Wrapper!WithElements, Wrapper!There, With
  <2>2. CASE ~array.nested
    BY <2>2 DEF Wrapper!WithElements, With
  <2> QED BY <2>1, <2>2
<1> QED BY <1>6, <1>7, <1>9, <1>10, <1>11

(* What is to be shown after a step.                                       *)
LEMMA TruthNext ==
  ASSUME array' = array, coll'.check.waived => ~limits'.strictUTF8,
         now' # NoField /\ now'.own =>
           /\ now'.told => Verdict(now'.id, Len(now'.want)) = "ok"
           /\ now'.told /\ Leaf.kind = "String" => coll'.check = StringCheck(limits')
           /\ Leaf.kind \in Matrix => now'.told
           /\ Bytewise => \A i \in 1 .. now'.off : Cell(mem', coll'.acc.buf, i) = now'.want[i]
           /\ Leaf.kind \in Matrix => \A i \in 1 .. now'.off :
                ~TooWide(Leaf, now'.want[i]) /\ Cell(mem', coll'.cur.buf, i) = Narrowed(now'.want[i])
  PROVE  Truth'
<1>1. Leaf' = Leaf /\ (Bytewise' <=> Bytewise)
  BY SameArray
<1>2. Verdict(now.id, Len(now.want))' = Verdict(now'.id, Len(now'.want))
  <2>1. LenCap' = LenCap
    BY <1>1 DEF LenCap
  <2> QED BY <1>1, <2>1 DEF Verdict, IndexVerdict
<1>3. \A i : Narrowed(now.want[i])' = Narrowed(now'.want[i])
  BY <1>1 DEF Narrowed
<1>4. OwnField' <=> now' # NoField /\ now'.own
  BY DEF OwnField
<1>5. /\ coll'.check.waived => ~limits'.strictUTF8
      /\ OwnField' /\ now'.told => Verdict(now.id, Len(now.want))' = "ok"
      /\ OwnField' /\ now'.told /\ Leaf'.kind = "String" => coll'.check = StringCheck(limits')
      /\ OwnField' /\ Leaf'.kind \in Matrix => now'.told
      /\ OwnField' /\ Bytewise' => \A i \in 1 .. now'.off : Cell(mem', coll'.acc.buf, i) = now'.want[i]
      /\ OwnField' /\ Leaf'.kind \in Matrix => \A i \in 1 .. now'.off :
           ~TooWide(Leaf', now'.want[i]) /\ Cell(mem', coll'.cur.buf, i) = Narrowed(now.want[i])'
  BY <1>1, <1>2, <1>3, <1>4
<1> QED BY <1>5 DEF Truth

(* Nothing of it has changed.                                              *)
LEMMA TruthSame ==
  ASSUME Truth, UNCHANGED <<array, mem, limits, coll, now>>
  PROVE  Truth'
<1>1. now # NoField /\ now.own <=> OwnField
  BY DEF OwnField
<1>2. now' # NoField /\ now'.own =>
           /\ now'.told => Verdict(now'.id, Len(now'.want)) = "ok"
           /\ now'.told /\ Leaf.kind = "String" => coll'.check = StringCheck(limits')
           /\ Leaf.kind \in Matrix => now'.told
           /\ Bytewise => \A i \in 1 .. now'.off : Cell(mem', coll'.acc.buf, i) = now'.want[i]
           /\ Leaf.kind \in Matrix => \A i \in 1 .. now'.off :
                ~TooWide(Leaf, now'.want[i]) /\ Cell(mem', coll'.cur.buf, i) = Narrowed(now'.want[i])
  BY <1>1 DEF Truth
<1>3. coll'.check.waived => ~limits'.strictUTF8
  BY DEF Truth
<1> QED BY <1>2, <1>3, TruthNext

(* A refusal.                                                              *)
LEMMA FailPromised ==
  ASSUME Truth, NEW e, Fail(e)
  PROVE  Truth' /\ Wrapper!Refuse(e) /\ now' = now
<1>1. UNCHANGED <<array, mem, limits, coll, path, now>> /\ err' = e
  BY DEF Fail
<1>2. View' = View
  BY <1>1, SameView
<1>3. Truth'
  BY <1>1, TruthSame
<1> QED BY <1>1, <1>2, <1>3 DEF Wrapper!Refuse

(* A field is announced, within its bounds.                                *)
LEMMA AnnouncePromised ==
  ASSUME Inv, array' = array, UNCHANGED <<mem, limits, path, err>>, Ready, InLeaf, Leaf.kind # "Message",
         NEW id \in Ids, NEW own \in BOOLEAN, NEW told \in BOOLEAN, NEW want \in Leaf.offers,
         told \/ Leaf.byHand, own /\ told => Verdict(id, Len(want)) = "ok",
         own /\ Leaf.kind \in Matrix => told,
         now' = [id |-> id, own |-> own, told |-> told, want |-> want, off |-> 0],
         coll'.check.waived => ~limits.strictUTF8,
         own /\ told /\ Leaf.kind = "String" => coll'.check = StringCheck(limits)
  PROVE  Promised
<1>1. array \in Arrays /\ id \in Nat
  BY ArraysAssumption DEF Inv, PlainInv
<1>2. Len(want) \in Nat
  BY <1>1, OfferListed
<1>3. Truth'
  <2>1. now'.own = own /\ now'.told = told /\ now'.off = 0 /\ now'.id = id /\ now'.want = want
    OBVIOUS
  <2>2. \A i \in 1 .. now'.off : FALSE
    BY <2>1
  <2>3. now' # NoField /\ now'.own =>
           /\ now'.told => Verdict(now'.id, Len(now'.want)) = "ok"
           /\ now'.told /\ Leaf.kind = "String" => coll'.check = StringCheck(limits')
           /\ Leaf.kind \in Matrix => now'.told
           /\ Bytewise => \A i \in 1 .. now'.off : Cell(mem', coll'.acc.buf, i) = now'.want[i]
           /\ Leaf.kind \in Matrix => \A i \in 1 .. now'.off :
                ~TooWide(Leaf, now'.want[i]) /\ Cell(mem', coll'.cur.buf, i) = Narrowed(now'.want[i])
    BY <2>1, <2>2
  <2>4. coll'.check.waived => ~limits'.strictUTF8
    OBVIOUS
  <2> HIDE DEF Promised
  <2> QED BY <2>3, <2>4, TruthNext
<1>4. Wrapper!FieldReason(id, Len(want)) = Verdict(id, Len(want))
  BY <1>1, <1>2, Reasons
<1>5. View' = View /\ StrictUTF8On(limits)' = StrictUTF8On(limits)
  BY SameView
<1>6. /\ Wrapper!Ready /\ Wrapper!InLeaf /\ array.leaf.kind # "Message" /\ (told \/ array.leaf.byHand)
  BY DEF Ready, InLeaf, Depth, Leaf, NoField, Wrapper!Ready, Wrapper!InLeaf, Wrapper!Depth, Wrapper!NoField
<1>7. Wrapper!Announce(id, own, told, want)
  BY <1>4, <1>5, <1>6 DEF Wrapper!Announce
<1>8. Wrapper!Next
  BY <1>7 DEF Wrapper!Next, Leaf
<1> QED BY <1>3, <1>8 DEF Promised

(* The refusal of a header.                                                *)
LEMMA RefusedPromised ==
  ASSUME Inv, Truth, Ready, InLeaf, Leaf.kind # "Message", NEW id \in Ids, NEW want \in Leaf.offers,
         Verdict(id, Len(want)) # "ok", Fail(Verdict(id, Len(want)))
  PROVE  Promised
<1>1. array \in Arrays /\ id \in Nat
  BY ArraysAssumption DEF Inv, PlainInv
<1>2. Len(want) \in Nat
  BY <1>1, OfferListed
<1>3. Wrapper!FieldReason(id, Len(want)) = Verdict(id, Len(want))
  BY <1>1, <1>2, Reasons
<1>4. Truth' /\ Wrapper!Refuse(Verdict(id, Len(want))) /\ now' = now
  BY FailPromised
<1>5. /\ Wrapper!Ready /\ Wrapper!InLeaf /\ array.leaf.kind # "Message"
  BY DEF Ready, InLeaf, Depth, Leaf, NoField, Wrapper!Ready, Wrapper!InLeaf, Wrapper!Depth, Wrapper!NoField
<1>6. Wrapper!Announce(id, TRUE, TRUE, want)
  BY <1>3, <1>4, <1>5 DEF Wrapper!Announce
<1>7. Wrapper!Next
  BY <1>6 DEF Wrapper!Next, Leaf
<1> QED BY <1>4, <1>7 DEF Promised

(* A payload without its header.                                           *)
LEMMA PieceByHandPromised ==
  ASSUME Inv, Truth, NEW id \in Ids, NEW want \in Leaf.offers, PieceByHand(id, want) PROVE Promised
<1>1. /\ Ready /\ InLeaf /\ Leaf.kind # "Message" /\ Leaf.kind \notin Matrix /\ Leaf.byHand
      /\ UNCHANGED <<array, mem, limits, coll, path, err>>
      /\ now' = [id |-> id, own |-> TRUE, told |-> FALSE, want |-> want, off |-> 0]
  BY DEF PieceByHand, Starts, Matrix
<1>2. coll'.check.waived => ~limits.strictUTF8
  BY <1>1 DEF Truth
<1> QED BY <1>1, <1>2, AnnouncePromised

(* The header of a string or of a blob.                                    *)
LEMMA FixlenBeginPromised ==
  ASSUME Inv, Truth, NEW id \in Ids, NEW subtype, NEW want \in Leaf.offers, FixlenBegin(id, subtype, want)
  PROVE  Promised
<1> DEFINE own == subtype = Leaf.kind
           verdict == IF own THEN Verdict(id, Len(want)) ELSE "ok"
<1>1. Ready /\ InLeaf /\ Leaf.kind # "Message" /\ Leaf.kind \notin Matrix
  BY DEF FixlenBegin, Starts, Matrix
<1>2. CASE verdict # "ok"
  <2>1. own /\ Verdict(id, Len(want)) # "ok" /\ Fail(Verdict(id, Len(want)))
    BY <1>2 DEF FixlenBegin
  <2> QED BY <1>1, <2>1, RefusedPromised
<1>3. CASE verdict = "ok"
  <2>1. /\ now' = [id |-> id, own |-> own, told |-> TRUE, want |-> want, off |-> 0]
        /\ coll' = [coll EXCEPT !.check = IF Leaf.kind = "String" THEN Told(subtype) ELSE coll.check]
        /\ UNCHANGED <<array, mem, limits, out, elem, path, err>>
    BY <1>3 DEF FixlenBegin, Announced
  <2>2. coll = [acc |-> coll.acc, cur |-> coll.cur, declined |-> coll.declined, check |-> coll.check]
    BY DEF Inv, CollInv
  <2>3. coll'.check = IF Leaf.kind = "String" /\ subtype = "String" THEN StringCheck(limits) ELSE coll.check
    BY <2>1, <2>2 DEF Told
  <2>4. coll'.check.waived => ~limits.strictUTF8
    <3>1. StringCheck(limits).waived <=> ~limits.strictUTF8
      BY Zenon DEF StringCheck
    <3>2. coll.check.waived => ~limits.strictUTF8
      BY DEF Truth
    <3>3. CASE Leaf.kind = "String" /\ subtype = "String"
      BY <2>3, <3>1, <3>3, Zenon
    <3>4. CASE ~(Leaf.kind = "String" /\ subtype = "String")
      BY <2>3, <3>2, <3>4, Zenon
    <3> QED BY <3>3, <3>4
  <2>5. own /\ TRUE /\ Leaf.kind = "String" => coll'.check = StringCheck(limits)
    BY <2>3
  <2>6. own \in BOOLEAN /\ (own /\ TRUE => Verdict(id, Len(want)) = "ok")
    BY <1>3
  <2> HIDE DEF own
  <2> QED BY <1>1, <2>1, <2>4, <2>5, <2>6, AnnouncePromised
<1> QED BY <1>2, <1>3

(* The header of a row.                                                    *)
LEMMA ArrayBeginPromised ==
  ASSUME Inv, Truth, NEW id \in Ids, NEW kind, NEW want \in Leaf.offers, ArrayBegin(id, kind, want)
  PROVE  Promised
<1> DEFINE own == kind = WireKind
           verdict == IF own THEN Verdict(id, Len(want)) ELSE "ok"
           opened == IF own THEN Opened(id, Len(want)) ELSE [mem |-> mem, val |-> coll.cur]
<1>1. Ready /\ InLeaf /\ Leaf.kind # "Message" /\ Leaf.kind # "String"
  BY DEF ArrayBegin, Starts, Matrix
<1>2. CASE verdict # "ok"
  <2>1. own /\ Verdict(id, Len(want)) # "ok" /\ Fail(Verdict(id, Len(want)))
    BY <1>2 DEF ArrayBegin
  <2> QED BY <1>1, <2>1, RefusedPromised
<1>3. CASE verdict = "ok"
  <2>1. /\ now' = [id |-> id, own |-> own, told |-> TRUE, want |-> want, off |-> 0]
        /\ coll' = [coll EXCEPT !.declined = ~own, !.cur = opened.val]
        /\ mem' = opened.mem
        /\ UNCHANGED <<array, limits, out, elem, path, err>>
    BY <1>3 DEF ArrayBegin, Announced
  <2>2. coll = [acc |-> coll.acc, cur |-> coll.cur, declined |-> coll.declined, check |-> coll.check]
    BY DEF Inv, CollInv
  <2>3. coll'.check = coll.check /\ mem' = mem
    BY <2>1, <2>2 DEF Opened
  <2>4. coll'.check.waived => ~limits.strictUTF8
    BY <2>3 DEF Truth
  <2>5. own \in BOOLEAN /\ (own /\ TRUE => Verdict(id, Len(want)) = "ok")
    BY <1>3
  <2> HIDE DEF own
  <2> QED BY <1>1, <2>1, <2>3, <2>4, <2>5, AnnouncePromised
<1> QED BY <1>2, <1>3

(* A scope ends.                                                           *)
LEMMA EndSequencePromised ==
  ASSUME Truth, EndSequence PROVE Promised
<1>1. Ready /\ path # <<>> /\ path' = Front(path) /\ UNCHANGED <<array, mem, limits, coll, now, err>>
  BY DEF EndSequence
<1>2. View' = View /\ Truth' /\ StrictUTF8On(limits)' = StrictUTF8On(limits)
  BY <1>1, SameView, TruthSame
<1>3. Wrapper!Front(path) = Front(path)
  BY DEF Wrapper!Front, Front
<1>4. Wrapper!Ready
  BY <1>1 DEF Wrapper!Ready, Ready, Wrapper!NoField, NoField
<1>5. Wrapper!Close
  BY <1>1, <1>2, <1>3, <1>4 DEF Wrapper!Close
<1> QED BY <1>2, <1>5 DEF Promised, Wrapper!Next

(* The array's field is opened anew.                                       *)
LEMMA OpenArrayPromised ==
  ASSUME Inv, OpenArray PROVE Promised
<1> DEFINE x == Truncated(At(mem, 0, 0))
<1>1. /\ mem' = Save(mem, Field, Truncated(Load(mem, Field))) /\ array' = array
      /\ coll' = NewCollector /\ path' = <<>> /\ now' = NoField /\ err' = "ok"
  BY DEF OpenArray, Start
<1>2. Inv'
  BY OpenArrayKeeps
<1>3. Levels \in 0 .. 2 /\ Tree(mem, Levels) /\ In(mem, Levels, 0, 0) /\ array.nested \in BOOLEAN
  BY ArrayTyped DEF Inv, PlainInv, In
<1>4. SliceIn(mem, At(mem, 0, 0)) /\ At(mem, 0, 0).len \in 0 .. Cap(mem, At(mem, 0, 0)) /\ Cap(mem, At(mem, 0, 0)) \in Nat
  BY <1>3, TreeHas
<1>5. SliceIn(mem, x) /\ x.buf = At(mem, 0, 0).buf /\ x.len = 0
  BY <1>4 DEF SliceIn, Truncated, Cap
<1>6. mem' = Save(mem, PtrTo(mem, 0), x)
  BY <1>1 DEF PtrTo, Field, Load, At
<1> HIDE DEF x
<1>7. At(mem', 0, 0) = x
  BY <1>3, <1>5, <1>6, FieldSaved DEF OnlySlot
<1>8. View' = <<>>
  BY <1>1, <1>2, <1>3, <1>5, <1>7, ViewIsNext, EmptyView
<1>9. Truth'
  <2>1. ~(now' # NoField /\ now'.own) /\ ~coll'.check.waived
    BY <1>1 DEF NewCollector, ZeroCheck
  <2> QED BY <1>1, <2>1, TruthNext
<1>10. Wrapper!Open
  BY <1>1, <1>8 DEF Wrapper!Open, NoField, Wrapper!NoField
<1> QED BY <1>9, <1>10 DEF Promised, Wrapper!Next

(* The first field.                                                        *)
LEMMA InitPromised ==
  ASSUME Init PROVE Truth /\ Wrapper!Init
<1>1. /\ mem = <<<<Nil>>>> /\ coll = NewCollector /\ path = <<>> /\ now = NoField /\ err = "ok" /\ array \in Arrays
  BY DEF Init
<1>2. Inv /\ array.nested \in BOOLEAN
  BY <1>1, InitInv, ArrayTyped
<1>3. At(mem, 0, 0).len = 0
  <2>1. At(mem, 0, 0) = Nil
    BY <1>1, EmptyTree
  <2> QED BY <2>1 DEF Nil
<1>4. View = <<>>
  BY <1>2, <1>3, ViewIs, EmptyView
<1>5. Truth
  <2>1. ~OwnField /\ ~coll.check.waived
    BY <1>1 DEF NewCollector, ZeroCheck, OwnField
  <2> QED BY <2>1 DEF Truth
<1> QED BY <1>1, <1>4, <1>5 DEF Wrapper!Init, NoField, Wrapper!NoField

(* The open leaf's elements have become these.                             *)
LEMMA Rereads ==
  ASSUME Inv, Inv', array' = array, Len(path) >= Depth, NEW els,
         Rewrote(array.nested, HoldsSlices, mem, mem', LeafRow, els)
  PROVE  View' = Wrapper!WithElements(els)
<1>1. HoldsSlices' = HoldsSlices
  BY DEF HoldsSlices, Leaf
<1>2. View' = ViewOf(array.nested, HoldsSlices, mem') /\ View = ViewOf(array.nested, HoldsSlices, mem)
  BY <1>1, ViewIs, ViewIsNext
<1>3. View' = With(array.nested, View, LeafRow, els)
  BY <1>2 DEF Rewrote
<1> QED BY <1>3, LeafOpen

(* A message element is set in place.                                      *)
LEMMA SetMemberPromised ==
  ASSUME Inv, Truth, NEW f \in DOMAIN Leaf.default, NEW v \in Leaf.range, SetMember(f, v) PROVE Promised
<1> DEFINE s == LeafSlice
           k == Last(path) + 1
           x == [Load(mem, elem) EXCEPT ![f] = v]
           e == LeafOf(FALSE, mem, s)
<1>1. /\ Ready /\ elem # Nowhere /\ mem' = Save(mem, elem, x) /\ now = NoField
      /\ UNCHANGED <<array, limits, out, coll, elem, path, now, err>>
  BY DEF SetMember, Ready
<1>2. /\ Len(path) >= Depth /\ Len(path) = Depth + 1 /\ Leaf.kind = "Message"
      /\ elem = [buf |-> s.buf, i |-> k] /\ Last(path) \in Nat /\ k <= s.len
  BY <1>1, MessageOpen
<1>3. ~HoldsSlices /\ HoldsSlices = FALSE
  BY <1>2 DEF HoldsSlices, Matrix
<1>4. /\ AtLeaf(array.nested, FALSE, Levels, mem, LeafRow) /\ s.len \in Nat /\ Wrapper!Elements = e
  BY <1>2, <1>3, LeafOpen
<1>5. Levels \in 0 .. 2 /\ Tree(mem, Levels) /\ In(mem, Levels, LeafRow, 0) /\ Bare(Levels, LeafRow)
  BY <1>4 DEF AtLeaf
<1>6. /\ Memory(mem) /\ s.len \in 0 .. Cap(mem, s) /\ s.buf \in 0 .. Len(mem) /\ Cap(mem, s) \in Nat
      /\ (s.buf = 0 => Cap(mem, s) = 0) /\ Len(mem) \in Nat
  BY <1>5, TreeHas DEF LeafSlice
<1> HIDE DEF x
<1>7. OneCell(mem, mem', s.buf, k, x) /\ k \in 1 .. s.len /\ s.buf # 0
  <2> HIDE DEF s
  <2>1. k \in 1 .. s.len /\ k \in 1 .. Cap(mem, s) /\ s.buf # 0 /\ elem.buf = s.buf /\ elem.i = k
    BY <1>2, <1>6
  <2>2. PointsIn(mem, elem)
    BY <1>6, <2>1 DEF PointsIn, Cap
  <2>3. OneCell(mem, Save(mem, elem, x), elem.buf, elem.i, x)
    BY <1>6, <2>2, Saved
  <2> QED BY <1>1, <2>1, <2>3
<1>8. Kept(mem, mem', {At(mem, LeafRow, 0).buf})
  BY <1>7 DEF OneCell, LeafSlice
<1>9. SameHeaders(mem, mem', Levels)
  BY <1>5, <1>8, BareSame
<1>10. At(mem', LeafRow, 0) = s
  BY <1>5, <1>9 DEF SameHeaders, LeafSlice
<1>11. LeafOf(FALSE, mem', s) = [e EXCEPT ![k][f] = v]
  <2>1. e = [i \in 1 .. s.len |-> Cell(mem, s.buf, i)]
    BY DEF LeafOf, EntryOf
  <2>2. LeafOf(FALSE, mem', s) = [i \in 1 .. s.len |-> Cell(mem', s.buf, i)]
    BY DEF LeafOf, EntryOf
  <2>3. x = [e[k] EXCEPT ![f] = v]
    <3>1. Load(mem, elem) = Cell(mem, s.buf, k)
      BY <1>2 DEF Load, Cell
    <3> HIDE DEF s
    <3>2. e[k] = Cell(mem, s.buf, k)
      BY <1>7, <2>1
    <3> QED BY <3>1, <3>2 DEF x
  <2>4. \A i \in 1 .. s.len : Cell(mem', s.buf, i) = IF i = k THEN x ELSE Cell(mem, s.buf, i)
    <3> HIDE DEF k
    <3>1. \A i \in 1 .. s.len : i \in 1 .. Len(mem[s.buf])
      BY <1>6, <1>7 DEF Cap
    <3>2. /\ Cell(mem', s.buf, k) = x
          /\ \A j \in 1 .. Len(mem[s.buf]) : j # k => Cell(mem', s.buf, j) = Cell(mem, s.buf, j)
      BY <1>7 DEF OneCell, Cell
    <3> QED BY ONLY <3>1, <3>2
  <2> HIDE DEF s, k, e, x
  <2>5. [e EXCEPT ![k][f] = v] = [i \in 1 .. s.len |-> IF i = k THEN x ELSE Cell(mem, s.buf, i)]
    BY <1>7, <2>1, <2>3
  <2> QED BY <2>2, <2>4, <2>5
<1>12. Rewrote(array.nested, FALSE, mem, mem', LeafRow, [e EXCEPT ![k][f] = v])
  <2> DEFINE W == {At(mem, LeafRow, 0).buf}
  <2>1. Owned(mem, Levels, LeafRow, W)
    <3>1. Owned(mem, Levels, LeafRow, {PtrTo(mem, LeafRow).buf, At(mem, LeafRow, 0).buf})
      BY <1>5, OwnOwned
    <3> QED BY <3>1 DEF Owned
  <2>2. At(mem', LeafRow, 0) # Nil
    BY <1>4, <1>7, <1>10 DEF Nil
  <2>3. RowsBeside(array.nested, mem, mem', LeafRow)
    <3>1. RowsBeside(array.nested, mem, mem, LeafRow)
      BY DEF RowsBeside
    <3>2. At(mem', 0, 0) = At(mem, 0, 0) /\ \A i : In(mem, Levels, i, 0) => At(mem', i, 0) = At(mem, i, 0)
      BY <1>9 DEF SameHeaders, In
    <3> QED BY <1>4, <1>5, <3>1, <3>2, RowsOn
  <2> HIDE DEF W
  <2>4. Kept(mem, mem', W)
    BY <1>8 DEF W
  <2>5. Reread(array.nested, FALSE, mem, mem', LeafRow)
    BY ONLY <1>4, <2>1, <2>2, <2>3, <2>4, Rewritten
  <2> QED BY <1>10, <1>11, <2>5 DEF Reread, Rewrote
<1>13. View' = Wrapper!WithElements([Wrapper!Elements EXCEPT ![k][f] = v])
  <2>1. Inv'
    BY SetMemberKeeps
  <2> HIDE DEF e, k, s
  <2> QED BY <1>1, <1>2, <1>3, <1>4, <1>12, <2>1, Rereads
<1>14. Wrapper!SetMember(f, v)
  <2>1. Wrapper!Last(path) = Last(path) /\ Wrapper!Depth = Depth /\ array.leaf.kind = "Message"
    BY <1>2 DEF Wrapper!Last, Last, Wrapper!Depth, Depth, Leaf
  <2>2. Wrapper!Ready
    BY <1>1 DEF Wrapper!Ready, Ready, Wrapper!NoField, NoField
  <2> QED BY <1>1, <1>2, <1>13, <2>1, <2>2 DEF Wrapper!SetMember
<1>15. Truth'
  <2>1. ~(now' # NoField /\ now'.own) /\ (coll'.check.waived => ~limits'.strictUTF8)
    BY <1>1 DEF Truth
  <2> QED BY <1>1, <2>1, TruthNext
<1>16. Wrapper!Next
  BY <1>14 DEF Wrapper!Next, Leaf
<1> QED BY <1>15, <1>16 DEF Promised

(* A message element is opened.                                            *)
LEMMA MessageBeginSequencePromised ==
  ASSUME Inv, Truth, NEW id \in Ids, MessageBeginSequence(id) PROVE Promised
<1>1. /\ Ready /\ Leaf.kind = "Message" /\ InLeaf /\ id \in Nat /\ array \in Arrays
      /\ \/ IndexVerdict(id) # "ok" /\ Fail(IndexVerdict(id))
         \/ /\ IndexVerdict(id) = "ok" /\ mem' = WithMessage(mem, out, id)
            /\ path' = Append(path, id)
            /\ UNCHANGED <<array, limits, coll, now, err>>
  BY ArraysAssumption DEF MessageBeginSequence, Starts, Inv, PlainInv
<1>2. /\ Wrapper!Ready /\ Wrapper!InLeaf /\ array.leaf.kind = "Message"
      /\ IndexVerdict(id) = Wrapper!Reason(id + 1, array.leaf.count, array.caps.arrayCount)
  BY <1>1, Reasons
     DEF Ready, InLeaf, Depth, Leaf, NoField, Wrapper!Ready, Wrapper!InLeaf, Wrapper!Depth, Wrapper!NoField
<1>3. CASE IndexVerdict(id) # "ok" /\ Fail(IndexVerdict(id))
  <2>1. Truth' /\ Wrapper!Refuse(IndexVerdict(id)) /\ now' = now
    BY <1>3, FailPromised
  <2>2. Wrapper!OpenMessage(id)
    BY <1>2, <1>3, <2>1 DEF Wrapper!OpenMessage
  <2> QED BY <2>1, <2>2 DEF Promised, Wrapper!Next
<1>4. CASE /\ IndexVerdict(id) = "ok" /\ mem' = WithMessage(mem, out, id)
           /\ path' = Append(path, id)
           /\ UNCHANGED <<array, limits, coll, now, err>>
  <2> DEFINE s == LeafSlice
             e == Wrapper!Elements
             d == Leaf.default
  <2>1. Len(path) >= Depth /\ HoldsSlices = FALSE /\ Leaf.count \in Int
    BY <1>1, ArrayTyped DEF InLeaf, HoldsSlices, Matrix
  <2>2. AtLeaf(array.nested, FALSE, Levels, mem, LeafRow) /\ s.len \in Nat /\ e = LeafOf(FALSE, mem, s) /\ Len(e) = s.len
    BY <2>1, LeafOpen
  <2>3. /\ Levels \in 0 .. 2 /\ Tree(mem, Levels) /\ In(mem, Levels, LeafRow, 0) /\ out = PtrTo(mem, LeafRow)
        /\ ~(IF LeafRow = 0 THEN Levels >= 1 ELSE Levels = 2)
    BY <2>1, <2>2, WhereLeaf DEF AtLeaf
  <2>4. Reached(mem, mem', Levels, LeafRow, id, d, Zero)
    <3>1. mem' = Filled(ReserveRows(mem, out, id, Leaf.count, Zero), out, id, d, Zero)
      BY <1>4 DEF WithMessage
    <3> QED BY <1>1, <2>1, <2>3, <3>1, GrownToReach
  <2>5. Rewrote(array.nested, FALSE, mem, mem', LeafRow, Ext(e, s.len, id, d))
    BY <1>1, <2>2, <2>4, BareExtended DEF LeafSlice
  <2>6. Ext(e, s.len, id, d) = Wrapper!Extended(e, id, array.leaf.default)
    <3>1. d = array.leaf.default
      BY DEF Leaf
    <3> HIDE DEF s, e, d
    <3> QED BY <1>1, <2>2, <3>1, PutIs
  <2>7. Inv'
    BY MessageBeginSequenceKeeps
  <2>8. View' = Wrapper!WithElements(Wrapper!Extended(e, id, array.leaf.default))
    <3> HIDE DEF e, s, d
    <3> QED BY <1>4, <2>1, <2>5, <2>6, <2>7, Rereads
  <2>9. StrictUTF8On(limits)' = StrictUTF8On(limits)
    BY <1>4
  <2>10. Wrapper!OpenMessage(id)
    BY <1>2, <1>4, <2>8, <2>9 DEF Wrapper!OpenMessage
  <2>11. Truth'
    <3>1. ~(now' # NoField /\ now'.own) /\ (coll'.check.waived => ~limits'.strictUTF8)
      BY <1>1, <1>4 DEF Truth, Ready
    <3> QED BY <1>4, <3>1, TruthNext
  <2> QED BY <2>10, <2>11 DEF Promised, Wrapper!Next
<1> QED BY <1>1, <1>3, <1>4

(* A row is opened.                                                        *)
LEMMA NestedBeginSequencePromised ==
  ASSUME Inv, Truth, NEW id \in Ids, NestedBeginSequence(id) PROVE Promised
<1> DEFINE verdict == OverIndex(id, array.count, array.caps.arrayCount)
           g == Grow(mem, Field, id, array.count, Nil)
           slot == ElementAt(g.mem, Field, id)
<1>1. /\ Ready /\ array.nested /\ path = <<>> /\ id \in Nat /\ array \in Arrays
      /\ \/ verdict # "ok" /\ Fail(verdict)
         \/ /\ verdict = "ok" /\ mem' = OpenedRow(g.mem, slot, g.val)
            /\ coll' = NewCollector /\ path' = <<id>>
            /\ UNCHANGED <<array, limits, now, err>>
  BY ArraysAssumption DEF NestedBeginSequence, Starts, Inv, PlainInv
<1>2. Wrapper!Ready /\ verdict = Wrapper!Reason(id + 1, array.count, array.caps.arrayCount)
  BY <1>1, Reasons DEF Ready, NoField, Wrapper!Ready, Wrapper!NoField
<1>3. CASE verdict # "ok" /\ Fail(verdict)
  <2> HIDE DEF verdict
  <2>1. Truth' /\ Wrapper!Refuse(verdict) /\ now' = now
    BY <1>3, FailPromised
  <2>2. Wrapper!OpenRow(id)
    BY <1>1, <1>2, <1>3, <2>1 DEF Wrapper!OpenRow
  <2> QED BY <2>1, <2>2 DEF Promised, Wrapper!Next
<1>4. CASE /\ verdict = "ok" /\ mem' = OpenedRow(g.mem, slot, g.val)
           /\ coll' = NewCollector /\ path' = <<id>>
           /\ UNCHANGED <<array, limits, now, err>>
  <2> DEFINE t == g.mem
             n == Levels
             h == HoldsSlices
             s == At(mem, 0, 0)
  <2>1. /\ n \in 1 .. 2 /\ n \in 0 .. 2 /\ Tree(mem, n) /\ n >= 1 /\ In(mem, n, 0, 0) /\ array.count \in Int
        /\ array.nested = TRUE /\ h \in BOOLEAN
    BY <1>1, ArrayTyped DEF Inv, In, Levels, HoldsSlices
  <2>2. Deep(TRUE, h, n)
    BY <2>1 DEF Deep, Levels, Depth
  <2>3. Field = PtrTo(mem, 0) /\ Load(mem, Field) = s
    BY <2>1, PtrToHolds DEF Field, PtrTo
  <2>4. /\ t = Filled(ReserveRows(mem, Field, id, array.count, Nil), Field, id, Nil, Nil)
        /\ g.val = Stale(mem, s, id, Nil)
    BY <2>3 DEF Grow
  <2> HIDE DEF g, n, h
  <2>5. Reached(mem, t, n, 0, id, Nil, Nil)
    BY <1>1, <2>1, <2>3, <2>4, GrownToReach
  <2>6. slot = [buf |-> At(t, 0, 0).buf, i |-> id + 1]
    BY <2>3, <2>5 DEF Reached
  <2> HIDE DEF slot, t
  <2>7. mem' = OpenedRow(t, slot, g.val)
    BY <1>4 DEF t
  <2>8. PICK x : /\ CellSet(t, mem', At(t, 0, 0).buf, id + 1, x) /\ SliceIn(mem', x) /\ x.len = 0 /\ x.buf # 0
                 /\ \/ In(mem, n, id + 1, 0) /\ x.buf = At(mem, id + 1, 0).buf
                    \/ x.buf \in Len(t) + 1 .. Len(mem') /\ Cap(mem', x) = 0
    BY <1>1, <2>1, <2>4, <2>5, <2>6, <2>7, RowOpened
  <2> DEFINE new == [there |-> TRUE, els |-> <<>>]
             v == ViewOf(TRUE, h, mem)
             w == ViewOf(TRUE, h, mem')
  <2>9. w = Put(v, s.len, id, NoEntry, new)
    <3>1. /\ h \in BOOLEAN /\ Deep(TRUE, h, n) /\ Tree(mem, n) /\ id \in Nat /\ Reached(mem, t, n, 0, id, Nil, Nil)
      BY <1>1, <2>1, <2>2, <2>5
    <3>2. RowAdded(h, mem, mem', id)
      BY ONLY <3>1, <2>8, RowOpenRead
    <3> QED BY <3>2 DEF RowAdded
  <2>10. View = v /\ View' = w
    <3>1. Inv' /\ HoldsSlices' = HoldsSlices /\ array' = array
      BY <1>4, NestedBeginSequenceKeeps DEF HoldsSlices, Leaf
    <3> QED BY <2>1, <3>1, ViewIs, ViewIsNext DEF h
  <2>11. Len(v) = s.len /\ s.len \in Nat
    <3>1. s.len \in Nat
      BY <2>1, <2>2, RowIn
    <3>2. v = [i \in 1 .. s.len |-> v[i]]
      BY DEF ViewOf
    <3> HIDE DEF v, s
    <3> QED BY <3>1, <3>2, TabulatedIsListed
  <2>12. View' = Wrapper!Placed(View, id, Wrapper!Absent, Wrapper!There(<<>>))
    <3>1. new = Wrapper!There(<<>>) /\ NoEntry = Wrapper!Absent
      BY DEF Wrapper!There, Wrapper!Absent, NoEntry
    <3> HIDE DEF new, v, w, s
    <3>2. Wrapper!Placed(v, id, NoEntry, new) = Put(v, s.len, id, NoEntry, new)
      BY <1>1, <2>11, PutIs
    <3> QED BY <2>9, <2>10, <3>1, <3>2
  <2>13. StrictUTF8On(limits)' = StrictUTF8On(limits)
    BY <1>4
  <2>14. Wrapper!OpenRow(id)
    BY <1>1, <1>2, <1>4, <2>12, <2>13 DEF Wrapper!OpenRow
  <2>15. Truth'
    <3>1. ~(now' # NoField /\ now'.own) /\ ~coll'.check.waived
      BY <1>1, <1>4 DEF NewCollector, ZeroCheck, Ready
    <3> QED BY <1>4, <3>1, TruthNext
  <2> QED BY <2>14, <2>15 DEF Promised, Wrapper!Next
<1> QED BY <1>1, <1>3, <1>4

(* A buffer that nothing reads has changed.                                *)
LEMMA SparedView ==
  ASSUME Inv, Inv', array' = array, NEW b, NEW x, NEW y, Idle(mem, Levels, HoldsSlices, b, x, y), b # 1,
         Kept(mem, mem', {b})
  PROVE  View' = View
<1> DEFINE n == Levels
           h == HoldsSlices
<1>1. n \in 0 .. 2 /\ Tree(mem, n) /\ array.nested \in BOOLEAN /\ h \in BOOLEAN
  BY ArrayTyped DEF Inv, PlainInv, HoldsSlices
<1>2. Deep(array.nested, h, n)
  BY DEF Deep, Levels, Depth
<1>3. View = ViewOf(array.nested, h, mem) /\ View' = ViewOf(array.nested, h, mem')
  <2>1. HoldsSlices' = HoldsSlices
    BY DEF HoldsSlices, Leaf
  <2> QED BY <2>1, ViewIs, ViewIsNext
<1> HIDE DEF n, h
<1>4. Idle(mem, n, h, b, x, y)
  BY DEF n, h
<1>5. SameHeaders(mem, mem', n)
  <2>1. b # 0 => \A i, j : In(mem, n, i, j) /\ At(mem, i, j).buf = b => ~(IF i = 0 THEN n >= 1 ELSE n = 2 /\ j = 0)
    <3>1. SUFFICES ASSUME b # 0, NEW i, NEW j, In(mem, n, i, j), At(mem, i, j).buf = b
                   PROVE  ~(IF i = 0 THEN n >= 1 ELSE n = 2 /\ j = 0)
      OBVIOUS
    <3>2. Leafy(n, x) /\ y # 0 /\ i = SlotI(x, y) /\ j = SlotJ(x, y)
      BY <1>4, <3>1 DEF Idle
    <3> QED BY <3>2 DEF Leafy, SlotI, SlotJ
  <2> QED BY <1>1, <2>1, BelowSame
<1>6. ViewOf(array.nested, h, mem') = ViewOf(array.nested, h, mem)
  <2>1. Kept(mem, mem', {b})
    OBVIOUS
  <2> QED BY ONLY <1>1, <1>2, <1>4, <1>5, <2>1, ViewSpared
<1> QED BY <1>3, <1>6

(* The width of the array.                                                 *)
LEMMA OfferRange ==
  ASSUME array \in Arrays, Leaf.kind \in Matrix, NEW want \in Leaf.offers, NEW i \in 1 .. Len(want)
  PROVE  (want[i] \in array.leaf.range) <=> ~TooWide(Leaf, want[i])
BY ArraysAssumption DEF Leaf

(* ArrayElement: one more is in the row being built, or does not fit.      *)
LEMMA ArrayElementPromised ==
  ASSUME Inv, Truth, ArrayElement PROVE Promised
<1> DEFINE v == now.want[now.off + 1]
           r == IF now.own THEN AppendTo(mem, coll.cur, Narrowed(v), ZeroCell) ELSE [mem |-> mem, val |-> coll.cur]
           n == now.off + 1
<1>1. /\ now # NoField /\ Leaf.kind \in Matrix /\ now.off < Len(now.want) /\ err = "ok"
      /\ IF now.own /\ TooWide(Leaf, v) THEN Fail("InvalidMsg")
         ELSE /\ mem' = r.mem /\ coll' = [coll EXCEPT !.cur = r.val]
              /\ now' = [now EXCEPT !.off = @ + 1]
              /\ UNCHANGED <<array, limits, out, elem, path, err>>
  BY DEF ArrayElement
<1>2. /\ array \in Arrays /\ now.want \in Leaf.offers /\ now.off \in 0 .. Len(now.want) /\ Len(now.want) \in Nat
      /\ now.own \in BOOLEAN /\ now.id \in Nat /\ InLeaf /\ Leaf.kind \notin {"String", "Blob"}
      /\ now = [id |-> now.id, own |-> now.own, told |-> now.told, want |-> now.want, off |-> now.off]
  <2>1. array \in Arrays /\ now.want \in Leaf.offers /\ now.id \in Ids
    BY <1>1 DEF Inv, PlainInv, NowInv
  <2>2. now.id \in Nat /\ Len(now.want) \in Nat
    BY <2>1, OfferListed, ArraysAssumption
  <2> QED BY <1>1, <2>1, <2>2 DEF Inv, NowInv, Matrix
<1>3. n \in 1 .. Len(now.want) /\ n \in Nat
  BY <1>1, <1>2
<1>4. (v \in array.leaf.range) <=> ~TooWide(Leaf, v)
  BY <1>1, <1>2, <1>3, OfferRange
<1>5. Wrapper!OfRow /\ Wrapper!NoField = NoField
  BY <1>2 DEF Wrapper!OfRow, Leaf, Wrapper!NoField, NoField
<1>6. CASE now.own /\ TooWide(Leaf, v)
  <2>1. Truth' /\ Wrapper!Refuse("InvalidMsg") /\ now' = now
    BY <1>1, <1>6, FailPromised
  <2>2. Wrapper!BadElement
    BY <1>1, <1>4, <1>5, <1>6, <2>1 DEF Wrapper!BadElement, Wrapper!InRange
  <2> QED BY <2>1, <2>2 DEF Promised, Wrapper!Next
<1>7. CASE ~(now.own /\ TooWide(Leaf, v))
  <2>1. /\ mem' = r.mem /\ coll' = [coll EXCEPT !.cur = r.val]
        /\ now' = [now EXCEPT !.off = n]
        /\ UNCHANGED <<array, limits, out, elem, path, err>>
    <3>1. now' = [now EXCEPT !.off = now.off + 1]
      BY <1>1, <1>7
    <3> QED BY <1>1, <1>7, <3>1
  <2>2. /\ now'.own = now.own /\ now'.want = now.want /\ now'.id = now.id /\ now'.told = now.told /\ now'.off = n
        /\ coll'.check = coll.check /\ coll'.cur = r.val /\ Inv'
    <3>1. coll = [acc |-> coll.acc, cur |-> coll.cur, declined |-> coll.declined, check |-> coll.check]
      BY DEF Inv, CollInv
    <3> HIDE DEF n, r
    <3> QED BY <1>2, <2>1, <3>1, ArrayElementKeeps
  <2>3. now.own => /\ \A i \in 1 .. n : ~TooWide(Leaf, now.want[i]) /\ Cell(mem', coll'.cur.buf, i) = Narrowed(now.want[i])
                   /\ View' = View
    <3>1. SUFFICES ASSUME now.own
                   PROVE  /\ \A i \in 1 .. n : ~TooWide(Leaf, now.want[i]) /\ Cell(mem', coll'.cur.buf, i) = Narrowed(now.want[i])
                          /\ View' = View
      OBVIOUS
    <3> DEFINE s == coll.cur
               e == AppendTo(mem, s, Narrowed(v), ZeroCell)
               c == now.id + 1
    <3>2. /\ SliceIn(mem, s) /\ s.len = now.off /\ s.buf # 1 /\ Memory(mem)
          /\ \A i, j : In(mem, Levels, i, j) /\ s.buf # 0 /\ At(mem, i, j).buf = s.buf =>
               /\ i = SlotI(LeafRow, now.id + 1) /\ j = SlotJ(LeafRow, now.id + 1)
               /\ now.id >= LeafSlice.len
      BY <1>1, <3>1 DEF Inv, CollInv, CurInv, OwnField, Tree
    <3>3. mem' = e.mem /\ coll'.cur = e.val
      BY <2>1, <2>2, <3>1
    <3>4. /\ Kept(mem, mem', {s.buf})
          /\ \A i \in 1 .. now.off : Cell(mem', coll'.cur.buf, i) = Cell(mem, s.buf, i)
          /\ Cell(mem', coll'.cur.buf, n) = Narrowed(v)
      <4> DEFINE w == <<Narrowed(v)>>
      <4> HIDE DEF s
      <4>1. Appended(mem, s, e.mem, e.val, w, 1, ZeroCell)
        BY <3>2, AppendedOne
      <4>2. w[1] = Narrowed(v) /\ 1 \in 1 .. 1
        OBVIOUS
      <4> HIDE DEF w, e
      <4>3. /\ Kept(mem, e.mem, {s.buf})
            /\ \A i \in 1 .. s.len : e.mem[e.val.buf][i] = mem[s.buf][i]
            /\ \A i \in 1 .. 1 : e.mem[e.val.buf][s.len + i] = w[i]
        BY <4>1, Zenon DEF Appended, Longer
      <4>4. e.mem[e.val.buf][s.len + 1] = Narrowed(v)
        BY <4>2, <4>3
      <4> QED BY <3>2, <3>3, <4>3, <4>4 DEF Cell
    <3>5. \A i \in 1 .. now.off : ~TooWide(Leaf, now.want[i]) /\ Cell(mem, s.buf, i) = Narrowed(now.want[i])
      BY <1>1, <3>1 DEF Truth, OwnField
    <3>6. ASSUME NEW i \in 1 .. n
          PROVE  ~TooWide(Leaf, now.want[i]) /\ Cell(mem', coll'.cur.buf, i) = Narrowed(now.want[i])
      <4>1. CASE i = n
        BY <1>7, <3>1, <3>4, <4>1
      <4>2. CASE i # n
        <5>1. i \in 1 .. now.off
          BY <1>2, <4>2
        <5> QED BY <3>4, <3>5, <5>1
      <4> QED BY <4>1, <4>2
    <3>7. HoldsSlices /\ Len(path) >= Depth
      BY <1>1, <1>2, ArrayTyped DEF InLeaf
    <3>8. In(mem, Levels, LeafRow, 0) /\ Leafy(Levels, LeafRow) /\ LeafSlice.len \in Nat
      BY <3>7, WhereLeaf, LeafOpen
    <3>9. Idle(mem, Levels, HoldsSlices, s.buf, LeafRow, now.id + 1)
      <4>1. now.id + 1 \in Nat /\ now.id + 1 # 0 /\ (now.id >= LeafSlice.len => now.id + 1 > At(mem, LeafRow, 0).len)
        BY <1>2, <3>8 DEF LeafSlice
      <4> HIDE DEF s
      <4> QED BY <3>2, <3>7, <3>8, <4>1 DEF Idle
    <3>10. View' = View
      <4> HIDE DEF s
      <4> QED BY <2>1, <2>2, <3>2, <3>4, <3>9, SparedView
    <3> QED BY <3>6, <3>10
  <2>4. View' = View
    <3>1. CASE ~now.own
      <4>1. mem' = mem
        BY <2>1, <3>1
      <4> QED BY <2>1, <4>1, SameView
    <3> QED BY <1>2, <2>3, <3>1
  <2>5. Truth'
    <3>1. OwnField <=> now.own
      BY <1>1 DEF OwnField
    <3>2. coll'.check.waived => ~limits'.strictUTF8
      BY <2>1, <2>2 DEF Truth
    <3>3. now' # NoField /\ now'.own =>
           /\ now'.told => Verdict(now'.id, Len(now'.want)) = "ok"
           /\ now'.told /\ Leaf.kind = "String" => coll'.check = StringCheck(limits')
           /\ Leaf.kind \in Matrix => now'.told
      BY <2>1, <2>2, <3>1 DEF Truth
    <3>4. ~Bytewise
      BY <1>2 DEF Bytewise
    <3>5. now' # NoField /\ now'.own => \A i \in 1 .. now'.off :
            ~TooWide(Leaf, now'.want[i]) /\ Cell(mem', coll'.cur.buf, i) = Narrowed(now'.want[i])
      BY <2>2, <2>3
    <3> QED BY <2>1, <3>2, <3>3, <3>4, <3>5, TruthNext
  <2>6. Wrapper!Advance
    <3>1. n \in now.off + 1 .. Len(now.want)
      BY <1>2, <1>3
    <3>2. now.own /\ Wrapper!OfRow => Wrapper!InRange(now.want[n]) /\ n = now.off + 1
      BY <1>4, <1>7 DEF Wrapper!InRange
    <3>3. StrictUTF8On(limits)' = StrictUTF8On(limits) /\ UNCHANGED <<array, path, err>> /\ now' = [now EXCEPT !.off = n]
      BY <2>1
    <3> HIDE DEF n
    <3> QED BY <1>1, <1>5, <2>4, <3>1, <3>2, <3>3 DEF Wrapper!Advance
  <2> QED BY <2>5, <2>6 DEF Promised, Wrapper!Next
<1> QED BY <1>6, <1>7

(* Of a memory in which a buffer of no header has changed: the leaf and what *)
(* is read are the ones they were.                                         *)
Through(w) ==
  /\ SameHeaders(mem, w, Levels) /\ AtLeaf(array.nested, HoldsSlices, Levels, w, LeafRow)
  /\ At(w, LeafRow, 0) = LeafSlice /\ LeafSlice.len \in Nat /\ out = PtrTo(w, LeafRow)
  /\ LeafOf(HoldsSlices, w, At(w, LeafRow, 0)) = Wrapper!Elements
  /\ ViewOf(array.nested, HoldsSlices, w) = View
  /\ Len(w) \in Nat /\ Len(w) >= Len(mem) /\ Memory(w) /\ Len(mem) \in Nat /\ Levels \in 0 .. 2

(* A change to a buffer no header has leaves it so.                         *)
LEMMA GoesThrough ==
  ASSUME Inv, Len(path) >= Depth, NEW b, b # 1, b = 0 \/ Unused(mem, Levels, b), NEW w, Kept(mem, w, {b})
  PROVE  Through(w)
<1> DEFINE n == Levels
           h == HoldsSlices
           a == LeafRow
<1>1. /\ AtLeaf(array.nested, h, n, mem, a) /\ LeafSlice.len \in Nat
      /\ Wrapper!Elements = LeafOf(h, mem, LeafSlice) /\ LeafSlice = At(mem, a, 0) /\ out = PtrTo(mem, a)
  BY LeafOpen, WhereLeaf DEF LeafSlice
<1>2. View = ViewOf(array.nested, h, mem)
  BY ViewIs
<1> HIDE DEF n, h, a
<1>3. /\ n \in 0 .. 2 /\ Tree(mem, n) /\ array.nested \in BOOLEAN /\ h \in BOOLEAN /\ Deep(array.nested, h, n)
      /\ In(mem, n, a, 0) /\ (IF h THEN Leafy(n, a) ELSE Bare(n, a))
  BY <1>1 DEF AtLeaf
<1>4. b = 0 \/ \A i, j : In(mem, n, i, j) => At(mem, i, j).buf # b
  BY DEF Unused, n
<1>5. SameHeaders(mem, w, n) /\ Tree(w, n)
  BY <1>3, <1>4, BelowSame
<1>6. Idle(mem, n, h, b, 0, 0)
  BY <1>4 DEF Idle
<1>7. ViewOf(array.nested, h, w) = ViewOf(array.nested, h, mem)
  <2>1. Kept(mem, w, {b})
    OBVIOUS
  <2> QED BY ONLY <1>3, <1>5, <1>6, <2>1, ViewSpared
<1>8. LeafOf(h, w, At(mem, a, 0)) = LeafOf(h, mem, At(mem, a, 0))
  <2>1. Kept(mem, w, {b})
    OBVIOUS
  <2> QED BY ONLY <1>3, <1>6, <2>1, RowSpared
<1>9. In(mem, n, 0, 0) /\ In(w, n, a, 0) /\ At(w, a, 0) = At(mem, a, 0) /\ At(w, 0, 0) = At(mem, 0, 0)
  BY <1>3, <1>5 DEF SameHeaders, In
<1>10. PtrTo(w, a) = PtrTo(mem, a)
  BY <1>9 DEF PtrTo
<1>11. AtLeaf(array.nested, h, n, w, a)
  BY <1>1, <1>5, <1>9 DEF AtLeaf
<1>12. Len(w) \in Nat /\ Len(w) >= Len(mem) /\ Memory(w) /\ Len(mem) \in Nat
  BY <1>3 DEF Kept, Memory, Listed, Tree
<1> QED BY <1>1, <1>2, <1>3, <1>5, <1>7, <1>8, <1>9, <1>10, <1>11, <1>12 DEF Through, n, h, a

(* An element is placed in it, and read.                                   *)
LEMMA PlacedThrough ==
  ASSUME Inv, Inv', array' = array, Len(path) >= Depth, NEW w, Through(w), NEW id \in Nat, NEW gap, NEW x,
         Rewrote(array.nested, HoldsSlices, w, mem', LeafRow,
                 Put(LeafOf(HoldsSlices, w, At(w, LeafRow, 0)), At(w, LeafRow, 0).len, id, gap, x))
  PROVE  View' = Wrapper!WithElements(Wrapper!Placed(Wrapper!Elements, id, gap, x))
<1> DEFINE e == Wrapper!Elements
           p == Put(e, LeafSlice.len, id, gap, x)
<1>1. /\ LeafOf(HoldsSlices, w, At(w, LeafRow, 0)) = e /\ At(w, LeafRow, 0) = LeafSlice
      /\ LeafSlice.len \in Nat /\ ViewOf(array.nested, HoldsSlices, w) = View
  BY DEF Through
<1>2. Len(e) = LeafSlice.len
  BY LeafOpen
<1>3. Wrapper!Placed(e, id, gap, x) = p
  <2> HIDE DEF e, p
  <2>1. Put(e, LeafSlice.len, id, gap, x) = p
    BY DEF p
  <2> QED BY <1>1, <1>2, <2>1, PutIs
<1> HIDE DEF e, p
<1>4. Rewrote(array.nested, HoldsSlices, w, mem', LeafRow, p)
  BY <1>1 DEF p
<1>5. HoldsSlices' = HoldsSlices
  BY DEF HoldsSlices, Leaf
<1>6. View' = ViewOf(array.nested, HoldsSlices, mem')
  BY <1>5, ViewIsNext
<1>7. View' = With(array.nested, View, LeafRow, p)
  BY <1>1, <1>4, <1>6 DEF Rewrote
<1> QED BY <1>3, <1>7, LeafOpen DEF e

(* A remainder that changes nothing.                                       *)
LEMMA SmallMod == ASSUME NEW v \in Nat, NEW k \in Nat, v < k PROVE v % k = v
  OBVIOUS

(* What fits the declared width is what it narrows to.                     *)
LEMMA NarrowedIs ==
  ASSUME array \in Arrays, NEW want \in Leaf.offers, NEW i \in 1 .. Len(want), ~TooWide(Leaf, want[i])
  PROVE  Narrowed(want[i]) = IF Leaf.kind = "Bool" THEN want[i] # 0 ELSE want[i]
<1> DEFINE v == want[i]
<1>1. v \in Int /\ Leaf.hi \in Int /\ Leaf.lo \in Int
  BY OfferListed, ArraysAssumption DEF Leaf
<1>2. Leaf.kind = "Unsigned" => v \in Nat
  <2>1. want \in Seq(IF array.leaf.kind \in {"Unsigned", "Bool"} THEN Nat ELSE Int)
    BY ArraysAssumption DEF Leaf
  <2>2. ASSUME Leaf.kind = "Unsigned" PROVE want \in Seq(Nat)
    BY <2>1, <2>2 DEF Leaf
  <2> QED BY <2>2, ElementOfSeq
<1> HIDE DEF v
<1>3. ~TooWide(Leaf, v)
  BY DEF v
<1>4. CASE Leaf.kind = "Unsigned" /\ Leaf.hi # 0
  <2>1. v \in Nat /\ Leaf.hi + 1 \in Nat /\ v < Leaf.hi + 1
    BY <1>1, <1>2, <1>3, <1>4 DEF TooWide
  <2>2. v % (Leaf.hi + 1) = v
    BY <2>1, SmallMod
  <2> QED BY <1>4, <2>2 DEF Narrowed, v
<1>5. CASE Leaf.kind = "Signed" /\ Leaf.lo # 0
  <2> DEFINE d == v - Leaf.lo
             k == Leaf.hi - Leaf.lo + 1
  <2>1. d \in Nat /\ k \in Nat /\ d < k /\ d + Leaf.lo = v
    BY <1>1, <1>3, <1>5 DEF TooWide
  <2> HIDE DEF d, k
  <2>2. d % k = d
    BY <2>1, SmallMod
  <2>3. Narrowed(v) = (d % k) + Leaf.lo
    BY <1>5 DEF Narrowed, d, k
  <2> QED BY <1>5, <2>1, <2>2, <2>3 DEF v
<1>6. CASE ~(Leaf.kind = "Unsigned" /\ Leaf.hi # 0) /\ ~(Leaf.kind = "Signed" /\ Leaf.lo # 0)
  BY <1>6 DEF Narrowed, v
<1> QED BY <1>4, <1>5, <1>6

(* The element a row is, in the Go type of its cells.                      *)
LEMMA RowElement ==
  ASSUME array \in Arrays, Leaf.kind \in Matrix, NEW want \in Leaf.offers,
         \A i \in 1 .. Len(want) : ~TooWide(Leaf, want[i]),
         NEW row, Listed(row), Len(row) = Len(want), \A i \in 1 .. Len(want) : row[i] = Narrowed(want[i])
  PROVE  Wrapper!Element(array.leaf, want) = [there |-> TRUE, els |-> row]
<1>1. Listed(want) /\ Len(want) \in Nat /\ DOMAIN want = 1 .. Len(want)
  <2>1. Listed(want) /\ Len(want) \in Nat
    BY OfferListed
  <2>2. DOMAIN [j \in 1 .. Len(want) |-> want[j]] = 1 .. Len(want)
    OBVIOUS
  <2>3. want = [j \in 1 .. Len(want) |-> want[j]]
    BY <2>1 DEF Listed
  <2> QED BY <2>1, <2>2, <2>3, Zenon
<1>2. \A i \in 1 .. Len(want) : row[i] = IF Leaf.kind = "Bool" THEN want[i] # 0 ELSE want[i]
  BY NarrowedIs
<1>3. array.leaf.kind # "String" /\ array.leaf.kind # "Blob"
  BY DEF Leaf, Matrix
<1>4. CASE Leaf.kind = "Bool"
  <2> DEFINE b == [i \in DOMAIN want |-> want[i] # 0]
  <2>1. row = [i \in 1 .. Len(want) |-> row[i]]
    BY DEF Listed
  <2>2. row = b
    <3>1. \A i \in 1 .. Len(want) : row[i] = (want[i] # 0)
      BY <1>2, <1>4, Zenon
    <3> QED BY <1>1, <2>1, <3>1, Zenon
  <2>3. Wrapper!Element(array.leaf, want) = Wrapper!There(b)
    BY <1>4, Zenon DEF Wrapper!Element, Leaf
  <2> QED BY <2>2, <2>3 DEF Wrapper!There
<1>5. CASE Leaf.kind # "Bool"
  <2>1. row = want
    <3>1. \A i \in 1 .. Len(want) : row[i] = want[i]
      BY <1>2, <1>5
    <3> QED BY <1>1, <3>1, SameListed
  <2>2. Wrapper!Element(array.leaf, want) = Wrapper!There(want)
    BY <1>3, <1>5 DEF Wrapper!Element, Leaf
  <2> QED BY <2>1, <2>2 DEF Wrapper!There
<1> QED BY <1>4, <1>5

(* A row is placed, and read where its id says.                            *)
LEMMA RowRead ==
  ASSUME Inv, Inv', array' = array, InLeaf, Leaf.kind \in Matrix, NEW id \in Nat, NEW r, Kept(mem, r.mem, {}),
         Spare(r.mem, r.val, id), r.val.buf # 0, mem' = PlacedRow(r, id)
  PROVE  View' = Wrapper!WithElements(Wrapper!Placed(Wrapper!Elements, id, NoEntry,
                                                     [there |-> TRUE, els |-> Contents(r.mem, r.val)]))
<1> DEFINE w == r.mem
           g == Grow(w, out, id, Leaf.count, Nil)
           t == g.mem
           x == r.val
           a == LeafRow
           N == Levels
<1>1. HoldsSlices = TRUE /\ Len(path) >= Depth /\ Leaf.count \in Int /\ array \in Arrays
  BY ArrayTyped DEF InLeaf, Inv, PlainInv, HoldsSlices
<1>2. Through(w)
  <2> DEFINE b == 0
  <2>1. Kept(mem, w, {b}) /\ b # 1 /\ (b = 0 \/ Unused(mem, Levels, b))
    BY KeptLess
  <2> HIDE DEF w, b
  <2> QED BY <1>1, <2>1, GoesThrough
<1>3. mem' = Save(t, ElementAt(t, out, id), x) /\ t = Filled(ReserveRows(w, out, id, Leaf.count, Nil), out, id, Nil, Nil)
  BY DEF PlacedRow, Grow
<1>4. /\ SliceIn(w, x) /\ x.buf # 1 /\ x.buf # 0
      /\ \A i, j : In(w, N, i, j) /\ At(w, i, j).buf = x.buf =>
           /\ i = SlotI(a, id + 1) /\ j = SlotJ(a, id + 1) /\ id >= At(w, a, 0).len
  BY DEF Spare
<1> HIDE DEF w, g, t, x, N, a
<1>5. /\ AtLeaf(array.nested, TRUE, N, w, a) /\ out = PtrTo(w, a) /\ Memory(w) /\ Len(w) \in Nat
  BY <1>1, <1>2 DEF Through, N, a
<1>6. /\ N \in 0 .. 2 /\ Tree(w, N) /\ In(w, N, a, 0) /\ Leafy(N, a) /\ (IF a = 0 THEN N >= 1 ELSE N = 2)
  BY <1>5 DEF AtLeaf, Leafy
<1>7. Reached(w, t, N, a, id, Nil, Nil)
  BY <1>1, <1>3, <1>5, <1>6, GrownToReach
<1>8. /\ Lengthened(w, t, PtrTo(w, a), Reaching(At(w, a, 0).len, id), Nil, Nil) /\ Grew(w, t, N, a)
      /\ At(t, a, 0) = Load(t, PtrTo(w, a)) /\ Memory(t)
      /\ Kept(w, t, {PtrTo(w, a).buf, At(w, a, 0).buf})
  BY <1>7 DEF Reached
<1>9. SliceIn(t, x) /\ Unused(t, N, x.buf)
  <2>1. SliceIn(t, x)
    BY <1>4, <1>5, <1>8, KeptSlice
  <2>2. x.buf \in 1 .. Len(w)
    BY <1>4, <1>5 DEF SliceIn
  <2>3. \A i, j : In(w, N, i, j) /\ At(w, i, j).buf = x.buf =>
           /\ i = SlotI(a, id + 1) /\ j = SlotJ(a, id + 1) /\ id >= At(w, a, 0).len
    BY <1>4
  <2> QED BY <1>6, <1>8, <2>1, <2>2, <2>3, SharedGone
<1>10. Contents(t, x) = Contents(w, x)
  <2> DEFINE W == {PtrTo(w, a).buf, At(w, a, 0).buf}
  <2>1. ~(SlotI(a, id + 1) = a /\ SlotJ(a, id + 1) = 0) /\ SlotI(a, id + 1) # 0
    <3>1. id + 1 # 0
      OBVIOUS
    <3> QED BY <3>1, SlotPath
  <2>2. At(w, a, 0).buf # x.buf /\ At(w, 0, 0).buf # x.buf
    <3>1. In(w, N, 0, 0)
      BY DEF In
    <3> QED BY <1>4, <1>6, <2>1, <3>1
  <2>3. x.buf \notin W
    BY <1>4, <2>2 DEF PtrTo
  <2>4. Kept(w, t, W)
    BY <1>8
  <2> HIDE DEF W
  <2> QED BY <1>4, <1>5, <2>3, <2>4, ContentsKept
<1>11. Rewrote(array.nested, TRUE, w, mem', a, Put(LeafOf(TRUE, w, At(w, a, 0)), At(w, a, 0).len, id, NoEntry, Entry(t, x)))
  <2> DEFINE y == 0
  <2>1. y = 0 /\ y # 1
    OBVIOUS
  <2> HIDE DEF y
  <2>2. Kept(t, t, {y}) /\ (y = 0 \/ Unused(t, N, y))
    BY <1>8, <2>1, KeptAsIs
  <2>3. Idle(w, N, TRUE, y, a, id + 1)
    BY <2>1 DEF Idle
  <2>4. mem' = Save(t, ElementAt(t, PtrTo(w, a), id), x)
    BY <1>3, <1>5
  <2>5. x.buf = 0 \/ x.buf = y \/ Unused(t, N, x.buf)
    BY <1>9
  <2>6. AtLeaf(array.nested, TRUE, N, w, a) /\ id \in Nat /\ Reached(w, t, N, a, id, Nil, Nil) /\ y # 1
        /\ SliceIn(t, x) /\ x.buf # 1
    BY <1>4, <1>5, <1>7, <1>9, <2>1
  <2> QED BY ONLY <2>2, <2>3, <2>4, <2>5, <2>6, LeafPut
<1>12. Entry(t, x) = [there |-> TRUE, els |-> Contents(r.mem, r.val)]
  <2>1. x # Nil
    BY <1>4 DEF Nil
  <2> QED BY <1>10, <2>1 DEF Entry, w, x
<1> DEFINE e == [there |-> TRUE, els |-> Contents(r.mem, r.val)]
<1> HIDE DEF e
<1>13. Rewrote(array.nested, HoldsSlices, w, mem', LeafRow,
               Put(LeafOf(HoldsSlices, w, At(w, LeafRow, 0)), At(w, LeafRow, 0).len, id, NoEntry, e))
  BY <1>1, <1>11, <1>12 DEF a, e
<1>14. View' = Wrapper!WithElements(Wrapper!Placed(Wrapper!Elements, id, NoEntry, e))
  BY <1>1, <1>2, <1>13, PlacedThrough
<1> QED BY <1>14 DEF e

(* What a row of these cells is, placed, is what the row promises.         *)
LEMMA RowReadAs ==
  ASSUME Inv, Inv', array' = array, InLeaf, Leaf.kind \in Matrix, NEW id \in Nat, NEW r, Kept(mem, r.mem, {}),
         Spare(r.mem, r.val, id), r.val.buf # 0, mem' = PlacedRow(r, id),
         NEW want \in Leaf.offers, r.val.len = Len(want),
         \A i \in 1 .. Len(want) : ~TooWide(Leaf, want[i]) /\ Cell(r.mem, r.val.buf, i) = Narrowed(want[i])
  PROVE  View' = Wrapper!WithElements(
                   Wrapper!Placed(Wrapper!Elements, id, Wrapper!Absent, Wrapper!Element(array.leaf, want)))
<1> DEFINE row == Contents(r.mem, r.val)
<1>1. array \in Arrays
  BY DEF Inv, PlainInv
<1>2. Memory(r.mem) /\ SliceIn(r.mem, r.val)
  BY DEF Kept, Spare
<1>3. Listed(row) /\ Len(row) = Len(want) /\ \A i \in 1 .. Len(want) : row[i] = Narrowed(want[i])
  BY <1>2, ContentsListed DEF Cell
<1>4. View' = Wrapper!WithElements(Wrapper!Placed(Wrapper!Elements, id, NoEntry, [there |-> TRUE, els |-> row]))
  BY RowRead
<1> HIDE DEF row
<1>5. Wrapper!Element(array.leaf, want) = [there |-> TRUE, els |-> row]
  BY <1>1, <1>3, RowElement
<1>6. Wrapper!Absent = NoEntry
  BY DEF Wrapper!Absent, NoEntry
<1> QED BY <1>4, <1>5, <1>6

(* ArrayEnd: the row is placed, or was declined.                           *)
LEMMA ArrayEndPromised ==
  ASSUME Inv, Truth, ArrayEnd PROVE Promised
<1>1. /\ now # NoField /\ Leaf.kind \in Matrix /\ now' = NoField /\ err = "ok" /\ now.off = Len(now.want)
      /\ UNCHANGED <<array, limits, out, elem, path>>
      /\ IF coll.declined THEN UNCHANGED <<mem, err>> /\ coll' = [coll EXCEPT !.declined = FALSE]
         ELSE /\ err' = IndexVerdict(now.id)
              /\ mem' = IF err' = "ok" THEN PlacedRow(ArrivedRow(mem, coll.cur), now.id)
                        ELSE ArrivedRow(mem, coll.cur).mem
              /\ coll' = [coll EXCEPT !.declined = FALSE, !.cur = Nil]
  BY DEF ArrayEnd, Ended
<1>2. /\ coll = [acc |-> coll.acc, cur |-> coll.cur, declined |-> coll.declined, check |-> coll.check]
      /\ (coll.declined <=> ~now.own) /\ CurInv /\ InLeaf /\ now.id \in Ids /\ now.id \in Nat
      /\ array \in Arrays /\ now.want \in Leaf.offers /\ now.own \in BOOLEAN /\ Len(now.want) \in Nat
  <2>1. array \in Arrays /\ now.id \in Ids /\ InLeaf /\ now.want \in Leaf.offers
    BY <1>1 DEF Inv, PlainInv, NowInv
  <2>2. now.id \in Nat /\ Len(now.want) \in Nat
    BY <2>1, OfferListed, ArraysAssumption
  <2> QED BY <1>1, <2>1, <2>2 DEF Inv, CollInv, NowInv
<1>3. coll'.check = coll.check /\ Inv'
  <2>1. CASE coll.declined
    BY <1>1, <1>2, <2>1, ArrayEndKeeps
  <2>2. CASE ~coll.declined
    BY <1>1, <1>2, <2>2, ArrayEndKeeps
  <2> QED BY <2>1, <2>2
<1>4. Truth'
  <2>1. ~(now' # NoField /\ now'.own) /\ (coll'.check.waived => ~limits'.strictUTF8)
    BY <1>1, <1>3 DEF Truth
  <2> QED BY <1>1, <2>1, TruthNext
<1>5. Wrapper!NoField = NoField /\ StrictUTF8On(limits)' = StrictUTF8On(limits)
  BY <1>1 DEF Wrapper!NoField, NoField
<1>6. CASE ~now.own
  <2>1. mem' = mem /\ err' = err
    BY <1>1, <1>2, <1>6
  <2>2. View' = View
    BY <1>1, <2>1, SameView
  <2>3. Wrapper!Complete
    BY <1>1, <1>5, <1>6, <2>1, <2>2 DEF Wrapper!Complete
  <2> QED BY <1>4, <2>3 DEF Promised, Wrapper!Next
<1>7. CASE now.own
  <2> DEFINE r == ArrivedRow(mem, coll.cur)
             want == now.want
             id == now.id
  <2>1. mem' = PlacedRow(r, id) /\ OwnField /\ err' = err
    <3>1. OwnField /\ ~coll.declined
      BY <1>1, <1>2, <1>7 DEF OwnField
    <3>2. Verdict(now.id, Len(now.want)) = "ok"
      BY <1>1, <3>1 DEF Truth
    <3>3. IndexVerdict(now.id) = "ok"
      BY <3>2, Zenon DEF Verdict
    <3> QED BY <1>1, <3>1, <3>3
  <2>2. /\ Levels \in 0 .. 2 /\ Tree(mem, Levels) /\ Memory(mem) /\ Len(mem) \in Nat /\ Len(mem) >= 1
    BY <1>2, ArrayTyped DEF Inv, Tree, Memory, Listed
  <2>3. /\ SliceIn(mem, coll.cur) /\ coll.cur.buf # 1 /\ coll.cur.len = Len(want)
        /\ \A i, j : In(mem, Levels, i, j) /\ coll.cur.buf # 0 /\ At(mem, i, j).buf = coll.cur.buf =>
             /\ i = SlotI(LeafRow, id + 1) /\ j = SlotJ(LeafRow, id + 1)
             /\ id >= LeafSlice.len
    BY <1>1, <1>2, <2>1 DEF CurInv
  <2>4. \A i \in 1 .. Len(want) : ~TooWide(Leaf, want[i]) /\ Cell(mem, coll.cur.buf, i) = Narrowed(want[i])
    BY <1>1, <2>1 DEF Truth
  <2>5. /\ Kept(mem, r.mem, {}) /\ Spare(r.mem, r.val, id) /\ r.val.buf # 0 /\ r.val.len = Len(want)
        /\ \A i \in 1 .. Len(want) : Cell(r.mem, r.val.buf, i) = Narrowed(want[i])
    <3>1. CASE coll.cur # Nil
      <4>1. r.mem = mem /\ r.val = coll.cur
        BY <3>1 DEF ArrivedRow
      <4>2. coll.cur.buf # 0
        <5>1. SUFFICES ASSUME coll.cur.buf = 0 PROVE FALSE
          OBVIOUS
        <5>2. Cap(mem, coll.cur) = 0
          BY <5>1 DEF Cap
        <5>3. coll.cur.len = 0
          BY <2>3, <5>2 DEF SliceIn
        <5>4. coll.cur = [buf |-> coll.cur.buf, len |-> coll.cur.len]
          BY <2>3 DEF SliceIn
        <5> QED BY <3>1, <5>1, <5>3, <5>4 DEF Nil
      <4> HIDE DEF r, want, id
      <4> QED BY <2>2, <2>3, <2>4, <4>1, <4>2, KeptAsIs DEF Spare, LeafSlice
    <3>2. CASE coll.cur = Nil
      <4> DEFINE d == Made(mem, <<>>, 0, ZeroCell)
      <4>1. r = d /\ Len(want) = 0
        BY <2>3, <3>2 DEF ArrivedRow, Nil
      <4>2. Listed(<<>>) /\ Len(<<>>) = 0 /\ Len(<<>>) <= 0 /\ 0 \in Nat
        BY EmptyListed
      <4>3. /\ Kept(mem, d.mem, {}) /\ Len(d.mem) = Len(mem) + 1
            /\ d.val = [buf |-> Len(mem) + 1, len |-> Len(<<>>)]
        BY <2>2, <4>2, MadeNew
      <4> HIDE DEF d, r, want, id
      <4>4. r.val.buf = Len(mem) + 1 /\ r.val.len = 0 /\ r.val = [buf |-> r.val.buf, len |-> r.val.len]
        BY <4>1, <4>2, <4>3
      <4>5. r.val.buf \in Len(mem) + 1 .. Len(r.mem) /\ r.val.buf # 1 /\ r.val.buf # 0 /\ Len(r.mem) \in Nat /\ Memory(r.mem)
        BY <2>2, <4>1, <4>3, <4>4 DEF Kept
      <4>6. SliceIn(r.mem, r.val)
        <5>1. Cap(r.mem, r.val) \in Nat
          BY <2>2, <4>4, <4>5 DEF Cap, Memory, Listed
        <5> QED BY <2>2, <4>4, <4>5, <5>1 DEF SliceIn
      <4>7. Unused(r.mem, Levels, r.val.buf)
        BY <2>2, <4>1, <4>3, <4>5, NewBuffers
      <4>8. \A i \in 1 .. Len(want) : FALSE
        BY <4>1
      <4> QED BY <4>1, <4>3, <4>4, <4>5, <4>6, <4>7, <4>8 DEF Spare, Unused
    <3> QED BY <3>1, <3>2
  <2> HIDE DEF r
  <2>6. View' = Wrapper!WithElements(
                   Wrapper!Placed(Wrapper!Elements, id, Wrapper!Absent, Wrapper!Element(array.leaf, want)))
    <3>1. \A i \in 1 .. Len(want) : ~TooWide(Leaf, want[i]) /\ Cell(r.mem, r.val.buf, i) = Narrowed(want[i])
      BY <2>4, <2>5
    <3>2. id \in Nat /\ want \in Leaf.offers
      BY <1>2
    <3> HIDE DEF want, id
    <3> QED BY <1>1, <1>2, <1>3, <2>1, <2>5, <3>1, <3>2, RowReadAs
  <2>7. Wrapper!Gap(array.leaf) = Wrapper!Absent
    BY <1>1 DEF Wrapper!Gap, Leaf, Matrix
  <2>8. Wrapper!FieldReason(now.id, Len(now.want)) = "ok"
    <3>1. Verdict(now.id, Len(now.want)) = "ok"
      BY <1>1, <2>1 DEF Truth
    <3> QED BY <1>2, <3>1, Reasons
  <2>9. array.leaf.kind # "String"
    BY <1>1 DEF Leaf, Matrix
  <2>10. Wrapper!Complete
    <3> HIDE DEF want, id
    <3>1. want = now.want /\ id = now.id
      BY DEF want, id
    <3> QED BY <1>1, <1>5, <1>7, <2>1, <2>6, <2>7, <2>8, <2>9, <3>1 DEF Wrapper!Complete
  <2> QED BY <1>4, <2>10 DEF Promised, Wrapper!Next
<1> QED BY <1>2, <1>6, <1>7

(* PlaceRow: a row of the caller's.                                        *)
LEMMA PlaceRowPromised ==
  ASSUME Inv, Truth, NEW id \in Ids, NEW want \in Leaf.offers, \A i \in 1 .. Len(want) : ~TooWide(Leaf, want[i]),
         NEW row, Listed(row), Len(row) = Len(want), \A i \in 1 .. Len(want) : row[i] = Narrowed(want[i]),
         PlaceRow(id, row)
  PROVE  Promised
<1> DEFINE r == Made(mem, row, Len(row), ZeroCell)
<1>1. /\ Starts(id) /\ InLeaf /\ Leaf.kind \in Matrix /\ Leaf.byHand
      /\ IF IndexVerdict(id) # "ok" THEN Fail(IndexVerdict(id))
         ELSE /\ mem' = PlacedRow(r, id)
              /\ UNCHANGED <<array, limits, out, coll, elem, path, now, err>>
  BY DEF PlaceRow
<1>2. now = NoField /\ id \in Nat /\ array \in Arrays
  BY <1>1, StartsFrom
<1>3. IndexVerdict(id) = Wrapper!Reason(id + 1, array.leaf.count, array.caps.arrayCount)
  BY <1>2, Reasons
<1>4. Wrapper!Ready /\ Wrapper!InLeaf /\ Wrapper!OfRow /\ array.leaf.byHand
  BY <1>1 DEF Starts, Ready, InLeaf, Depth, Leaf, NoField, Matrix,
              Wrapper!Ready, Wrapper!InLeaf, Wrapper!Depth, Wrapper!NoField, Wrapper!OfRow
<1>5. CASE IndexVerdict(id) # "ok"
  <2>1. Truth' /\ Wrapper!Refuse(IndexVerdict(id)) /\ now' = now
    BY <1>1, <1>5, FailPromised
  <2>2. Wrapper!PlaceRow(id, want)
    BY <1>3, <1>4, <1>5, <2>1 DEF Wrapper!PlaceRow
  <2>3. Wrapper!Next
    BY <2>2 DEF Wrapper!Next, Leaf
  <2> QED BY <2>1, <2>3 DEF Promised
<1>6. CASE IndexVerdict(id) = "ok"
  <2>1. mem' = PlacedRow(r, id) /\ UNCHANGED <<array, limits, out, coll, elem, path, now, err>>
    BY <1>1, <1>6
  <2>2. /\ Levels \in 0 .. 2 /\ Tree(mem, Levels) /\ Memory(mem) /\ Len(row) \in Nat /\ Len(row) <= Len(row)
        /\ Len(mem) \in Nat /\ Len(mem) >= 1
    BY <1>2, ArrayTyped DEF Inv, PlainInv, Tree, Memory, Listed
  <2>3. /\ Kept(mem, r.mem, {}) /\ Len(r.mem) = Len(mem) + 1
        /\ r.val = [buf |-> Len(mem) + 1, len |-> Len(row)]
        /\ Len(r.mem[Len(mem) + 1]) = Len(row)
        /\ \A i \in 1 .. Len(row) : r.mem[Len(mem) + 1][i] = row[i]
    BY <2>2, MadeNew
  <2> HIDE DEF r
  <2>4. r.val.buf = Len(mem) + 1 /\ r.val.len = Len(row) /\ r.val = [buf |-> r.val.buf, len |-> r.val.len]
    BY <2>3
  <2>5. SliceIn(r.mem, r.val) /\ r.val.buf # 1 /\ r.val.buf # 0 /\ r.val.buf \in Len(mem) + 1 .. Len(r.mem)
    <3>1. Cap(r.mem, r.val) = Len(row)
      BY <2>2, <2>3, <2>4 DEF Cap
    <3> QED BY <2>2, <2>3, <2>4, <3>1 DEF SliceIn
  <2>6. Unused(r.mem, Levels, r.val.buf)
    BY <2>2, <2>3, <2>5, NewBuffers
  <2>7. Spare(r.mem, r.val, id)
    BY <2>5, <2>6 DEF Spare, Unused
  <2>8. \A i \in 1 .. Len(want) : ~TooWide(Leaf, want[i]) /\ Cell(r.mem, r.val.buf, i) = Narrowed(want[i])
    BY <2>3, <2>4 DEF Cell
  <2>9. r.val.len = Len(want)
    BY <2>4
  <2>10. Inv'
    BY PlaceRowKeeps
  <2>11. View' = Wrapper!WithElements(
                   Wrapper!Placed(Wrapper!Elements, id, Wrapper!Absent, Wrapper!Element(array.leaf, want)))
    BY <1>1, <1>2, <2>1, <2>3, <2>5, <2>7, <2>8, <2>9, <2>10, RowReadAs
  <2>12. Wrapper!PlaceRow(id, want)
    <3>1. StrictUTF8On(limits)' = StrictUTF8On(limits) /\ UNCHANGED <<array, path, now, err>>
      BY <2>1
    <3> QED BY <1>3, <1>4, <1>6, <2>11, <3>1 DEF Wrapper!PlaceRow
  <2>13. Wrapper!Next
    BY <2>12 DEF Wrapper!Next, Leaf
  <2>14. Truth'
    <3>1. ~(now' # NoField /\ now'.own) /\ (coll'.check.waived => ~limits'.strictUTF8)
      BY <1>2, <2>1 DEF Truth
    <3> QED BY <2>1, <3>1, TruthNext
  <2> QED BY <2>13, <2>14 DEF Promised
<1> QED BY <1>5, <1>6

-----------------------------------------------------------------------------
(* Take gathers: the bytes so far are the payload's, and the payload is     *)
(* given whole.                                                            *)
Gathered(t, n, want) ==
  /\ ~t.done => \A i \in 1 .. n : Cell(t.mem, t.acc.buf, i) = want[i]
  /\ t.done => t.bytes = want /\ n = Len(want)
  /\ t.done /\ now.off > 0 => Contents(t.mem, t.own) = want

(* It does, where the accumulator held what had come.                       *)
LEMMA TakeGathers ==
  ASSUME Inv, Truth, now # NoField, now.own, Bytewise, NEW n \in now.off .. Len(now.want),
         n = now.off => now.want = <<>>,
         NEW t, t = Take(coll.acc, Len(now.want), now.off, SubSeq(now.want, now.off + 1, n))
  PROVE  Gathered(t, n, now.want)
<1> DEFINE want == now.want
           total == Len(now.want)
           off == now.off
           chunk == SubSeq(now.want, off + 1, n)
           acc == coll.acc
           open == IF off > 0 THEN [mem |-> mem, val |-> acc] ELSE OpenAcc(acc, total)
           r == AppendAll(open.mem, open.val, chunk, 0)
<1>1. /\ array \in Arrays /\ now.want \in Leaf.offers /\ off \in 0 .. total /\ Listed(want) /\ total \in Nat
      /\ off \in Nat /\ n \in Nat /\ n <= total /\ off <= n /\ Memory(mem) /\ Len(mem) \in Nat /\ AccInv
      /\ total = Len(want)
  <2>1. array \in Arrays /\ now.want \in Leaf.offers /\ off \in 0 .. total /\ Tree(mem, Levels) /\ AccInv
    BY DEF Inv, PlainInv, NowInv, CollInv
  <2>2. Listed(now.want) /\ total \in Nat
    BY <2>1, OfferListed
  <2> QED BY <2>1, <2>2 DEF Tree, Memory, Listed
<1>2. Listed(chunk) /\ Len(chunk) = n - off /\ Len(chunk) \in Nat /\ \A i \in 1 .. n - off : chunk[i] = want[off + i]
  <2>1. off + 1 \in Nat \ {0} /\ n \in 0 .. total /\ off + 1 <= n + 1
    BY <1>1
  <2>2. /\ Listed(chunk) /\ Len(chunk) = n - (off + 1) + 1
        /\ \A i \in 1 .. n - (off + 1) + 1 : chunk[i] = want[off + 1 + i - 1]
    BY <1>1, <2>1, SubListed
  <2>3. n - (off + 1) + 1 = n - off /\ n - off \in Nat
    BY <1>1
  <2> HIDE DEF chunk, want
  <2>4. ASSUME NEW i \in 1 .. n - off PROVE chunk[i] = want[off + i]
    <3>1. off + 1 + i - 1 = off + i
      BY <1>1
    <3>2. chunk[i] = want[off + 1 + i - 1]
      BY <2>2, <2>3
    <3> QED BY <3>1, <3>2
  <2>5. Listed(chunk) /\ Len(chunk) = n - off
    BY <2>2, <2>3
  <2> QED BY <2>3, <2>4, <2>5
<1>3. off > 0 => /\ SliceIn(mem, acc) /\ acc.len = off /\ acc.buf \in 2 .. Len(mem)
                 /\ \A i \in 1 .. off : Cell(mem, acc.buf, i) = want[i]
  BY <1>1 DEF AccInv, Truth, OwnField
<1> HIDE DEF want, total, off, chunk, acc
<1>4. CASE off = 0 /\ Len(chunk) >= total
  <2>1. t = [done |-> TRUE, bytes |-> chunk, mem |-> mem, acc |-> Truncated(acc), own |-> Nil]
    BY <1>4, Zenon DEF Take, total, chunk, acc, off
  <2>2. t.done = TRUE /\ t.bytes = chunk
    BY <2>1
  <2>3. n = total /\ n - off = total
    BY <1>1, <1>2, <1>4
  <2>4. chunk = want
    <3>1. \A i \in 1 .. total : i \in 1 .. n - off /\ off + i = i
      BY <1>1, <1>4, <2>3
    <3>2. \A i \in 1 .. total : chunk[i] = want[i]
      BY <1>2, <3>1
    <3> QED BY <1>1, <1>2, <2>3, <3>2, SameListed
  <2> QED BY <1>4, <2>2, <2>3, <2>4 DEF Gathered, want, total, off
<1>5. CASE ~(off = 0 /\ Len(chunk) >= total)
  <2>1. t = IF r.val.len < total
            THEN [done |-> FALSE, bytes |-> <<>>, mem |-> r.mem, acc |-> r.val, own |-> Nil]
            ELSE [done |-> TRUE, bytes |-> Contents(r.mem, r.val), mem |-> r.mem, acc |-> Nil, own |-> r.val]
    BY <1>5, Zenon DEF Take, AfterHandOver, total, chunk, acc, off
  <2>2. /\ SliceIn(open.mem, open.val) /\ Memory(open.mem) /\ open.val.len = off
        /\ \A i \in 1 .. off : Cell(open.mem, open.val.buf, i) = want[i]
    <3>1. CASE off > 0
      <4>1. open.mem = mem /\ open.val = acc
        BY <3>1
      <4> HIDE DEF open
      <4> QED BY <1>1, <1>3, <3>1, <4>1
    <3>2. CASE ~(off > 0)
      <4> DEFINE z == Nil
             first == FirstCap(total)
      <4>1. open = ReuseSlice(mem, z, first, 0) /\ off = 0 /\ first \in Nat
        <5>1. off = 0 /\ acc = Nil
          BY <1>1, <3>2 DEF AccInv, OwnField, off, acc
        <5>2. open = OpenAcc(Nil, total)
          BY <3>2, <5>1
        <5> QED BY <1>1, <5>1, <5>2, OpensFresh
      <4>2. SliceIn(mem, z)
        <5>1. Nil.buf = 0 /\ Nil.len = 0 /\ Nil = [buf |-> Nil.buf, len |-> Nil.len]
          BY DEF Nil
        <5>2. Cap(mem, Nil) = 0
          BY <5>1 DEF Cap
        <5>3. 0 \in 0 .. Len(mem) /\ 0 \in 0 .. 0
          BY <1>1
        <5> QED BY <5>1, <5>2, <5>3, Zenon DEF SliceIn
      <4> HIDE DEF open, z
      <4>3. Kept(mem, open.mem, {}) /\ SliceIn(open.mem, open.val) /\ open.val.len = 0
        BY <1>1, <4>1, <4>2, Reused
      <4>4. \A i \in 1 .. off : FALSE
        BY <4>1
      <4> QED BY <4>1, <4>3, <4>4 DEF Kept
    <3> QED BY <3>1, <3>2
  <2> HIDE DEF open
  <2>3. /\ SliceIn(r.mem, r.val) /\ r.val.len = off + (n - off) /\ Memory(r.mem)
        /\ \A i \in 1 .. off : Cell(r.mem, r.val.buf, i) = Cell(open.mem, open.val.buf, i)
        /\ \A i \in 1 .. n - off : Cell(r.mem, r.val.buf, off + i) = chunk[i]
    <3>1. Appended(open.mem, open.val, r.mem, r.val, chunk, Len(chunk), 0)
      BY <1>2, <2>2, AppendedAll
    <3> HIDE DEF r
    <3>2. /\ Kept(open.mem, r.mem, {open.val.buf}) /\ SliceIn(r.mem, r.val) /\ r.val.len = open.val.len + Len(chunk)
          /\ \A i \in 1 .. open.val.len : r.mem[r.val.buf][i] = open.mem[open.val.buf][i]
          /\ \A i \in 1 .. Len(chunk) : r.mem[r.val.buf][open.val.len + i] = chunk[i]
      BY <3>1, Zenon DEF Appended, Longer
    <3> QED BY <1>2, <2>2, <3>2 DEF Kept, Cell
  <2> HIDE DEF r
  <2>4. r.val.len = n /\ \A i \in 1 .. n : Cell(r.mem, r.val.buf, i) = want[i]
    <3>1. r.val.len = n
      BY <1>1, <2>3
    <3>2. ASSUME NEW i \in 1 .. n PROVE Cell(r.mem, r.val.buf, i) = want[i]
      <4>1. CASE i <= off
        <5>1. i \in 1 .. off
          BY <1>1, <4>1
        <5> QED BY <2>2, <2>3, <5>1
      <4>2. CASE ~(i <= off)
        <5> DEFINE j == i - off
        <5>1. j \in 1 .. n - off /\ off + j = i
          BY <1>1, <4>2
        <5> HIDE DEF j
        <5>2. Cell(r.mem, r.val.buf, off + j) = chunk[j] /\ chunk[j] = want[off + j]
          BY <1>2, <2>3, <5>1
        <5> QED BY <5>1, <5>2
      <4> QED BY <4>1, <4>2
    <3> QED BY <3>1, <3>2
  <2>5. CASE r.val.len < total
    <3>1. t = [done |-> FALSE, bytes |-> <<>>, mem |-> r.mem, acc |-> r.val, own |-> Nil]
      BY <2>1, <2>5, Zenon
    <3>2. t.done = FALSE /\ t.mem = r.mem /\ t.acc = r.val
      BY <3>1
    <3> QED BY <2>4, <3>2 DEF Gathered, want
  <2>6. CASE ~(r.val.len < total)
    <3>1. t = [done |-> TRUE, bytes |-> Contents(r.mem, r.val), mem |-> r.mem, acc |-> Nil, own |-> r.val]
      BY <2>1, <2>6, Zenon
    <3>2. t.done = TRUE /\ t.bytes = Contents(r.mem, r.val) /\ t.mem = r.mem /\ t.own = r.val
      BY <3>1
    <3>3. n = total
      BY <1>1, <2>4, <2>6
    <3>4. Contents(r.mem, r.val) = want
      <4> DEFINE c == Contents(r.mem, r.val)
      <4>1. Listed(c) /\ Len(c) = n /\ \A i \in 1 .. n : c[i] = want[i]
        BY <2>3, <2>4, ContentsListed DEF Cell
      <4> HIDE DEF c
      <4>2. c = want
        BY <1>1, <3>3, <4>1, SameListed
      <4> QED BY <4>2 DEF c
    <3> QED BY <3>2, <3>3, <3>4 DEF Gathered, want, total
  <2> QED BY <2>5, <2>6
<1> QED BY <1>4, <1>5

(* No header has the accumulator's buffer: nothing is read of what Take    *)
(* writes.                                                                 *)
LEMMA TakeThrough ==
  ASSUME Inv, Len(path) >= Depth, NEW t, NEW n, NEW total, Taken(mem, t, n, total)
  PROVE  Through(t.mem)
<1>1. coll.acc.buf # 1 /\ (coll.acc.buf = 0 \/ Unused(mem, Levels, coll.acc.buf))
  <2>1. AccInv /\ Nil.buf = 0
    BY DEF Inv, CollInv, Nil
  <2> QED BY <2>1 DEF AccInv
<1>2. Kept(mem, t.mem, {coll.acc.buf})
  BY DEF Taken
<1> QED BY <1>1, <1>2, GoesThrough

(* A string is placed, and read where its id says.                         *)
LEMMA StringRead ==
  ASSUME Inv, Inv', array' = array, InLeaf, Leaf.kind = "String", NEW id \in Nat,
         NEW t, NEW n, NEW total, Taken(mem, t, n, total), mem' = PlacedString(t, id)
  PROVE  View' = Wrapper!WithElements(Wrapper!Placed(Wrapper!Elements, id, <<>>, t.bytes))
<1> DEFINE w == t.mem
           g == Grow(w, out, id, Leaf.count, <<>>)
           v == g.mem
           a == LeafRow
           N == Levels
           zero == <<>>
           x == t.bytes
<1>1. HoldsSlices = FALSE /\ Len(path) >= Depth /\ Leaf.count \in Int /\ array \in Arrays
  BY ArrayTyped DEF HoldsSlices, Matrix, InLeaf, Inv, PlainInv
<1>2. Through(w)
  BY <1>1, TakeThrough
<1>3. mem' = Save(v, ElementAt(v, out, id), x) /\ v = Filled(ReserveRows(w, out, id, Leaf.count, zero), out, id, zero, zero)
  BY DEF PlacedString, Grow
<1> HIDE DEF w, g, v, x, N, a, zero
<1>4. AtLeaf(array.nested, FALSE, N, w, a) /\ out = PtrTo(w, a)
  BY <1>1, <1>2 DEF Through, N, a
<1>5. N \in 0 .. 2 /\ Tree(w, N) /\ In(w, N, a, 0) /\ ~(IF a = 0 THEN N >= 1 ELSE N = 2)
  BY <1>4 DEF AtLeaf, Bare
<1>6. Reached(w, v, N, a, id, zero, zero)
  BY <1>1, <1>3, <1>4, <1>5, GrownToReach
<1>7. Rewrote(array.nested, FALSE, w, mem', a, Put(LeafOf(FALSE, w, At(w, a, 0)), At(w, a, 0).len, id, zero, x))
  <2>1. mem' = Save(v, ElementAt(v, PtrTo(w, a), id), x)
    BY <1>3, <1>4
  <2>2. id \in Nat
    OBVIOUS
  <2> QED BY ONLY <1>4, <1>6, <2>1, <2>2, BarePut
<1>8. Rewrote(array.nested, HoldsSlices, w, mem', LeafRow,
              Put(LeafOf(HoldsSlices, w, At(w, LeafRow, 0)), At(w, LeafRow, 0).len, id, zero, x))
  BY <1>1, <1>7 DEF a
<1>9. View' = Wrapper!WithElements(Wrapper!Placed(Wrapper!Elements, id, zero, x))
  BY <1>1, <1>2, <1>8, PlacedThrough
<1> QED BY <1>9 DEF zero, x

(* A blob is placed, and read where its id says.                           *)
LEMMA BlobRead ==
  ASSUME Inv, Inv', array' = array, InLeaf, Leaf.kind = "Blob", NEW id \in Nat,
         now.want \in Leaf.offers, now.off \in 0 .. Len(now.want),
         NEW t, NEW n, NEW total, Taken(mem, t, n, total), Gathered(t, n, now.want), t.done,
         mem' = PlacedBlob(t, id, now.off)
  PROVE  View' = Wrapper!WithElements(
                   Wrapper!Placed(Wrapper!Elements, id, Wrapper!Absent, Wrapper!Element(array.leaf, now.want)))
<1> DEFINE w == t.mem
           g == Grow(w, out, id, Leaf.count, Nil)
           v == g.mem
           a == LeafRow
           N == Levels
           s == g.val
           want == now.want
           keep == now.off > 0 /\ Cap(v, s) < Len(t.bytes)
           r == IF keep THEN [mem |-> v, val |-> t.own] ELSE ReuseBytes(v, s, t.bytes)
           x == r.val
           u == r.mem
<1>1. HoldsSlices = TRUE /\ Len(path) >= Depth /\ Leaf.count \in Int /\ array \in Arrays
  BY ArrayTyped DEF HoldsSlices, InLeaf, Inv, PlainInv
<1>2. Through(w)
  BY <1>1, TakeThrough
<1>3. /\ Listed(t.bytes) /\ SliceIn(w, t.own) /\ t.own.buf # 1 /\ (t.own.buf = 0 \/ Unused(w, N, t.own.buf))
      /\ t.bytes = want /\ (now.off > 0 => Contents(w, t.own) = want)
  BY DEF Taken, Gathered
<1>4. Listed(want) /\ Len(want) \in Nat
  BY <1>1, OfferListed
<1>5. mem' = Save(u, ElementAt(u, out, id), x)
  BY DEF PlacedBlob
<1>6. /\ AtLeaf(array.nested, TRUE, N, w, a) /\ out = PtrTo(w, a) /\ Memory(w) /\ Len(w) \in Nat
  BY <1>1, <1>2 DEF Through
<1>7. /\ N \in 0 .. 2 /\ Tree(w, N) /\ In(w, N, a, 0) /\ Leafy(N, a) /\ (IF a = 0 THEN N >= 1 ELSE N = 2)
      /\ Load(w, out) = At(w, a, 0)
  <2>1. N \in 0 .. 2 /\ Tree(w, N) /\ In(w, N, a, 0) /\ Leafy(N, a)
    BY <1>6 DEF AtLeaf
  <2>2. IF a = 0 THEN N >= 1 ELSE N = 2
    BY <2>1 DEF Leafy
  <2> HIDE DEF w, a, N
  <2> QED BY <1>6, <2>1, <2>2, PtrToHolds
<1>8. v = Filled(ReserveRows(w, out, id, Leaf.count, Nil), out, id, Nil, Nil) /\ s = Stale(w, At(w, a, 0), id, Nil)
  BY <1>7 DEF Grow
<1> HIDE DEF w, g, v, a, N, s, want
<1>9. Reached(w, v, N, a, id, Nil, Nil)
  BY <1>1, <1>6, <1>7, <1>8, GrownToReach
<1>10. /\ Lengthened(w, v, PtrTo(w, a), Reaching(At(w, a, 0).len, id), Nil, Nil) /\ Grew(w, v, N, a)
       /\ At(v, a, 0) = Load(v, PtrTo(w, a)) /\ Memory(v) /\ Len(v) \in Nat /\ Len(v) >= Len(w)
       /\ Kept(w, v, {PtrTo(w, a).buf, At(w, a, 0).buf}) /\ Tree(v, N)
  <2>1. Grew(w, v, N, a)
    BY <1>9 DEF Reached
  <2> QED BY <1>9, <2>1 DEF Reached, Grew
<1>11. /\ SliceIn(w, s) /\ s.buf # 1 /\ s.buf \in 0 .. Len(w)
       /\ \A i, j : In(w, N, i, j) /\ s.buf # 0 /\ At(w, i, j).buf = s.buf
            => i = SlotI(a, id + 1) /\ j = SlotJ(a, id + 1) /\ id >= At(w, a, 0).len
  BY <1>7, <1>8, StaleHeader
<1>12. Idle(w, N, TRUE, s.buf, a, id + 1)
  <2>1. id + 1 \in Nat /\ id + 1 # 0
    OBVIOUS
  <2>2. At(w, a, 0).len \in Nat
    BY <1>7, TreeHas
  <2>3. id >= At(w, a, 0).len => id + 1 > At(w, a, 0).len
    BY <2>2
  <2> QED BY <1>7, <1>11, <2>1, <2>3 DEF Idle
<1>13. SliceIn(v, s) /\ SliceIn(v, t.own)
  BY <1>3, <1>6, <1>10, <1>11, KeptSlice
<1>14. s.buf = 0 \/ Unused(v, N, s.buf)
  <2>1. SUFFICES ASSUME s.buf # 0 PROVE Unused(v, N, s.buf)
    OBVIOUS
  <2>2. s.buf \in 1 .. Len(w)
    BY <1>6, <1>11, <2>1
  <2>3. \A i, j : In(w, N, i, j) /\ At(w, i, j).buf = s.buf =>
           /\ i = SlotI(a, id + 1) /\ j = SlotJ(a, id + 1) /\ id >= At(w, a, 0).len
    BY <1>11, <2>1
  <2> QED BY <1>7, <1>10, <2>2, <2>3, SharedGone
<1> DEFINE put == IF want = <<>> THEN NoEntry ELSE [there |-> TRUE, els |-> want]
<1>15. /\ Kept(v, u, {s.buf}) /\ SliceIn(u, x) /\ x.buf # 1
       /\ x.buf = 0 \/ x.buf = s.buf \/ Unused(v, N, x.buf)
       /\ Entry(u, x) = put
  <2>1. CASE keep
    <3>1. u = v /\ x = t.own
      BY <2>1
    <3>2. t.own.buf = 0 \/ Unused(v, N, t.own.buf)
      <4>1. CASE t.own.buf # 0
        <5>1. t.own.buf \in 1 .. Len(w) /\ Unused(w, N, t.own.buf)
          BY <1>3, <1>6, <4>1 DEF SliceIn
        <5> QED BY <1>7, <1>10, <5>1, GrewUnused
      <4> QED BY <4>1
    <3>3. want # <<>> /\ now.off > 0
      <4>1. now.off > 0
        BY <2>1
      <4>2. Len(want) # 0
        BY <1>4, <4>1 DEF want
      <4> QED BY <1>4, <4>1, <4>2, EmptyIffLen
    <3>4. t.own.buf # 0
      BY <1>3, <3>3 DEF Contents
    <3>5. Contents(v, t.own) = want
      <4> DEFINE W == {PtrTo(w, a).buf, At(w, a, 0).buf}
      <4>1. Unused(w, N, t.own.buf) /\ In(w, N, 0, 0)
        BY <1>3, <3>4 DEF In
      <4>2. t.own.buf \notin W
        BY <1>3, <1>7, <4>1 DEF PtrTo, Unused
      <4>3. Kept(w, v, W)
        BY <1>10
      <4> HIDE DEF W, r, x, u, keep
      <4>4. Contents(v, t.own) = Contents(w, t.own)
        BY <1>3, <1>6, <4>2, <4>3, ContentsKept
      <4> QED BY <1>3, <3>3, <4>4
    <3> HIDE DEF r, x, u, keep
    <3>6. Entry(u, x) = put
      <4>1. t.own # Nil
        BY <3>4 DEF Nil
      <4> QED BY <3>1, <3>3, <3>5, <4>1 DEF Entry
    <3> HIDE DEF put
    <3> QED BY <1>3, <1>10, <1>13, <3>1, <3>2, <3>6, KeptAsIs
  <2>2. CASE ~keep
    <3>1. r = ReuseBytes(v, s, want)
      BY <1>3, <2>2
    <3> HIDE DEF r, keep
    <3>2. BytesIn(v, s, want, u, x)
      BY <1>4, <1>10, <1>13, <3>1, ReusedBytes
    <3> HIDE DEF u
    <3>3. Kept(v, u, {s.buf}) /\ SliceIn(u, x) /\ (x.buf = 0 \/ x.buf = s.buf \/ x.buf \in Len(v) + 1 .. Len(u))
      BY <3>2 DEF BytesIn
    <3> HIDE DEF x, put
    <3>4. Memory(u) /\ Len(u) \in Nat /\ Len(v) >= 1
      BY <1>10, <3>3 DEF Kept, Memory, Listed, Tree
    <3>5. x.buf # 1 /\ (x.buf = 0 \/ x.buf = s.buf \/ Unused(v, N, x.buf))
      <4>1. CASE x.buf \in Len(v) + 1 .. Len(u)
        <5>1. x.buf \notin 0 .. Len(v) /\ x.buf # 1
          BY <1>10, <3>4, <4>1
        <5>2. Unused(v, N, x.buf)
          BY <1>7, <1>10, <5>1, TreeHas DEF Unused
        <5> QED BY <5>1, <5>2
      <4>2. CASE x.buf = 0 \/ x.buf = s.buf
        BY <1>11, <4>2
      <4> QED BY <3>3, <4>1, <4>2
    <3>6. Entry(u, x) = put
      <4>1. CASE want = <<>>
        <5>1. x = Nil
          BY <3>2, <4>1 DEF BytesIn
        <5> QED BY <4>1, <5>1 DEF Entry, put, NoEntry, Contents, Nil
      <4>2. CASE want # <<>>
        <5>1. x # Nil /\ x.len = Len(want) /\ \A i \in 1 .. Len(want) : Cell(u, x.buf, i) = want[i]
          BY <3>2, <4>2 DEF BytesIn, Nil
        <5> DEFINE c == Contents(u, x)
        <5>2. Listed(c) /\ Len(c) = Len(want) /\ \A i \in 1 .. Len(want) : c[i] = want[i]
          BY <3>3, <3>4, <5>1, ContentsListed DEF Cell
        <5> HIDE DEF c
        <5>3. c = want
          BY <1>4, <5>2, SameListed
        <5> QED BY <4>2, <5>1, <5>3 DEF Entry, put, c
      <4> QED BY <4>1, <4>2
    <3> QED BY <3>3, <3>5, <3>6
  <2> QED BY <2>1, <2>2
<1> HIDE DEF r, x, u, put, keep
<1>16. Rewrote(array.nested, TRUE, w, mem', a, Put(LeafOf(TRUE, w, At(w, a, 0)), At(w, a, 0).len, id, NoEntry, put))
  <2> DEFINE y == s.buf
  <2>1. mem' = Save(u, ElementAt(u, PtrTo(w, a), id), x)
    BY <1>5, <1>6
  <2>2. AtLeaf(array.nested, TRUE, N, w, a) /\ id \in Nat /\ Reached(w, v, N, a, id, Nil, Nil) /\ y # 1
        /\ SliceIn(u, x) /\ Kept(v, u, {y}) /\ Idle(w, N, TRUE, y, a, id + 1)
    BY <1>6, <1>9, <1>11, <1>12, <1>15
  <2>3. y = 0 \/ Unused(v, N, y)
    BY <1>14
  <2>4. x.buf # 1 /\ (x.buf = 0 \/ x.buf = y \/ Unused(v, N, x.buf))
    BY <1>15
  <2> HIDE DEF y
  <2>5. Rewrote(array.nested, TRUE, w, mem', a, Put(LeafOf(TRUE, w, At(w, a, 0)), At(w, a, 0).len, id, NoEntry, Entry(u, x)))
    BY ONLY <2>1, <2>2, <2>3, <2>4, LeafPut
  <2> QED BY <1>15, <2>5
<1>17. Rewrote(array.nested, HoldsSlices, w, mem', LeafRow,
               Put(LeafOf(HoldsSlices, w, At(w, LeafRow, 0)), At(w, LeafRow, 0).len, id, NoEntry, put))
  BY <1>1, <1>16 DEF a
<1>18. View' = Wrapper!WithElements(Wrapper!Placed(Wrapper!Elements, id, NoEntry, put))
  BY <1>1, <1>2, <1>17, PlacedThrough DEF w
<1>19. Wrapper!Absent = NoEntry /\ Wrapper!Element(array.leaf, now.want) = put
  BY DEF Wrapper!Absent, Wrapper!There, Wrapper!Element, NoEntry, put, want, Leaf
<1> QED BY <1>18, <1>19

(* A piece of another kind goes past.                                      *)
LEMMA SkippedPromised ==
  ASSUME Inv, Truth, NEW n \in now.off .. Len(now.want), n = now.off => now.want = <<>>, err = "ok", PieceSkipped(n)
  PROVE  Promised
<1>1. /\ now # NoField /\ ~now.own
      /\ now' = IF n = Len(now.want) THEN NoField ELSE [now EXCEPT !.off = n]
      /\ UNCHANGED <<array, mem, limits, out, coll, elem, path, err>>
  BY DEF PieceSkipped
<1>2. /\ now.off \in 0 .. Len(now.want) /\ Len(now.want) \in Nat
      /\ now = [id |-> now.id, own |-> now.own, told |-> now.told, want |-> now.want, off |-> now.off]
  <2>1. array \in Arrays /\ now.want \in Leaf.offers
    BY <1>1 DEF Inv, PlainInv, NowInv
  <2> QED BY <1>1, <2>1, OfferListed DEF Inv, NowInv
<1>3. View' = View /\ StrictUTF8On(limits)' = StrictUTF8On(limits) /\ Wrapper!NoField = NoField
  BY <1>1, SameView DEF Wrapper!NoField, NoField
<1>4. ~(now' # NoField /\ now'.own)
  <2>1. CASE n = Len(now.want)
    <3>1. now' = NoField
      BY <1>1, <2>1
    <3> QED BY <3>1
  <2>2. CASE n # Len(now.want)
    <3>1. now' = [id |-> now.id, own |-> now.own, told |-> now.told, want |-> now.want, off |-> n]
      BY <1>1, <1>2, <2>2
    <3> QED BY <1>1, <3>1
  <2> QED BY <2>1, <2>2
<1>5. Truth'
  <2>1. coll'.check.waived => ~limits'.strictUTF8
    BY <1>1 DEF Truth
  <2> QED BY <1>1, <1>4, <2>1, TruthNext
<1>6. CASE n = Len(now.want)
  <2>1. Wrapper!Complete
    BY <1>1, <1>3, <1>6 DEF Wrapper!Complete
  <2> QED BY <1>5, <2>1 DEF Promised, Wrapper!Next
<1>7. CASE n # Len(now.want)
  <2>1. n # now.off
    <3>1. SUFFICES ASSUME n = now.off PROVE FALSE
      OBVIOUS
    <3>2. now.want = <<>> /\ Len(<<>>) = 0
      BY <3>1
    <3> QED BY <1>2, <1>7, <3>1, <3>2
  <2>2. n \in now.off + 1 .. Len(now.want)
    BY <1>2, <2>1
  <2>3. now' = [now EXCEPT !.off = n]
    BY <1>1, <1>7
  <2>4. Wrapper!Advance
    BY <1>1, <1>3, <2>2, <2>3 DEF Wrapper!Advance
  <2> QED BY <1>5, <2>4 DEF Promised, Wrapper!Next
<1> QED BY <1>6, <1>7

(* The bytes of the payload are in no buffer that is read.                 *)
LEMMA HeldView ==
  ASSUME Inv, Inv', array' = array, Kept(mem, mem', {coll.acc.buf})
  PROVE  View' = View
<1> DEFINE b == coll.acc.buf
<1>1. b # 1 /\ (b = 0 \/ Unused(mem, Levels, b))
  <2>1. AccInv /\ Nil.buf = 0
    BY DEF Inv, CollInv, Nil
  <2> QED BY <2>1 DEF AccInv
<1>2. Kept(mem, mem', {b})
  OBVIOUS
<1> HIDE DEF b
<1> DEFINE z == 0
<1>3. Idle(mem, Levels, HoldsSlices, b, z, z)
  BY <1>1 DEF Idle, Unused
<1> HIDE DEF z
<1> QED BY <1>1, <1>2, <1>3, SparedView

(* StringSeq.String and BlobSeq.Bytes: the element is placed once it is     *)
(* whole, unless it is out of bounds or no string of a strict decode.      *)
LEMMA CollectPromised ==
  ASSUME Inv, Truth, now # NoField, now.own, Bytewise, err = "ok", NEW n \in now.off .. Len(now.want),
         n = now.off => now.want = <<>>, Collect(SubSeq(now.want, now.off + 1, n), n)
  PROVE  Promised
<1> DEFINE piece == SubSeq(now.want, now.off + 1, n)
           t == Take(coll.acc, Len(now.want), now.off, piece)
           verdict == Verdict(now.id, Len(now.want))
<1>1. IF verdict # "ok" THEN Fail(verdict)
      ELSE /\ coll' = [coll EXCEPT !.acc = t.acc]
           /\ now' = IF t.done THEN NoField ELSE [now EXCEPT !.off = n]
           /\ err' = IF Rejects(t, piece) THEN "InvalidMsg" ELSE err
           /\ mem' = IF ~t.done \/ Rejects(t, piece) THEN t.mem
                     ELSE IF Leaf.kind = "String" THEN PlacedString(t, now.id)
                     ELSE PlacedBlob(t, now.id, now.off)
           /\ UNCHANGED <<array, limits, out, elem, path, decodes>>
  BY DEF Collect
<1>2. Taken(mem, t, n, Len(now.want)) /\ t.done \in BOOLEAN /\ Gathered(t, n, now.want)
  BY TakeDoes, TakeGathers
<1>3. /\ array \in Arrays /\ InLeaf /\ now.id \in Nat /\ now.want \in Leaf.offers /\ OwnField
      /\ now.off \in 0 .. Len(now.want) /\ Len(now.want) \in Nat /\ now.told \in BOOLEAN
      /\ coll.check \in [waived : BOOLEAN] /\ Leaf.kind \in {"String", "Blob"} /\ Leaf.kind \notin Matrix
      /\ coll = [acc |-> coll.acc, cur |-> coll.cur, declined |-> coll.declined, check |-> coll.check]
      /\ now = [id |-> now.id, own |-> now.own, told |-> now.told, want |-> now.want, off |-> now.off]
  <2>1. /\ array \in Arrays /\ now.id \in Ids /\ InLeaf /\ now.want \in Leaf.offers /\ now.told \in BOOLEAN
        /\ now.off \in 0 .. Len(now.want)
        /\ now = [id |-> now.id, own |-> now.own, told |-> now.told, want |-> now.want, off |-> now.off]
    BY DEF Inv, PlainInv, NowInv
  <2>2. Leaf.kind \in {"String", "Blob"} /\ Leaf.kind \notin Matrix
    BY DEF Bytewise, Matrix
  <2>3. now.id \in Nat /\ Len(now.want) \in Nat
    BY <2>1, OfferListed, ArraysAssumption
  <2> QED BY <2>1, <2>2, <2>3 DEF Inv, CollInv, OwnField
<1>4. Inv'
  BY CollectKeeps
<1>5. ~Wrapper!OfRow /\ Wrapper!NoField = NoField /\ Leaf = array.leaf
  BY <1>3 DEF Wrapper!OfRow, Leaf, Wrapper!NoField, NoField
<1>6. Wrapper!FieldReason(now.id, Len(now.want)) = verdict
  BY <1>3, Reasons
<1> HIDE DEF t, piece, verdict
<1>7. CASE verdict # "ok"
  <2>1. Fail(verdict)
    BY <1>1, <1>7
  <2>2. Truth' /\ Wrapper!Refuse(verdict) /\ now' = now
    BY <2>1, FailPromised
  <2>3. ~now.told
    BY <1>3, <1>7 DEF Truth, verdict
  <2>4. Wrapper!RefuseLate
    BY <1>6, <1>7, <2>2, <2>3 DEF Wrapper!RefuseLate
  <2> QED BY <2>2, <2>4 DEF Promised, Wrapper!Next
<1>8. CASE verdict = "ok" /\ Rejects(t, piece)
  <2>1. /\ t.done /\ coll' = [coll EXCEPT !.acc = t.acc] /\ now' = NoField /\ err' = "InvalidMsg"
        /\ mem' = t.mem /\ UNCHANGED <<array, limits, out, elem, path>>
    BY <1>1, <1>8 DEF Rejects
  <2>2. Truth' /\ Wrapper!Refuse("InvalidMsg")
    <3>1. coll'.check = coll.check
      BY <1>3, <2>1
    <3>2. coll'.check.waived => ~limits'.strictUTF8
      BY <2>1, <3>1 DEF Truth
    <3>3. ~(now' # NoField /\ now'.own)
      BY <2>1
    <3>4. Truth'
      BY <2>1, <3>2, <3>3, TruthNext
    <3>5. Kept(mem, mem', {coll.acc.buf})
      BY <1>2, <2>1 DEF Taken
    <3>6. View' = View
      BY <1>4, <2>1, <3>5, HeldView
    <3>7. StrictUTF8On(limits)' = StrictUTF8On(limits)
      BY <2>1
    <3> QED BY <2>1, <3>4, <3>6, <3>7 DEF Wrapper!Refuse
  <2>3. /\ Leaf.kind = "String" /\ ~WellFormed(now.want) /\ StrictUTF8Compiled /\ ~coll.check.waived
    <3>1. t.done /\ Leaf.kind = "String" /\ ~UTF8Valid(coll.check, t.bytes)
      BY <1>8 DEF Rejects
    <3>2. t.bytes = now.want
      BY <1>2, <3>1 DEF Gathered
    <3> QED BY <3>1, <3>2 DEF UTF8Valid
  <2>4. now.told => StrictUTF8On(limits)
    <3>1. SUFFICES ASSUME now.told PROVE StrictUTF8On(limits)
      OBVIOUS
    <3>2. coll.check = StringCheck(limits)
      BY <1>3, <2>3, <3>1 DEF Truth
    <3>3. StringCheck(limits).waived <=> ~limits.strictUTF8
      BY Zenon DEF StringCheck
    <3>4. ~StringCheck(limits).waived
      BY <2>3, <3>2
    <3> QED BY <2>3, <3>3, <3>4, Zenon DEF StrictUTF8On
  <2>5. Wrapper!BadString
    BY <1>3, <1>5, <2>1, <2>2, <2>3, <2>4 DEF Wrapper!BadString
  <2> QED BY <2>2, <2>5 DEF Promised, Wrapper!Next
<1>9. CASE verdict = "ok" /\ ~Rejects(t, piece)
  <2>1. /\ mem' = IF ~t.done THEN t.mem
                  ELSE IF Leaf.kind = "String" THEN PlacedString(t, now.id)
                  ELSE PlacedBlob(t, now.id, now.off)
        /\ coll' = [coll EXCEPT !.acc = t.acc]
        /\ now' = IF t.done THEN NoField ELSE [now EXCEPT !.off = n]
        /\ UNCHANGED <<array, limits, out, elem, path, err>>
    BY <1>1, <1>9
  <2>2. coll' = [acc |-> t.acc, cur |-> coll.cur, declined |-> coll.declined, check |-> coll.check]
    BY <1>3, <2>1
  <2>3. coll'.acc = t.acc /\ coll'.check = coll.check
    BY <2>2
  <2>4. coll'.check.waived => ~limits'.strictUTF8
    BY <2>1, <2>3 DEF Truth
  <2>5. StrictUTF8On(limits)' = StrictUTF8On(limits)
    BY <2>1
  <2>6. CASE t.done
    <3>1. now' = NoField /\ t.bytes = now.want
      BY <1>2, <2>1, <2>6 DEF Gathered
    <3>2. Truth'
      <4>1. ~(now' # NoField /\ now'.own)
        BY <3>1
      <4> QED BY <2>1, <2>4, <4>1, TruthNext
    <3>3. View' = Wrapper!WithElements(
                     Wrapper!Placed(Wrapper!Elements, now.id, Wrapper!Gap(array.leaf), Wrapper!Element(array.leaf, now.want)))
      <4>1. CASE Leaf.kind = "String"
        <5>1. mem' = PlacedString(t, now.id)
          BY <2>1, <2>6, <4>1
        <5> DEFINE id == now.id
                   total == Len(now.want)
        <5>2. id \in Nat /\ Taken(mem, t, n, total) /\ mem' = PlacedString(t, id)
          BY <1>2, <1>3, <5>1
        <5> HIDE DEF id, total
        <5>3. View' = Wrapper!WithElements(Wrapper!Placed(Wrapper!Elements, id, <<>>, t.bytes))
          BY <1>3, <1>4, <2>1, <4>1, <5>2, StringRead
        <5>4. Wrapper!Gap(array.leaf) = <<>> /\ Wrapper!Element(array.leaf, now.want) = now.want
          BY <1>5, <4>1 DEF Wrapper!Gap, Wrapper!Element
        <5> QED BY <3>1, <5>3, <5>4 DEF id
      <4>2. CASE Leaf.kind = "Blob"
        <5>1. mem' = PlacedBlob(t, now.id, now.off)
          BY <2>1, <2>6, <4>2
        <5> DEFINE id == now.id
                   total == Len(now.want)
        <5>2. id \in Nat /\ Taken(mem, t, n, total) /\ mem' = PlacedBlob(t, id, now.off)
          BY <1>2, <1>3, <5>1
        <5> HIDE DEF id, total
        <5>3. View' = Wrapper!WithElements(
                        Wrapper!Placed(Wrapper!Elements, id, Wrapper!Absent, Wrapper!Element(array.leaf, now.want)))
          BY <1>2, <1>3, <1>4, <2>1, <2>6, <4>2, <5>2, BlobRead
        <5>4. Wrapper!Gap(array.leaf) = Wrapper!Absent
          BY <1>5, <4>2 DEF Wrapper!Gap
        <5> QED BY <5>3, <5>4 DEF id
      <4> QED BY <1>3, <4>1, <4>2
    <3>4. array.leaf.kind = "String" /\ StrictUTF8On(limits) => WellFormed(now.want)
      <4>1. SUFFICES ASSUME array.leaf.kind = "String", StrictUTF8On(limits) PROVE WellFormed(now.want)
        OBVIOUS
      <4>2. UTF8Valid(coll.check, now.want)
        BY <1>5, <1>9, <2>6, <3>1, <4>1 DEF Rejects
      <4>3. ~coll.check.waived /\ StrictUTF8Compiled
        BY <4>1, Zenon DEF Truth, StrictUTF8On
      <4> QED BY <4>2, <4>3, Zenon DEF UTF8Valid
    <3>5. Wrapper!Complete
      <4>1. Wrapper!FieldReason(now.id, Len(now.want)) = "ok"
        BY <1>6, <1>9
      <4>2. UNCHANGED <<array, path, err>>
        BY <2>1
      <4> QED BY <1>5, <2>5, <3>1, <3>3, <3>4, <4>1, <4>2 DEF Wrapper!Complete
    <3> QED BY <3>2, <3>5 DEF Promised, Wrapper!Next
  <2>7. CASE ~t.done
    <3>1. mem' = t.mem /\ now' = [now EXCEPT !.off = n]
      <4>1. mem' = t.mem
        BY <2>1, <2>7
      <4>2. now' = [now EXCEPT !.off = n]
        BY <2>1, <2>7, Zenon
      <4> QED BY <4>1, <4>2
    <3>2. /\ now'.own = now.own /\ now'.told = now.told /\ now'.want = now.want /\ now'.id = now.id /\ now'.off = n
      <4>1. now' = [id |-> now.id, own |-> now.own, told |-> now.told, want |-> now.want, off |-> n]
        BY <1>3, <3>1
      <4> QED BY <4>1
    <3>3. Truth'
      <4>1. now'.told => Verdict(now'.id, Len(now'.want)) = "ok"
        BY <1>9, <3>2 DEF verdict
      <4>2. now'.told /\ Leaf.kind = "String" => coll'.check = StringCheck(limits')
        <5>1. limits' = limits
          BY <2>1
        <5> QED BY <1>3, <2>3, <3>2, <5>1 DEF Truth
      <4>3. \A i \in 1 .. now'.off : Cell(mem', coll'.acc.buf, i) = now'.want[i]
        BY <1>2, <2>3, <2>7, <3>1, <3>2 DEF Gathered
      <4> QED BY <1>3, <2>1, <2>4, <4>1, <4>2, <4>3, TruthNext
    <3>4. View' = View
      <4>1. Kept(mem, mem', {coll.acc.buf})
        BY <1>2, <3>1 DEF Taken
      <4> QED BY <1>4, <2>1, <4>1, HeldView
    <3>5. n \in now.off + 1 .. Len(now.want)
      <4>1. n > 0 /\ n \in Nat
        BY <1>2, <1>3, <2>7 DEF Taken
      <4>2. n # now.off
        <5>1. SUFFICES ASSUME n = now.off PROVE FALSE
          OBVIOUS
        <5>2. now.want = <<>> /\ Len(<<>>) = 0
          BY <5>1
        <5>3. Len(now.want) = 0
          BY <5>2
        <5> QED BY <1>3, <4>1, <5>3
      <4> QED BY <1>3, <4>2
    <3>6. Wrapper!Advance
      <4>1. UNCHANGED <<array, path, err>>
        BY <2>1
      <4> QED BY <1>5, <2>5, <3>1, <3>4, <3>5, <4>1 DEF Wrapper!Advance
    <3> QED BY <3>3, <3>6 DEF Promised, Wrapper!Next
  <2> QED BY <1>2, <2>6, <2>7
<1> QED BY <1>7, <1>8, <1>9

(* A piece of a string or of a blob.                                       *)
LEMMA PiecePromised ==
  ASSUME Inv, Truth, NEW n, Piece(n) PROVE Promised
<1>1. /\ now # NoField /\ Bytewise /\ n \in now.off .. Len(now.want) /\ (n = now.off => now.want = <<>>)
      /\ err = "ok" /\ (now.own => Collect(SubSeq(now.want, now.off + 1, n), n))
  BY DEF Piece, Bytewise
<1>2. CASE now.own
  BY <1>1, <1>2, CollectPromised
<1>3. CASE ~now.own
  <2>1. PieceSkipped(n)
    BY <1>1, <1>3 DEF PieceSkipped, Piece, Bytewise
  <2> QED BY <1>1, <2>1, SkippedPromised
<1> QED BY <1>2, <1>3

(* Every callback is a step of what the array promises, or none.           *)
LEMMA NextPromised ==
  ASSUME Inv, Truth, [Next]_vars PROVE Promised
<1>1. CASE OpenArray
  BY <1>1, OpenArrayPromised
<1>2. CASE \E id \in Ids : NestedBeginSequence(id) \/ MessageBeginSequence(id)
  BY <1>2, NestedBeginSequencePromised, MessageBeginSequencePromised
<1>3. CASE \E f \in DOMAIN Leaf.default, v \in Leaf.range : SetMember(f, v)
  BY <1>3, SetMemberPromised
<1>4. CASE EndSequence
  BY <1>4, EndSequencePromised
<1>5. ASSUME NEW id \in Ids, NEW want \in Leaf.offers,
             \/ \E subtype \in {"String", "Blob"} : FixlenBegin(id, subtype, want)
             \/ \E kind \in {WireKind, "Other"} : ArrayBegin(id, kind, want)
             \/ PieceByHand(id, want)
             \/ /\ \A i \in DOMAIN want : ~TooWide(Leaf, want[i])
                /\ PlaceRow(id, [i \in DOMAIN want |-> Narrowed(want[i])])
      PROVE  Promised
  <2>1. CASE \E subtype \in {"String", "Blob"} : FixlenBegin(id, subtype, want)
    BY <2>1, FixlenBeginPromised
  <2>2. CASE \E kind \in {WireKind, "Other"} : ArrayBegin(id, kind, want)
    BY <2>2, ArrayBeginPromised
  <2>3. CASE PieceByHand(id, want)
    BY <2>3, PieceByHandPromised
  <2>4. CASE /\ \A i \in DOMAIN want : ~TooWide(Leaf, want[i])
             /\ PlaceRow(id, [i \in DOMAIN want |-> Narrowed(want[i])])
    <3> DEFINE row == [i \in DOMAIN want |-> Narrowed(want[i])]
    <3>1. Listed(row) /\ Len(row) = Len(want) /\ \A i \in 1 .. Len(want) : row[i] = Narrowed(want[i])
      BY NarrowedListed
    <3>2. PlaceRow(id, row)
      BY <2>4
    <3> HIDE DEF row
    <3>3. DOMAIN want = 1 .. Len(want)
      <4>1. Listed(want) /\ Len(want) \in Nat
        BY OfferListed DEF Inv, PlainInv
      <4>2. want = [j \in 1 .. Len(want) |-> want[j]]
        BY <4>1 DEF Listed
      <4>3. DOMAIN [j \in 1 .. Len(want) |-> want[j]] = 1 .. Len(want)
        OBVIOUS
      <4> QED BY <4>2, <4>3, Zenon
    <3>4. \A i \in 1 .. Len(want) : ~TooWide(Leaf, want[i])
      BY <2>4, <3>3
    <3> QED BY <3>1, <3>2, <3>4, PlaceRowPromised
  <2> QED BY <1>5, <2>1, <2>2, <2>3, <2>4
<1>6. CASE \E n \in 0 .. Len(now.want) : Piece(n)
  BY <1>6, PiecePromised
<1>7. CASE ArrayElement
  BY <1>7, ArrayElementPromised
<1>8. CASE ArrayEnd
  BY <1>8, ArrayEndPromised
<1>9. CASE UNCHANGED vars
  <2>1. UNCHANGED <<array, mem, limits, out, coll, elem, path, now, err>>
    BY <1>9 DEF vars
  <2>2. View' = View /\ StrictUTF8On(limits)' = StrictUTF8On(limits)
    BY <2>1, SameView
  <2>3. Truth'
    BY <2>1, TruthSame
  <2> QED BY <2>1, <2>2, <2>3 DEF Promised, Wrapper!vars
<1>10. CASE Next
  BY <1>1, <1>2, <1>3, <1>4, <1>5, <1>6, <1>7, <1>8, <1>10 DEF Next
<1> QED BY <1>9, <1>10

-----------------------------------------------------------------------------
(* What a collector holds is what arrived.                                 *)
THEOREM TruthHolds == Spec => []Truth
<1>1. Init => Truth
  BY InitPromised
<1>2. Inv /\ Truth /\ [Next]_vars => Truth'
  BY NextPromised DEF Promised
<1> QED BY <1>1, <1>2, InvHolds, PTL DEF Spec

(* The refinement, for every array, options, ids and payloads: after every  *)
(* callback the destination reads as the fields that arrived whole say,     *)
(* and every refusal has the reason that applies to it (collectors.go).    *)
THEOREM CollectorsKeepPromise == Spec => CollectsWhatArrived
<1>1. Init => Wrapper!Init
  BY InitPromised
<1>2. Inv /\ Truth /\ [Next]_vars => [Wrapper!Next]_(Wrapper!vars)
  BY NextPromised DEF Promised
<1> QED BY <1>1, <1>2, InvHolds, TruthHolds, PTL DEF Spec, CollectsWhatArrived, Wrapper!Spec
=============================================================================
