------------------------------- MODULE Slices -------------------------------
(***************************************************************************)
(* Go slices over a memory, and the storage helpers at the end of          *)
(* collectors.go.                                                          *)
(*                                                                         *)
(* A memory is a sequence of buffers, a buffer a sequence of cells as long *)
(* as its capacity; it only ever grows, as nothing observes the collector  *)
(* of the unreachable ones.  A slice is the number of its buffer, 0 when   *)
(* it is nil, and its length; every slice here starts at its buffer's      *)
(* first cell.  A pointer names a cell.                                    *)
(*                                                                         *)
(* A helper that writes gives the new memory and its result, as a record   *)
(* [mem, val].                                                             *)
(***************************************************************************)
EXTENDS Integers, Sequences

CONSTANTS
  ReserveRowsMax,            \* reserveRowsMax: the largest schema count reserved up front
  NextCap                    \* of a capacity, the one append grows a full slice to

(* Only the capacities that NextCap does not list grow by one.             *)
ASSUME SlicesAssumption ==
  /\ ReserveRowsMax \in Nat
  /\ \A c \in DOMAIN NextCap : NextCap[c] \in Nat /\ NextCap[c] > c

Nil == [buf |-> 0, len |-> 0]
Cap(m, s) == IF s.buf = 0 THEN 0 ELSE Len(m[s.buf])
Contents(m, s) == IF s.buf = 0 THEN <<>> ELSE SubSeq(m[s.buf], 1, s.len)
Truncated(s) == [s EXCEPT !.len = 0]

Load(m, p) == m[p.buf][p.i]
Save(m, p, v) == [m EXCEPT ![p.buf][p.i] = v]

(* The pointer to element id of the slice p points to. *)
ElementAt(m, p, id) == [buf |-> Load(m, p).buf, i |-> id + 1]

(* A new buffer of capacity cap that starts with these cells. *)
Made(m, cells, cap, zero) ==
  [mem |-> Append(m, cells \o [k \in 1 .. cap - Len(cells) |-> zero]),
   val |-> [buf |-> Len(m) + 1, len |-> Len(cells)]]

Grown(cap) == IF cap \in DOMAIN NextCap THEN NextCap[cap] ELSE cap + 1

(* append(s, v) *)
AppendTo(m, s, v, zero) ==
  IF s.len < Cap(m, s)
  THEN [mem |-> [m EXCEPT ![s.buf][s.len + 1] = v], val |-> [s EXCEPT !.len = @ + 1]]
  ELSE Made(m, Append(Contents(m, s), v), Grown(Cap(m, s)), zero)

(* append(s, vs...), into room that is there already or one cell at a time. *)
AppendAll(m, s, vs, zero) ==
  LET r[k \in 0 .. Len(vs)] ==
        IF k = 0 THEN [mem |-> m, val |-> s]
        ELSE LET before == r[k - 1] IN AppendTo(before.mem, before.val, vs[k], zero)
  IN  r[Len(vs)]

(* The slice p points to, given the whole schema count when id is its first *)
(* element past the capacity.                                              *)
ReserveRows(m, p, id, count, zero) ==
  LET s == Load(m, p) IN
  IF id + 1 > Cap(m, s) /\ id + 1 <= count /\ count <= ReserveRowsMax
  THEN LET r == Made(m, Contents(m, s), count, zero) IN Save(r.mem, p, r.val)
  ELSE m

(* Fault: the slot is inside the length too. *)
StaleAnywhere(m, s, id, zero) == IF id < Cap(m, s) THEN m[s.buf][id + 1] ELSE zero
(* What an earlier decode left at id, past the length. *)
Stale(m, s, id, zero) == IF id >= s.len /\ id < Cap(m, s) THEN m[s.buf][id + 1] ELSE zero

(* The slice p points to, long enough for id, each new slot holding fill. *)
Filled(m, p, id, fill, zero) ==
  LET s == Load(m, p)
      r == AppendAll(m, s, [k \in 1 .. id + 1 - s.len |-> fill], zero)
  IN  IF s.len > id THEN m ELSE Save(r.mem, p, r.val)

(* The slot is read before the fill overwrites it. *)
Grow(m, p, id, count, zero) ==
  [mem |-> Filled(ReserveRows(m, p, id, count, zero), p, id, zero, zero),
   val |-> Stale(m, Load(m, p), id, zero)]

ReuseSlice(m, s, count, zero) ==
  IF s # Nil /\ Cap(m, s) >= count THEN [mem |-> m, val |-> Truncated(s)]
  ELSE Made(m, <<>>, count, zero)

(* An empty src is nil, whatever dst holds; a fresh slice is exactly sized. *)
ReuseBytes(m, dst, src) ==
  IF src = <<>> THEN [mem |-> m, val |-> Nil]
  ELSE IF Cap(m, dst) < Len(src) THEN Made(m, src, Len(src), 0)
  ELSE AppendAll(m, Truncated(dst), src, 0)
=============================================================================
