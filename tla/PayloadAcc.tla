----------------------------- MODULE PayloadAcc -----------------------------
(***************************************************************************)
(* payload.go: PayloadAcc puts a payload that arrives in pieces together   *)
(* and hands it over.  The caller may call it with anything: a piece lost, *)
(* repeated, out of order, of another payload, or running over its end.    *)
(*                                                                         *)
(* Memory is modelled, because who owns which bytes is half the contract:  *)
(* mem is every buffer this accumulator allocated, each as long as its     *)
(* capacity, and handed the windows of them that were given away.  A       *)
(* payload that is whole in its first piece is a window of the caller's    *)
(* own memory, and no buffer of mem.                                       *)
(***************************************************************************)
EXTENDS Integers, Sequences

CONSTANTS
  AccChunk,                  \* accChunk: the most a fresh accumulation opens with
  Growth,                    \* append allocates what it needs, or this many times that
  Pieces,                    \* the arguments a caller may pass to Take
  MaxBufs, MaxSince          \* bounds: on Len(mem), and on Len(since)

ASSUME PayloadAssumption ==
  /\ AccChunk \in Nat \ {0} /\ Growth \in Nat \ {0}
  /\ Pieces \subseteq [total : Int, offset : Int, chunk : Seq(Nat)]

VARIABLES
  buf, len,       \* a.buf: the number of its buffer, 0 when it is nil, and its length
  total,          \* a.total
  mem, handed,    \* the memory, see above
  ret,            \* what the last call returned
  since           \* history: the calls since, and with, the last at offset 0

vars == <<buf, len, total, mem, handed, ret, since>>

NotYet == [done |-> FALSE, payload |-> <<>>]
Whole(p) == [done |-> TRUE, payload |-> p]

(* The zero value is ready to use. *)
Init ==
  /\ buf = 0 /\ len = 0 /\ total = 0
  /\ mem = <<>> /\ handed = {} /\ ret = NotYet /\ since = <<>>

Cap(m, b) == IF b = 0 THEN 0 ELSE Len(m[b])
Less(x, y) == IF x < y THEN x ELSE y
Bigger(x, y) == IF x < y THEN y ELSE x
Written(s, at, c) == [i \in 1 .. Len(s) |-> IF i - at \in 1 .. Len(c) THEN c[i - at] ELSE s[i]]

(* append(buf[:at], c...): in place when the capacity allows, else in a new *)
(* buffer that starts with the same bytes.                                 *)
Grown(m, b, at, c, cap) ==
  Append(m, Written([i \in 1 .. cap |-> IF i <= at THEN m[b][i] ELSE 0], at, c))
Appended(m, b, at, c) ==
  LET n == at + Len(c) IN
  IF n <= Cap(m, b)
  THEN {[mem |-> IF b = 0 THEN m ELSE [m EXCEPT ![b] = Written(@, at, c)], buf |-> b]}
  ELSE {[mem |-> Grown(m, b, at, c, cap), buf |-> Len(m) + 1] : cap \in {n, Growth * n}}

(* Fault: the buffer is kept for the next payload, as Reset keeps it. *)
KeepHanded(b, p) ==
  /\ ret' = Whole(p) /\ handed' = handed \cup {[buf |-> b, payload |-> p]}
  /\ buf' = b /\ len' = 0 /\ total' = 0
(* The buffer is the caller's from here on. *)
HandOver(b, p) ==
  /\ ret' = Whole(p) /\ handed' = handed \cup {[buf |-> b, payload |-> p]}
  /\ buf' = 0 /\ len' = 0 /\ total' = 0

Outstanding(b, n, t) ==
  /\ ret' = NotYet /\ UNCHANGED handed
  /\ buf' = b /\ len' = n /\ total' = t

(* The end of Take: the piece is appended to the first at bytes of buffer b. *)
Fill(m, b, at, t, c) ==
  \E a \in Appended(m, b, at, c) :
    /\ mem' = a.mem
    /\ IF at + Len(c) < t THEN Outstanding(a.buf, at + Len(c), t)
       ELSE HandOver(a.buf, SubSeq(a.mem[a.buf], 1, t))

(* Fault: the bytes are kept when the announcement is dropped. *)
DiscardTotal == buf' = buf /\ len' = len /\ total' = 0
Discard == buf' = buf /\ len' = 0 /\ total' = 0

(* Fault: the announced total is not compared. *)
ContinuesAnyTotal(t, o) == o = len

(* Take(t, o, c), by its outcomes.  A piece that makes no sense, or does not *)
(* continue what is there, discards it.                                    *)
Continues(t, o) == t = total /\ o = len

TakeRefused(t, o, c) ==
  /\ t < 0 \/ o < 0 \/ (o # 0 /\ ~Continues(t, o))
  /\ Discard /\ ret' = NotYet /\ UNCHANGED <<mem, handed>>

TakeAtOnce(t, o, c) ==
  /\ t >= 0 /\ o = 0 /\ Len(c) >= t
  /\ Discard /\ ret' = Whole(SubSeq(c, 1, t)) /\ UNCHANGED <<mem, handed>>

(* Fault: the claimed length is allocated. *)
OpeningWhole(t) == [i \in 1 .. t |-> 0]
Opening(t) == [i \in 1 .. Less(t, AccChunk) |-> 0]
TakeFirst(t, o, c) ==
  /\ t >= 0 /\ o = 0 /\ Len(c) < t
  /\ IF Cap(mem, buf) = 0 THEN Fill(Append(mem, Opening(t)), Len(mem) + 1, 0, t, c)
                          ELSE Fill(mem, buf, 0, t, c)

TakeNext(t, o, c) ==
  /\ t >= 0 /\ o > 0 /\ Continues(t, o)
  /\ Fill(mem, buf, len, t, c)

Noted(p) == since' = IF p.offset = 0 THEN <<p>> ELSE Append(since, p)

Take(p) ==
  /\ Len(mem) < MaxBufs /\ (p.offset = 0 \/ Len(since) < MaxSince)
  /\ \/ TakeRefused(p.total, p.offset, p.chunk)
     \/ TakeAtOnce(p.total, p.offset, p.chunk)
     \/ TakeFirst(p.total, p.offset, p.chunk)
     \/ TakeNext(p.total, p.offset, p.chunk)
  /\ Noted(p)

(* The buffer is kept: it is the accumulator's own. *)
Reset == Discard /\ ret' = NotYet /\ since' = <<>> /\ UNCHANGED <<mem, handed>>

(* The owner goes on with a new accumulator. *)
Renew ==
  /\ buf' = 0 /\ len' = 0 /\ total' = 0
  /\ mem' = <<>> /\ handed' = {} /\ ret' = NotYet /\ since' = <<>>

Next ==
  \/ \E p \in Pieces : Take(p)
  \/ Reset
  \/ Renew

Spec == Init /\ [][Next]_vars

-----------------------------------------------------------------------------
(* The accumulator's buffer is one of those allocated, holds no more than   *)
(* its capacity and less than the payload it was opened for (PayloadAcc).  *)
TypeOK ==
  /\ mem \in Seq(Seq(Nat)) /\ buf \in 0 .. Len(mem)
  /\ len \in 0 .. Cap(mem, buf) /\ total \in Nat
  /\ len > 0 => len < total
  /\ ret \in [done : BOOLEAN, payload : Seq(Nat)]
  /\ handed \subseteq [buf : 1 .. Len(mem), payload : Seq(Nat)]

(* What was handed out is the caller's: no later payload, refused piece or  *)
(* Reset writes into it ("the next one must not write over it").           *)
HandedUntouched ==
  \A h \in handed :
    /\ h.buf # buf
    /\ SubSeq(mem[h.buf], 1, Len(h.payload)) = h.payload

(* The bytes of the first k calls since offset 0, in the order of arrival. *)
Arrived(s, k) ==
  LET upto[j \in 0 .. k] == IF j = 0 THEN <<>> ELSE upto[j - 1] \o s[j].chunk IN upto[k]

(* The calls since offset 0 are the pieces of one payload, the last of them *)
(* not past its end.                                                       *)
OnePayload(s) ==
  /\ s # <<>> /\ s[1].total >= 0
  /\ \A k \in 1 .. Len(s) :
       /\ s[k].total = s[1].total
       /\ s[k].offset = Len(Arrived(s, k - 1))
       /\ k > 1 => s[k].offset < s[1].total

(* Whatever is lost, repeated or reordered, Take reports a payload exactly  *)
(* when every call since offset 0 was the next piece of it and the last     *)
(* piece completes it, and then the bytes are those pieces in order (Take). *)
AssemblesPayloads ==
  LET s == since
      bytes == Arrived(s, Len(s))
  IN  /\ ret.done <=> OnePayload(s) /\ Len(bytes) >= s[1].total
      /\ ret.done => ret.payload = SubSeq(bytes, 1, s[1].total)

(* A claimed length is never an allocation on its own: a call allocates no  *)
(* buffer larger than accChunk and the growth of what has arrived (Take).  *)
AllocatesWhatArrived ==
  [][\A b \in Len(mem) + 1 .. Len(mem') :
       Len(mem'[b]) <= Bigger(AccChunk, Growth * Len(Arrived(since', Len(since'))))]_vars
=============================================================================
