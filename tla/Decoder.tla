------------------------------ MODULE Decoder -------------------------------
(***************************************************************************)
(* The push decoder of istream.go.                                         *)
(*                                                                         *)
(* A caller hands the bytes of a message to Feed in chunks of any size;    *)
(* run consumes each chunk, one iteration of its switch at a time, calling *)
(* the visitor as fields complete, and suspends wherever the bytes run     *)
(* out.  Every field of the Decoder struct that run reads is a variable.   *)
(* The environment chooses the message (stream), the cuts between chunks,  *)
(* the entry point, the moment of a Reset and every visitor's answers.     *)
(*                                                                         *)
(* Visitors are numbered in the order the decoder is given them; Nil is    *)
(* the nil Visitor.  log is a history variable: the callbacks made since   *)
(* the last Reset, in order.                                               *)
(***************************************************************************)
EXTENDS Varint, FiniteSets

CONSTANTS
  IDMax,           \* 0x7FFFFFFF
  ArrayMax,        \* arrayMax, 0x7FFFFFFF
  MaxDepth,        \* 255
  Fp32Width,       \* 4
  Fp64Width,       \* 8
  Streams,         \* the messages a caller may send: sequences of bytes
  MaxResets,       \* bound: messages after the first one
  PolicyVisitors,  \* the visitors that implement StringPolicyVisitor
  Answers(_)       \* the answers a visitor may give to a callback

ASSUME DecoderAssumption ==
  /\ IDMax \in Nat /\ ArrayMax \in Nat /\ MaxDepth \in Nat
  /\ Fp32Width \in Nat \ {0} /\ Fp64Width \in Nat \ {0}
  /\ Fp32Width # Fp64Width
  /\ MaxResets \in Nat

ASSUME StreamsAssumption == \A s \in Streams : s \in Seq(Byte)

VARIABLES
  st,                             \* where the machine suspended
  err,                            \* the INVALID latch
  acc, weight, nb,                \* the varint accumulator; weight is 2^shift
  id, total, off, remain, idx,    \* the field being decoded
  wire, kind, sub, width,
  fp,                             \* fp[:nfp], the bytes of a split float
  depth, stack, spDone,           \* the parse stack
  skipFrom, top,
  stream, fed, pos,               \* the message, how much was fed and read
  pc, call, rerr, ret,            \* the call in progress and the last result
  log, issued, resets             \* history

machine  == <<st, err>>
varint   == <<acc, weight, nb>>
field    == <<id, total, off, remain, idx, wire, kind, sub, width, fp>>
scopes   == <<depth, stack, spDone, skipFrom, top>>
caller   == <<stream, fed, pc, call, rerr, ret, resets>>
vars     == <<machine, varint, field, scopes, caller, pos, log, issued>>

Nil == 0

Steps == {"stHeader", "stScalarU", "stScalarS", "stFixWord", "stFixFp", "stFixBytes",
          "stArrCount", "stArrUElem", "stArrSElem", "stArrWord", "stArrFp"}

(* The states whose next step is to read a varint. *)
VarintSteps == {"stHeader", "stScalarU", "stScalarS", "stFixWord", "stArrCount",
                "stArrUElem", "stArrSElem", "stArrWord"}

WireType == [Unsigned |-> 0, Signed |-> 1, Fixlen |-> 2, ArrayUnsigned |-> 3,
             ArraySigned |-> 4, FixlenArray |-> 5, SequenceStart |-> 6, SequenceEnd |-> 7]
FixlenSubtype == [Fp32 |-> 0, Fp64 |-> 1, Str |-> 2, Blob |-> 3]
ArrayKind == [Unsigned |-> 0, Signed |-> 1, Fp32 |-> 2, Fp64 |-> 3]

(***************************************************************************)
(* Construction, Reset and the verdict                                     *)
(***************************************************************************)
Init ==
  /\ st = "stHeader" /\ err = "nil"
  /\ acc = 0 /\ weight = 1 /\ nb = 0
  /\ id = 0 /\ total = 0 /\ off = 0 /\ remain = 0 /\ idx = 0
  /\ wire = 0 /\ kind = 0 /\ sub = 0 /\ width = 0 /\ fp = <<>>
  /\ depth = 0 /\ stack = [d \in 0 .. MaxDepth |-> IF d = 0 THEN 1 ELSE Nil]
  /\ spDone = [d \in 0 .. MaxDepth |-> FALSE]
  /\ skipFrom = -1 /\ top = 1
  /\ stream \in Streams /\ fed = 0 /\ pos = 0
  /\ pc = "idle" /\ call = "none" /\ rerr = "nil" /\ ret = <<"Complete", "nil">>
  /\ log = <<>> /\ issued = 1 /\ resets = 0

(* Faults: init forgets a partial varint; init forgets a declined subtree. *)
RebindKeepsVarint(v) ==
  /\ st' = "stHeader" /\ err' = "nil"
  /\ total' = 0 /\ off' = 0 /\ remain' = 0 /\ idx' = 0 /\ fp' = <<>>
  /\ depth' = 0 /\ stack' = [stack EXCEPT ![0] = v]
  /\ spDone' = [spDone EXCEPT ![0] = FALSE]
  /\ skipFrom' = -1 /\ top' = v
  /\ UNCHANGED <<varint, id, wire, kind, sub, width>>

RebindKeepsSkip(v) ==
  /\ st' = "stHeader" /\ err' = "nil"
  /\ acc' = 0 /\ weight' = 1 /\ nb' = 0
  /\ total' = 0 /\ off' = 0 /\ remain' = 0 /\ idx' = 0 /\ fp' = <<>>
  /\ depth' = 0 /\ stack' = [stack EXCEPT ![0] = v]
  /\ spDone' = [spDone EXCEPT ![0] = FALSE]
  /\ top' = v /\ UNCHANGED <<skipFrom, id, wire, kind, sub, width>>

(* init: everything Reset puts back, and nothing else.  id, wire, kind,    *)
(* sub, width and the stack slots above 0 keep what the last message left. *)
Rebind(v) ==
  /\ st' = "stHeader" /\ err' = "nil"
  /\ acc' = 0 /\ weight' = 1 /\ nb' = 0
  /\ total' = 0 /\ off' = 0 /\ remain' = 0 /\ idx' = 0 /\ fp' = <<>>
  /\ depth' = 0 /\ stack' = [stack EXCEPT ![0] = v]
  /\ spDone' = [spDone EXCEPT ![0] = FALSE]
  /\ skipFrom' = -1 /\ top' = v
  /\ UNCHANGED <<id, wire, kind, sub, width>>

Outcome ==
  CASE err # "nil" -> "Invalid"
    [] err = "nil" /\ st = "stHeader" /\ nb = 0 /\ depth = 0 -> "Complete"
    [] OTHER -> "Incomplete"

(* Reset, between two calls: the next message goes to a new visitor. *)
Reset ==
  /\ pc = "idle" /\ call # "AcceptBytes" /\ resets < MaxResets
  /\ Rebind(issued + 1)
  /\ issued' = issued + 1 /\ resets' = resets + 1
  /\ stream' \in Streams /\ fed' = 0 /\ pos' = 0 /\ log' = <<>>
  /\ ret' = <<"Complete", "nil">>
  /\ UNCHANGED <<pc, call, rerr>>

(***************************************************************************)
(* Callbacks                                                               *)
(***************************************************************************)
Call(to, m, i, args) == [to |-> to, m |-> m, id |-> i, args |-> args]

(* SetStringCheck returns no error; every other callback may. *)
Replies(cb) == IF cb.m = "SetStringCheck" THEN {"ok"} ELSE Answers(cb)

(* One step's callbacks, in order, to a visitor that is not nil.  The first *)
(* error latches (fail) and silences the rest.  No field is read again      *)
(* once err is set, so the state a failed step leaves does not matter.      *)
Deliver(cbs) ==
  IF top = Nil
  THEN UNCHANGED <<err, log>>
  ELSE \E k \in 0 .. Len(cbs) :
         /\ \A j \in 1 .. k : "ok" \in Replies(cbs[j])
         /\ \/ /\ k = Len(cbs)
               /\ log' = log \o cbs
               /\ err' = err
            \/ /\ k < Len(cbs) /\ "error" \in Replies(cbs[k + 1])
               /\ log' = log \o SubSeq(cbs, 1, k + 1)
               /\ err' = "visitorErr"

(***************************************************************************)
(* Reading a varint                                                        *)
(***************************************************************************)
Running == pc = "run" /\ err = "nil"
Chunk == SubSeq(stream, pos + 1, fed)    \* in[i:]
Avail == fed - pos                       \* len(in) - i

(* Fault: the resumable reader accepts any final last byte. *)
VarintResumeTruncates(x) ==
  IF weight = TopWeight /\ x >= Cont THEN [is |-> "bad", v |-> 0, n |-> 0]
  ELSE IF x < Cont THEN [is |-> "done", v |-> (acc + x * weight) % (2 * TopWeight), n |-> 1]
  ELSE [is |-> "more", v |-> acc + (x - Cont) * weight, n |-> 1]

(* varintResume, one byte of its loop: at weight 2^63 the byte must be the  *)
(* final 0 or 1.                                                           *)
VarintResume(x) ==
  IF weight = TopWeight /\ x > 1 THEN [is |-> "bad", v |-> 0, n |-> 0]
  ELSE IF x < Cont THEN [is |-> "done", v |-> acc + x * weight, n |-> 1]
  ELSE [is |-> "more", v |-> acc + (x - Cont) * weight, n |-> 1]

(* The inline single-byte path of run, then readVarintSlow: the unrolled    *)
(* decoder when nothing is pending and a whole varint must be in the chunk, *)
(* the resumable one otherwise.                                            *)
ReadVarint ==
  LET x == Chunk[1]
      r == UvarintFast(Chunk)
  IN  CASE nb = 0 /\ x < Cont -> [is |-> "done", v |-> x, n |-> 1]
        [] nb = 0 /\ x >= Cont /\ Avail >= MaxVarintLen ->
             [is |-> IF r.ok THEN "done" ELSE "bad", v |-> r.v, n |-> r.n]
        [] OTHER -> VarintResume(x)

(* In state s, with at least one byte to read. *)
Reading(s) == Running /\ st = s /\ Avail > 0

(* The varint is complete: its value goes to the state's handler.  Only a   *)
(* resumed varint has an accumulator to clear (beginVarint).               *)
TakeVarint(s) ==
  /\ Reading(s)
  /\ ReadVarint.is = "done"
  /\ pos' = pos + ReadVarint.n
  /\ IF nb = 0 THEN UNCHANGED varint ELSE acc' = 0 /\ weight' = 1 /\ nb' = 0
  /\ UNCHANGED caller

(* An element state with no element left reads nothing. *)
WantsVarint ==
  \E s \in VarintSteps : Reading(s) /\ (s \in {"stArrUElem", "stArrSElem"} => remain > 0)

(* A byte with a continuation flag, kept for the next one. *)
VarintByte ==
  /\ WantsVarint /\ ReadVarint.is = "more"
  /\ acc' = ReadVarint.v /\ weight' = weight * Cont /\ nb' = nb + 1
  /\ pos' = pos + 1
  /\ UNCHANGED <<machine, field, scopes, caller, log, issued>>

(* More than 64 bits. *)
VarintOverflow ==
  /\ WantsVarint /\ ReadVarint.is = "bad"
  /\ err' = "ErrInvalidMsg"
  /\ UNCHANGED <<st, varint, field, scopes, caller, pos, log, issued>>

(* A varint that its handler rejects: fail(ErrInvalidMsg), nothing delivered. *)
Reject(s) ==
  /\ TakeVarint(s)
  /\ err' = "ErrInvalidMsg"
  /\ UNCHANGED <<st, field, scopes, log, issued>>

(***************************************************************************)
(* Headers, scalars and sequences                                          *)
(***************************************************************************)
High == ReadVarint.v \div 8     \* h >> 3: an id, a length or an element width
Low  == ReadVarint.v % 8        \* h & 7: a wire type or a subtype

HeaderIdTooLarge == Reject("stHeader") /\ High \notin 0 .. IDMax

(* Fault: the id ceiling is not applied. *)
HeaderUnchecked(t) == TakeVarint("stHeader") /\ Low = t /\ id' = High

(* A header of wire type t whose id is in range. *)
Header(t) ==
  /\ TakeVarint("stHeader")
  /\ High \in 0 .. IDMax /\ Low = t
  /\ id' = High

FieldStep == [t \in 0 .. 5 |->
  CASE t = 0 -> "stScalarU" [] t = 1 -> "stScalarS" [] t = 2 -> "stFixWord" [] OTHER -> "stArrCount"]

HeaderField ==
  \E t \in 0 .. 5 :
    /\ Header(t)
    /\ st' = FieldStep[t]
    /\ wire' = IF t >= WireType.ArrayUnsigned THEN t ELSE wire
    /\ kind' = CASE t = WireType.ArrayUnsigned -> ArrayKind.Unsigned
                 [] t = WireType.ArraySigned   -> ArrayKind.Signed
                 [] OTHER                      -> kind
    /\ UNCHANGED <<err, total, off, remain, idx, sub, width, fp, scopes, log, issued>>

restOfField == <<total, off, remain, idx, wire, kind, sub, width, fp>>

(* Faults: a new scope inherits the last sibling's policy flag; the child    *)
(* overwrites its parent's slot.                                           *)
DescendKeepsPolicy(child) ==
  /\ depth' = depth + 1 /\ stack' = [stack EXCEPT ![depth + 1] = child]
  /\ top' = child /\ UNCHANGED spDone

DescendOnParent(child) ==
  /\ depth' = depth + 1 /\ stack' = [stack EXCEPT ![depth] = child]
  /\ spDone' = [spDone EXCEPT ![depth + 1] = FALSE] /\ top' = child

(* A sequence opens one level down, on the visitor its parent returns; nil  *)
(* declines the subtree, from here to its end marker.                      *)
Descend(child) ==
  /\ depth' = depth + 1
  /\ stack' = [stack EXCEPT ![depth + 1] = child]
  /\ spDone' = [spDone EXCEPT ![depth + 1] = FALSE]
  /\ top' = child

BeginSequence(child) == Call(top, "BeginSequence", High, <<child>>)

OpenTooDeep ==
  /\ Header(WireType.SequenceStart) /\ depth >= MaxDepth
  /\ err' = "ErrInvalidMsg"
  /\ UNCHANGED <<st, restOfField, scopes, log, issued>>

OpenInDeclined ==
  /\ Header(WireType.SequenceStart) /\ depth < MaxDepth /\ top = Nil
  /\ Descend(Nil)
  /\ UNCHANGED <<st, err, restOfField, skipFrom, log, issued>>

OpenSequence ==
  /\ Header(WireType.SequenceStart) /\ depth < MaxDepth /\ top # Nil
  /\ \/ /\ "ok" \in Answers(BeginSequence(issued + 1))
        /\ Descend(issued + 1)
        /\ log' = Append(log, BeginSequence(issued + 1))
        /\ issued' = issued + 1
        /\ UNCHANGED <<err, skipFrom>>
     \/ /\ "decline" \in Answers(BeginSequence(Nil))
        /\ Descend(Nil)
        /\ skipFrom' = depth
        /\ log' = Append(log, BeginSequence(Nil))
        /\ UNCHANGED <<err, issued>>
     \/ /\ "error" \in Answers(BeginSequence(Nil))
        /\ err' = "visitorErr"
        /\ log' = Append(log, BeginSequence(Nil))
        /\ UNCHANGED <<scopes, issued>>
  /\ UNCHANGED <<st, restOfField>>

CloseDangling ==
  /\ Header(WireType.SequenceEnd) /\ depth = 0
  /\ err' = "ErrInvalidMsg"
  /\ UNCHANGED <<st, restOfField, scopes, log, issued>>

(* Fault: any end marker ends the declined subtree. *)
CloseDeclinedEarly ==
  /\ Header(WireType.SequenceEnd) /\ depth > 0 /\ skipFrom >= 0
  /\ stack' = [stack EXCEPT ![depth] = Nil]
  /\ depth' = depth - 1
  /\ skipFrom' = -1 /\ top' = stack[depth - 1]
  /\ UNCHANGED <<st, err, restOfField, spDone, log, issued>>

(* Inside a declined subtree nothing is reported; its own end marker, and   *)
(* no marker below it, gives the enclosing visitor back.                   *)
CloseDeclined ==
  /\ Header(WireType.SequenceEnd) /\ depth > 0 /\ skipFrom >= 0
  /\ stack' = [stack EXCEPT ![depth] = Nil]
  /\ depth' = depth - 1
  /\ IF depth - 1 = skipFrom
     THEN skipFrom' = -1 /\ top' = stack[depth - 1]
     ELSE UNCHANGED <<skipFrom, top>>
  /\ UNCHANGED <<st, err, restOfField, spDone, log, issued>>

CloseSequence ==
  /\ Header(WireType.SequenceEnd) /\ depth > 0 /\ skipFrom < 0
  /\ stack' = [stack EXCEPT ![depth] = Nil]
  /\ depth' = depth - 1
  /\ top' = stack[depth - 1]
  /\ IF stack[depth] = Nil
     THEN UNCHANGED <<err, log>>
     ELSE LET end == Call(stack[depth], "EndSequence", 0, <<>>) IN
          /\ log' = Append(log, end)
          /\ \/ "ok" \in Answers(end) /\ UNCHANGED err
             \/ "error" \in Answers(end) /\ err' = "visitorErr"
  /\ UNCHANGED <<st, restOfField, spDone, skipFrom, issued>>

Scalar ==
  /\ \/ /\ TakeVarint("stScalarU")
        /\ Deliver(<<Call(top, "Unsigned", id, <<ReadVarint.v>>)>>)
     \/ /\ TakeVarint("stScalarS")
        /\ Deliver(<<Call(top, "Signed", id, <<ZigzagDecode(ReadVarint.v)>>)>>)
  /\ st' = "stHeader"
  /\ UNCHANGED <<field, scopes, issued>>

(***************************************************************************)
(* Fixlen fields                                                           *)
(***************************************************************************)
FixlenWordLegal ==
  /\ High \in 0 .. ArrayMax
  /\ \/ Low = FixlenSubtype.Fp32 /\ High = Fp32Width
     \/ Low = FixlenSubtype.Fp64 /\ High = Fp64Width
     \/ Low \in {FixlenSubtype.Str, FixlenSubtype.Blob}

FixlenWordIllegal == Reject("stFixWord") /\ ~FixlenWordLegal

FixlenBegin == Call(top, "FixlenBegin", id, <<Low, High>>)

FixlenFloat ==
  /\ TakeVarint("stFixWord")
  /\ FixlenWordLegal /\ Low \in {FixlenSubtype.Fp32, FixlenSubtype.Fp64}
  /\ width' = High /\ remain' = High /\ fp' = <<>>
  /\ sub' = Low
  /\ st' = "stFixFp"
  /\ Deliver(<<FixlenBegin>>)
  /\ UNCHANGED <<id, total, off, idx, wire, kind, scopes, issued>>

(* deliverPiece: the piece's bytes follow total and offset in args. *)
Piece(s, t, o, bytes) ==
  Call(top, IF s = FixlenSubtype.Str THEN "String" ELSE "Bytes", id, <<t, o>> \o bytes)

(* Fault: a declined empty payload waits for a byte that never comes. *)
FixlenPayloadWaits ==
  /\ TakeVarint("stFixWord")
  /\ FixlenWordLegal /\ Low \in {FixlenSubtype.Str, FixlenSubtype.Blob}
  /\ total' = High /\ off' = 0 /\ remain' = High
  /\ sub' = Low
  /\ st' = IF High = 0 /\ top # Nil THEN "stHeader" ELSE "stFixBytes"
  /\ Deliver(<<FixlenBegin>>)
  /\ UNCHANGED <<id, idx, wire, kind, width, fp, scopes, issued>>

(* The scope's first string is announced after its policy; an empty payload *)
(* ends at the word, its one empty piece delivered with it.                *)
FixlenPayload ==
  LET policyDue == Low = FixlenSubtype.Str /\ top # Nil /\ ~spDone[depth] IN
  /\ TakeVarint("stFixWord")
  /\ FixlenWordLegal /\ Low \in {FixlenSubtype.Str, FixlenSubtype.Blob}
  /\ total' = High /\ off' = 0 /\ remain' = High
  /\ sub' = Low
  /\ st' = IF High = 0 THEN "stHeader" ELSE "stFixBytes"
  /\ spDone' = IF policyDue THEN [spDone EXCEPT ![depth] = TRUE] ELSE spDone
  /\ Deliver((IF policyDue /\ top \in PolicyVisitors
              THEN <<Call(top, "SetStringCheck", 0, <<>>)>> ELSE <<>>)
             \o <<FixlenBegin>>
             \o (IF High = 0 THEN <<Piece(Low, 0, 0, <<>>)>> ELSE <<>>))
  /\ UNCHANGED <<id, idx, wire, kind, width, fp, depth, stack, skipFrom, top, issued>>

(* Fault: the offset is read after it was advanced. *)
FixBytesLateOffset ==
  LET n == IF Avail > remain THEN remain ELSE Avail IN
  /\ Reading("stFixBytes")
  /\ pos' = pos + n /\ off' = off + n /\ remain' = remain - n
  /\ st' = IF remain = n THEN "stHeader" ELSE st
  /\ Deliver(<<Piece(sub, total, off + n, SubSeq(Chunk, 1, n))>>)
  /\ UNCHANGED <<varint, id, total, idx, wire, kind, sub, width, fp, scopes, caller, issued>>

(* A string or blob payload: whatever of it the chunk holds is one piece. *)
FixBytes ==
  LET n == IF Avail > remain THEN remain ELSE Avail IN
  /\ Reading("stFixBytes")
  /\ pos' = pos + n /\ off' = off + n /\ remain' = remain - n
  /\ st' = IF remain = n THEN "stHeader" ELSE st
  /\ Deliver(<<Piece(sub, total, off, SubSeq(Chunk, 1, n))>>)
  /\ UNCHANGED <<varint, id, total, idx, wire, kind, sub, width, fp, scopes, caller, issued>>

(* fpStep: a float is assembled from as many chunks as it takes.  bits is   *)
(* what it has after this chunk.                                           *)
FpTake == IF Avail > width - Len(fp) THEN width - Len(fp) ELSE Avail
FpBits == fp \o SubSeq(Chunk, 1, FpTake)

FpPartial ==
  /\ Reading("stFixFp") \/ (Reading("stArrFp") /\ remain > 0)
  /\ Len(fp) + FpTake < width
  /\ pos' = pos + FpTake /\ fp' = FpBits
  /\ UNCHANGED <<machine, varint, id, total, off, remain, idx, wire, kind, sub, width,
                 scopes, caller, log, issued>>

FpScalar ==
  /\ Reading("stFixFp") /\ Len(fp) + FpTake = width
  /\ pos' = pos + FpTake /\ fp' = <<>>
  /\ st' = "stHeader"
  /\ Deliver(<<Call(top, IF width = Fp32Width THEN "Float32" ELSE "Float64", id, FpBits)>>)
  /\ UNCHANGED <<varint, id, total, off, remain, idx, wire, kind, sub, width,
                 scopes, caller, issued>>

(***************************************************************************)
(* Arrays                                                                  *)
(***************************************************************************)
ArrayCountTooLarge == Reject("stArrCount") /\ ReadVarint.v \notin 0 .. ArrayMax

(* announceArray: an empty array ends where it is announced. *)
Announce(k, n, elements) ==
  /\ st' = IF n = 0 THEN "stHeader" ELSE elements
  /\ Deliver(<<Call(top, "ArrayBegin", id, <<k, n>>)>>
             \o (IF n = 0 THEN <<Call(top, "ArrayEnd", id, <<>>)>> ELSE <<>>))

(* A fixlen array is announced one word later, when its kind is known. *)
ArrayCount ==
  /\ TakeVarint("stArrCount")
  /\ ReadVarint.v \in 0 .. ArrayMax
  /\ total' = ReadVarint.v /\ remain' = ReadVarint.v /\ idx' = 0
  /\ CASE wire = WireType.FixlenArray   -> st' = "stArrWord" /\ UNCHANGED <<err, log>>
       [] wire = WireType.ArrayUnsigned -> Announce(kind, ReadVarint.v, "stArrUElem")
       [] OTHER                         -> Announce(kind, ReadVarint.v, "stArrSElem")
  /\ UNCHANGED <<id, off, wire, kind, sub, width, fp, scopes, issued>>

ElementWordKind ==
  CASE Low = FixlenSubtype.Fp32 /\ High = Fp32Width -> {ArrayKind.Fp32}
    [] Low = FixlenSubtype.Fp64 /\ High = Fp64Width -> {ArrayKind.Fp64}
    [] OTHER -> {}

ArrayWordIllegal == Reject("stArrWord") /\ ElementWordKind = {}

ArrayWord ==
  /\ TakeVarint("stArrWord")
  /\ \E k \in ElementWordKind :
       /\ kind' = k
       /\ width' = IF k = ArrayKind.Fp32 THEN Fp32Width ELSE Fp64Width
       /\ fp' = <<>>
       /\ Announce(k, total, "stArrFp")
  /\ UNCHANGED <<id, total, off, remain, idx, wire, sub, scopes, issued>>

(* idx is read only for a delivered element; a declined array leaves it. *)
CountElement ==
  /\ remain' = remain - 1
  /\ idx' = IF top = Nil THEN idx ELSE idx + 1
  /\ UNCHANGED <<id, total, off, wire, kind, sub, width>>

ArrayElement ==
  /\ remain > 0
  /\ \/ /\ TakeVarint("stArrUElem")
        /\ Deliver(<<Call(top, "ArrayUnsigned", id, <<idx, ReadVarint.v>>)>>)
     \/ /\ TakeVarint("stArrSElem")
        /\ Deliver(<<Call(top, "ArraySigned", id, <<idx, ZigzagDecode(ReadVarint.v)>>)>>)
  /\ CountElement
  /\ UNCHANGED <<st, fp, scopes, issued>>

ArrayFloat ==
  /\ Reading("stArrFp") /\ remain > 0 /\ Len(fp) + FpTake = width
  /\ top # Nil \/ fp # <<>>
  /\ pos' = pos + FpTake /\ fp' = <<>>
  /\ Deliver(<<Call(top, IF width = Fp32Width THEN "ArrayFloat32" ELSE "ArrayFloat64",
                    id, <<idx>> \o FpBits)>>)
  /\ CountElement
  /\ UNCHANGED <<st, varint, scopes, caller, issued>>

(* A declined run of floats is a length jump over its whole elements. *)
ArrayFloatSkip ==
  LET whole == Avail \div width
      n     == IF whole > remain THEN remain ELSE whole
  IN  /\ Reading("stArrFp") /\ remain > 0
      /\ top = Nil /\ fp = <<>> /\ n > 0
      /\ pos' = pos + n * width /\ remain' = remain - n
      /\ UNCHANGED <<machine, varint, id, total, off, idx, wire, kind, sub, width, fp,
                     scopes, caller, log, issued>>

(* The last element was taken: ArrayEnd follows at once, in the same call. *)
ArrayDone == st \in {"stArrUElem", "stArrSElem", "stArrFp"} /\ remain = 0

(* Fault: a declined array is never left. *)
ArrayFinishDeclined ==
  /\ Running /\ ArrayDone
  /\ st' = IF top = Nil THEN st ELSE "stHeader"
  /\ Deliver(<<Call(top, "ArrayEnd", id, <<>>)>>)
  /\ UNCHANGED <<varint, field, scopes, caller, pos, issued>>

ArrayFinish ==
  /\ Running /\ ArrayDone
  /\ st' = "stHeader"
  /\ Deliver(<<Call(top, "ArrayEnd", id, <<>>)>>)
  /\ UNCHANGED <<varint, field, scopes, caller, pos, issued>>

(***************************************************************************)
(* The three entry points                                                  *)
(***************************************************************************)
(* The next n bytes of the message are handed over.  A latched decoder      *)
(* answers without looking at them.                                        *)
Hand(n) ==
  /\ fed' = fed + n
  /\ IF err = "nil"
     THEN pc' = "run" /\ UNCHANGED ret
     ELSE pc' = "idle" /\ ret' = <<"Invalid", err>>

decoder == <<machine, varint, field, scopes>>

Feed ==
  /\ pc = "idle" /\ call # "AcceptBytes"
  /\ \E n \in 0 .. Len(stream) - fed : Hand(n)
  /\ call' = IF err = "nil" THEN "Feed" ELSE "none"
  /\ UNCHANGED <<decoder, stream, rerr, resets, pos, log, issued>>

(* AcceptBytes makes a decoder of its own and feeds it the whole message. *)
AcceptBytes ==
  /\ pc = "idle" /\ call = "none" /\ fed = 0 /\ resets = 0
  /\ Hand(Len(stream))
  /\ call' = "AcceptBytes"
  /\ UNCHANGED <<decoder, stream, rerr, resets, pos, log, issued>>

(* Its decoder is gone when it returns: the caller has nothing left to call. *)
Discarded == pc = "idle" /\ call = "AcceptBytes" /\ UNCHANGED vars

FeedFrom ==
  /\ pc = "idle" /\ call # "AcceptBytes"
  /\ \/ pc' = "read" /\ call' = "FeedFrom" /\ UNCHANGED ret
     \/ ret' = <<Outcome, "ErrArgument">> /\ UNCHANGED <<pc, call>>    \* empty scratch
  /\ UNCHANGED <<decoder, stream, fed, rerr, resets, pos, log, issued>>

(* What FeedFrom does with the reader's error once the bytes are dealt with. *)
AfterRead(e) ==
  /\ pc' = IF e = "nil" THEN "read" ELSE "idle"
  /\ call' = IF e = "nil" THEN call ELSE "none"
  /\ ret' = CASE e = "nil" -> ret
              [] e = "EOF" -> <<Outcome, "nil">>
              [] OTHER     -> <<Outcome, e>>

(* One Read of FeedFrom's loop: n bytes and an error, in any combination. *)
ReadChunk ==
  /\ pc = "read"
  /\ \E n \in 0 .. Len(stream) - fed, e \in {"nil", "EOF", "readErr"} :
       IF n = 0
       THEN AfterRead(e) /\ UNCHANGED <<fed, rerr>>
       ELSE /\ Hand(n)
            /\ IF err = "nil" THEN rerr' = e /\ UNCHANGED call
                               ELSE call' = "none" /\ UNCHANGED rerr
  /\ UNCHANGED <<decoder, stream, resets, pos, log, issued>>

(* Fault: the error is returned but not latched. *)
ReturnUnlatched ==
  /\ pc = "run"
  /\ err # "nil" \/ (Avail = 0 /\ ~ArrayDone)
  /\ pc' = "idle" /\ ret' = <<Outcome, err>> /\ call' = "none" /\ rerr' = "nil"
  /\ err' = "nil"
  /\ UNCHANGED <<st, varint, field, scopes, stream, fed, resets, pos, log, issued>>

(* run returns at the first error, or when it needs a byte the chunk does   *)
(* not have; the entry point turns that into its result.                   *)
Return ==
  /\ pc = "run"
  /\ err # "nil" \/ (Avail = 0 /\ ~ArrayDone)
  /\ CASE call = "FeedFrom" /\ err = "nil" -> AfterRead(rerr)
       [] call = "AcceptBytes" ->
            /\ pc' = "idle"
            /\ ret' = <<Outcome, IF Outcome = "Incomplete" THEN "ErrIncomplete" ELSE err>>
            /\ UNCHANGED call
       [] OTHER -> pc' = "idle" /\ ret' = <<Outcome, err>> /\ call' = "none"
  /\ rerr' = "nil"
  /\ UNCHANGED <<decoder, stream, fed, resets, pos, log, issued>>

(***************************************************************************)
(* Specification                                                           *)
(***************************************************************************)
RunStep ==
  \/ VarintByte \/ VarintOverflow
  \/ HeaderIdTooLarge \/ HeaderField
  \/ OpenTooDeep \/ OpenInDeclined \/ OpenSequence
  \/ CloseDangling \/ CloseDeclined \/ CloseSequence
  \/ Scalar
  \/ FixlenWordIllegal \/ FixlenFloat \/ FixlenPayload \/ FixBytes
  \/ FpPartial \/ FpScalar
  \/ ArrayCountTooLarge \/ ArrayCount \/ ArrayWordIllegal \/ ArrayWord
  \/ ArrayElement \/ ArrayFloat \/ ArrayFloatSkip \/ ArrayFinish
  \/ Return

Next ==
  \/ Reset \/ Feed \/ AcceptBytes \/ Discarded \/ FeedFrom \/ ReadChunk
  \/ RunStep

(* run is a loop in the caller's goroutine: it does not stop by itself. *)
Spec == Init /\ [][Next]_vars /\ WF_vars(RunStep)

(***************************************************************************)
(* Properties                                                              *)
(***************************************************************************)
Errors == {"nil", "ErrInvalidMsg", "visitorErr"}
Outcomes == {"Complete", "Incomplete", "Invalid"}

MachineTypes ==
  /\ st \in Steps /\ err \in Errors
  /\ acc \in Nat /\ weight \in Nat \ {0} /\ nb \in Nat

FieldTypes ==
  /\ id \in 0 .. IDMax
  /\ total \in Nat /\ off \in Nat /\ remain \in Nat /\ idx \in Nat
  /\ wire \in 0 .. 5 /\ kind \in 0 .. 3 /\ sub \in 0 .. 3
  /\ width \in {0, Fp32Width, Fp64Width} /\ fp \in Seq(Byte)

ScopeTypes ==
  /\ depth \in 0 .. MaxDepth
  /\ stack \in [0 .. MaxDepth -> Nat] /\ spDone \in [0 .. MaxDepth -> BOOLEAN]
  /\ skipFrom \in -1 .. MaxDepth /\ top \in Nat
  /\ issued \in Nat \ {0}

CallTypes ==
  /\ stream \in Seq(Byte) /\ fed \in 0 .. Len(stream) /\ pos \in 0 .. fed
  /\ pc \in {"idle", "read", "run"}
  /\ call \in {"none", "Feed", "FeedFrom", "AcceptBytes"}
  /\ rerr \in {"nil", "EOF", "readErr"}
  /\ ret \in Outcomes \X (Errors \cup {"ErrArgument", "ErrIncomplete", "readErr"})
  /\ resets \in 0 .. MaxResets

(* The type invariant: every field of the Decoder holds a value of its      *)
(* type; in particular the decoder never reads past the bytes fed to it     *)
(* (pos <= fed) and the parse stack never grows past MAX_DEPTH.            *)
TypeOK == MachineTypes /\ FieldTypes /\ ScopeTypes /\ CallTypes

(* The cached visitor is the right one at every step: outside a declined    *)
(* subtree it is the innermost open scope's and every open scope has one;   *)
(* inside, it is nil, the declined scope is still open, and the visitors    *)
(* above it are all still on the stack, so that one end marker gives back   *)
(* exactly the visitor that declined (openSequence, closeSequence).        *)
ScopesCoherent ==
  LET held == IF skipFrom < 0 THEN depth ELSE skipFrom IN
  /\ top = IF skipFrom < 0 THEN stack[depth] ELSE Nil
  /\ skipFrom \in -1 .. depth - 1
  /\ \A d \in 0 .. depth : stack[d] # Nil <=> d <= held

(* No two open scopes share a visitor and an outer one was issued first: an *)
(* EndSequence can only reach the scope it closes.                         *)
VisitorsNested ==
  LET held == IF skipFrom < 0 THEN depth ELSE skipFrom IN
  /\ \A d \in 0 .. held : stack[d] <= issued
  /\ \A d, e \in 0 .. held : d < e => stack[d] < stack[e]

(* A suspended field remembers exactly how much of it is to come, whatever  *)
(* the chunks were: delivered and remaining bytes add up to the declared    *)
(* length, indices to the declared count, and no state waits for a byte     *)
(* that is not coming (fixlenWord on an empty payload, arrayCount on an     *)
(* empty array).                                                           *)
FieldAccounted ==
  err = "nil" =>
    /\ st = "stFixBytes" => remain > 0 /\ off + remain = total
    /\ st \in {"stArrUElem", "stArrSElem", "stArrFp"} =>
         remain <= total /\ total > 0 /\ (top # Nil => idx + remain = total)
    /\ st \in {"stFixFp", "stArrFp"} => width > 0 /\ Len(fp) < width
    /\ st = "stFixFp" \/ (st = "stArrFp" /\ remain > 0) \/ fp = <<>>
    /\ nb > 0 => st \in VarintSteps
    /\ nb = 0 => acc = 0 /\ weight = 1
    /\ st = "stArrWord" => remain = total /\ idx = 0

(* INVALID is terminal: until Reset the latched reason does not change, no  *)
(* further callback is made, and every Feed that has bytes gives the same   *)
(* verdict (fail, Feed).                                                   *)
InvalidIsTerminal ==
  [][err # "nil" /\ resets' = resets =>
       /\ err' = err /\ log' = log
       /\ (fed' # fed => ret' = <<"Invalid", err>>)]_vars

(* A visitor that takes the string policy has it before the first string of *)
(* its scope is announced, and is given it once (fixlenWord, spDone).      *)
PolicyBeforeStrings ==
  \A k \in 1 .. Len(log) :
    LET given == {j \in 1 .. k : log[j].m = "SetStringCheck" /\ log[j].to = log[k].to} IN
    /\ Cardinality(given) <= 1
    /\ (/\ log[k].m = "FixlenBegin" /\ log[k].args[1] = FixlenSubtype.Str
        /\ log[k].to \in PolicyVisitors) => given # {}

(* A Feed always comes back: run never loops without consuming a byte, and  *)
(* never waits inside a call for a byte of a later one.                    *)
FeedReturns == pc = "run" ~> pc # "run"

(* What Reset promises: "discards every trace of the message before it —   *)
(* the parse stack" (istream.go:175-176): every visitor the decoder still   *)
(* refers to between calls was given to it for this message.               *)
ResetForgets ==
  pc = "idle" /\ fed = 0 => \A d \in 0 .. MaxDepth : stack[d] \in {Nil, issued}

(* What Feed's comment promises of a result: "The error is non-nil exactly  *)
(* when the outcome is Invalid" (istream.go:203), of which FeedFrom is a    *)
(* wrapper that "applies no rule of its own".                              *)
InvalidHasReason == ret[1] = "Invalid" => ret[2] # "nil"
=============================================================================
