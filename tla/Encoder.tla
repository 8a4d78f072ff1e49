------------------------------ MODULE Encoder -------------------------------
(***************************************************************************)
(* The encoder of encoder.go: fields are written into a fixed window of an *)
(* output buffer, which is drained downstream when it cannot hold the next *)
(* piece.                                                                  *)
(*                                                                         *)
(* A Write call is the sequence of reservations it makes: a unit has to be *)
(* contiguous and asks for an upper bound (need) before its bytes are      *)
(* known to fit, a payload may be split anywhere.  Between two units the   *)
(* window may be drained, so a sink runs in the middle of a call: it can   *)
(* copy, take the buffer and install another one, or fail.                 *)
(*                                                                         *)
(* Buffers are memory: mem is the content of every buffer, the one the     *)
(* encoder writes into included.  sunk is what went downstream or was      *)
(* taken by the caller, ops the calls accepted, both since construction.   *)
(***************************************************************************)
EXTENDS Varint, Limits, FiniteSets
Seqs == INSTANCE SequencesExt

CONSTANTS
  IDMax, ArrayMax,
  MaxDepth,          \* the nesting bound of the format
  Opts,              \* the options the encoder is made with
  Fp32Width, Fp64Width,
  MaxCountLen,       \* 5: the longest varint of a count
  Forms,             \* the constructors in use: writer, buffer, sink
  Buffers,           \* the caller's buffers
  Cap(_),            \* their lengths
  EncWindow,         \* 512: the io.Writer form's window
  Offsets,           \* the start offsets a caller uses
  Calls,             \* the field writes a caller may make
  MaxOps, MaxSwaps   \* bounds: calls accepted, buffers installed

MinOutputBuffer == 2 * MaxVarintLen

(* e.lim and e.maxDepth, fixed at construction. *)
lim == NewLimits(Opts)
maxDepth == DepthBound(lim, MaxDepth)

ASSUME EncoderAssumption ==
  /\ IDMax \in Nat /\ ArrayMax \in Nat /\ MaxDepth \in Nat
  /\ Fp32Width \in Nat \ {0} /\ Fp64Width \in Nat \ {0}
  /\ MaxCountLen \in Nat \ {0} /\ MaxCountLen < MaxVarintLen
  /\ 1 + Fp32Width <= MaxVarintLen /\ 1 + Fp64Width <= MaxVarintLen
  /\ \A b \in Buffers : Cap(b) \in Nat
  /\ EncWindow \in Nat /\ EncWindow >= MinOutputBuffer
  /\ Offsets \subseteq Nat
  /\ MaxOps \in Nat /\ MaxSwaps \in Nat
  /\ Forms \subseteq {"writer", "buffer", "sink"}

(* What the reservations narrower than two varints count on: the word of a  *)
(* float is a single byte, and a count below the ceiling fits its bound.   *)
ASSUME ReservationAssumption ==
  /\ VarintLen(Fp32Width * 8) = 1 /\ VarintLen(Fp64Width * 8 + 1) = 1
  /\ \A k \in 0 .. ArrayMax : VarintLen(k) <= MaxCountLen

(* The Go types of the arguments: an id is unsigned, a float has its width, *)
(* and an array of floats is whole floats.                                 *)
ASSUME CallsAssumption ==
  \A c \in Calls :
    /\ c.id \in Nat /\ c.v \in Seq(Int)
    /\ c.m = "WriteFloat32" => Len(c.v) = Fp32Width
    /\ c.m = "WriteFloat64" => Len(c.v) = Fp64Width
    /\ c.m = "WriteFloat32Array" => Len(c.v) % Fp32Width = 0
    /\ c.m = "WriteFloat64Array" => Len(c.v) % Fp64Width = 0

VARIABLES
  form,                 \* which constructor made it: w, sink or neither
  buf, n, start,        \* the window, its cursor, where this installation began
  err, depth, pending,
  installed,            \* SetBuffer was called since drain last cleared it
  staging, staged,      \* the exact-fit tail of a sink-less buffer
  todo,                 \* the rest of the Write call in progress
  mem, taken, frame,    \* memory, buffers a transport owns, framing header room
  sunk, ops, swaps      \* history

window == <<buf, n, start>>
nesting == <<depth, pending>>
tail == <<staging, staged>>
owners == <<taken, frame>>
vars == <<form, window, err, nesting, installed, tail, todo, mem, owners, sunk, ops, swaps>>

Scratch == "scratch"     \* stagedTail.scratch
Window == "window"       \* the io.Writer form's own window
Memory == Buffers \cup {Scratch, Window}

ASSUME MemoryAssumption == Scratch \notin Buffers /\ Window \notin Buffers

Size(b) == CASE b = Scratch -> MinOutputBuffer [] b = Window -> EncWindow [] OTHER -> Cap(b)
Room == Size(buf) - n

Blank == -1              \* whatever was in the buffer before
Between(b, from, to) == [i \in 1 .. to - from |-> mem[b][from + i]]    \* b[from:to]

(***************************************************************************)
(* Construction                                                            *)
(***************************************************************************)
(* What SetBuffer and the constructors demand of a buffer and its offset. *)
Installable(f, b, o) ==
  /\ o <= Cap(b)
  /\ f = "sink" => Cap(b) - o >= MinOutputBuffer

Init ==
  /\ form \in Forms
  /\ IF form = "writer"
     THEN buf = Window /\ n = 0
     ELSE buf \in Buffers /\ n \in Offsets /\ Installable(form, buf, n)
  /\ start = n
  /\ err = "nil" /\ depth = 0 /\ pending = <<>> /\ installed = FALSE
  /\ staging = FALSE /\ staged = [dst |-> buf, n |-> 0, start |-> 0]
  /\ todo = <<>>
  /\ mem = [b \in Memory |-> [i \in 1 .. Size(b) |-> Blank]]
  /\ taken = {} /\ frame = [i \in 1 .. n |-> Blank]
  /\ sunk = <<>> /\ ops = <<>> /\ swaps = 0

(***************************************************************************)
(* Making room                                                             *)
(***************************************************************************)
(* Faults: the offset is ignored; the cursor is re-armed on the old buffer. *)
InstallAtZero(b, o) ==
  /\ buf' = b /\ n' = 0 /\ start' = 0
  /\ frame' = Between(b, 0, o) /\ swaps' = swaps + 1

InstallCursorOnly(b, o) ==
  /\ n' = o /\ start' = o /\ UNCHANGED buf
  /\ frame' = Between(buf, 0, o) /\ swaps' = swaps + 1

(* A new installation: its cursor starts at its own offset. *)
Install(b, o) ==
  /\ buf' = b /\ n' = o /\ start' = o
  /\ frame' = Between(b, 0, o)
  /\ swaps' = swaps + 1

(* The window is rewound once its bytes are gone; the start offset belonged *)
(* to the installation and goes with it.                                   *)
Rewind ==
  /\ start' = 0 /\ n' = 0 /\ frame' = <<>>
  /\ UNCHANGED <<buf, swaps>>

(* Fault: drain trusts a flag some earlier SetBuffer raised. *)
FlagBeforeSinkStale == installed

(* drain clears the flag before it calls the sink, so that what it reads    *)
(* afterwards is what this sink did.                                       *)
FlagBeforeSink == FALSE

FullUnless(k) == err' = IF Size(buf') - n' >= k THEN err ELSE "ErrBufferFull"

(* The sink installs a buffer, the one it was handed or another; in that    *)
(* case the one it was handed is no longer the encoder's.                  *)
SinkInstalls ==
  /\ swaps < MaxSwaps /\ installed' = TRUE
  /\ \E b \in Buffers \ taken, o \in Offsets :
       /\ Installable(form, b, o)
       /\ Install(b, o)
       /\ taken' = IF b = buf THEN taken ELSE taken \cup {buf}

(* A sink that dealt with its bytes: it copied them and the window is       *)
(* rewound, or it installed a buffer, whose own cursor stands.             *)
SinkTakes ==
  /\ sunk' = sunk \o Between(buf, start, n)
  /\ \/ /\ installed' = FlagBeforeSink
        /\ IF FlagBeforeSink THEN UNCHANGED <<window, frame, swaps>> ELSE Rewind
        /\ UNCHANGED taken
     \/ SinkInstalls

(* A sink that fails, or one of whose SetBuffers was refused, whatever it   *)
(* installed before.                                                       *)
SinkFails ==
  /\ err' \in {"sinkErr", "ErrArgument"} /\ UNCHANGED sunk
  /\ \/ SinkInstalls
     \/ installed' = FlagBeforeSink /\ UNCHANGED <<window, owners, swaps>>

(* drain, and makeRoom's retry: k bytes are needed (0 for Flush). *)
Drain(k) ==
  /\ \/ /\ n <= start
        /\ UNCHANGED <<window, owners, installed, sunk, swaps>>
        /\ FullUnless(k)
     \/ /\ n > start /\ form = "writer"
        /\ \/ sunk' = sunk \o Between(buf, start, n) /\ Rewind /\ FullUnless(k)
           \/ err' = "writeErr" /\ UNCHANGED <<window, frame, sunk, swaps>>
        /\ UNCHANGED <<taken, installed>>
     \/ /\ n > start /\ form = "sink"
        /\ (SinkTakes /\ FullUnless(k)) \/ SinkFails
  /\ UNCHANGED <<tail, mem>>

(* b written into buffer d behind its first p bytes. *)
Store(d, p, b) ==
  mem' = [mem EXCEPT ![d] = [i \in DOMAIN @ |-> IF i \in p + 1 .. p + Len(b) THEN b[i - p] ELSE @[i]]]

(* Fault: the scratch is copied out but not rewound. *)
SpillAgain ==
  /\ IF n > Size(staged.dst) - staged.n
     THEN err' = "ErrBufferFull" /\ UNCHANGED <<staged, mem>>
     ELSE /\ Store(staged.dst, staged.n, Between(buf, 0, n))
          /\ staged' = [staged EXCEPT !.n = @ + n]
          /\ UNCHANGED err
  /\ UNCHANGED <<window, installed, staging, owners, sunk, swaps>>

(* spill: the staged bytes reach the caller's buffer exactly, or not at all. *)
Spill ==
  /\ IF n > Size(staged.dst) - staged.n
     THEN err' = "ErrBufferFull" /\ UNCHANGED <<n, staged, mem>>
     ELSE /\ Store(staged.dst, staged.n, Between(buf, 0, n))
          /\ staged' = [staged EXCEPT !.n = @ + n]
          /\ n' = 0 /\ UNCHANGED err
  /\ UNCHANGED <<buf, start, installed, staging, owners, sunk, swaps>>

(* Fault: a reservation that does not fit is a full buffer. *)
StageAsFull ==
  /\ err' = "ErrBufferFull"
  /\ UNCHANGED <<window, installed, tail, mem, owners, sunk, swaps>>

(* stage: a reservation that does not fit is not yet a full buffer. *)
Stage ==
  IF staging THEN Spill
  ELSE /\ staged' = [dst |-> buf, n |-> n, start |-> start]
       /\ staging' = TRUE
       /\ buf' = Scratch /\ n' = 0 /\ start' = 0
       /\ UNCHANGED <<err, installed, mem, owners, sunk, swaps>>

Sinkless == form = "buffer"

(* makeRoom, for the head of todo; the call ends with the first error. *)
Unit(need, bytes)  == [need |-> need, bytes |-> bytes, split |-> FALSE, closes |-> FALSE]
Payload(bytes)     == [need |-> 1, bytes |-> bytes, split |-> TRUE, closes |-> FALSE]
EndMarker          == [need |-> MaxVarintLen, bytes |-> <<7>>, split |-> FALSE, closes |-> TRUE]

Writing == todo # <<>>
Next1 == todo[1]
(* Fault: the call goes on after an error. *)
OrGoOn(rest) == todo' = rest
OrStop(rest) == todo' = IF err' = "nil" THEN rest ELSE <<>>

MakeRoom ==
  /\ Writing /\ Room < Next1.need
  /\ IF Sinkless THEN Stage ELSE Drain(Next1.need)
  /\ OrStop(todo)
  /\ UNCHANGED <<form, nesting, ops>>

(* A unit goes into reserved room; its end marker closes a sequence. *)
PutUnit ==
  /\ Writing /\ ~Next1.split /\ Room >= Next1.need
  /\ Store(buf, n, Next1.bytes)
  /\ n' = n + Len(Next1.bytes)
  /\ depth' = IF Next1.closes THEN depth - 1 ELSE depth
  /\ todo' = Tail(todo)
  /\ UNCHANGED <<form, buf, start, err, pending, installed, tail, owners, sunk, ops, swaps>>

(* putRaw, putRawString: as much of a payload as fits now. *)
PutPayload ==
  /\ Writing /\ Next1.split /\ Room >= Next1.need
  /\ LET b == Next1.bytes
         c == IF Len(b) < Room THEN Len(b) ELSE Room
     IN  /\ Store(buf, n, SubSeq(b, 1, c))
         /\ n' = n + c
         /\ todo' = IF c = Len(b) THEN Tail(todo)
                    ELSE <<[Next1 EXCEPT !.bytes = SubSeq(b, c + 1, Len(b))]>> \o Tail(todo)
  /\ UNCHANGED <<form, buf, start, err, nesting, installed, tail, owners, sunk, ops, swaps>>

(***************************************************************************)
(* Field writes                                                            *)
(***************************************************************************)
Header(i, t) == PutUvarint(i * 8 + t)

(* Fault: only the innermost header is committed. *)
CommitInnermost ==
  IF pending = <<>> THEN <<>> ELSE <<Unit(MaxVarintLen, Header(pending[Len(pending)], 6))>>

(* commitPending: the held-back headers, outermost first, one unit each. *)
CommitPending == [k \in 1 .. Len(pending) |-> Unit(MaxVarintLen, Header(pending[k], 6))]

Idle == todo = <<>>
Ready == Idle /\ err = "nil" /\ Len(ops) < MaxOps

(* On a held error every writer returns it and changes nothing.             *)
RejectArgument ==
  /\ Idle
  /\ err' = IF err = "nil" THEN "ErrArgument" ELSE err
  /\ UNCHANGED <<form, window, nesting, installed, tail, todo, mem, owners, sunk, ops, swaps>>

(* writeHeaderRoom and what follows it: units of the field, behind the      *)
(* headers of the sequences it proves to have content.                     *)
Write(c, units) ==
  /\ todo' = CommitPending \o units
  /\ pending' = <<>>
  /\ ops' = Append(ops, c)
  /\ UNCHANGED <<form, window, err, depth, installed, tail, mem, owners, sunk, swaps>>

(* A length or count past the ceiling, or an id past ID_MAX, writes nothing. *)
WriteOrReject(c, count, units) ==
  /\ Ready
  /\ IF count > ArrayMax \/ c.id > IDMax THEN RejectArgument ELSE Write(c, units)

ScalarUnits(c, t, v) == <<Unit(MaxVarintLen + MaxVarintLen, Header(c.id, t) \o PutUvarint(v))>>

WriteUnsigned ==
  \E c \in Calls : c.m = "WriteUnsigned" /\ WriteOrReject(c, 0, ScalarUnits(c, 0, c.v[1]))

WriteSigned ==
  \E c \in Calls :
    c.m = "WriteSigned" /\ WriteOrReject(c, 0, ScalarUnits(c, 1, ZigzagEncode(c.v[1])))

(* Fault: a whole varint is reserved for the word. *)
FloatUnitsWide(c, w, sub) ==
  <<Unit(MaxVarintLen + MaxVarintLen + w, Header(c.id, 2) \o PutUvarint(w * 8 + sub) \o c.v)>>

(* Header, word and float in one reservation: the word is a single byte. *)
FloatUnits(c, w, sub) ==
  <<Unit(MaxVarintLen + 1 + w, Header(c.id, 2) \o PutUvarint(w * 8 + sub) \o c.v)>>

WriteFloat ==
  \E c \in Calls :
    \/ c.m = "WriteFloat32" /\ WriteOrReject(c, 0, FloatUnits(c, Fp32Width, 0))
    \/ c.m = "WriteFloat64" /\ WriteOrReject(c, 0, FloatUnits(c, Fp64Width, 1))

FixlenUnits(c, sub) ==
  <<Unit(MaxVarintLen + MaxVarintLen, Header(c.id, 2) \o PutUvarint(Len(c.v) * 8 + sub))>>
  \o (IF c.v = <<>> THEN <<>> ELSE <<Payload(c.v)>>)

WriteString ==
  \E c \in Calls :
    /\ c.m = "WriteString"
    /\ IF StrictUTF8On(lim) /\ ~WellFormed(c.v) THEN Ready /\ RejectArgument
       ELSE WriteOrReject(c, Len(c.v), FixlenUnits(c, 2))

WriteBytes ==
  \E c \in Calls : c.m = "WriteBytes" /\ WriteOrReject(c, Len(c.v), FixlenUnits(c, 3))

(* putUvarintRun and putZigzagRun: room for a whole varint per element. *)
IntArrayUnits(c, t, words) ==
  <<Unit(MaxVarintLen + MaxVarintLen, Header(c.id, t) \o PutUvarint(Len(words)))>>
  \o [k \in 1 .. Len(words) |-> Unit(MaxVarintLen, PutUvarint(words[k]))]

WriteIntArray ==
  \E c \in Calls :
    \/ c.m = "WriteUnsignedArray" /\ WriteOrReject(c, Len(c.v), IntArrayUnits(c, 3, c.v))
    \/ /\ c.m = "WriteSignedArray"
       /\ WriteOrReject(c, Len(c.v),
            IntArrayUnits(c, 4, [k \in 1 .. Len(c.v) |-> ZigzagEncode(c.v[k])]))

(* c.v is the elements' bytes, one after the other. *)
FloatArrayUnits(c, w, sub) ==
  LET count == Len(c.v) \div w IN
  <<Unit(MaxVarintLen + MaxCountLen + 1,
         Header(c.id, 5) \o PutUvarint(count) \o PutUvarint(w * 8 + sub))>>
  \o [k \in 1 .. count |-> Unit(w, SubSeq(c.v, (k - 1) * w + 1, k * w))]

WriteFloatArray ==
  \E c \in Calls :
    \/ /\ c.m = "WriteFloat32Array"
       /\ WriteOrReject(c, Len(c.v) \div Fp32Width, FloatArrayUnits(c, Fp32Width, 0))
    \/ /\ c.m = "WriteFloat64Array"
       /\ WriteOrReject(c, Len(c.v) \div Fp64Width, FloatArrayUnits(c, Fp64Width, 1))

(***************************************************************************)
(* Sequences                                                               *)
(***************************************************************************)
(* Fault: the depth bound is off by one. *)
BeginOneTooDeep ==
  \E c \in Calls :
    /\ c.m = "WriteSequenceBeginLazy" /\ Ready
    /\ IF depth > maxDepth \/ c.id > IDMax THEN RejectArgument
       ELSE /\ pending' = Append(pending, c.id)
            /\ depth' = depth + 1
            /\ ops' = Append(ops, c)
            /\ UNCHANGED <<form, window, err, installed, tail, todo, mem, owners, sunk, swaps>>

WriteSequenceBeginLazy ==
  \E c \in Calls :
    /\ c.m = "WriteSequenceBeginLazy" /\ Ready
    /\ IF depth >= maxDepth \/ c.id > IDMax THEN RejectArgument
       ELSE /\ pending' = Append(pending, c.id)
            /\ depth' = depth + 1
            /\ ops' = Append(ops, c)
            /\ UNCHANGED <<form, window, err, installed, tail, todo, mem, owners, sunk, swaps>>

End(m) == [m |-> m, id |-> 0, v |-> <<>>]

(* Fault: the outermost held-back header is dropped. *)
EndDropsOutermost ==
  /\ Ready
  /\ IF depth = 0 THEN RejectArgument
     ELSE IF pending # <<>>
     THEN /\ pending' = Tail(pending)
          /\ depth' = depth - 1
          /\ ops' = Append(ops, End("WriteSequenceEnd"))
          /\ UNCHANGED <<form, window, err, installed, tail, todo, mem, owners, sunk, swaps>>
     ELSE Write(End("WriteSequenceEnd"), <<EndMarker>>)

(* The innermost open sequence, still held back, vanishes; one that was      *)
(* framed gets its end marker, and depth falls once that is written.       *)
WriteSequenceEnd ==
  /\ Ready
  /\ IF depth = 0 THEN RejectArgument
     ELSE IF pending # <<>>
     THEN /\ pending' = SubSeq(pending, 1, Len(pending) - 1)
          /\ depth' = depth - 1
          /\ ops' = Append(ops, End("WriteSequenceEnd"))
          /\ UNCHANGED <<form, window, err, installed, tail, todo, mem, owners, sunk, swaps>>
     ELSE Write(End("WriteSequenceEnd"), <<EndMarker>>)

WriteSequenceEndKeep ==
  /\ Ready
  /\ IF depth = 0 THEN RejectArgument
     ELSE Write(End("WriteSequenceEndKeep"), <<EndMarker>>)

(***************************************************************************)
(* Flush, Bytes and SetBuffer                                              *)
(***************************************************************************)
Flush ==
  /\ Idle /\ err = "nil"
  /\ IF Sinkless THEN staging /\ Spill ELSE Drain(0)
  /\ UNCHANGED <<form, nesting, todo, ops>>

(* Bytes materializes a staged tail, a held error or not. *)
Bytes ==
  /\ Idle /\ staging
  /\ Spill
  /\ UNCHANGED <<form, nesting, todo, ops>>

(* What Bytes returns once nothing is staged. *)
Returned == IF staging THEN Between(staged.dst, staged.start, staged.n)
            ELSE Between(buf, start, n)
Target == IF staging THEN staged.dst ELSE buf

(* The caller took Bytes and installs the next buffer itself. *)
SetBuffer ==
  /\ Idle /\ err = "nil" /\ (staging => n = 0) /\ swaps < MaxSwaps
  /\ \E b \in Buffers \ taken, o \in Offsets :
       IF form = "writer" \/ ~Installable(form, b, o) THEN RejectArgument
       ELSE /\ sunk' = sunk \o Returned
            /\ Install(b, o)
            /\ taken' = IF b = Target THEN taken ELSE taken \cup {Target}
            /\ staging' = FALSE /\ installed' = TRUE
            /\ UNCHANGED <<form, err, nesting, staged, todo, mem, ops>>

(* The transport is done with a buffer it was given. *)
Release ==
  /\ \E b \in taken : taken' = taken \ {b}
  /\ UNCHANGED <<form, window, err, nesting, installed, tail, todo, mem, frame, sunk, ops, swaps>>

(***************************************************************************)
(* Specification                                                           *)
(***************************************************************************)
WriteStep == MakeRoom \/ PutUnit \/ PutPayload

Next ==
  \/ WriteUnsigned \/ WriteSigned \/ WriteFloat \/ WriteString \/ WriteBytes
  \/ WriteIntArray \/ WriteFloatArray
  \/ WriteSequenceBeginLazy \/ WriteSequenceEnd \/ WriteSequenceEndKeep
  \/ RejectArgument \/ Flush \/ Bytes \/ SetBuffer \/ Release
  \/ WriteStep

Spec == Init /\ [][Next]_vars

(* A Write call is plain code on the caller's goroutine: once begun it goes *)
(* on.  Nothing makes the caller call.                                     *)
FairSpec == Spec /\ WF_vars(WriteStep)

(***************************************************************************)
(* Properties                                                              *)
(***************************************************************************)
(* The type invariant: the cursors stay inside the window and only the       *)
(* sink-less form stages.                                                  *)
TypeOK ==
  /\ form \in Forms
  /\ buf \in Memory /\ start \in 0 .. n /\ n \in 0 .. Size(buf)
  /\ err \in {"nil", "ErrArgument", "ErrBufferFull", "sinkErr", "writeErr"}
  /\ depth \in 0 .. maxDepth /\ Len(pending) <= depth
  /\ installed \in BOOLEAN
  /\ staging \in BOOLEAN /\ (staging => Sinkless /\ buf = Scratch)
  /\ staged.n \in 0 .. Size(staged.dst)
  /\ taken \subseteq Buffers /\ Target \notin taken

(* What has left the encoder and what it still holds. *)
Buffered ==
  IF staging THEN Returned \o Between(buf, 0, n) ELSE Returned
Output == sunk \o Buffered

(* The reference: which calls of s reach the wire.  Sequence i is framed when *)
(* something is written while it is open: a field, or an end that keeps its *)
(* frame; a plain end is written when what it closes was.                  *)
IsBegin(c) == c.m = "WriteSequenceBeginLazy"
IsEnd(c) == c.m \in {"WriteSequenceEnd", "WriteSequenceEndKeep"}
IsContent(c) == ~IsBegin(c) /\ c.m # "WriteSequenceEnd"

OpenAfter(s, k) ==
  Cardinality({i \in 1 .. k : IsBegin(s[i])}) - Cardinality({i \in 1 .. k : IsEnd(s[i])})
StaysOpen(s, i, j) == \A k \in i .. j - 1 : OpenAfter(s, k) >= OpenAfter(s, i)
Framed(s, i) == \E j \in i + 1 .. Len(s) : IsContent(s[j]) /\ StaysOpen(s, i, j)
Closes(s, j, i) == IsBegin(s[i]) /\ OpenAfter(s, i) = OpenAfter(s, j - 1) /\ StaysOpen(s, i, j)
Reaches(s, i) == CASE IsBegin(s[i]) -> Framed(s, i)
                   [] s[i].m = "WriteSequenceEnd" -> \E x \in 1 .. i - 1 : Closes(s, i, x) /\ Framed(s, x)
                   [] OTHER -> TRUE

(* The bytes of one call, whatever the buffers: the wire image. *)
Joined(units) == Seqs!FlattenSeq([k \in 1 .. Len(units) |-> units[k].bytes])
Image(c) ==
  CASE c.m = "WriteUnsigned"  -> Header(c.id, 0) \o PutUvarint(c.v[1])
    [] c.m = "WriteSigned"    -> Header(c.id, 1) \o PutUvarint(ZigzagEncode(c.v[1]))
    [] c.m = "WriteFloat32"   -> Header(c.id, 2) \o PutUvarint(Fp32Width * 8) \o c.v
    [] c.m = "WriteFloat64"   -> Header(c.id, 2) \o PutUvarint(Fp64Width * 8 + 1) \o c.v
    [] c.m = "WriteString"    -> Header(c.id, 2) \o PutUvarint(Len(c.v) * 8 + 2) \o c.v
    [] c.m = "WriteBytes"     -> Header(c.id, 2) \o PutUvarint(Len(c.v) * 8 + 3) \o c.v
    [] c.m = "WriteUnsignedArray" -> Header(c.id, 3) \o PutUvarint(Len(c.v))
         \o Seqs!FlattenSeq([k \in 1 .. Len(c.v) |-> PutUvarint(c.v[k])])
    [] c.m = "WriteSignedArray" -> Header(c.id, 4) \o PutUvarint(Len(c.v))
         \o Seqs!FlattenSeq([k \in 1 .. Len(c.v) |-> PutUvarint(ZigzagEncode(c.v[k]))])
    [] c.m = "WriteFloat32Array" -> Header(c.id, 5) \o PutUvarint(Len(c.v) \div Fp32Width)
         \o PutUvarint(Fp32Width * 8) \o c.v
    [] c.m = "WriteFloat64Array" -> Header(c.id, 5) \o PutUvarint(Len(c.v) \div Fp64Width)
         \o PutUvarint(Fp64Width * 8 + 1) \o c.v
    [] IsBegin(c) -> Header(c.id, 6)
    [] OTHER -> Header(0, 7)

Spelled(s) == Seqs!FlattenSeq([i \in 1 .. Len(s) |-> IF Reaches(s, i) THEN Image(s[i]) ELSE <<>>])
Message == Spelled(ops)

(* Any buffer "works and produces byte-identical output" (encoder.go,        *)
(* MinOutputBuffer): what was drained, what is buffered and what the call   *)
(* in progress has yet to write are the message the calls spell, byte for   *)
(* byte, wherever the flushes fell, whatever the sink did with the buffer   *)
(* and whichever sequences turned out empty.  After an error it is a         *)
(* beginning of that message, never other bytes.                           *)
OutputIsMessage ==
  IF err = "nil" THEN Output \o Joined(todo) = Message ELSE Seqs!IsPrefix(Output, Message)

(* "It cannot arise on an encoder with a sink" (types.go, ErrBufferFull):    *)
(* no reservation is wider than the room a drained window has.             *)
FullOnlyWithoutSink == err = "ErrBufferFull" => Sinkless

(* A sink-less buffer is reported full only when the bytes produced do not  *)
(* fit it: no minimum, a reservation is not a length (stage, spill).       *)
FullOnlyWhenFull ==
  err = "ErrBufferFull" => staged.start + Len(Buffered) > Size(staged.dst)

(* A buffer the sink or the caller took is never written again until it is  *)
(* given back (drain, SetBuffer).                                          *)
TakenUntouched == [][\A b \in taken : mem'[b] = mem[b]]_vars

(* The room before the start offset stays the caller's, through every        *)
(* installation, until a flush consumes it (SetBuffer, drain).             *)
HeaderRoomKept == Between(Target, 0, Len(frame)) = frame

(* Every Write call returns, a payload many windows long too: a drain or a   *)
(* stage makes room or ends the call with an error (makeRoom, putRaw).     *)
WritesReturn == Writing ~> Idle

(* "Err returns the first error encountered, if any" (encoder.go:296);       *)
(* "An error already recorded is kept" (encoder.go:691).                   *)
FirstErrorKept == [][err # "nil" => err' = err]_vars
=============================================================================
