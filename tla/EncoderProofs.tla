--------------------------- MODULE EncoderProofs ----------------------------
(***************************************************************************)
(* For every encoder, all its buffers, sinks and calls: a buffer that was  *)
(* given away is left alone, the cursors stay inside the window, a         *)
(* reservation always fits a drained one, and the room before the start    *)
(* offset is kept; and which calls reach the wire: the message a list of   *)
(* calls spells when one more is made, and the headers held back until     *)
(* then.                                                                   *)
(***************************************************************************)
EXTENDS Encoder, SeqLemmas, FiniteSetTheorems

(***************************************************************************)
(* Who owns which buffer                                                   *)
(***************************************************************************)
(* Where the encoder writes: into its window, which is its own memory or a *)
(* buffer nobody took, and while it stages also into the buffer the tail   *)
(* is copied back to, which nobody took either.                            *)
OwnsTarget ==
  /\ DOMAIN mem = Memory
  /\ taken \subseteq Buffers
  /\ DOMAIN staged = {"dst", "n", "start"}
  /\ staging \in BOOLEAN /\ (staging => Sinkless /\ buf = Scratch)
  /\ form # "writer" => Target \in Buffers \ taken
  /\ form = "writer" => buf = Window

(* The window is Target, the encoder's own or the scratch. *)
LEMMA WindowNotTaken == OwnsTarget => buf \notin taken /\ Target \notin taken
  BY MemoryAssumption DEF OwnsTarget, Target, Sinkless

(* Store changes the buffer it is given and no other. *)
LEMMA StoreSparesOthers ==
  ASSUME DOMAIN mem = Memory, NEW d, NEW p, NEW b, Store(d, p, b)
  PROVE  /\ DOMAIN mem' = Memory
         /\ \A x \in Memory : x # d => mem'[x] = mem[x]
  BY DEF Store

(* A buffer is installed only when nobody has it, and the one before it     *)
(* becomes the transport's.                                                *)
LEMMA SinkInstallsElsewhere ==
  ASSUME OwnsTarget, form = "sink", UNCHANGED <<form, tail, mem>>, SinkInstalls
  PROVE  OwnsTarget'
<1>1. PICK b \in Buffers \ taken, o \in Offsets :
        buf' = b /\ taken' = IF b = buf THEN taken ELSE taken \cup {buf}
  BY DEF SinkInstalls, Install
<1>2. ~staging /\ buf \in Buffers
  BY DEF OwnsTarget, Target, Sinkless
<1> QED
  BY <1>1, <1>2 DEF OwnsTarget, Target, Sinkless, tail

(* A step that leaves the ownership of memory alone. *)
Settled == UNCHANGED <<form, buf, taken, staging, staged, mem>>

(* Such a step keeps the owners.                                           *)
LEMMA SettledKeepsOwner == OwnsTarget /\ Settled => OwnsTarget'
  BY DEF OwnsTarget, Settled, Target, Sinkless

(* Draining does: a buffer sent is given away only when another took its   *)
(* place.                                                                  *)
LEMMA DrainKeepsOwner ==
  ASSUME OwnsTarget, NEW k, Drain(k), UNCHANGED form
  PROVE  OwnsTarget' /\ mem' = mem
<1>1. CASE n <= start /\ UNCHANGED <<window, owners>>
  BY <1>1, SettledKeepsOwner DEF Drain, Settled, window, owners, tail
<1>2. CASE form = "writer" /\ UNCHANGED taken /\ UNCHANGED buf
  BY <1>2, SettledKeepsOwner DEF Drain, Settled, tail
<1>3. CASE form = "sink" /\ SinkInstalls
  BY <1>3, SinkInstallsElsewhere DEF Drain
<1>4. CASE form = "sink" /\ UNCHANGED taken /\ UNCHANGED buf
  BY <1>4, SettledKeepsOwner DEF Drain, Settled, tail
<1> QED
  BY <1>1, <1>2, <1>3, <1>4
  DEF Drain, SinkTakes, SinkFails, Rewind, window, owners

(* Spill writes the buffer the staged tail belongs to. *)
LEMMA SpillKeepsOwner ==
  ASSUME OwnsTarget, staging, Spill, UNCHANGED form
  PROVE  OwnsTarget' /\ \A b \in taken : mem'[b] = mem[b]
<1>1. /\ staged'.dst = staged.dst /\ DOMAIN staged' = DOMAIN staged
      /\ UNCHANGED <<buf, taken, staging>>
  BY DEF Spill, owners, OwnsTarget
<1>2. mem' = mem \/ Store(staged.dst, staged.n, Between(buf, 0, n))
  BY DEF Spill
<1>3. DOMAIN mem' = Memory /\ \A x \in Memory : x # Target => mem'[x] = mem[x]
  BY <1>2, StoreSparesOthers DEF OwnsTarget, Target
<1>4. OwnsTarget'
  BY <1>1, <1>3 DEF OwnsTarget, Target, Sinkless
<1>5. Target \notin taken /\ taken \subseteq Memory
  BY WindowNotTaken DEF OwnsTarget, Memory
<1> QED
  BY <1>3, <1>4, <1>5

(* Staging does, and copies a tail back only to a buffer nobody took.      *)
LEMMA StageKeepsOwner ==
  ASSUME OwnsTarget, Sinkless, Stage, UNCHANGED form
  PROVE  OwnsTarget' /\ \A b \in taken : mem'[b] = mem[b]
<1>1. CASE staging
  BY <1>1, SpillKeepsOwner DEF Stage
<1>2. CASE ~staging
  <2>1. staged' = [dst |-> buf, n |-> n, start |-> start] /\ staging' /\ buf' = Scratch /\ UNCHANGED <<mem, taken>>
    BY <1>2 DEF Stage, owners
  <2> QED
    BY <1>2, <2>1 DEF OwnsTarget, Target, Sinkless
<1> QED
  BY <1>1, <1>2

(* What PutUnit and PutPayload do to memory. *)
LEMMA StoreInWindowKeepsOwner ==
  ASSUME OwnsTarget, NEW p, NEW b, Store(buf, p, b), UNCHANGED <<form, buf, taken, staging, staged>>
  PROVE  OwnsTarget' /\ \A x \in taken : mem'[x] = mem[x]
<1>1. DOMAIN mem' = Memory /\ \A x \in Memory : x # buf => mem'[x] = mem[x]
  BY StoreSparesOthers DEF OwnsTarget
<1> QED
  BY <1>1, WindowNotTaken DEF OwnsTarget, Target, Memory, Sinkless

(* No call between two Writes touches memory; the caller's own SetBuffer     *)
(* gives the window away and takes a free buffer.                          *)
LEMMA SetBufferKeepsOwner ==
  ASSUME OwnsTarget, SetBuffer
  PROVE  OwnsTarget' /\ mem' = mem
<1>1. PICK b \in Buffers \ taken, o \in Offsets :
        IF form = "writer" \/ ~Installable(form, b, o) THEN RejectArgument
        ELSE /\ Install(b, o)
             /\ taken' = IF b = Target THEN taken ELSE taken \cup {Target}
             /\ staging' = FALSE /\ UNCHANGED <<form, staged, mem>>
  BY DEF SetBuffer
<1>2. CASE RejectArgument
  BY <1>2, SettledKeepsOwner DEF RejectArgument, Settled, window, tail, owners
<1>3. CASE /\ form # "writer" /\ Install(b, o)
           /\ taken' = IF b = Target THEN taken ELSE taken \cup {Target}
           /\ staging' = FALSE /\ UNCHANGED <<form, staged, mem>>
  <2>1. buf' = b
    BY <1>3 DEF Install
  <2> QED
    BY <1>3, <2>1 DEF OwnsTarget, Target, Sinkless
<1> QED
  BY <1>1, <1>2, <1>3

(* The calls that only write down what is to be written. *)
LEMMA CallSettles ==
  ASSUME \/ WriteUnsigned \/ WriteSigned \/ WriteFloat \/ WriteString \/ WriteBytes
         \/ WriteIntArray \/ WriteFloatArray
         \/ WriteSequenceBeginLazy \/ WriteSequenceEnd \/ WriteSequenceEndKeep
         \/ RejectArgument
  PROVE  Settled
<1>1. RejectArgument => Settled
  BY DEF RejectArgument, Settled, window, tail, owners
<1>2. ASSUME NEW c, NEW units, Write(c, units) PROVE Settled
  BY <1>2 DEF Write, Settled, window, tail, owners
<1>3. ASSUME NEW c, NEW count, NEW units, WriteOrReject(c, count, units) PROVE Settled
  BY <1>1, <1>2, <1>3 DEF WriteOrReject
<1>4. WriteUnsigned \/ WriteSigned \/ WriteFloat \/ WriteString \/ WriteBytes => Settled
  BY <1>1, <1>3 DEF WriteUnsigned, WriteSigned, WriteFloat, WriteString, WriteBytes
<1>5. WriteIntArray \/ WriteFloatArray => Settled
  BY <1>3 DEF WriteIntArray, WriteFloatArray
<1>6. WriteSequenceBeginLazy => Settled
  BY <1>1 DEF WriteSequenceBeginLazy, Settled, window, tail, owners
<1>7. WriteSequenceEnd \/ WriteSequenceEndKeep => Settled
  BY <1>1, <1>2 DEF WriteSequenceEnd, WriteSequenceEndKeep, Settled, window, tail, owners
<1> QED
  BY <1>1, <1>4, <1>5, <1>6, <1>7

(* Every step keeps the owners and leaves the buffers given away alone.    *)
LEMMA OwnerStep ==
  ASSUME OwnsTarget, [Next]_vars
  PROVE  OwnsTarget' /\ \A b \in taken : mem'[b] = mem[b]
<1>1. CASE \/ WriteUnsigned \/ WriteSigned \/ WriteFloat \/ WriteString \/ WriteBytes
           \/ WriteIntArray \/ WriteFloatArray
           \/ WriteSequenceBeginLazy \/ WriteSequenceEnd \/ WriteSequenceEndKeep
           \/ RejectArgument
  BY <1>1, CallSettles, SettledKeepsOwner DEF Settled
<1>2. CASE Flush
  BY <1>2, DrainKeepsOwner, SpillKeepsOwner DEF Flush
<1>3. CASE Bytes
  BY <1>3, SpillKeepsOwner DEF Bytes
<1>4. CASE SetBuffer
  BY <1>4, SetBufferKeepsOwner
<1>5. CASE Release
  BY <1>5 DEF Release, OwnsTarget, Target, Sinkless, window, tail
<1>6. CASE MakeRoom
  BY <1>6, StageKeepsOwner, DrainKeepsOwner DEF MakeRoom
<1>7. CASE PutUnit
  BY <1>7, StoreInWindowKeepsOwner DEF PutUnit, owners, tail
<1>8. CASE PutPayload
  BY <1>8, StoreInWindowKeepsOwner DEF PutPayload, owners, tail
<1>9. CASE UNCHANGED vars
  BY <1>9, SettledKeepsOwner DEF Settled, vars, window, tail, owners
<1> QED
  BY <1>1, <1>2, <1>3, <1>4, <1>5, <1>6, <1>7, <1>8, <1>9 DEF Next, WriteStep

(* A buffer the sink or the caller took is never written again until it is  *)
(* given back, whatever the sink does and wherever the drains fall (drain,  *)
(* SetBuffer, stage).                                                      *)
THEOREM TakenStaysUntouched == Spec => TakenUntouched
<1>1. Init => OwnsTarget
  BY DEF Init, OwnsTarget, Target, Sinkless
<1>2. OwnsTarget /\ [Next]_vars => OwnsTarget'
  BY OwnerStep
<1>3. OwnsTarget /\ [Next]_vars => [\A b \in taken : mem'[b] = mem[b]]_vars
  BY OwnerStep
<1> QED
  BY <1>1, <1>2, <1>3, PTL DEF Spec, TakenUntouched

(***************************************************************************)
(* Lengths                                                                 *)
(***************************************************************************)
(* A varint has at least one byte and at most MaxVarintLen, whatever the   *)
(* value.                                                                  *)
LEMMA VarintLenBounds == \A v : VarintLen(v) \in 1 .. MaxVarintLen
<1> SUFFICES ASSUME NEW v PROVE VarintLen(v) \in 1 .. MaxVarintLen
  OBVIOUS
<1> DEFINE long == {k \in 1 .. MaxVarintLen : k = MaxVarintLen \/ v < Weight(k)}
<1>1. long # {} /\ long \subseteq Nat
  BY VarintAssumption
<1>2. PICK k \in long : \A j \in long : k <= j
  <2> HIDE DEF long
  <2> QED BY <1>1, LeastNatural
<1>3. k \in 1 .. MaxVarintLen /\ (k = MaxVarintLen \/ v < Weight(k))
  OBVIOUS
<1>4. ASSUME NEW j \in 1 .. k - 1, v < Weight(j) PROVE FALSE
  <2>1. j \in long /\ j < k
    BY <1>3, <1>4, VarintAssumption
  <2> QED BY <1>2, <1>3, <2>1, VarintAssumption
<1> QED BY <1>3, <1>4 DEF VarintLen

(* PutUvarint writes as many bytes as VarintLen counts.                    *)
LEMMA VarintBytes == \A v : Listed(PutUvarint(v)) /\ Len(PutUvarint(v)) = VarintLen(v)
<1> SUFFICES ASSUME NEW v PROVE Listed(PutUvarint(v)) /\ Len(PutUvarint(v)) = VarintLen(v)
  OBVIOUS
<1>1. VarintLen(v) \in Nat
  BY VarintLenBounds
<1>2. PutUvarint(v) = [j \in 1 .. VarintLen(v) |-> PutUvarint(v)[j]]
  BY DEF PutUvarint
<1> QED BY <1>1, <1>2, TabulatedIsListed

(* The sizes of the windows, in the arithmetic of the assumptions.         *)
LEMMA SizeNat ==
  /\ MinOutputBuffer \in Nat /\ MaxVarintLen \in Nat /\ MaxVarintLen < MinOutputBuffer
  /\ Size(Scratch) = MinOutputBuffer /\ Size(Window) = EncWindow /\ EncWindow \in Nat
  /\ \A b \in Buffers : Size(b) = Cap(b) /\ Cap(b) \in Nat
  /\ \A b \in Memory : Size(b) \in Nat
BY EncoderAssumption, MemoryAssumption, VarintAssumption
DEF MinOutputBuffer, Size, Memory, Scratch, Window

(* The depth bound in force is a number.                                   *)
LEMMA MaxDepthNat == maxDepth \in Nat
BY EncoderAssumption DEF maxDepth, DepthBound

(***************************************************************************)
(* Reservations                                                            *)
(***************************************************************************)
(* A unit that is written at once is no longer than what is reserved for   *)
(* it, and no reservation is wider than MinOutputBuffer.                   *)
Reserved(u) ==
  /\ DOMAIN u = {"need", "bytes", "split", "closes"}
  /\ u.need \in 1 .. MinOutputBuffer /\ Listed(u.bytes)
  /\ u.split \in BOOLEAN /\ u.closes \in BOOLEAN
  /\ ~u.split => Len(u.bytes) <= u.need
  /\ u.split => ~u.closes

(* The units of a field, none of which closes a sequence.                  *)
FieldUnits(units) ==
  Listed(units) /\ \A k \in 1 .. Len(units) : Reserved(units[k]) /\ ~units[k].closes

(* A unit no longer than its reservation is reserved.                      *)
LEMMA UnitReserved ==
  ASSUME NEW need \in 1 .. MinOutputBuffer, NEW bytes, Listed(bytes), Len(bytes) <= need
  PROVE  Reserved(Unit(need, bytes)) /\ ~Unit(need, bytes).closes
BY DEF Reserved, Unit

(* A field header is one varint.                                           *)
LEMMA HeaderBytes == \A i, t : Listed(Header(i, t)) /\ Len(Header(i, t)) \in 1 .. MaxVarintLen
BY VarintBytes, VarintLenBounds DEF Header

(* A header with the varint behind it.                                     *)
LEMMA TwoVarints ==
  ASSUME NEW i, NEW t, NEW v
  PROVE  LET bytes == Header(i, t) \o PutUvarint(v) IN
         Listed(bytes) /\ Len(bytes) = Len(Header(i, t)) + VarintLen(v) 
BY HeaderBytes, VarintBytes, ConcatListed

(* They fit the room of two varints.                                       *)
LEMMA TwoVarintsFit ==
  ASSUME NEW i, NEW t, NEW v
  PROVE  LET bytes == Header(i, t) \o PutUvarint(v) IN
         /\ Listed(bytes) /\ Len(bytes) <= MaxVarintLen + MaxVarintLen
         /\ MaxVarintLen + MaxVarintLen \in 1 .. MinOutputBuffer
         /\ MaxVarintLen + MaxVarintLen = MinOutputBuffer
<1> DEFINE bytes == Header(i, t) \o PutUvarint(v)
<1>1. Listed(bytes) /\ Len(bytes) = Len(Header(i, t)) + VarintLen(v)
  BY TwoVarints
<1>2. Len(Header(i, t)) \in 1 .. MaxVarintLen /\ VarintLen(v) \in 1 .. MaxVarintLen
  BY HeaderBytes, VarintLenBounds
<1>3. /\ MaxVarintLen + MaxVarintLen \in 1 .. MinOutputBuffer
      /\ MaxVarintLen + MaxVarintLen = MinOutputBuffer
  BY VarintAssumption DEF MinOutputBuffer
<1> HIDE DEF bytes
<1>4. Len(bytes) <= MaxVarintLen + MaxVarintLen
  BY <1>1, <1>2, VarintAssumption
<1> QED BY <1>1, <1>3, <1>4 DEF bytes

(* A field of one unit.                                                    *)
LEMMA OneUnit ==
  ASSUME NEW u, Reserved(u), ~u.closes
  PROVE  FieldUnits(<<u>>)
<1>1. Listed(<<u>>) /\ Len(<<u>>) = 1 /\ <<u>>[1] = u
  BY OneListed
<1> QED BY <1>1 DEF FieldUnits

(* Two fields one after the other are reserved unit by unit.               *)
LEMMA MoreUnits ==
  ASSUME NEW s, NEW t, FieldUnits(s), FieldUnits(t)
  PROVE  FieldUnits(s \o t)
<1>1. /\ Listed(s \o t) /\ Len(s \o t) = Len(s) + Len(t)
      /\ \A i \in 1 .. Len(s) : (s \o t)[i] = s[i]
      /\ \A i \in 1 .. Len(t) : (s \o t)[Len(s) + i] = t[i]
  BY ConcatListed DEF FieldUnits
<1>2. Len(s) \in Nat /\ Len(t) \in Nat
  BY DEF FieldUnits, Listed
<1>3. ASSUME NEW k \in 1 .. Len(s \o t)
      PROVE  Reserved((s \o t)[k]) /\ ~(s \o t)[k].closes
  <2>1. CASE k <= Len(s)
    <3>1. k \in 1 .. Len(s)
      BY <1>1, <1>2, <2>1
    <3> QED BY <1>1, <3>1 DEF FieldUnits
  <2>2. CASE ~(k <= Len(s))
    <3> DEFINE i == k - Len(s)
    <3>1. i \in 1 .. Len(t) /\ k = Len(s) + i
      BY <1>1, <1>2, <2>2
    <3>2. (s \o t)[k] = t[i]
      <4> HIDE DEF i
      <4> QED BY <1>1, <3>1
    <3> HIDE DEF i
    <3> QED BY <3>1, <3>2 DEF FieldUnits
  <2> QED BY <2>1, <2>2
<1> QED BY <1>1, <1>3 DEF FieldUnits

(* The units of a call that closes a sequence. *)
EndedUnits(units) ==
  /\ Listed(units) /\ \A k \in 1 .. Len(units) : Reserved(units[k])
  /\ \A k \in 1 .. Len(units) : units[k].closes => k = Len(units)

(* An end marker behind the units of a field comes last.                   *)
LEMMA EndMarkerLast ==
  ASSUME NEW s, FieldUnits(s)
  PROVE  EndedUnits(s \o <<EndMarker>>)
<1> DEFINE t == <<EndMarker>>
<1>0. Listed(s)
  BY DEF FieldUnits
<1>1. Len(s) \in Nat
  BY <1>0 DEF Listed
<1>2. Listed(t) /\ Len(t) = 1 /\ t[1] = EndMarker
  BY OneListed
<1> HIDE DEF t
<1>3. /\ Listed(s \o t) /\ Len(s \o t) = Len(s) + 1
      /\ \A i \in 1 .. Len(s) : (s \o t)[i] = s[i]
      /\ (s \o t)[Len(s) + 1] = EndMarker
  <2>1. /\ Listed(s \o t) /\ Len(s \o t) = Len(s) + Len(t)
        /\ \A i \in 1 .. Len(s) : (s \o t)[i] = s[i]
        /\ \A i \in 1 .. Len(t) : (s \o t)[Len(s) + i] = t[i]
    <3>1. Listed(t)
      BY <1>2
    <3> QED BY ONLY <1>0, <3>1, ConcatListed
  <2> QED BY <1>2, <2>1
<1>4. Reserved(EndMarker)
  <2>1. Listed(<<7>>) /\ Len(<<7>>) = 1
    BY OneListed
  <2> QED BY <2>1, SizeNat, VarintAssumption DEF EndMarker, Reserved
<1>5. ASSUME NEW k \in 1 .. Len(s \o t)
      PROVE  Reserved((s \o t)[k]) /\ ((s \o t)[k].closes => k = Len(s \o t))
  <2>1. CASE k \in 1 .. Len(s)
    BY <1>3, <2>1 DEF FieldUnits
  <2>2. CASE k = Len(s) + 1
    BY <1>3, <1>4, <2>2
  <2> QED BY <1>1, <1>3, <2>1, <2>2
<1> QED BY <1>3, <1>5 DEF EndedUnits, t

(* commitPending reserves one varint for each header held back.            *)
LEMMA CommitUnits == Len(pending) \in Nat => FieldUnits(CommitPending)
<1> SUFFICES ASSUME Len(pending) \in Nat PROVE FieldUnits(CommitPending)
  OBVIOUS
<1>1. CommitPending = [k \in 1 .. Len(pending) |-> CommitPending[k]]
  BY DEF CommitPending
<1>2. Listed(CommitPending) /\ Len(CommitPending) = Len(pending)
  BY <1>1, TabulatedIsListed
<1>3. ASSUME NEW k \in 1 .. Len(pending)
      PROVE  Reserved(CommitPending[k]) /\ ~CommitPending[k].closes
  <2>1. CommitPending[k] = Unit(MaxVarintLen, Header(pending[k], 6))
    BY DEF CommitPending
  <2> QED BY <2>1, HeaderBytes, UnitReserved, SizeNat, VarintAssumption
<1> QED BY <1>2, <1>3 DEF FieldUnits

(* A scalar field fits the room of two varints.                            *)
LEMMA ScalarReserved == \A c, t, v : FieldUnits(ScalarUnits(c, t, v))
<1> SUFFICES ASSUME NEW c, NEW t, NEW v PROVE FieldUnits(ScalarUnits(c, t, v))
  OBVIOUS
<1> DEFINE bytes == Header(c.id, t) \o PutUvarint(v)
<1>1. /\ Listed(bytes) /\ Len(bytes) <= MaxVarintLen + MaxVarintLen
      /\ MaxVarintLen + MaxVarintLen \in 1 .. MinOutputBuffer
  BY TwoVarintsFit
<1> HIDE DEF bytes
<1>2. Reserved(Unit(MaxVarintLen + MaxVarintLen, bytes)) /\ ~Unit(MaxVarintLen + MaxVarintLen, bytes).closes
  BY <1>1, UnitReserved
<1> QED BY <1>2, OneUnit DEF ScalarUnits, bytes

(* A float's word is a single byte, so that one header, one byte and the     *)
(* float fit what is reserved.                                             *)
LEMMA FloatReserved ==
  ASSUME NEW c, NEW w \in Nat \ {0}, NEW sub, 1 + w <= MaxVarintLen, c.v \in Seq(Int), Len(c.v) = w,
         VarintLen(w * 8 + sub) = 1
  PROVE  FieldUnits(FloatUnits(c, w, sub))
<1> DEFINE head == Header(c.id, 2) \o PutUvarint(w * 8 + sub)
           bytes == head \o c.v
<1>1. Listed(head) /\ Len(head) \in 1 .. MaxVarintLen + 1
  <2>1. Listed(head) /\ Len(head) = Len(Header(c.id, 2)) + VarintLen(w * 8 + sub)
    BY TwoVarints
  <2>2. Len(Header(c.id, 2)) \in 1 .. MaxVarintLen
    BY HeaderBytes
  <2> HIDE DEF head
  <2> QED BY <2>1, <2>2, VarintAssumption
<1>2. Listed(c.v)
  BY SeqIsListed
<1> HIDE DEF head
<1>3. Listed(bytes) /\ Len(bytes) <= MaxVarintLen + 1 + w
  BY <1>1, <1>2, ConcatListed, VarintAssumption
<1>4. MaxVarintLen + 1 + w \in 1 .. MinOutputBuffer
  BY VarintAssumption DEF MinOutputBuffer
<1> HIDE DEF bytes
<1>5. Reserved(Unit(MaxVarintLen + 1 + w, bytes)) /\ ~Unit(MaxVarintLen + 1 + w, bytes).closes
  BY <1>3, <1>4, UnitReserved
<1>6. FieldUnits(<<Unit(MaxVarintLen + 1 + w, bytes)>>)
  BY <1>5, OneUnit
<1> QED BY <1>6 DEF FloatUnits, bytes, head

(* A string or a blob: two varints at once, then a payload that is split.  *)
LEMMA FixlenReserved ==
  ASSUME NEW c, NEW sub, c.v \in Seq(Int)
  PROVE  FieldUnits(FixlenUnits(c, sub))
<1> DEFINE bytes == Header(c.id, 2) \o PutUvarint(Len(c.v) * 8 + sub)
           need == MaxVarintLen + MaxVarintLen
<1>1. Listed(bytes) /\ Len(bytes) <= need /\ need \in 1 .. MinOutputBuffer
  BY TwoVarintsFit
<1> HIDE DEF bytes, need
<1>2. FieldUnits(<<Unit(need, bytes)>>)
  BY <1>1, UnitReserved, OneUnit
<1>3. Reserved(Payload(c.v)) /\ ~Payload(c.v).closes
  BY SeqIsListed, VarintAssumption DEF Payload, Reserved, MinOutputBuffer
<1>4. FieldUnits(<<>>)
  BY EmptyListed DEF FieldUnits
<1>5. FieldUnits(IF c.v = <<>> THEN <<>> ELSE <<Payload(c.v)>>)
  BY <1>3, <1>4, OneUnit
<1> QED BY <1>2, <1>5, MoreUnits DEF FixlenUnits, bytes, need

(* An integer array: two varints, then room for a varint per element.      *)
LEMMA IntArrayReserved ==
  ASSUME NEW c, NEW t, NEW words, Len(words) \in Nat
  PROVE  FieldUnits(IntArrayUnits(c, t, words))
<1> DEFINE bytes == Header(c.id, t) \o PutUvarint(Len(words))
           need == MaxVarintLen + MaxVarintLen
           elements == [k \in 1 .. Len(words) |-> Unit(MaxVarintLen, PutUvarint(words[k]))]
<1>1. Listed(bytes) /\ Len(bytes) <= need /\ need \in 1 .. MinOutputBuffer
  BY TwoVarintsFit
<1>2. FieldUnits(<<Unit(need, bytes)>>)
  <2> HIDE DEF bytes, need
  <2> QED BY <1>1, UnitReserved, OneUnit
<1>3. elements = [k \in 1 .. Len(words) |-> elements[k]]
  OBVIOUS
<1>4. ASSUME NEW k \in 1 .. Len(words)
      PROVE  Reserved(elements[k]) /\ ~elements[k].closes
  <2>1. elements[k] = Unit(MaxVarintLen, PutUvarint(words[k]))
    OBVIOUS
  <2> HIDE DEF elements
  <2> QED BY <2>1, VarintBytes, VarintLenBounds, UnitReserved, SizeNat, VarintAssumption
<1>5. FieldUnits(elements)
  <2> HIDE DEF elements
  <2> QED BY <1>3, <1>4, TabulatedIsListed DEF FieldUnits
<1> QED BY <1>2, <1>5, MoreUnits DEF IntArrayUnits

(* The word of a float fits one byte.                                      *)
LEMMA FloatWord == VarintLen(Fp32Width * 8 + 0) = 1 /\ VarintLen(Fp64Width * 8 + 1) = 1
<1>1. Fp32Width * 8 + 0 = Fp32Width * 8
  BY EncoderAssumption
<1> QED BY <1>1, ReservationAssumption

(* A count that is not past the ceiling is at most the ceiling.            *)
LEMMA AtMost == \A a \in Nat : ~(a > ArrayMax) => a <= ArrayMax
BY EncoderAssumption

(* A quotient of a length is a length.                                     *)
LEMMA QuotientNat == \A a \in Nat : \A w \in Nat \ {0} : a \div w \in Nat
OBVIOUS

(* The elements of a float array lie inside its bytes. *)
LEMMA ElementsInside ==
  ASSUME NEW len \in Nat, NEW w \in Nat \ {0}, NEW k \in 1 .. len \div w
  PROVE  (k - 1) * w + 1 \in Nat \ {0} /\ k * w \in Nat /\ k * w <= len
         /\ k * w - ((k - 1) * w + 1) + 1 = w
<1>1. (len \div w) * w <= len
  OBVIOUS
<1>2. k * w <= (len \div w) * w /\ k * w >= 0 /\ (k - 1) * w >= 0
  OBVIOUS
<1>3. (k - 1) * w = k * w - w
  OBVIOUS
<1>4. k * w \in Int /\ (len \div w) * w \in Int
  OBVIOUS
<1> DEFINE p == k * w
           q == (len \div w) * w
<1>5. p \in Int /\ q \in Int /\ q <= len /\ p <= q /\ p >= 0 /\ p - w >= 0
  BY <1>1, <1>2, <1>3, <1>4
<1>6. (k - 1) * w = p - w
  BY <1>3
<1> HIDE DEF p, q
<1>7. p - w + 1 \in Nat \ {0} /\ p \in Nat /\ p <= len /\ p - (p - w + 1) + 1 = w
  BY <1>5
<1> QED BY <1>6, <1>7 DEF p

(* A float array: its count takes at most MaxCountLen bytes, since a longer*)
(* array was rejected before a byte of it was reserved.                    *)
LEMMA FloatArrayReserved ==
  ASSUME NEW c, NEW w \in Nat \ {0}, NEW sub, c.v \in Seq(Int), 1 + w <= MaxVarintLen,
         Len(c.v) \div w <= ArrayMax, VarintLen(w * 8 + sub) = 1
  PROVE  FieldUnits(FloatArrayUnits(c, w, sub))
<1> DEFINE count == Len(c.v) \div w
           head  == Header(c.id, 5) \o PutUvarint(count)
           bytes == head \o PutUvarint(w * 8 + sub)
           need  == MaxVarintLen + MaxCountLen + 1
           elements == [k \in 1 .. count |-> Unit(w, SubSeq(c.v, (k - 1) * w + 1, k * w))]
<1>0. Len(c.v) \in Nat
  BY LenProperties
<1>1. count \in Nat /\ Len(c.v) \in Nat /\ count <= ArrayMax
  BY <1>0, QuotientNat
<1> HIDE DEF count
<1>2. VarintLen(count) <= MaxCountLen
  BY <1>1, ReservationAssumption, EncoderAssumption
<1>3. Listed(head) /\ Len(head) <= MaxVarintLen + MaxCountLen /\ Len(head) \in Nat
  <2>1. Listed(head) /\ Len(head) = Len(Header(c.id, 5)) + VarintLen(count)
    BY TwoVarints
  <2>2. Len(Header(c.id, 5)) \in 1 .. MaxVarintLen /\ VarintLen(count) \in 1 .. MaxVarintLen
    BY HeaderBytes, VarintLenBounds
  <2> HIDE DEF head
  <2> QED BY <1>2, <2>1, <2>2, VarintAssumption, EncoderAssumption
<1>4. Listed(bytes) /\ Len(bytes) <= need
  <2> HIDE DEF head
  <2> QED BY <1>3, VarintBytes, ConcatListed, VarintAssumption, EncoderAssumption
<1>5. need \in 1 .. MinOutputBuffer
  BY VarintAssumption, EncoderAssumption DEF MinOutputBuffer
<1>6. FieldUnits(<<Unit(need, bytes)>>)
  <2> HIDE DEF bytes, need
  <2> QED BY <1>4, <1>5, UnitReserved, OneUnit
<1>7. elements = [k \in 1 .. count |-> elements[k]]
  OBVIOUS
<1>8. ASSUME NEW k \in 1 .. count
      PROVE  Reserved(elements[k]) /\ ~elements[k].closes
  <2> DEFINE from == (k - 1) * w + 1
             to == k * w
             element == SubSeq(c.v, from, to)
  <2>1. from \in Nat \ {0} /\ to \in Nat /\ to <= Len(c.v) /\ to - from + 1 = w
    BY <1>1, ElementsInside DEF count
  <2>2. elements[k] = Unit(w, element)
    OBVIOUS
  <2> HIDE DEF from, to, elements
  <2>3. Listed(element) /\ Len(element) = w
    BY <1>1, <2>1, SeqIsListed, SubListed
  <2>4. w \in 1 .. MinOutputBuffer
    BY VarintAssumption DEF MinOutputBuffer
  <2> HIDE DEF element
  <2>5. Reserved(Unit(w, element)) /\ ~Unit(w, element).closes
    BY <2>3, <2>4, UnitReserved
  <2> QED BY <2>2, <2>5
<1>9. FieldUnits(elements)
  <2> HIDE DEF elements
  <2> QED BY <1>1, <1>7, <1>8, TabulatedIsListed DEF FieldUnits
<1> QED BY <1>6, <1>9, MoreUnits DEF FloatArrayUnits, count

(***************************************************************************)
(* The invariant                                                           *)
(***************************************************************************)
(* What a call in progress has yet to write was all reserved narrowly       *)
(* enough, and an end marker comes last, while its sequence is open.       *)
CallInv ==
  /\ depth \in 0 .. maxDepth /\ Listed(pending) /\ Len(pending) <= depth
  /\ Listed(todo) /\ \A k \in 1 .. Len(todo) : Reserved(todo[k])
  /\ \A k \in 1 .. Len(todo) :
       todo[k].closes => k = Len(todo) /\ depth > 0 /\ pending = <<>>

(* The cursors, and the room a drained window has when there is a sink. *)
WindowInv ==
  /\ form \in Forms /\ buf \in Memory /\ installed \in BOOLEAN
  /\ n \in Nat /\ start \in Nat /\ start <= n /\ n <= Size(buf)
  /\ staged.dst \in Memory /\ staged.n \in Nat /\ staged.start \in Nat
  /\ staged.start <= staged.n /\ staged.n <= Size(staged.dst)
  /\ staging => start = 0
  /\ ~Sinkless => Size(buf) - start >= MinOutputBuffer

(* An error ends the call; ErrBufferFull says that the staged tail did not *)
(* fit back.                                                               *)
ErrorInv ==
  /\ err \in {"nil", "ErrArgument", "ErrBufferFull", "sinkErr", "writeErr"}
  /\ err = "ErrBufferFull" =>
       Sinkless /\ staging /\ todo = <<>> /\ n > Size(staged.dst) - staged.n

(* The header room is what comes before the start of the installation. *)
FrameInv ==
  /\ \A b \in Memory : DOMAIN mem[b] = 1 .. Size(b)
  /\ Listed(frame) /\ Len(frame) = IF staging THEN staged.start ELSE start
  /\ HeaderRoomKept

(* The inductive invariant of the cursors, the reservations and the room.  *)
EncoderInv == OwnsTarget /\ CallInv /\ WindowInv /\ ErrorInv /\ FrameInv

(***************************************************************************)
(* Calls                                                                   *)
(***************************************************************************)
(* Steps that leave the window, what it was installed with and memory alone. *)
WindowKept == UNCHANGED <<form, window, installed, tail, mem, owners>>

(* A call that is accepted queues units that are all reserved.             *)
LEMMA WriteKeepsCall ==
  ASSUME CallInv, ErrorInv, err = "nil", NEW c, NEW units, Write(c, units),
         FieldUnits(units) \/ (units = <<EndMarker>> /\ depth > 0)
  PROVE  CallInv' /\ ErrorInv' /\ WindowKept
<1>1. /\ todo' = CommitPending \o units /\ pending' = <<>>
      /\ UNCHANGED <<form, window, err, depth, installed, tail, mem, owners>>
  BY DEF Write
<1>2. FieldUnits(CommitPending)
  BY CommitUnits DEF CallInv, Listed
<1>3. Listed(pending') /\ Len(pending') = 0
  BY <1>1, EmptyListed
<1>4. CASE FieldUnits(units)
  <2>1. FieldUnits(todo')
    BY <1>1, <1>2, <1>4, MoreUnits
  <2> QED BY <1>1, <1>3, <2>1 DEF CallInv, ErrorInv, FieldUnits, WindowKept
<1>5. CASE units = <<EndMarker>> /\ depth > 0
  <2>1. EndedUnits(todo')
    BY <1>1, <1>2, <1>5, EndMarkerLast
  <2> QED BY <1>1, <1>3, <1>5, <2>1 DEF CallInv, ErrorInv, EndedUnits, WindowKept
<1> QED BY <1>4, <1>5

(* A call that is rejected leaves the call and the window alone.           *)
LEMMA RejectKeepsCall ==
  ASSUME CallInv, ErrorInv, RejectArgument
  PROVE  CallInv' /\ ErrorInv' /\ WindowKept
<1>1. /\ err' = IF err = "nil" THEN "ErrArgument" ELSE err
      /\ UNCHANGED <<form, window, nesting, installed, tail, todo, mem, owners>>
  BY DEF RejectArgument
<1> QED BY <1>1 DEF CallInv, ErrorInv, WindowKept, Sinkless, window, nesting, tail, owners

(* Either way, when the units are reserved whenever the count is allowed.  *)
LEMMA WriteOrRejectKeepsCall ==
  ASSUME CallInv, ErrorInv, NEW c, NEW count, NEW units, WriteOrReject(c, count, units),
         ~(count > ArrayMax) => FieldUnits(units)
  PROVE  CallInv' /\ ErrorInv' /\ WindowKept
BY WriteKeepsCall, RejectKeepsCall DEF WriteOrReject, Ready

(* Every Write call, and every rejection, keeps what the calls promise.    *)
LEMMA CallKeepsInv ==
  ASSUME CallInv, ErrorInv,
         \/ WriteUnsigned \/ WriteSigned \/ WriteFloat \/ WriteString \/ WriteBytes
         \/ WriteIntArray \/ WriteFloatArray
         \/ WriteSequenceBeginLazy \/ WriteSequenceEnd \/ WriteSequenceEndKeep
         \/ RejectArgument
  PROVE  CallInv' /\ ErrorInv' /\ WindowKept
<1>1. CASE WriteUnsigned
  BY <1>1, WriteOrRejectKeepsCall, ScalarReserved DEF WriteUnsigned
<1>2. CASE WriteSigned
  BY <1>2, WriteOrRejectKeepsCall, ScalarReserved DEF WriteSigned
<1>3. CASE WriteFloat
  <2>1. ASSUME NEW c \in Calls, c.m = "WriteFloat32", WriteOrReject(c, 0, FloatUnits(c, Fp32Width, 0))
        PROVE  CallInv' /\ ErrorInv' /\ WindowKept
    <3>1. FieldUnits(FloatUnits(c, Fp32Width, 0))
      BY <2>1, FloatWord, FloatReserved, CallsAssumption, ReservationAssumption, EncoderAssumption
    <3> QED BY <2>1, <3>1, WriteOrRejectKeepsCall
  <2>2. ASSUME NEW c \in Calls, c.m = "WriteFloat64", WriteOrReject(c, 0, FloatUnits(c, Fp64Width, 1))
        PROVE  CallInv' /\ ErrorInv' /\ WindowKept
    <3>1. FieldUnits(FloatUnits(c, Fp64Width, 1))
      BY <2>2, FloatReserved, CallsAssumption, ReservationAssumption, EncoderAssumption
    <3> QED BY <2>2, <3>1, WriteOrRejectKeepsCall
  <2> QED BY <1>3, <2>1, <2>2 DEF WriteFloat
<1>4. CASE WriteString \/ WriteBytes
  BY <1>4, WriteOrRejectKeepsCall, RejectKeepsCall, FixlenReserved, CallsAssumption
  DEF WriteString, WriteBytes
<1>5. CASE WriteIntArray
  <2>1. ASSUME NEW c \in Calls PROVE Len(c.v) \in Nat
    BY CallsAssumption, LenProperties
  <2>2. ASSUME NEW c \in Calls
        PROVE  LET codes == [k \in 1 .. Len(c.v) |-> ZigzagEncode(c.v[k])] IN Len(codes) \in Nat
    <3> DEFINE codes == [k \in 1 .. Len(c.v) |-> ZigzagEncode(c.v[k])]
    <3>1. codes = [k \in 1 .. Len(c.v) |-> codes[k]]
      OBVIOUS
    <3> HIDE DEF codes
    <3>2. Len(codes) \in Nat
      BY <2>1, <3>1, TabulatedIsListed
    <3> QED BY <3>2 DEF codes
  <2> QED BY <1>5, <2>1, <2>2, WriteOrRejectKeepsCall, IntArrayReserved DEF WriteIntArray
<1>6. CASE WriteFloatArray
  <2>1. ASSUME NEW c \in Calls, NEW w \in {Fp32Width, Fp64Width}
        PROVE  c.v \in Seq(Int) /\ Len(c.v) \div w \in Nat
    BY CallsAssumption, LenProperties, QuotientNat, EncoderAssumption
  <2>2. ASSUME NEW c \in Calls, WriteOrReject(c, Len(c.v) \div Fp32Width, FloatArrayUnits(c, Fp32Width, 0))
        PROVE  CallInv' /\ ErrorInv' /\ WindowKept
    <3>1. ~(Len(c.v) \div Fp32Width > ArrayMax) => FieldUnits(FloatArrayUnits(c, Fp32Width, 0))
      BY <2>1, FloatWord, AtMost, FloatArrayReserved, EncoderAssumption
    <3> QED BY <2>2, <3>1, WriteOrRejectKeepsCall
  <2>3. ASSUME NEW c \in Calls, WriteOrReject(c, Len(c.v) \div Fp64Width, FloatArrayUnits(c, Fp64Width, 1))
        PROVE  CallInv' /\ ErrorInv' /\ WindowKept
    <3>1. ~(Len(c.v) \div Fp64Width > ArrayMax) => FieldUnits(FloatArrayUnits(c, Fp64Width, 1))
      BY <2>1, FloatWord, AtMost, FloatArrayReserved, EncoderAssumption
    <3> QED BY <2>3, <3>1, WriteOrRejectKeepsCall
  <2> QED BY <1>6, <2>2, <2>3 DEF WriteFloatArray
<1>7. CASE WriteSequenceBeginLazy
  <2>1. PICK c \in Calls :
          \/ RejectArgument
          \/ /\ ~(depth >= maxDepth) /\ err = "nil" /\ todo = <<>>
             /\ pending' = Append(pending, c.id) /\ depth' = depth + 1
             /\ UNCHANGED <<form, window, err, installed, tail, todo, mem, owners>>
    BY <1>7 DEF WriteSequenceBeginLazy, Ready, Idle
  <2>2. CASE RejectArgument
    BY <2>2, RejectKeepsCall
  <2>3. CASE /\ ~(depth >= maxDepth) /\ err = "nil" /\ todo = <<>>
             /\ pending' = Append(pending, c.id) /\ depth' = depth + 1
             /\ UNCHANGED <<form, window, err, installed, tail, todo, mem, owners>>
    <3>1. Listed(pending') /\ Len(pending') = Len(pending) + 1 /\ Len(pending) \in Nat
      BY <2>3, AppendListed DEF CallInv, Listed
    <3>2. Len(todo) = 0 /\ Listed(todo)
      BY <2>3, EmptyListed
    <3>3. depth' \in 0 .. maxDepth /\ Len(pending') <= depth'
      BY <2>3, <3>1, MaxDepthNat DEF CallInv
    <3> QED BY <2>3, <3>1, <3>2, <3>3 DEF CallInv, ErrorInv, WindowKept
  <2> QED BY <2>1, <2>2, <2>3
<1>8. CASE WriteSequenceEnd
  <2>1. \/ RejectArgument
        \/ /\ depth # 0 /\ pending # <<>> /\ err = "nil" /\ todo = <<>>
           /\ pending' = SubSeq(pending, 1, Len(pending) - 1) /\ depth' = depth - 1
           /\ UNCHANGED <<form, window, err, installed, tail, todo, mem, owners>>
        \/ depth # 0 /\ err = "nil" /\ Write(End("WriteSequenceEnd"), <<EndMarker>>)
    BY <1>8 DEF WriteSequenceEnd, Ready, Idle
  <2>2. CASE RejectArgument
    BY <2>2, RejectKeepsCall
  <2>3. CASE /\ depth # 0 /\ pending # <<>> /\ err = "nil" /\ todo = <<>>
             /\ pending' = SubSeq(pending, 1, Len(pending) - 1) /\ depth' = depth - 1
             /\ UNCHANGED <<form, window, err, installed, tail, todo, mem, owners>>
    <3>1. Len(pending) \in Nat \ {0}
      BY <2>3, EmptyIffLen DEF CallInv, Listed
    <3> DEFINE last == Len(pending) - 1
    <3>2. Listed(pending') /\ Len(pending') = last
      <4>1. last \in 0 .. Len(pending) /\ 1 <= last + 1 /\ last - 1 + 1 = last /\ 1 \in Nat \ {0}
        BY <3>1
      <4> HIDE DEF last
      <4>2. Listed(SubSeq(pending, 1, last)) /\ Len(SubSeq(pending, 1, last)) = last - 1 + 1
        BY <4>1, SubListed DEF CallInv
      <4> QED BY <2>3, <4>1, <4>2 DEF last
    <3>3. Len(todo) = 0 /\ Listed(todo)
      BY <2>3, EmptyListed
    <3> QED BY <2>3, <3>1, <3>2, <3>3, MaxDepthNat DEF CallInv, ErrorInv, WindowKept
  <2>4. CASE depth # 0 /\ err = "nil" /\ Write(End("WriteSequenceEnd"), <<EndMarker>>)
    BY <2>4, WriteKeepsCall, MaxDepthNat DEF CallInv
  <2> QED BY <2>1, <2>2, <2>3, <2>4
<1>9. CASE WriteSequenceEndKeep
  BY <1>9, WriteKeepsCall, RejectKeepsCall, MaxDepthNat DEF WriteSequenceEndKeep, Ready, CallInv
<1>10. CASE RejectArgument
  BY <1>10, RejectKeepsCall
<1> QED BY <1>1, <1>2, <1>3, <1>4, <1>5, <1>6, <1>7, <1>8, <1>9, <1>10

(***************************************************************************)
(* Making room                                                             *)
(***************************************************************************)
LEMMA BetweenBytes ==
  ASSUME NEW b, NEW from \in Nat, NEW to \in Nat, from <= to
  PROVE  Listed(Between(b, from, to)) /\ Len(Between(b, from, to)) = to - from
<1>1. Between(b, from, to) = [i \in 1 .. to - from |-> Between(b, from, to)[i]] /\ to - from \in Nat
  BY DEF Between
<1> QED BY <1>1, TabulatedIsListed

(* A sequence tabulated over no index is empty.                            *)
LEMMA NoEntries == ASSUME NEW s, s = [i \in 1 .. 0 |-> s[i]] PROVE Listed(s) /\ Len(s) = 0
BY TabulatedIsListed

(* With a writer or a sink nothing is staged.                              *)
LEMMA SinkOrWriter == OwnsTarget /\ ~Sinkless => ~staging /\ Target = buf
BY DEF OwnsTarget, Sinkless, Target

(* Nothing of the window changes. *)
LEMMA KeptWindow ==
  ASSUME WindowInv, FrameInv, UNCHANGED <<form, window, tail, mem, frame>>, installed' \in BOOLEAN
  PROVE  WindowInv' /\ FrameInv'
BY DEF WindowInv, FrameInv, HeaderRoomKept, Between, Target, Sinkless, window, tail

(* The window is rewound: all of it is room again. *)
LEMMA RewoundWindow ==
  ASSUME OwnsTarget, WindowInv, FrameInv, ~Sinkless,
         Rewind, UNCHANGED <<form, tail, mem>>, installed' \in BOOLEAN
  PROVE  WindowInv' /\ FrameInv' /\ Size(buf') - n' >= MinOutputBuffer
<1>1. buf' = buf /\ n' = 0 /\ start' = 0 /\ frame' = <<>>
  BY DEF Rewind
<1>2. Size(buf) \in Nat /\ Size(buf) >= MinOutputBuffer /\ MinOutputBuffer \in Nat
  BY SizeNat DEF WindowInv
<1>3. Listed(frame') /\ Len(frame') = 0
  BY <1>1, EmptyListed
<1>4. ~staging'
  BY SinkOrWriter DEF tail
<1>5. HeaderRoomKept'
  <2> DEFINE room == Between(Target, 0, Len(frame))'
  <2>1. room = [i \in 1 .. 0 |-> room[i]]
    BY <1>3 DEF Between
  <2> HIDE DEF room
  <2>2. room = <<>>
    BY <2>1, NoEntries, EmptyIffLen
  <2> QED BY <1>1, <2>2 DEF HeaderRoomKept, room
<1>6. WindowInv'
  BY <1>1, <1>2 DEF WindowInv, Sinkless, tail
<1>7. FrameInv'
  <2>1. \A b \in Memory : DOMAIN mem'[b] = 1 .. Size(b)
    BY DEF FrameInv
  <2> QED BY <1>1, <1>3, <1>4, <1>5, <2>1 DEF FrameInv
<1> QED BY <1>1, <1>2, <1>6, <1>7

(* Another buffer is installed, large enough for a sink. *)
LEMMA InstalledWindow ==
  ASSUME WindowInv, FrameInv, form # "writer",
         NEW b \in Buffers, NEW o \in Offsets, Installable(form, b, o), Install(b, o),
         ~staging', UNCHANGED <<form, staged, mem>>, installed' \in BOOLEAN
  PROVE  WindowInv' /\ FrameInv' /\ (~Sinkless => Size(buf') - n' >= MinOutputBuffer)
<1>1. buf' = b /\ n' = o /\ start' = o /\ frame' = Between(b, 0, o)
  BY DEF Install
<1>2. o \in Nat /\ Size(b) \in Nat /\ o <= Size(b) /\ b \in Memory
  BY EncoderAssumption, SizeNat DEF Installable, Memory
<1>3. ~Sinkless => Size(b) - o >= MinOutputBuffer
  <2>1. form \in {"writer", "buffer", "sink"}
    BY EncoderAssumption DEF WindowInv
  <2> QED BY <2>1, SizeNat DEF Installable, Sinkless
<1>4. Listed(frame') /\ Len(frame') = o
  BY <1>1, <1>2, BetweenBytes
<1>5. Between(Target, 0, Len(frame))' = frame'
  BY <1>1, <1>4 DEF Between, Target
<1>6. WindowInv'
  BY <1>1, <1>2, <1>3 DEF WindowInv, Sinkless
<1>7. FrameInv'
  BY <1>1, <1>4, <1>5 DEF FrameInv, HeaderRoomKept
<1> QED BY <1>1, <1>3, <1>6, <1>7 DEF Sinkless

(* With a writer or a sink, a drain keeps the window sound and never reports *)
(* a full buffer for what is reserved at once.                             *)
LEMMA DrainMakesRoom ==
  ASSUME OwnsTarget, WindowInv, FrameInv, ErrorInv, ~Sinkless,
         NEW k \in 0 .. MinOutputBuffer, Drain(k), UNCHANGED form
  PROVE  WindowInv' /\ FrameInv' /\ ErrorInv'
<1>1. UNCHANGED <<tail, mem, form>> /\ ~staging /\ UNCHANGED <<staging, staged>>
  BY SinkOrWriter DEF Drain, tail
<1>2. /\ err \in {"nil", "ErrArgument", "sinkErr", "writeErr"}
      /\ n \in Nat /\ start \in Nat /\ start <= n /\ Size(buf) - start >= MinOutputBuffer
      /\ buf \in Memory /\ installed \in BOOLEAN
  BY DEF ErrorInv, WindowInv
<1>3. Size(buf) \in Nat /\ MinOutputBuffer \in Nat
  BY <1>2, SizeNat
<1>4. ASSUME Size(buf') - n' >= MinOutputBuffer, WindowInv', FullUnless(k)
      PROVE  err' = err
  <2>1. Size(buf') \in Nat /\ n' \in Nat
    BY <1>4, SizeNat DEF WindowInv
  <2> QED BY <1>3, <1>4, <2>1 DEF FullUnless
<1>5. ASSUME err' \in {"nil", "ErrArgument", "sinkErr", "writeErr"}
      PROVE  ErrorInv'
  BY <1>5 DEF ErrorInv
<1>6. CASE n <= start /\ UNCHANGED <<window, owners, installed>> /\ FullUnless(k)
  <2>1. WindowInv' /\ FrameInv'
    BY <1>1, <1>2, <1>6, KeptWindow DEF owners
  <2>2. Size(buf') - n' >= MinOutputBuffer
    BY <1>2, <1>3, <1>6 DEF window
  <2> QED BY <1>2, <1>4, <1>5, <1>6, <2>1, <2>2
<1>7. CASE Rewind /\ FullUnless(k) /\ installed' \in BOOLEAN
  <2>1. WindowInv' /\ FrameInv' /\ Size(buf') - n' >= MinOutputBuffer
    BY <1>1, <1>7, RewoundWindow
  <2> QED BY <1>2, <1>4, <1>5, <1>7, <2>1
<1>8. CASE UNCHANGED <<window, frame>> /\ installed' \in BOOLEAN
           /\ err' \in {"sinkErr", "ErrArgument", "writeErr"}
  <2>1. WindowInv' /\ FrameInv'
    BY <1>1, <1>8, KeptWindow
  <2> QED BY <1>5, <1>8, <2>1
<1>9. CASE SinkInstalls /\ form = "sink" /\ (FullUnless(k) \/ err' \in {"sinkErr", "ErrArgument"})
  <2>1. PICK b \in Buffers, o \in Offsets : Installable(form, b, o) /\ Install(b, o) /\ installed'
    BY <1>9 DEF SinkInstalls
  <2>2. WindowInv' /\ FrameInv' /\ Size(buf') - n' >= MinOutputBuffer
    BY <1>1, <1>9, <2>1, InstalledWindow
  <2> QED BY <1>2, <1>4, <1>5, <1>9, <2>2
<1> QED BY <1>2, <1>6, <1>7, <1>8, <1>9
     DEF Drain, SinkTakes, SinkFails, FlagBeforeSink, owners

(* What is stored behind the header room does not touch it. *)
LEMMA StoreKeepsFrame ==
  ASSUME OwnsTarget, WindowInv, FrameInv, NEW d \in Memory, NEW p \in Nat, NEW b, Store(d, p, b),
         d # Target \/ Len(frame) <= p, UNCHANGED frame, Target' = Target,
         Len(frame) = IF staging' THEN staged'.start ELSE start'
  PROVE  FrameInv'
<1>1. /\ DOMAIN mem = Memory /\ DOMAIN mem' = Memory
      /\ \A x \in Memory : DOMAIN mem'[x] = DOMAIN mem[x]
      /\ \A x \in Memory : \A i \in DOMAIN mem[x] : x # d \/ i <= p => mem'[x][i] = mem[x][i]
  <2>1. DOMAIN mem = Memory
    BY DEF OwnsTarget
  <2>2. mem'[d] = [i \in DOMAIN mem[d] |-> IF i \in p + 1 .. p + Len(b) THEN b[i - p] ELSE mem[d][i]]
    BY <2>1 DEF Store
  <2>3. DOMAIN mem' = Memory /\ \A x \in Memory : x # d => mem'[x] = mem[x]
    BY <2>1, StoreSparesOthers
  <2>4. \A x \in Memory : DOMAIN mem[x] = 1 .. Size(x) /\ Size(x) \in Nat
    BY SizeNat DEF FrameInv
  <2>5. ASSUME NEW i \in DOMAIN mem[d], i <= p PROVE mem'[d][i] = mem[d][i]
    <3>1. i \in Nat /\ i \notin p + 1 .. p + Len(b)
      BY <2>4, <2>5
    <3> QED BY <2>2, <3>1
  <2> QED BY <2>1, <2>2, <2>3, <2>5
<1>2. \A x \in Memory : DOMAIN mem'[x] = 1 .. Size(x)
  BY <1>1 DEF FrameInv
<1>3. Target \in Memory /\ Len(frame) \in Nat /\ Len(frame) <= Size(Target) /\ Size(Target) \in Nat
  BY SizeNat DEF FrameInv, WindowInv, Target, OwnsTarget
<1>4. ASSUME NEW i \in 1 .. Len(frame) PROVE mem'[Target][0 + i] = mem[Target][0 + i]
  <2>1. 0 + i \in DOMAIN mem[Target] /\ (Target # d \/ 0 + i <= p)
    BY <1>3 DEF FrameInv
  <2> QED BY <1>1, <1>3, <2>1
<1>5. Between(Target, 0, Len(frame))' = Between(Target, 0, Len(frame))
  BY <1>4 DEF Between
<1>6. HeaderRoomKept'
  BY <1>5 DEF HeaderRoomKept, FrameInv
<1> QED BY <1>2, <1>6 DEF FrameInv

(* spill copies the scratch out behind the staged bytes, or reports a full *)
(* buffer and ends the call.                                               *)
LEMMA SpillKeepsRoom ==
  ASSUME OwnsTarget, WindowInv, FrameInv, ErrorInv, staging, Spill, UNCHANGED form,
         err' # "nil" => todo' = <<>>
  PROVE  WindowInv' /\ FrameInv' /\ ErrorInv'
<1>1. /\ UNCHANGED <<form, buf, start, installed, staging, taken, frame>>
      /\ Target = staged.dst /\ Sinkless /\ start = 0 /\ buf = Scratch
  BY DEF Spill, owners, OwnsTarget, Target, WindowInv
<1>2. CASE n > Size(staged.dst) - staged.n
  <2>1. err' = "ErrBufferFull" /\ UNCHANGED <<n, staged, mem>>
    BY <1>2 DEF Spill
  <2>2. WindowInv' /\ FrameInv'
    BY <1>1, <2>1, KeptWindow DEF window, tail, WindowInv
  <2> QED BY <1>1, <1>2, <2>1, <2>2 DEF ErrorInv, Sinkless
<1>3. CASE ~(n > Size(staged.dst) - staged.n)
  <2>1. /\ Store(staged.dst, staged.n, Between(buf, 0, n))
        /\ staged' = [staged EXCEPT !.n = @ + n] /\ n' = 0 /\ UNCHANGED err
    BY <1>3 DEF Spill
  <2>2. staged'.dst = staged.dst /\ staged'.start = staged.start /\ staged'.n = staged.n + n
    BY <2>1 DEF OwnsTarget
  <2>3. Size(staged.dst) \in Nat /\ Size(Scratch) \in Nat
    BY SizeNat DEF WindowInv
  <2>4. WindowInv'
    BY <1>1, <1>3, <2>1, <2>2, <2>3 DEF WindowInv, Sinkless
  <2>5. FrameInv'
    <3>1. Len(frame) = staged.start /\ staged.start <= staged.n /\ staged.n \in Nat
          /\ staged.dst \in Memory
      BY DEF FrameInv, WindowInv
    <3>2. Target' = Target
      BY <1>1, <2>2 DEF Target
    <3> QED BY <1>1, <2>1, <2>2, <3>1, <3>2, StoreKeepsFrame
  <2>6. ErrorInv'
    BY <1>3, <2>1 DEF ErrorInv
  <2> QED BY <2>4, <2>5, <2>6
<1> QED BY <1>2, <1>3

(* stage moves the cursor into the scratch, where every reservation fits.  *)
LEMMA StageKeepsRoom ==
  ASSUME OwnsTarget, WindowInv, FrameInv, ErrorInv, Sinkless, Stage, UNCHANGED form,
         err' # "nil" => todo' = <<>>
  PROVE  WindowInv' /\ FrameInv' /\ ErrorInv'
<1>1. CASE staging
  BY <1>1, SpillKeepsRoom DEF Stage
<1>2. CASE ~staging
  <2>1. /\ staged' = [dst |-> buf, n |-> n, start |-> start] /\ staging' = TRUE
        /\ buf' = Scratch /\ n' = 0 /\ start' = 0
        /\ UNCHANGED <<err, installed, mem, taken, frame>>
    BY <1>2 DEF Stage, owners
  <2>2. Scratch \in Memory /\ Size(Scratch) \in Nat
    BY SizeNat DEF Memory
  <2>3. WindowInv'
    BY <2>1, <2>2 DEF WindowInv, Sinkless
  <2>4. Target' = Target /\ Target = buf
    BY <1>2, <2>1 DEF Target
  <2>5. FrameInv'
    <3>1. Between(Target, 0, Len(frame))' = Between(Target, 0, Len(frame))
      BY <2>1, <2>4 DEF Between
    <3> QED BY <1>2, <2>1, <3>1 DEF FrameInv, HeaderRoomKept
  <2>6. ErrorInv'
    BY <1>2, <2>1 DEF ErrorInv
  <2> QED BY <2>3, <2>5, <2>6
<1> QED BY <1>1, <1>2

(* A store into reserved room. *)
LEMMA PutKeepsRoom ==
  ASSUME OwnsTarget, WindowInv, FrameInv, ErrorInv, Writing, NEW b, Listed(b), Len(b) <= Room,
         Store(buf, n, b), n' = n + Len(b),
         UNCHANGED <<form, buf, start, err, installed, tail, owners>>
  PROVE  WindowInv' /\ FrameInv' /\ ErrorInv'
<1>1. /\ n \in Nat /\ Size(buf) \in Nat /\ Len(b) \in Nat /\ buf \in Memory
      /\ UNCHANGED <<staging, staged, frame>>
  BY SizeNat DEF WindowInv, Listed, tail, owners
<1>2. WindowInv'
  BY <1>1 DEF WindowInv, Room, Sinkless, tail
<1>3. Target' = Target
  BY <1>1 DEF Target
<1>4. buf # Target \/ Len(frame) <= n
  BY MemoryAssumption DEF OwnsTarget, FrameInv, WindowInv, Target, Sinkless
<1>5. Len(frame) = IF staging' THEN staged'.start ELSE start'
  BY <1>1 DEF FrameInv
<1>6. FrameInv'
  BY <1>1, <1>3, <1>4, <1>5, StoreKeepsFrame
<1>7. ErrorInv'
  BY DEF ErrorInv, Writing
<1> QED BY <1>2, <1>6, <1>7

(* What is left of a call is as it was. *)
LEMMA RestKeepsCall ==
  ASSUME CallInv, Writing, todo' = Tail(todo), pending' = pending,
         depth' = IF Next1.closes THEN depth - 1 ELSE depth
  PROVE  CallInv'
<1>1. /\ Listed(todo') /\ Len(todo') = Len(todo) - 1 /\ Len(todo) \in Nat \ {0}
      /\ \A i \in 1 .. Len(todo) - 1 : todo'[i] = todo[i + 1]
  BY TailListed DEF CallInv, Writing
<1>2. maxDepth \in Nat
  BY MaxDepthNat
<1>3. \A k \in 1 .. Len(todo') : k + 1 \in 1 .. Len(todo) /\ todo'[k] = todo[k + 1]
  BY <1>1
<1>4. Next1.closes => Len(todo) = 1 /\ depth > 0 /\ pending = <<>>
  <2>1. 1 \in 1 .. Len(todo)
    BY <1>1
  <2>2. \A k \in 1 .. Len(todo) :
          todo[k].closes => k = Len(todo) /\ depth > 0 /\ pending = <<>>
    BY DEF CallInv
  <2>3. todo[1].closes => 1 = Len(todo) /\ depth > 0 /\ pending = <<>>
    BY <2>1, <2>2
  <2> QED BY <2>3 DEF Next1
<1>5. depth' \in 0 .. maxDepth /\ Len(pending') <= depth'
  BY <1>2, <1>4, EmptyListed DEF CallInv
<1>6. ASSUME NEW k \in 1 .. Len(todo')
      PROVE  Reserved(todo'[k]) /\ (todo'[k].closes => k = Len(todo') /\ depth' > 0 /\ pending' = <<>>)
  <2>1. k + 1 \in 1 .. Len(todo) /\ todo'[k] = todo[k + 1] /\ ~(Len(todo) = 1)
    BY <1>1, <1>3
  <2>2. Reserved(todo[k + 1])
        /\ (todo[k + 1].closes => k + 1 = Len(todo) /\ depth > 0 /\ pending = <<>>)
    BY <2>1 DEF CallInv
  <2>3. depth' = depth
    BY <1>4, <2>1
  <2>4. Reserved(todo'[k])
    BY <2>1, <2>2
  <2>5. ASSUME todo'[k].closes PROVE k = Len(todo') /\ depth' > 0 /\ pending' = <<>>
    <3>1. k + 1 = Len(todo) /\ depth > 0 /\ pending = <<>>
      BY <2>1, <2>2, <2>5
    <3>2. k \in Int /\ Len(todo') = Len(todo) - 1 /\ Len(todo) \in Int
      BY <1>1
    <3>3. k = Len(todo')
      BY <3>1, <3>2
    <3> QED BY <2>3, <3>1, <3>3
  <2> QED BY <2>4, <2>5
<1> QED BY <1>1, <1>5, <1>6 DEF CallInv

(* The unit at the head of the call is reserved.                           *)
LEMMA HeadReserved ==
  CallInv /\ Writing => Reserved(Next1) /\ Len(todo) \in Nat \ {0}
<1> SUFFICES ASSUME CallInv, Writing PROVE Reserved(Next1) /\ Len(todo) \in Nat \ {0}
  OBVIOUS
<1>1. Len(todo) \in Nat \ {0}
  BY TailListed DEF CallInv, Writing
<1>2. 1 \in 1 .. Len(todo)
  BY <1>1
<1> QED BY <1>1, <1>2 DEF CallInv, Next1

(* A payload's rest takes the place of the payload.                        *)
LEMMA HeadReplaced ==
  ASSUME CallInv, Writing, NEW u, Reserved(u), u.closes = Next1.closes,
         todo' = <<u>> \o Tail(todo), UNCHANGED nesting
  PROVE  CallInv'
<1>1. /\ Listed(Tail(todo)) /\ Len(Tail(todo)) = Len(todo) - 1 /\ Len(todo) \in Nat \ {0}
      /\ \A i \in 1 .. Len(todo) - 1 : Tail(todo)[i] = todo[i + 1]
  BY TailListed DEF CallInv, Writing
<1>2. Listed(<<u>>) /\ Len(<<u>>) = 1 /\ <<u>>[1] = u
  BY OneListed
<1>3. /\ Listed(todo') /\ Len(todo') = Len(<<u>>) + Len(Tail(todo))
      /\ \A i \in 1 .. Len(<<u>>) : todo'[i] = <<u>>[i]
      /\ \A i \in 1 .. Len(Tail(todo)) : todo'[Len(<<u>>) + i] = Tail(todo)[i]
  <2>1. Listed(Tail(todo)) /\ Listed(<<u>>)
    BY <1>1, <1>2
  <2> QED BY ONLY <2>1, ConcatListed, todo' = <<u>> \o Tail(todo)
<1>4. Len(todo') = Len(todo) /\ todo'[1] = u
  BY <1>1, <1>2, <1>3
<1>5. ASSUME NEW k \in 2 .. Len(todo) PROVE todo'[k] = todo[k]
  <2>1. k - 1 \in 1 .. Len(todo) - 1 /\ 1 + (k - 1) = k /\ (k - 1) + 1 = k
    BY <1>1
  <2>2. todo'[Len(<<u>>) + (k - 1)] = Tail(todo)[k - 1] /\ Tail(todo)[k - 1] = todo[(k - 1) + 1]
    BY <1>1, <1>3, <2>1
  <2> QED BY <1>2, <2>1, <2>2
<1>6. ASSUME NEW k \in 1 .. Len(todo)
      PROVE  Reserved(todo'[k]) /\ (todo'[k].closes = todo[k].closes)
  <2>1. CASE k = 1
    BY <1>4, <2>1 DEF Next1
  <2>2. CASE k \in 2 .. Len(todo)
    BY <1>5, <2>2 DEF CallInv
  <2> QED BY <1>1, <2>1, <2>2
<1> QED BY <1>3, <1>4, <1>6 DEF CallInv, nesting

(* A unit is stored in reserved room, behind the header room.              *)
LEMMA PutUnitKeeps == EncoderInv /\ PutUnit => CallInv' /\ WindowInv' /\ FrameInv' /\ ErrorInv'
<1> SUFFICES ASSUME EncoderInv, PutUnit PROVE CallInv' /\ WindowInv' /\ FrameInv' /\ ErrorInv'
  OBVIOUS
<1> USE DEF EncoderInv
<1>1. CallInv'
  BY RestKeepsCall DEF PutUnit
<1>2. /\ Listed(Next1.bytes) /\ Len(Next1.bytes) <= Next1.need /\ Next1.need \in Nat
      /\ Room >= Next1.need /\ Room \in Int
  BY HeadReserved, SizeNat, SMTT(30) DEF PutUnit, Reserved, Room, WindowInv
<1>3. Len(Next1.bytes) <= Room
  BY <1>2 DEF Listed
<1> QED BY <1>1, <1>2, <1>3, PutKeepsRoom DEF PutUnit

(* The piece of a payload that fits now, and the rest of it. *)
LEMMA PutPayloadKeeps == EncoderInv /\ PutPayload => CallInv' /\ WindowInv' /\ FrameInv' /\ ErrorInv'
<1> SUFFICES ASSUME EncoderInv, PutPayload PROVE CallInv' /\ WindowInv' /\ FrameInv' /\ ErrorInv'
  OBVIOUS
<1> USE DEF EncoderInv
<1> DEFINE b == Next1.bytes
           c == IF Len(b) < Room THEN Len(b) ELSE Room
           piece == SubSeq(b, 1, c)
           rest == SubSeq(b, c + 1, Len(b))
<1>1. Reserved(Next1) /\ Len(todo) \in Nat \ {0} /\ Listed(b)
  BY HeadReserved DEF PutPayload, Reserved
<1>2. Room \in Nat /\ Len(b) \in Nat /\ c \in 0 .. Len(b) /\ c <= Room
  <2>1. Room \in Int /\ Room >= Next1.need /\ Next1.need \in Nat
    BY <1>1, SizeNat, SMTT(30) DEF PutPayload, Reserved, Room, WindowInv
  <2> QED BY <1>1, <2>1, SMTT(30) DEF Listed
<1>3. /\ Store(buf, n, piece) /\ n' = n + c /\ Writing /\ Next1.split
      /\ todo' = IF c = Len(b) THEN Tail(todo) ELSE <<[Next1 EXCEPT !.bytes = rest]>> \o Tail(todo)
      /\ UNCHANGED <<form, buf, start, err, nesting, installed, tail, owners>>
  BY DEF PutPayload
<1> HIDE DEF c
<1>4. Listed(piece) /\ Len(piece) = c
  <2> HIDE DEF b
  <2> QED BY <1>1, <1>2, FirstListed
<1>5. Listed(rest)
  <2>1. c + 1 \in Nat \ {0} /\ Len(b) \in 0 .. Len(b) /\ c + 1 <= Len(b) + 1
    BY <1>2
  <2> HIDE DEF b
  <2> QED BY <1>1, <2>1, SubListed
<1>6. WindowInv' /\ FrameInv' /\ ErrorInv'
  <2> HIDE DEF piece
  <2> QED BY <1>2, <1>3, <1>4, PutKeepsRoom
<1>7. CallInv'
  <2>1. CASE c = Len(b)
    <3>1. ~Next1.closes
      BY <1>1, <1>3 DEF Reserved
    <3> QED BY <1>3, <2>1, <3>1, RestKeepsCall DEF nesting
  <2>2. CASE c # Len(b)
    <3> DEFINE u == [Next1 EXCEPT !.bytes = rest]
    <3>1. Reserved(u) /\ u.closes = Next1.closes
      <4> HIDE DEF rest
      <4> QED BY <1>1, <1>3, <1>5 DEF Reserved
    <3> HIDE DEF u
    <3>2. CallInv /\ todo' = <<u>> \o Tail(todo) /\ UNCHANGED nesting
      BY <1>3, <2>2 DEF u
    <3> QED BY <1>3, <3>1, <3>2, HeadReplaced
  <2> QED BY <2>1, <2>2
<1> QED BY <1>6, <1>7

(***************************************************************************)
(* Theorems                                                                *)
(***************************************************************************)
LEMMA MakeRoomKeeps == EncoderInv /\ MakeRoom => CallInv' /\ WindowInv' /\ FrameInv' /\ ErrorInv'
<1> SUFFICES ASSUME EncoderInv, MakeRoom PROVE CallInv' /\ WindowInv' /\ FrameInv' /\ ErrorInv'
  OBVIOUS
<1> USE DEF EncoderInv
<1>1. /\ Writing /\ UNCHANGED <<form, nesting>>
      /\ todo' = IF err' = "nil" THEN todo ELSE <<>>
      /\ IF Sinkless THEN Stage ELSE Drain(Next1.need)
  BY DEF MakeRoom, OrStop
<1>2. CallInv'
  <2>1. Listed(<<>>) /\ Len(<<>>) = 0
    BY EmptyListed
  <2> QED BY <1>1, <2>1 DEF CallInv, nesting
<1>3. Next1.need \in 0 .. MinOutputBuffer
  BY <1>1, HeadReserved, SizeNat DEF Reserved
<1> QED BY <1>1, <1>2, <1>3, StageKeepsRoom, DrainMakesRoom

(* Flush drains the window or spills the scratch; Bytes spills it.         *)
LEMMA FlushKeeps ==
  EncoderInv /\ (Flush \/ Bytes) => CallInv' /\ WindowInv' /\ FrameInv' /\ ErrorInv'
<1> SUFFICES ASSUME EncoderInv, Flush \/ Bytes PROVE CallInv' /\ WindowInv' /\ FrameInv' /\ ErrorInv'
  OBVIOUS
<1> USE DEF EncoderInv
<1>1. Idle /\ UNCHANGED <<form, nesting, todo>> /\ todo' = <<>>
  BY DEF Flush, Bytes, Idle
<1>2. CallInv'
  BY <1>1 DEF CallInv, nesting
<1>3. CASE staging /\ Spill
  BY <1>1, <1>2, <1>3, SpillKeepsRoom
<1>4. CASE ~Sinkless /\ Drain(0)
  <2>1. 0 \in 0 .. MinOutputBuffer
    BY SizeNat
  <2> QED BY <1>1, <1>2, <1>4, <2>1, DrainMakesRoom
<1> QED BY <1>3, <1>4 DEF Flush, Bytes

(* SetBuffer installs a buffer with the room its form requires, or refuses.*)
LEMMA SetBufferKeeps ==
  EncoderInv /\ SetBuffer => CallInv' /\ WindowInv' /\ FrameInv' /\ ErrorInv'
<1> SUFFICES ASSUME EncoderInv, SetBuffer PROVE CallInv' /\ WindowInv' /\ FrameInv' /\ ErrorInv'
  OBVIOUS
<1> USE DEF EncoderInv
<1>1. CASE RejectArgument
  BY <1>1, RejectKeepsCall, KeptWindow DEF WindowKept, owners, WindowInv
<1>2. CASE ~RejectArgument
  <2>1. PICK b \in Buffers, o \in Offsets :
          /\ form # "writer" /\ Installable(form, b, o) /\ Install(b, o) /\ err = "nil"
          /\ staging' = FALSE /\ installed' = TRUE
          /\ UNCHANGED <<form, err, nesting, staged, todo, mem>>
    BY <1>2 DEF SetBuffer
  <2>2. WindowInv' /\ FrameInv'
    BY <2>1, InstalledWindow
  <2>3. CallInv' /\ ErrorInv'
    BY <2>1 DEF CallInv, ErrorInv, nesting
  <2> QED BY <2>2, <2>3
<1> QED BY <1>1, <1>2

(* The inductive invariant: a step of a call needs its units reserved, a   *)
(* drain needs the window sound, and the room kept needs both.             *)
LEMMA EncoderInvHolds == Spec => []EncoderInv
<1>1. Init => EncoderInv
  <2> SUFFICES ASSUME Init PROVE EncoderInv
    OBVIOUS
  <2>1. OwnsTarget
    BY DEF Init, OwnsTarget, Target, Sinkless
  <2>2. CallInv
    BY EmptyListed, MaxDepthNat DEF Init, CallInv
  <2>3. /\ buf \in Memory /\ Size(buf) \in Nat /\ n \in Nat /\ n <= Size(buf)
        /\ ~Sinkless => Size(buf) - n >= MinOutputBuffer
    <3>1. CASE form = "writer"
      BY <3>1, SizeNat, EncoderAssumption DEF Init, Memory
    <3>2. CASE form # "writer"
      BY <3>2, SizeNat, EncoderAssumption DEF Init, Memory, Installable, Sinkless
    <3> QED BY <3>1, <3>2
  <2>4. WindowInv
    <3>1. form \in Forms /\ start = n /\ installed = FALSE /\ staging = FALSE
      BY DEF Init
    <3>2. staged = [dst |-> buf, n |-> 0, start |-> 0]
      BY DEF Init
    <3>3. staged.dst = buf /\ staged.n = 0 /\ staged.start = 0
      BY <3>2
    <3>4. ~staging
      BY <3>1
    <3>5. start \in Nat /\ n \in Nat /\ start <= n /\ (~Sinkless => Size(buf) - start >= MinOutputBuffer)
      BY <2>3, <3>1
    <3>6. staged.dst \in Memory /\ staged.n \in Nat /\ staged.start \in Nat
          /\ staged.start <= staged.n /\ staged.n <= Size(staged.dst)
      BY <2>3, <3>3
    <3>7. buf \in Memory /\ installed \in BOOLEAN /\ n <= Size(buf) /\ (staging => start = 0)
      BY <2>3, <3>1, <3>4, Zenon
    <3> QED BY <3>1, <3>5, <3>6, <3>7, Zenon DEF WindowInv
  <2>5. ErrorInv
    BY DEF Init, ErrorInv
  <2>6. FrameInv
    <3>1. frame = [i \in 1 .. n |-> frame[i]] /\ n \in Nat
      BY <2>3 DEF Init
    <3>2. Listed(frame) /\ Len(frame) = n
      BY <3>1, TabulatedIsListed
    <3>3. mem = [b \in Memory |-> [i \in 1 .. Size(b) |-> Blank]] /\ Target = buf
          /\ frame = [i \in 1 .. n |-> Blank] /\ ~staging /\ start = n
      BY DEF Init, Target
    <3>4. \A i \in 1 .. n - 0 : mem[buf][0 + i] = Blank
      BY <2>3, <3>3
    <3>5. Between(Target, 0, Len(frame)) = frame
      BY <2>3, <3>2, <3>3, <3>4 DEF Between
    <3> QED BY <2>3, <3>2, <3>3, <3>5 DEF FrameInv, HeaderRoomKept
  <2> QED BY <2>1, <2>2, <2>4, <2>5, <2>6 DEF EncoderInv
<1>2. EncoderInv /\ [Next]_vars => EncoderInv'
  <2> SUFFICES ASSUME EncoderInv, [Next]_vars PROVE EncoderInv'
    OBVIOUS
  <2>1. OwnsTarget'
    BY OwnerStep DEF EncoderInv
  <2>2. CASE \/ WriteUnsigned \/ WriteSigned \/ WriteFloat \/ WriteString \/ WriteBytes
             \/ WriteIntArray \/ WriteFloatArray
             \/ WriteSequenceBeginLazy \/ WriteSequenceEnd \/ WriteSequenceEndKeep
             \/ RejectArgument
    BY <2>1, <2>2, CallKeepsInv, KeptWindow DEF EncoderInv, WindowKept, owners, WindowInv
  <2>3. CASE Flush \/ Bytes
    BY <2>1, <2>3, FlushKeeps DEF EncoderInv
  <2>4. CASE SetBuffer
    BY <2>1, <2>4, SetBufferKeeps DEF EncoderInv
  <2>5. CASE Release \/ UNCHANGED vars
    <3>1. UNCHANGED <<form, window, err, nesting, installed, tail, todo, mem, frame>>
      BY <2>5 DEF Release, vars, owners
    <3>2. WindowInv' /\ FrameInv'
      BY <3>1, KeptWindow DEF EncoderInv, WindowInv
    <3>3. CallInv' /\ ErrorInv'
      BY <3>1 DEF EncoderInv, CallInv, ErrorInv, nesting, Sinkless, tail, window
    <3> QED BY <2>1, <3>2, <3>3 DEF EncoderInv
  <2>6. CASE MakeRoom
    BY <2>1, <2>6, MakeRoomKeeps DEF EncoderInv
  <2>7. CASE PutUnit
    BY <2>1, <2>7, PutUnitKeeps DEF EncoderInv
  <2>8. CASE PutPayload
    BY <2>1, <2>8, PutPayloadKeeps DEF EncoderInv
  <2> QED BY <2>2, <2>3, <2>4, <2>5, <2>6, <2>7, <2>8 DEF Next, WriteStep
<1> QED BY <1>1, <1>2, PTL DEF Spec

(* The cursors stay inside the window they index, depth inside its bound   *)
(* and never below the headers held back, through every Write, drain,      *)
(* stage, spill, Flush, Bytes and SetBuffer (encoder.go).                  *)
THEOREM EncoderTypeCorrect == Spec => []TypeOK
<1>1. EncoderInv => TypeOK
  <2> SUFFICES ASSUME EncoderInv PROVE TypeOK
    OBVIOUS
  <2>1. buf \in Memory /\ Size(buf) \in Nat /\ Size(staged.dst) \in Nat
    BY SizeNat DEF EncoderInv, WindowInv
  <2>2. Target \notin taken
    BY WindowNotTaken DEF EncoderInv
  <2> QED BY <2>1, <2>2 DEF EncoderInv, OwnsTarget, CallInv, WindowInv, ErrorInv, TypeOK
<1> QED BY <1>1, EncoderInvHolds, PTL

(* An encoder with a writer or a sink never reports a full buffer, whatever*)
(* the sink installs: what drain leaves or installs has room for the widest*)
(* reservation, so that the retry of makeRoom succeeds (types.go,          *)
(* ErrBufferFull).                                                         *)
THEOREM SinkNeverFull == Spec => []FullOnlyWithoutSink
<1>1. EncoderInv => FullOnlyWithoutSink
  BY DEF EncoderInv, ErrorInv, FullOnlyWithoutSink
<1> QED BY <1>1, EncoderInvHolds, PTL

(* No Write, stage, spill or SetBuffer touches the bytes before the start  *)
(* offset of the installation in force: they stay the caller's until a     *)
(* drain consumes them (SetBuffer, drain).                                 *)
THEOREM HeaderRoomStaysKept == Spec => []HeaderRoomKept
<1>1. EncoderInv => HeaderRoomKept
  BY DEF EncoderInv, FrameInv
<1> QED BY <1>1, EncoderInvHolds, PTL

(* A sink-less encoder reports a full buffer only when the bytes it        *)
(* produced do not fit the buffer: a reservation that did not fit was      *)
(* staged first, and spill compares lengths, not reservations (stage,      *)
(* spill).                                                                 *)
THEOREM FullMeansFull == Spec => []FullOnlyWhenFull
<1>1. EncoderInv => FullOnlyWhenFull
  <2> SUFFICES ASSUME EncoderInv, err = "ErrBufferFull"
               PROVE  staged.start + Len(Buffered) > Size(staged.dst)
    BY DEF FullOnlyWhenFull
  <2> DEFINE held == Between(staged.dst, staged.start, staged.n)
             scratch == Between(buf, 0, n)
  <2>1. /\ staging /\ n > Size(staged.dst) - staged.n /\ Size(staged.dst) \in Nat
        /\ staged.start \in Nat /\ staged.n \in Nat /\ staged.start <= staged.n /\ n \in Nat
    BY SizeNat DEF EncoderInv, ErrorInv, WindowInv
  <2>2. Listed(held) /\ Len(held) = staged.n - staged.start
    BY <2>1, BetweenBytes
  <2>3. Listed(scratch) /\ Len(scratch) = n
    BY <2>1, BetweenBytes
  <2>4. Buffered = held \o scratch
    BY <2>1 DEF Buffered, Returned
  <2> HIDE DEF held, scratch
  <2>5. Len(Buffered) = Len(held) + Len(scratch)
    BY <2>2, <2>3, <2>4, ConcatListed
  <2> QED BY <2>1, <2>2, <2>3, <2>5
<1> QED BY <1>1, EncoderInvHolds, PTL

(***************************************************************************)
(* Sequences of bytes, one after the other                                 *)
(***************************************************************************)
Regroups(a, b, c) == (a \o b) \o c = a \o (b \o c)

(* Concatenation is associative, stated so that the provers do not loop.   *)
LEMMA ConcatAssoc ==
  ASSUME NEW a, NEW b, NEW c, Listed(a), Listed(b), Listed(c)
  PROVE  Regroups(a, b, c)
<1> DEFINE U == Entries(a) \cup Entries(b) \cup Entries(c)
<1>1. a \in Seq(U) /\ b \in Seq(U) /\ c \in Seq(U)
  BY ListedIsSeq
<1> HIDE DEF U
<1> QED BY <1>1, ConcatAssociative DEF Regroups

(* What stands in front of the same end is the same.                       *)
LEMMA SameFront ==
  ASSUME NEW a, NEW b, NEW c, Listed(a), Listed(b), Listed(c), a \o c = b \o c
  PROVE  a = b
<1>1. Len(a \o c) = Len(a) + Len(c) /\ \A i \in 1 .. Len(a) : (a \o c)[i] = a[i]
  BY ConcatListed
<1>2. Len(b \o c) = Len(b) + Len(c) /\ \A i \in 1 .. Len(b) : (b \o c)[i] = b[i]
  BY ConcatListed
<1>3. Len(a) = Len(b)
  <2>1. Len(a) \in Nat /\ Len(b) \in Nat /\ Len(c) \in Nat
    BY DEF Listed
  <2> QED BY <1>1, <1>2, <2>1
<1>4. \A i \in 1 .. Len(a) : a[i] = b[i]
  BY <1>1, <1>2, <1>3
<1> QED BY <1>3, <1>4, SameListed

(* A sequence is its front and its last entry.                             *)
LEMMA FrontAndLast ==
  ASSUME NEW s, Listed(s), Len(s) # 0
  PROVE  LET front == SubSeq(s, 1, Len(s) - 1) IN
         /\ Len(s) - 1 \in Nat /\ Len(s) \in 1 .. Len(s)
         /\ Listed(front) /\ Len(front) = Len(s) - 1
         /\ \A i \in 1 .. Len(s) - 1 : front[i] = s[i]
         /\ s = Append(front, s[Len(s)])
<1> DEFINE front == SubSeq(s, 1, Len(s) - 1)
<1>1. Len(s) - 1 \in Nat /\ Len(s) - 1 \in 0 .. Len(s) /\ Len(s) \in 1 .. Len(s) /\ Len(s) \in Nat
  BY DEF Listed
<1>2. Listed(front) /\ Len(front) = Len(s) - 1 /\ \A i \in 1 .. Len(s) - 1 : front[i] = s[i]
  BY <1>1, FirstListed
<1> HIDE DEF front
<1>3. /\ Listed(Append(front, s[Len(s)])) /\ Len(Append(front, s[Len(s)])) = Len(front) + 1
      /\ \A i \in 1 .. Len(front) : Append(front, s[Len(s)])[i] = front[i]
      /\ Append(front, s[Len(s)])[Len(front) + 1] = s[Len(s)]
  BY <1>2, AppendListed
<1>4. \A i \in 1 .. Len(s) : i \in 1 .. Len(s) - 1 \/ i = Len(s)
  BY <1>1
<1>5. Len(front) + 1 = Len(s)
  BY <1>1, <1>2
<1>6. \A i \in 1 .. Len(s) : s[i] = Append(front, s[Len(s)])[i]
  BY <1>2, <1>3, <1>4, <1>5
<1>7. s = Append(front, s[Len(s)])
  BY <1>3, <1>5, <1>6, SameListed
<1> QED BY <1>1, <1>2, <1>7 DEF front

(* The pieces of s joined, up to each of them.                             *)
Glued(f, s, k) == f = [i \in 1 .. k |-> IF i = 1 THEN s[i] ELSE f[i - 1] \o s[i]]

(* The fold that FlattenSeq is defined by exists, for every number of      *)
(* pieces.                                                                 *)
LEMMA GluedExists == ASSUME NEW s, NEW k \in Nat PROVE \E f : Glued(f, s, k)
<1> DEFINE Without == {m \in Nat : ~ \E f : Glued(f, s, m)}
<1>1. SUFFICES ASSUME Without # {} PROVE FALSE
  OBVIOUS
<1>2. PICK x \in Without : \A y \in Without : x <= y
  <2>1. Without \subseteq Nat
    OBVIOUS
  <2> HIDE DEF Without
  <2> QED BY <1>1, <2>1, LeastNatural
<1>3. x # 0
  <2>1. Glued([i \in 1 .. 0 |-> 0], s, 0)
    BY DEF Glued
  <2> QED BY <2>1
<1>4. x - 1 \in Nat /\ ~(x <= x - 1)
  BY <1>3
<1>5. PICK f : Glued(f, s, x - 1)
  BY <1>2, <1>4
<1> DEFINE g == [i \in 1 .. x |-> IF i = x THEN IF x = 1 THEN s[x] ELSE f[x - 1] \o s[x] ELSE f[i]]
<1>6. ASSUME NEW i \in 1 .. x
      PROVE  g[i] = IF i = 1 THEN s[i] ELSE g[i - 1] \o s[i]
  <2>1. CASE i = x /\ x = 1
    BY <2>1, Zenon
  <2>2. CASE i = x /\ x # 1
    <3>1. x - 1 \in 1 .. x /\ x - 1 # x /\ x \in 1 .. x
      BY <1>4, <2>2
    <3>2. g[x - 1] = f[x - 1] /\ g[x] = f[x - 1] \o s[x]
      BY <2>2, <3>1, Zenon
    <3> QED BY <2>2, <3>2, Zenon
  <2>3. CASE i # x
    <3>1. i \in 1 .. x - 1 /\ (i # 1 => i - 1 \in 1 .. x /\ i - 1 # x)
      BY <1>4, <2>3
    <3>2. f[i] = IF i = 1 THEN s[i] ELSE f[i - 1] \o s[i]
      BY <1>5, <3>1, Zenon DEF Glued
    <3>3. g[i] = f[i] /\ (i # 1 => g[i - 1] = f[i - 1])
      BY <2>3, <3>1, Zenon
    <3> QED BY <3>2, <3>3, Zenon
  <2> QED BY <2>1, <2>2, <2>3
<1>7. Glued(g, s, x)
  <2>1. g = [i \in 1 .. x |-> g[i]]
    OBVIOUS
  <2> HIDE DEF g
  <2> QED BY <1>6, <2>1 DEF Glued
<1> QED BY <1>7

(* FlattenSeq is that fold.                                                *)
LEMMA FlattenGlued ==
  ASSUME NEW s, Listed(s), Len(s) # 0
  PROVE  \E f : Glued(f, s, Len(s)) /\ Seqs!FlattenSeq(s) = f[Len(s)]
<1> DEFINE f == CHOOSE h : Glued(h, s, Len(s))
<1>1. Glued(f, s, Len(s))
  BY GluedExists DEF Listed
<1>2. Seqs!FlattenSeq(s) = f[Len(s)]
  BY Zenon DEF Seqs!FlattenSeq, Glued
<1> HIDE DEF f
<1> QED BY <1>1, <1>2

(* Two folds over the same pieces agree.                                   *)
LEMMA GluedAgree ==
  ASSUME NEW k \in Nat, NEW m \in Nat, NEW s, NEW t, NEW f, NEW g, Glued(f, s, k), Glued(g, t, m),
         NEW w \in Nat \ {0}, w <= k, w <= m, \A i \in 1 .. w : s[i] = t[i]
  PROVE  f[w] = g[w]
<1> DEFINE Differ == {i \in 1 .. w : f[i] # g[i]}
<1>1. SUFFICES ASSUME Differ # {} PROVE FALSE
  OBVIOUS
<1>2. PICK x \in Differ : \A y \in Differ : x <= y
  <2>1. Differ \subseteq Nat
    OBVIOUS
  <2> HIDE DEF Differ
  <2> QED BY <1>1, <2>1, LeastNatural
<1>3. x \in 1 .. k /\ x \in 1 .. m /\ s[x] = t[x]
  OBVIOUS
<1>4. CASE x = 1
  <2>1. f[1] = s[1] /\ g[1] = t[1]
    BY <1>3, <1>4, Zenon DEF Glued
  <2> QED BY <1>3, <1>4, <2>1
<1>5. CASE x # 1
  <2>1. x - 1 \in 1 .. w /\ ~(x <= x - 1)
    BY <1>5
  <2>2. f[x - 1] = g[x - 1]
    BY <1>2, <2>1
  <2>3. f[x] = f[x - 1] \o s[x] /\ g[x] = g[x - 1] \o t[x]
    BY <1>3, <1>5, Zenon DEF Glued
  <2>4. f[x] = g[x]
    BY <1>3, <2>2, <2>3, Zenon
  <2> QED BY <2>4
<1> QED BY <1>4, <1>5

(* No piece, no byte.                                                      *)
LEMMA FlattenNone == Seqs!FlattenSeq(<<>>) = <<>>
BY DEF Seqs!FlattenSeq

(* One piece more.                                                         *)
LEMMA FlattenMore ==
  ASSUME NEW s, Listed(s), NEW x, Listed(x)
  PROVE  Seqs!FlattenSeq(Append(s, x)) = Seqs!FlattenSeq(s) \o x
<1> DEFINE t == Append(s, x)
           w == Len(s)
<1>1. /\ Listed(t) /\ Len(t) = w + 1 /\ w \in Nat
      /\ \A i \in 1 .. w : t[i] = s[i]
      /\ t[w + 1] = x
  BY AppendListed DEF Listed
<1> HIDE DEF t
<1>2. PICK g : Glued(g, t, w + 1) /\ Seqs!FlattenSeq(t) = g[w + 1]
  <2>1. Len(t) # 0
    BY <1>1
  <2> QED BY <1>1, <2>1, FlattenGlued
<1>3. CASE w = 0
  <2>1. g[1] = t[1] /\ w + 1 = 1
    <3>1. 1 \in 1 .. w + 1 /\ w + 1 = 1
      BY <1>3
    <3> QED BY <1>2, <3>1, Zenon DEF Glued
  <2>2. s = <<>>
    BY <1>3, EmptyIffLen
  <2>3. <<>> \o x = x
    BY NothingAdded
  <2> QED BY <1>1, <1>2, <2>1, <2>2, <2>3, FlattenNone DEF t
<1>4. CASE w # 0
  <2>1. w + 1 \in 1 .. w + 1 /\ w + 1 # 1 /\ (w + 1) - 1 = w /\ w <= w /\ w <= w + 1
        /\ w \in Nat \ {0} /\ w + 1 \in Nat
    BY <1>1, <1>4
  <2>2. g[w + 1] = g[w] \o x
    <3>1. g[w + 1] = g[(w + 1) - 1] \o t[w + 1]
      BY <1>2, <2>1, Zenon DEF Glued
    <3> QED BY <1>1, <2>1, <3>1
  <2>3. PICK f : Glued(f, s, w) /\ Seqs!FlattenSeq(s) = f[w]
    BY <1>4, FlattenGlued
  <2>4. \A i \in 1 .. w : s[i] = t[i]
    BY <1>1
  <2>5. f[w] = g[w]
    <3> HIDE DEF w
    <3> QED BY <1>1, <1>2, <2>1, <2>3, <2>4, GluedAgree
  <2> QED BY <1>2, <2>2, <2>3, <2>5 DEF t
<1> QED BY <1>3, <1>4

(* A sequence of pieces.                                                   *)
Pieces(s) == Listed(s) /\ \A i \in 1 .. Len(s) : Listed(s[i])

(* The pieces in front of the last.                                        *)
LEMMA PiecesFront ==
  ASSUME NEW s, Pieces(s), Len(s) # 0
  PROVE  LET front == SubSeq(s, 1, Len(s) - 1) IN
         /\ Pieces(front) /\ Len(front) = Len(s) - 1 /\ Len(s) - 1 \in Nat
         /\ Listed(s[Len(s)]) /\ s = Append(front, s[Len(s)])
         /\ Seqs!FlattenSeq(s) = Seqs!FlattenSeq(front) \o s[Len(s)]
         /\ \A i \in 1 .. Len(s) - 1 : front[i] = s[i]
<1> DEFINE front == SubSeq(s, 1, Len(s) - 1)
<1>1. /\ Len(s) - 1 \in Nat /\ Len(s) \in 1 .. Len(s)
      /\ Listed(front) /\ Len(front) = Len(s) - 1
      /\ s = Append(front, s[Len(s)])
      /\ \A i \in 1 .. Len(s) - 1 : front[i] = s[i]
  BY FrontAndLast DEF Pieces
<1>2. Listed(s[Len(s)])
  BY <1>1 DEF Pieces
<1> HIDE DEF front
<1>3. ASSUME NEW i \in 1 .. Len(front) PROVE Listed(front[i])
  <2>1. i \in 1 .. Len(s) /\ front[i] = s[i]
    BY <1>1
  <2> QED BY <2>1 DEF Pieces
<1>4. Seqs!FlattenSeq(Append(front, s[Len(s)])) = Seqs!FlattenSeq(front) \o s[Len(s)]
  BY <1>1, <1>2, FlattenMore
<1> QED BY <1>1, <1>2, <1>3, <1>4 DEF Pieces, front

(* Pieces joined are a sequence.                                           *)
LEMMA FlattenListed == ASSUME NEW s, Pieces(s) PROVE Listed(Seqs!FlattenSeq(s))
<1> DEFINE Wrong == {m \in Nat : \E u : Pieces(u) /\ Len(u) = m /\ ~Listed(Seqs!FlattenSeq(u))}
<1>1. Wrong = {}
  <2> SUFFICES ASSUME Wrong # {} PROVE FALSE
    OBVIOUS
  <2>1. PICK x \in Wrong : \A y \in Wrong : x <= y
    <3>1. Wrong \subseteq Nat
      OBVIOUS
    <3> HIDE DEF Wrong
    <3> QED BY <3>1, LeastNatural
  <2>2. PICK u : Pieces(u) /\ Len(u) = x /\ ~Listed(Seqs!FlattenSeq(u))
    OBVIOUS
  <2>3. x # 0
    <3>1. SUFFICES ASSUME x = 0 PROVE FALSE
      OBVIOUS
    <3>2. u = <<>>
      BY <2>2, <3>1, EmptyIffLen DEF Pieces
    <3> QED BY <2>2, <3>2, FlattenNone, EmptyListed
  <2> DEFINE front == SubSeq(u, 1, Len(u) - 1)
  <2>4. /\ Pieces(front) /\ Len(front) = x - 1 /\ x - 1 \in Nat
        /\ Listed(u[x]) /\ Seqs!FlattenSeq(u) = Seqs!FlattenSeq(front) \o u[x]
    BY <2>2, <2>3, PiecesFront
  <2> HIDE DEF front
  <2>5. ~(x <= x - 1)
    BY <2>4
  <2>6. Listed(Seqs!FlattenSeq(front))
    BY <2>1, <2>4, <2>5
  <2>7. Listed(Seqs!FlattenSeq(u))
    BY <2>4, <2>6, ConcatListed
  <2> QED BY <2>2, <2>7
<1>2. Len(s) \in Nat /\ ~(Len(s) \in Wrong)
  <2> HIDE DEF Wrong
  <2> QED BY <1>1 DEF Pieces, Listed
<1> QED BY <1>2

(* Two sequences of pieces joined, one after the other.                    *)
LEMMA FlattenConcat ==
  ASSUME NEW s, NEW t, Pieces(s), Pieces(t)
  PROVE  Seqs!FlattenSeq(s \o t) = Seqs!FlattenSeq(s) \o Seqs!FlattenSeq(t)
<1> DEFINE Wrong == {m \in Nat : \E u : /\ Pieces(u) /\ Len(u) = m
                                        /\ Seqs!FlattenSeq(s \o u) # Seqs!FlattenSeq(s) \o Seqs!FlattenSeq(u)}
<1>1. Wrong = {}
  <2> SUFFICES ASSUME Wrong # {} PROVE FALSE
    OBVIOUS
  <2>1. PICK x \in Wrong : \A y \in Wrong : x <= y
    <3>1. Wrong \subseteq Nat
      OBVIOUS
    <3> HIDE DEF Wrong
    <3> QED BY <3>1, LeastNatural
  <2>2. PICK u : /\ Pieces(u) /\ Len(u) = x
                 /\ Seqs!FlattenSeq(s \o u) # Seqs!FlattenSeq(s) \o Seqs!FlattenSeq(u)
    OBVIOUS
  <2>3. x # 0
    <3>1. SUFFICES ASSUME x = 0 PROVE FALSE
      OBVIOUS
    <3>2. u = <<>>
      BY <2>2, <3>1, EmptyIffLen DEF Pieces
    <3>3. s \o <<>> = s /\ Seqs!FlattenSeq(s) \o <<>> = Seqs!FlattenSeq(s)
      BY NothingAdded, FlattenListed DEF Pieces
    <3> QED BY <2>2, <3>2, <3>3, FlattenNone
  <2> DEFINE front == SubSeq(u, 1, Len(u) - 1)
  <2>4. /\ Pieces(front) /\ Len(front) = x - 1 /\ x - 1 \in Nat
        /\ Listed(u[x]) /\ Seqs!FlattenSeq(u) = Seqs!FlattenSeq(front) \o u[x]
        /\ u = Append(front, u[x])
    BY <2>2, <2>3, PiecesFront
  <2> HIDE DEF front
  <2>5. ~(x <= x - 1)
    BY <2>4
  <2>6. Seqs!FlattenSeq(s \o front) = Seqs!FlattenSeq(s) \o Seqs!FlattenSeq(front)
    BY <2>1, <2>4, <2>5
  <2>7. s \o u = Append(s \o front, u[x]) /\ Listed(s \o front)
    <3>1. Listed(s) /\ Listed(front) /\ Listed(s \o front) /\ Listed(<<u[x]>>)
      BY <2>4, ConcatListed, OneListed DEF Pieces
    <3>2. u = front \o <<u[x]>>
      BY <2>4, <3>1, AppendedBehind
    <3>3. Append(s \o front, u[x]) = (s \o front) \o <<u[x]>>
      BY <3>1, AppendedBehind
    <3>4. (s \o front) \o <<u[x]>> = s \o (front \o <<u[x]>>)
      <4>1. Regroups(s, front, <<u[x]>>)
        BY <3>1, ConcatAssoc
      <4> QED BY <4>1 DEF Regroups
    <3> QED BY <3>1, <3>2, <3>3, <3>4
  <2>8. Seqs!FlattenSeq(s \o u) = Seqs!FlattenSeq(s \o front) \o u[x]
    BY <2>4, <2>7, FlattenMore
  <2>9. (Seqs!FlattenSeq(s) \o Seqs!FlattenSeq(front)) \o u[x] = Seqs!FlattenSeq(s) \o (Seqs!FlattenSeq(front) \o u[x])
    <3>1. Listed(Seqs!FlattenSeq(s)) /\ Listed(Seqs!FlattenSeq(front)) /\ Listed(u[x])
      BY <2>4, FlattenListed
    <3>2. Regroups(Seqs!FlattenSeq(s), Seqs!FlattenSeq(front), u[x])
      BY <3>1, ConcatAssoc
    <3> QED BY <3>2 DEF Regroups
  <2> QED BY <2>2, <2>4, <2>6, <2>8, <2>9
<1>2. Len(t) \in Nat /\ ~(Len(t) \in Wrong)
  <2> HIDE DEF Wrong
  <2> QED BY <1>1 DEF Pieces, Listed
<1> QED BY <1>2

(* One piece is itself.                                                    *)
LEMMA FlattenOne == ASSUME NEW x, Listed(x) PROVE Seqs!FlattenSeq(<<x>>) = x
<1>1. Append(<<>>, x) = <<x>> /\ <<>> \o x = x
  <2>1. Append(<<>>, x) = <<>> \o <<x>> /\ <<>> \o <<x>> = <<x>>
    BY EmptyListed, OneListed, AppendedBehind, NothingAdded
  <2> QED BY <2>1, NothingAdded
<1> QED BY <1>1, EmptyListed, FlattenMore, FlattenNone

(* Empty pieces at the end add nothing.                                    *)
LEMMA FlattenNothing ==
  ASSUME NEW s, Pieces(s), NEW k \in 0 .. Len(s), \A i \in k + 1 .. Len(s) : s[i] = <<>>
  PROVE  Seqs!FlattenSeq(s) = Seqs!FlattenSeq(SubSeq(s, 1, k))
<1> DEFINE Wrong == {m \in Nat : \E u : /\ Pieces(u) /\ Len(u) = k + m
                                        /\ \A i \in k + 1 .. Len(u) : u[i] = <<>>
                                        /\ Seqs!FlattenSeq(u) # Seqs!FlattenSeq(SubSeq(u, 1, k))}
<1>0. k \in Nat /\ Len(s) \in Nat
  BY DEF Pieces, Listed
<1>1. Wrong = {}
  <2> SUFFICES ASSUME Wrong # {} PROVE FALSE
    OBVIOUS
  <2>1. PICK x \in Wrong : \A y \in Wrong : x <= y
    <3>1. Wrong \subseteq Nat
      OBVIOUS
    <3> HIDE DEF Wrong
    <3> QED BY <3>1, LeastNatural
  <2>2. PICK u : /\ Pieces(u) /\ Len(u) = k + x
                 /\ \A i \in k + 1 .. Len(u) : u[i] = <<>>
                 /\ Seqs!FlattenSeq(u) # Seqs!FlattenSeq(SubSeq(u, 1, k))
    OBVIOUS
  <2>0. x \in Nat /\ Listed(u)
    BY <2>2 DEF Pieces
  <2>3. x # 0
    <3>1. SUFFICES ASSUME x = 0 PROVE FALSE
      OBVIOUS
    <3>2. Len(u) = k /\ k \in 0 .. Len(u)
      BY <1>0, <2>2, <3>1
    <3>3. /\ Listed(SubSeq(u, 1, k)) /\ Len(SubSeq(u, 1, k)) = k
          /\ \A i \in 1 .. k : SubSeq(u, 1, k)[i] = u[i]
      BY <2>0, <3>2, FirstListed
    <3>4. SubSeq(u, 1, k) = u
      BY <2>0, <3>2, <3>3, SameListed
    <3> QED BY <2>2, <3>4
  <2> DEFINE front == SubSeq(u, 1, Len(u) - 1)
  <2>4. /\ Pieces(front) /\ Len(front) = Len(u) - 1
        /\ Seqs!FlattenSeq(u) = Seqs!FlattenSeq(front) \o u[Len(u)]
        /\ \A i \in 1 .. Len(u) - 1 : front[i] = u[i]
    <3>1. Len(u) # 0
      BY <1>0, <2>0, <2>2, <2>3
    <3> QED BY <2>2, <3>1, PiecesFront
  <2>5. x - 1 \in Nat /\ ~(x <= x - 1) /\ Len(front) = k + (x - 1) /\ Len(u) \in k + 1 .. Len(u)
        /\ k \in 0 .. Len(front) /\ k \in 0 .. Len(u)
    BY <1>0, <2>0, <2>2, <2>3, <2>4
  <2> HIDE DEF front
  <2>6. \A i \in k + 1 .. Len(front) : front[i] = <<>>
    <3> SUFFICES ASSUME NEW i \in k + 1 .. Len(front) PROVE front[i] = <<>>
      OBVIOUS
    <3>1. i \in 1 .. Len(u) - 1 /\ i \in k + 1 .. Len(u)
      BY <1>0, <2>0, <2>2, <2>4, <2>5
    <3> QED BY <2>2, <2>4, <3>1
  <2>7. Seqs!FlattenSeq(front) = Seqs!FlattenSeq(SubSeq(front, 1, k))
    BY <2>1, <2>4, <2>5, <2>6
  <2>8. SubSeq(front, 1, k) = SubSeq(u, 1, k)
    <3>1. /\ Listed(SubSeq(u, 1, k)) /\ Len(SubSeq(u, 1, k)) = k
          /\ \A i \in 1 .. k : SubSeq(u, 1, k)[i] = u[i]
      BY <2>0, <2>5, FirstListed
    <3>2. /\ Listed(SubSeq(front, 1, k)) /\ Len(SubSeq(front, 1, k)) = k
          /\ \A i \in 1 .. k : SubSeq(front, 1, k)[i] = front[i]
      BY <2>4, <2>5, FirstListed DEF Pieces
    <3>3. \A i \in 1 .. k : front[i] = u[i]
      <4>1. \A i \in 1 .. k : i \in 1 .. Len(u) - 1
        BY <1>0, <2>0, <2>2, <2>5
      <4> QED BY <2>4, <4>1
    <3> QED BY <3>1, <3>2, <3>3, SameListed
  <2>9. Seqs!FlattenSeq(front) \o u[Len(u)] = Seqs!FlattenSeq(front)
    <3>1. u[Len(u)] = <<>>
      BY <2>2, <2>5
    <3> QED BY <2>4, <3>1, FlattenListed, NothingAdded
  <2> QED BY <2>2, <2>4, <2>7, <2>8, <2>9
<1>2. Len(s) - k \in Nat /\ Len(s) = k + (Len(s) - k)
  BY <1>0
<1>3. ~(Len(s) - k \in Wrong)
  <2> HIDE DEF Wrong
  <2> QED BY <1>1
<1> QED BY <1>2, <1>3

(***************************************************************************)
(* Framing                                                                 *)
(***************************************************************************)
(* A set over 1 .. k counted on to k + 1.                                  *)
LEMMA CountOne ==
  ASSUME NEW k \in Nat, NEW S, S \subseteq 1 .. k, NEW U, U = S \/ U = S \cup {k + 1}
  PROVE  /\ Cardinality(S) \in Nat
         /\ Cardinality(U) = Cardinality(S) + (IF k + 1 \in U THEN 1 ELSE 0)
<1>1. IsFiniteSet(S)
  <2>1. IsFiniteSet(1 .. k)
    BY FS_Interval
  <2> QED BY <2>1, FS_Subset
<1>2. Cardinality(S) \in Nat
  BY <1>1, FS_CardinalityType
<1>3. ~(k + 1 \in S)
  OBVIOUS
<1>4. CASE U = S
  BY <1>2, <1>3, <1>4
<1>5. CASE U = S \cup {k + 1}
  <2>1. Cardinality(S \cup {k + 1}) = Cardinality(S) + 1
    BY <1>1, <1>3, FS_AddElement
  <2> QED BY <1>2, <1>5, <2>1
<1> QED BY <1>4, <1>5

(* A begin opens one sequence, an end closes one.                          *)
LEMMA OpenNext ==
  ASSUME NEW s, NEW k \in Nat
  PROVE  /\ OpenAfter(s, k) \in Int
         /\ IsBegin(s[k + 1]) => OpenAfter(s, k + 1) = OpenAfter(s, k) + 1
         /\ IsEnd(s[k + 1]) => OpenAfter(s, k + 1) = OpenAfter(s, k) - 1
         /\ ~IsBegin(s[k + 1]) /\ ~IsEnd(s[k + 1]) => OpenAfter(s, k + 1) = OpenAfter(s, k)
<1> DEFINE B == {i \in 1 .. k : IsBegin(s[i])}
           E == {i \in 1 .. k : IsEnd(s[i])}
           B1 == {i \in 1 .. k + 1 : IsBegin(s[i])}
           E1 == {i \in 1 .. k + 1 : IsEnd(s[i])}
<1>0. 1 .. k + 1 = 1 .. k \cup {k + 1}
  OBVIOUS
<1>1. /\ B \subseteq 1 .. k /\ E \subseteq 1 .. k
      /\ B1 = IF IsBegin(s[k + 1]) THEN B \cup {k + 1} ELSE B
      /\ E1 = IF IsEnd(s[k + 1]) THEN E \cup {k + 1} ELSE E
  BY <1>0, Zenon
<1>2. /\ k + 1 \in B1 <=> IsBegin(s[k + 1])
      /\ k + 1 \in E1 <=> IsEnd(s[k + 1])
  BY <1>0, Zenon
<1>3. OpenAfter(s, k) = Cardinality(B) - Cardinality(E) /\ OpenAfter(s, k + 1) = Cardinality(B1) - Cardinality(E1)
  BY DEF OpenAfter
<1>4. ~(IsBegin(s[k + 1]) /\ IsEnd(s[k + 1]))
  BY DEF IsBegin, IsEnd
<1> HIDE DEF B, E, B1, E1
<1>5. Cardinality(B) \in Nat /\ Cardinality(B1) = Cardinality(B) + (IF IsBegin(s[k + 1]) THEN 1 ELSE 0)
  <2>1. B1 = B \/ B1 = B \cup {k + 1}
    BY <1>1
  <2>0. B \subseteq 1 .. k
    BY <1>1
  <2>2. Cardinality(B) \in Nat /\ Cardinality(B1) = Cardinality(B) + (IF k + 1 \in B1 THEN 1 ELSE 0)
    BY <2>0, <2>1, CountOne, Zenon
  <2> QED BY <1>2, <2>2
<1>6. Cardinality(E) \in Nat /\ Cardinality(E1) = Cardinality(E) + (IF IsEnd(s[k + 1]) THEN 1 ELSE 0)
  <2>1. E1 = E \/ E1 = E \cup {k + 1}
    BY <1>1
  <2>0. E \subseteq 1 .. k
    BY <1>1
  <2>2. Cardinality(E) \in Nat /\ Cardinality(E1) = Cardinality(E) + (IF k + 1 \in E1 THEN 1 ELSE 0)
    BY <2>0, <2>1, CountOne, Zenon
  <2> QED BY <1>2, <2>2
<1> QED BY <1>3, <1>4, <1>5, <1>6

(* Before the first call nothing is open.                                  *)
LEMMA OpenZero == \A s : OpenAfter(s, 0) = 0
<1> SUFFICES ASSUME NEW s PROVE OpenAfter(s, 0) = 0
  OBVIOUS
<1>1. {i \in 1 .. 0 : IsBegin(s[i])} = {} /\ {i \in 1 .. 0 : IsEnd(s[i])} = {}
  OBVIOUS
<1>2. Cardinality({}) = 0
  BY FS_EmptySet
<1> QED BY <1>1, <1>2 DEF OpenAfter

(* Only the calls up to k say what is open after them.                     *)
LEMMA OpenLocal ==
  ASSUME NEW s, NEW t, NEW k \in Nat, \A i \in 1 .. k : t[i] = s[i]
  PROVE  OpenAfter(t, k) = OpenAfter(s, k)
<1>1. /\ {i \in 1 .. k : IsBegin(t[i])} = {i \in 1 .. k : IsBegin(s[i])}
      /\ {i \in 1 .. k : IsEnd(t[i])} = {i \in 1 .. k : IsEnd(s[i])}
  BY Zenon
<1> QED BY <1>1 DEF OpenAfter

(* A sequence open after all of s that nothing has framed yet.             *)
HeldBack(s, i) == i \in 1 .. Len(s) /\ IsBegin(s[i]) /\ StaysOpen(s, i, Len(s) + 1) /\ ~Framed(s, i)

(* One call more: what it changes of the past, and what it adds.           *)
LEMMA Grown ==
  ASSUME NEW s, Listed(s), NEW c
  PROVE  LET t == Append(s, c)
             m == Len(s)
         IN  /\ m \in Nat /\ Listed(t) /\ Len(t) = m + 1 /\ t[m + 1] = c
             /\ \A i \in 1 .. m : t[i] = s[i]
             /\ \A k \in 0 .. m : OpenAfter(t, k) = OpenAfter(s, k) /\ OpenAfter(s, k) \in Int
             /\ OpenAfter(t, m + 1) \in Int
             /\ IsBegin(c) => OpenAfter(t, m + 1) = OpenAfter(s, m) + 1
             /\ IsEnd(c) => OpenAfter(t, m + 1) = OpenAfter(s, m) - 1
             /\ ~IsBegin(c) /\ ~IsEnd(c) => OpenAfter(t, m + 1) = OpenAfter(s, m)
<1> DEFINE t == Append(s, c)
           m == Len(s)
<1>1. m \in Nat /\ Listed(t) /\ Len(t) = m + 1 /\ t[m + 1] = c /\ \A i \in 1 .. m : t[i] = s[i]
  BY AppendListed DEF Listed
<1> HIDE DEF t, m
<1>2. ASSUME NEW k \in 0 .. m
      PROVE  OpenAfter(t, k) = OpenAfter(s, k) /\ OpenAfter(s, k) \in Int
  <2>1. k \in Nat /\ \A i \in 1 .. k : t[i] = s[i]
    BY <1>1
  <2> QED BY <2>1, OpenLocal, OpenNext
<1>3. /\ IsBegin(c) => OpenAfter(t, m + 1) = OpenAfter(t, m) + 1
      /\ IsEnd(c) => OpenAfter(t, m + 1) = OpenAfter(t, m) - 1
      /\ ~IsBegin(c) /\ ~IsEnd(c) => OpenAfter(t, m + 1) = OpenAfter(t, m)
  BY <1>1, OpenNext
<1>4. OpenAfter(t, m) = OpenAfter(s, m) /\ m + 1 \in Nat
  BY <1>1, <1>2
<1>5. OpenAfter(t, m + 1) \in Int
  BY <1>4, OpenNext
<1> QED BY <1>1, <1>2, <1>3, <1>4, <1>5 DEF t, m

(* What stayed open before a call stayed open before it in the longer      *)
(* list.                                                                   *)
LEMMA GrownOpen ==
  ASSUME NEW s, Listed(s), NEW c, NEW i \in 1 .. Len(s), NEW j \in i .. Len(s) + 1
  PROVE  StaysOpen(Append(s, c), i, j) <=> StaysOpen(s, i, j)
<1> DEFINE t == Append(s, c)
           m == Len(s)
<1>1. m \in Nat /\ \A k \in 0 .. m : OpenAfter(t, k) = OpenAfter(s, k)
  BY Grown
<1>2. i \in 0 .. m /\ \A k \in i .. j - 1 : k \in 0 .. m
  BY <1>1
<1> HIDE DEF t, m
<1>3. StaysOpen(t, i, j) <=> StaysOpen(s, i, j)
  BY <1>1, <1>2 DEF StaysOpen
<1> QED BY <1>3 DEF t

(* Content frames the sequences open around it, and nothing else does.     *)
LEMMA GrownFramed ==
  ASSUME NEW s, Listed(s), NEW c, NEW i \in 1 .. Len(s)
  PROVE  Framed(Append(s, c), i) <=> Framed(s, i) \/ (IsContent(c) /\ StaysOpen(s, i, Len(s) + 1))
<1> DEFINE t == Append(s, c)
           m == Len(s)
<1>1. m \in Nat /\ Len(t) = m + 1 /\ t[m + 1] = c /\ \A x \in 1 .. m : t[x] = s[x]
  BY Grown
<1>2. \A j \in i .. m + 1 : StaysOpen(t, i, j) <=> StaysOpen(s, i, j)
  BY GrownOpen
<1> HIDE DEF t, m
<1>3. \A j \in i + 1 .. m + 1 : j \in i .. m + 1 /\ (j = m + 1 \/ (j \in i + 1 .. m /\ j \in 1 .. m))
  BY <1>1
<1>4. /\ \A j \in i + 1 .. m : j \in i + 1 .. m + 1 /\ j \in 1 .. m
      /\ m + 1 \in i + 1 .. m + 1
  BY <1>1 DEF m
<1>5. Framed(t, i) <=> Framed(s, i) \/ (IsContent(c) /\ StaysOpen(s, i, m + 1))
  <2>1. ASSUME Framed(t, i) PROVE Framed(s, i) \/ (IsContent(c) /\ StaysOpen(s, i, m + 1))
    <3>1. PICK j \in i + 1 .. m + 1 : IsContent(t[j]) /\ StaysOpen(t, i, j)
      BY <1>1, <2>1 DEF Framed
    <3>2. CASE j = m + 1
      BY <1>1, <1>2, <1>3, <3>1, <3>2
    <3>3. CASE j \in i + 1 .. m /\ j \in 1 .. m
      BY <1>1, <1>2, <1>3, <3>1, <3>3 DEF Framed, m
    <3> QED BY <1>3, <3>2, <3>3
  <2>2. ASSUME Framed(s, i) PROVE Framed(t, i)
    <3>1. PICK j \in i + 1 .. m : IsContent(s[j]) /\ StaysOpen(s, i, j)
      BY <2>2 DEF Framed, m
    <3>2. j \in i + 1 .. Len(t) /\ IsContent(t[j]) /\ StaysOpen(t, i, j)
      BY <1>1, <1>2, <1>3, <1>4, <3>1
    <3> QED BY <3>2 DEF Framed
  <2>3. ASSUME IsContent(c), StaysOpen(s, i, m + 1) PROVE Framed(t, i)
    <3>1. m + 1 \in i + 1 .. Len(t) /\ IsContent(t[m + 1]) /\ StaysOpen(t, i, m + 1)
      BY <1>1, <1>2, <1>3, <1>4, <2>3
    <3> QED BY <3>1 DEF Framed
  <2> QED BY <2>1, <2>2, <2>3
<1> QED BY <1>5 DEF t, m

(* What was written last has framed nothing behind it.                     *)
LEMMA LastUnframed ==
  ASSUME NEW s, Listed(s), NEW c
  PROVE  ~Framed(Append(s, c), Len(s) + 1)
<1>1. Len(s) \in Nat /\ Len(Append(s, c)) = Len(s) + 1
  BY Grown
<1>2. ((Len(s) + 1) + 1) .. (Len(s) + 1) = {}
  BY <1>1
<1> QED BY <1>1, <1>2 DEF Framed

(* Which begin an earlier end closes does not depend on later calls.       *)
LEMMA GrownCloses ==
  ASSUME NEW s, Listed(s), NEW c, NEW i \in 1 .. Len(s), NEW x \in 1 .. i - 1
  PROVE  Closes(Append(s, c), i, x) <=> Closes(s, i, x)
<1> DEFINE t == Append(s, c)
           m == Len(s)
<1>1. m \in Nat /\ t[x] = s[x] /\ \A k \in 0 .. m : OpenAfter(t, k) = OpenAfter(s, k)
  <2>1. m \in Nat /\ \A k \in 1 .. m : t[k] = s[k]
    BY Grown
  <2>2. x \in 1 .. m
    BY <2>1
  <2> HIDE DEF t
  <2>3. t[x] = s[x]
    BY <2>1, <2>2
  <2> QED BY <2>1, <2>3, Grown DEF t
<1>2. x \in 1 .. m /\ i \in x .. m + 1 /\ x \in 0 .. m /\ i - 1 \in 0 .. m
  BY <1>1
<1>3. StaysOpen(t, x, i) <=> StaysOpen(s, x, i)
  BY <1>2, GrownOpen
<1> HIDE DEF t, m
<1>4. Closes(t, i, x) <=> Closes(s, i, x)
  BY <1>1, <1>2, <1>3 DEF Closes
<1> QED BY <1>4 DEF t

(* An end closes what it ends: the sequence does not stay open behind it.  *)
LEMMA ClosedIsClosed ==
  ASSUME NEW s, Listed(s), NEW i \in 1 .. Len(s), IsEnd(s[i]), NEW x \in 1 .. i - 1, Closes(s, i, x),
         NEW j \in i + 1 .. Len(s) + 1
  PROVE  ~StaysOpen(s, x, j)
<1>1. Len(s) \in Nat /\ i \in Nat /\ i - 1 \in Nat /\ (i - 1) + 1 = i
  BY DEF Listed
<1>2. OpenAfter(s, i - 1) \in Int /\ OpenAfter(s, i) = OpenAfter(s, i - 1) - 1
  <2>1. IsEnd(s[(i - 1) + 1])
    BY <1>1
  <2>2. OpenAfter(s, i - 1) \in Int /\ OpenAfter(s, (i - 1) + 1) = OpenAfter(s, i - 1) - 1
    BY <1>1, <2>1, OpenNext
  <2> QED BY <1>1, <2>2
<1>3. OpenAfter(s, x) = OpenAfter(s, i - 1)
  BY DEF Closes
<1>4. i \in x .. j - 1
  BY <1>1
<1>5. ~(OpenAfter(s, i) >= OpenAfter(s, x))
  BY <1>2, <1>3
<1> QED BY <1>4, <1>5 DEF StaysOpen

(* A call reaches the wire late when content follows what was held back.   *)
LEMMA GrownReaches ==
  ASSUME NEW s, Listed(s), NEW c, NEW i \in 1 .. Len(s)
  PROVE  Reaches(Append(s, c), i) <=> Reaches(s, i) \/ (IsContent(c) /\ HeldBack(s, i))
<1> DEFINE t == Append(s, c)
           m == Len(s)
<1>1. m \in Nat /\ t[i] = s[i]
  BY Grown
<1>2. \A x \in 1 .. m : Framed(t, x) <=> Framed(s, x) \/ (IsContent(c) /\ StaysOpen(s, x, m + 1))
  BY GrownFramed
<1>3. \A x \in 1 .. i - 1 : Closes(t, i, x) <=> Closes(s, i, x)
  BY GrownCloses
<1>4. m + 1 \in i + 1 .. m + 1 /\ \A x \in 1 .. i - 1 : x \in 1 .. m
  BY <1>1
<1>5. ASSUME s[i].m = "WriteSequenceEnd", NEW x \in 1 .. i - 1, Closes(s, i, x)
      PROVE  ~StaysOpen(s, x, m + 1)
  <2>1. IsEnd(s[i])
    BY <1>5 DEF IsEnd
  <2> QED BY <1>4, <1>5, <2>1, ClosedIsClosed
<1> HIDE DEF t
<1>6. CASE IsBegin(s[i])
  <2>1. Reaches(t, i) <=> Framed(t, i)
    BY <1>1, <1>6 DEF Reaches, IsBegin
  <2>2. Reaches(s, i) <=> Framed(s, i)
    BY <1>6 DEF Reaches, IsBegin
  <2> QED BY <1>2, <1>6, <2>1, <2>2 DEF HeldBack, t
<1>7. CASE s[i].m = "WriteSequenceEnd"
  <2>0. ~IsBegin(s[i])
    BY <1>7 DEF IsBegin
  <2>1. Reaches(t, i) <=> \E x \in 1 .. i - 1 : Closes(t, i, x) /\ Framed(t, x)
    BY <1>1, <1>7, <2>0 DEF Reaches
  <2>2. Reaches(s, i) <=> \E x \in 1 .. i - 1 : Closes(s, i, x) /\ Framed(s, x)
    BY <1>7, <2>0 DEF Reaches
  <2>3. \A x \in 1 .. i - 1 : Closes(s, i, x) => (Framed(t, x) <=> Framed(s, x))
    BY <1>2, <1>4, <1>5, <1>7
  <2>4. ~HeldBack(s, i)
    BY <2>0 DEF HeldBack
  <2> QED BY <1>3, <2>1, <2>2, <2>3, <2>4 DEF t
<1>8. CASE ~IsBegin(s[i]) /\ s[i].m # "WriteSequenceEnd"
  <2>1. Reaches(t, i) /\ Reaches(s, i)
    BY <1>1, <1>8 DEF Reaches
  <2> QED BY <2>1 DEF t
<1> QED BY <1>6, <1>7, <1>8

(* What is still held back after one more call.                            *)
LEMMA GrownHeld ==
  ASSUME NEW s, Listed(s), NEW c
  PROVE  LET t == Append(s, c)
             m == Len(s)
         IN  /\ \A i \in 1 .. m : HeldBack(t, i) <=>
                  HeldBack(s, i) /\ ~IsContent(c) /\ OpenAfter(t, m + 1) >= OpenAfter(s, i)
             /\ HeldBack(t, m + 1) <=> IsBegin(c)
             /\ \A i : HeldBack(t, i) => i \in 1 .. m \/ i = m + 1
<1> DEFINE t == Append(s, c)
           m == Len(s)
<1>1. /\ m \in Nat /\ Len(t) = m + 1 /\ t[m + 1] = c /\ \A i \in 1 .. m : t[i] = s[i]
      /\ \A k \in 0 .. m : OpenAfter(t, k) = OpenAfter(s, k)
      /\ OpenAfter(t, m + 1) \in Int
  BY Grown
<1>2. ASSUME NEW i \in 1 .. m
      PROVE  HeldBack(t, i) <=>
               HeldBack(s, i) /\ ~IsContent(c) /\ OpenAfter(t, m + 1) >= OpenAfter(s, i)
  <2>1. Framed(t, i) <=> Framed(s, i) \/ (IsContent(c) /\ StaysOpen(s, i, m + 1))
    BY GrownFramed
  <2>2. StaysOpen(t, i, m + 1) <=> StaysOpen(s, i, m + 1)
    <3>1. m + 1 \in i .. m + 1
      BY <1>1
    <3> QED BY <3>1, GrownOpen
  <2> HIDE DEF t
  <2>3. i \in 0 .. m /\ i \in 1 .. m + 1
    BY <1>1
  <2>4. \A k : k \in i .. (m + 2) - 1 <=> k \in i .. (m + 1) - 1 \/ k = m + 1
    BY <1>1
  <2>5. (m + 1) + 1 = m + 2
    BY <1>1
  <2>6. StaysOpen(t, i, (m + 1) + 1) <=> StaysOpen(t, i, m + 1) /\ OpenAfter(t, m + 1) >= OpenAfter(t, i)
    BY <2>4, <2>5 DEF StaysOpen
  <2>7. OpenAfter(t, i) = OpenAfter(s, i) /\ t[i] = s[i]
    BY <1>1, <2>3
  <2>8. HeldBack(t, i) <=> IsBegin(s[i]) /\ StaysOpen(t, i, (m + 1) + 1) /\ ~Framed(t, i)
    BY <1>1, <2>3, <2>7 DEF HeldBack
  <2>9. HeldBack(s, i) <=> IsBegin(s[i]) /\ StaysOpen(s, i, m + 1) /\ ~Framed(s, i)
    BY DEF HeldBack
  <2> QED BY <2>1, <2>2, <2>6, <2>7, <2>8, <2>9
<1>3. HeldBack(t, m + 1) <=> IsBegin(c)
  <2>1. ~Framed(t, m + 1)
    BY LastUnframed
  <2> HIDE DEF t, m
  <2>2. m + 1 \in 1 .. m + 1 /\ \A k \in m + 1 .. ((m + 1) + 1) - 1 : k = m + 1
    BY <1>1
  <2>3. StaysOpen(t, m + 1, (m + 1) + 1)
    BY <1>1, <2>2 DEF StaysOpen
  <2> QED BY <1>1, <2>1, <2>2, <2>3 DEF HeldBack
<1>4. \A i : HeldBack(t, i) => i \in 1 .. m \/ i = m + 1
  <2>1. \A i : i \in 1 .. m + 1 => i \in 1 .. m \/ i = m + 1
    BY <1>1
  <2> HIDE DEF t, m
  <2> QED BY <1>1, <2>1 DEF HeldBack
<1> HIDE DEF t, m
<1> QED BY <1>2, <1>3, <1>4 DEF t, m

(* The pieces of s and one more.                                           *)
LEMMA FlattenExtend ==
  ASSUME NEW u, NEW v, Pieces(u), Pieces(v), Len(v) = Len(u) + 1, \A i \in 1 .. Len(u) : v[i] = u[i]
  PROVE  Seqs!FlattenSeq(v) = Seqs!FlattenSeq(u) \o v[Len(u) + 1]
<1>1. Len(u) \in Nat /\ Listed(u) /\ Listed(v)
  BY DEF Pieces, Listed
<1> DEFINE x == v[Len(u) + 1]
<1>2. Listed(x)
  <2>1. Len(u) + 1 \in 1 .. Len(v)
    BY <1>1
  <2> QED BY <2>1 DEF Pieces
<1> HIDE DEF x
<1>3. /\ Listed(Append(u, x)) /\ Len(Append(u, x)) = Len(u) + 1
      /\ \A i \in 1 .. Len(u) : Append(u, x)[i] = u[i]
      /\ Append(u, x)[Len(u) + 1] = x
  BY <1>1, AppendListed
<1>4. \A i \in 1 .. Len(v) : i \in 1 .. Len(u) \/ i = Len(u) + 1
  BY <1>1
<1>5. \A i \in 1 .. Len(v) : v[i] = Append(u, x)[i]
  BY <1>3, <1>4 DEF x
<1>6. v = Append(u, x)
  BY <1>1, <1>3, <1>5, SameListed
<1> QED BY <1>1, <1>2, <1>6, FlattenMore DEF x

(* Tabulated pieces.                                                       *)
LEMMA TabulatedPieces ==
  ASSUME NEW k \in Nat, NEW u, u = [i \in 1 .. k |-> u[i]], \A i \in 1 .. k : Listed(u[i])
  PROVE  Pieces(u) /\ Len(u) = k
<1>1. Listed(u) /\ Len(u) = k
  BY TabulatedIsListed
<1> QED BY <1>1 DEF Pieces

(***************************************************************************)
(* The headers held back                                                   *)
(***************************************************************************)
Heads(p) == Seqs!FlattenSeq([k \in 1 .. Len(p) |-> Header(p[k], 6)])

(* The headers of a list of ids are pieces.                                *)
LEMMA HeadsPieces ==
  ASSUME NEW p, Listed(p)
  PROVE  LET u == [k \in 1 .. Len(p) |-> Header(p[k], 6)] IN
         Pieces(u) /\ Len(u) = Len(p) /\ \A k \in 1 .. Len(p) : u[k] = Header(p[k], 6)
<1> DEFINE u == [k \in 1 .. Len(p) |-> Header(p[k], 6)]
<1>1. \A k \in 1 .. Len(p) : u[k] = Header(p[k], 6)
  OBVIOUS
<1>2. u = [k \in 1 .. Len(p) |-> u[k]] /\ Len(p) \in Nat
  BY DEF Listed
<1>3. \A k \in 1 .. Len(p) : Listed(u[k])
  BY <1>1, HeaderBytes
<1> HIDE DEF u
<1>4. Pieces(u) /\ Len(u) = Len(p)
  BY <1>2, <1>3, TabulatedPieces
<1> QED BY <1>1, <1>4 DEF u

(* They are listed one after the other.                                    *)
LEMMA HeadsListed == ASSUME NEW p, Listed(p) PROVE Listed(Heads(p))
BY HeadsPieces, FlattenListed DEF Heads

(* No id, no header.                                                       *)
LEMMA HeadsNone == Heads(<<>>) = <<>>
<1>1. [k \in 1 .. Len(<<>>) |-> Header(<<>>[k], 6)] = <<>>
  <2>1. Len(<<>>) = 0
    BY EmptyListed
  <2> QED BY <2>1
<1> QED BY <1>1, FlattenNone DEF Heads

(* One more header held back, or one less.                                 *)
LEMMA HeadsMore ==
  ASSUME NEW p, Listed(p), NEW x
  PROVE  Heads(Append(p, x)) = Heads(p) \o Header(x, 6)
<1> DEFINE q == Append(p, x)
           u == [k \in 1 .. Len(p) |-> Header(p[k], 6)]
           v == [k \in 1 .. Len(q) |-> Header(q[k], 6)]
<1>1. Listed(q) /\ Len(q) = Len(p) + 1 /\ q[Len(p) + 1] = x /\ \A k \in 1 .. Len(p) : q[k] = p[k]
  BY AppendListed
<1>0. Len(p) \in Nat
  BY DEF Listed
<1> HIDE DEF q
<1>2. Pieces(u) /\ Len(u) = Len(p) /\ \A k \in 1 .. Len(p) : u[k] = Header(p[k], 6)
  BY HeadsPieces
<1>3. Pieces(v) /\ Len(v) = Len(q) /\ \A k \in 1 .. Len(q) : v[k] = Header(q[k], 6)
  BY <1>1, HeadsPieces
<1> HIDE DEF u, v
<1>4. \A k \in 1 .. Len(p) : k \in 1 .. Len(q) /\ v[k] = u[k]
  BY <1>0, <1>1, <1>2, <1>3
<1>5. Len(p) + 1 \in 1 .. Len(q) /\ v[Len(p) + 1] = Header(x, 6)
  BY <1>0, <1>1, <1>3
<1>6. Seqs!FlattenSeq(v) = Seqs!FlattenSeq(u) \o Header(x, 6)
  BY <1>1, <1>2, <1>3, <1>4, <1>5, FlattenExtend, SMTT(30)
<1> QED BY <1>6 DEF Heads, u, v, q

(***************************************************************************)
(* What the calls spell                                                    *)
(***************************************************************************)
(* What call i adds to the message, and what it adds when the headers      *)
(* still held back are counted in.                                         *)
Said(s, i) == IF Reaches(s, i) THEN Image(s[i]) ELSE <<>>
Mark(s, i) == IF Reaches(s, i) \/ HeldBack(s, i) THEN Image(s[i]) ELSE <<>>

(* What the calls spell with the headers still held back.                  *)
Marked(s) == Seqs!FlattenSeq([i \in 1 .. Len(s) |-> Mark(s, i)])

(* Every call has an image.                                                *)
Imaged(s) == Listed(s) /\ \A i \in 1 .. Len(s) : Listed(Image(s[i]))

(* What the calls say, and say with the headers held back, are pieces.     *)
LEMMA SaidPieces ==
  ASSUME NEW s, Imaged(s)
  PROVE  /\ LET u == [i \in 1 .. Len(s) |-> Said(s, i)] IN
            /\ Spelled(s) = Seqs!FlattenSeq(u)
            /\ Pieces(u) /\ Len(u) = Len(s)
            /\ \A i \in 1 .. Len(s) : u[i] = Said(s, i)
         /\ LET w == [i \in 1 .. Len(s) |-> Mark(s, i)] IN
            /\ Pieces(w) /\ Len(w) = Len(s)
            /\ \A i \in 1 .. Len(s) : w[i] = Mark(s, i)
<1> DEFINE u == [i \in 1 .. Len(s) |-> Said(s, i)]
           w == [i \in 1 .. Len(s) |-> Mark(s, i)]
<1>1. Spelled(s) = Seqs!FlattenSeq(u)
  BY Zenon DEF Spelled, Said
<1>2. /\ \A i \in 1 .. Len(s) : u[i] = Said(s, i)
      /\ \A i \in 1 .. Len(s) : w[i] = Mark(s, i)
  OBVIOUS
<1>3. u = [i \in 1 .. Len(s) |-> u[i]] /\ w = [i \in 1 .. Len(s) |-> w[i]] /\ Len(s) \in Nat
  BY DEF Imaged, Listed
<1>4. \A i \in 1 .. Len(s) : Listed(Said(s, i)) /\ Listed(Mark(s, i))
  BY EmptyListed DEF Said, Mark, Imaged
<1> HIDE DEF u, w
<1>5. \A i \in 1 .. Len(s) : Listed(u[i]) /\ Listed(w[i])
  BY <1>2, <1>4
<1>6. Pieces(u) /\ Len(u) = Len(s)
  BY <1>3, <1>5, TabulatedPieces
<1>7. Pieces(w) /\ Len(w) = Len(s)
  BY <1>3, <1>5, TabulatedPieces
<1> QED BY <1>1, <1>2, <1>6, <1>7 DEF u, w

(* Both messages are listed.                                               *)
LEMMA SpelledListed == ASSUME NEW s, Imaged(s) PROVE Listed(Spelled(s)) /\ Listed(Marked(s))
BY SaidPieces, FlattenListed DEF Marked

(* One more call with an image.                                            *)
LEMMA ImagedMore ==
  ASSUME NEW s, Imaged(s), NEW c, Listed(Image(c))
  PROVE  Imaged(Append(s, c))
<1>1. /\ Listed(Append(s, c)) /\ Len(s) \in Nat /\ Len(Append(s, c)) = Len(s) + 1
      /\ Append(s, c)[Len(s) + 1] = c /\ \A i \in 1 .. Len(s) : Append(s, c)[i] = s[i]
  BY Grown DEF Imaged
<1>2. \A i \in 1 .. Len(s) + 1 : i \in 1 .. Len(s) \/ i = Len(s) + 1
  BY <1>1
<1> QED BY <1>1, <1>2 DEF Imaged

(* A begin is a header.                                                    *)
LEMMA BeginImage == ASSUME NEW c, IsBegin(c) PROVE Image(c) = Header(c.id, 6) /\ Listed(Image(c))
<1>1. Image(c) = Header(c.id, 6)
  BY DEF Image, IsBegin
<1> QED BY <1>1, HeaderBytes

(* An end is the end marker, a header of id 0.                             *)
LEMMA EndImage == ASSUME NEW c, IsEnd(c) PROVE Image(c) = Header(0, 7) /\ Listed(Image(c))
<1>1. Image(c) = Header(0, 7)
  BY DEF Image, IsEnd, IsBegin
<1> QED BY <1>1, HeaderBytes

(* Content spells the headers held back, outermost first, and itself.      *)
LEMMA ContentSpells ==
  ASSUME NEW s, Imaged(s), NEW c, Listed(Image(c)), IsContent(c)
  PROVE  /\ Spelled(Append(s, c)) = Marked(s) \o Image(c)
         /\ Marked(Append(s, c)) = Spelled(Append(s, c))
         /\ \A i : ~HeldBack(Append(s, c), i)
<1> DEFINE t == Append(s, c)
           m == Len(s)
           u == [i \in 1 .. Len(t) |-> Said(t, i)]
           w == [i \in 1 .. Len(s) |-> Mark(s, i)]
           z == [i \in 1 .. Len(t) |-> Mark(t, i)]
<1>1. /\ m \in Nat /\ Len(t) = m + 1 /\ t[m + 1] = c /\ \A i \in 1 .. m : t[i] = s[i]
  BY Grown DEF Imaged
<1>2. \A i : ~HeldBack(t, i)
  <2>1. ~IsBegin(c)
    BY DEF IsContent
  <2> QED BY <2>1, GrownHeld DEF Imaged
<1>3. Reaches(t, m + 1)
  BY <1>1 DEF Reaches, IsContent
<1>4. \A i \in 1 .. m : Reaches(t, i) <=> Reaches(s, i) \/ HeldBack(s, i)
  BY GrownReaches DEF Imaged
<1>5. /\ Spelled(t) = Seqs!FlattenSeq(u)
      /\ Pieces(u) /\ Len(u) = Len(t)
      /\ \A i \in 1 .. Len(t) : u[i] = Said(t, i)
      /\ Pieces(z) /\ Len(z) = Len(t)
      /\ \A i \in 1 .. Len(t) : z[i] = Mark(t, i)
  BY ImagedMore, SaidPieces
<1>6. Pieces(w) /\ Len(w) = Len(s) /\ \A i \in 1 .. Len(s) : w[i] = Mark(s, i)
  BY SaidPieces
<1>7. Marked(s) = Seqs!FlattenSeq(w) /\ Marked(t) = Seqs!FlattenSeq(z)
  BY Zenon DEF Marked
<1> HIDE DEF t, m, u, w, z
<1>8. \A i \in 1 .. m : Said(t, i) = Mark(s, i)
  BY <1>1, <1>4 DEF Said, Mark
<1>9. Said(t, m + 1) = Image(c)
  BY <1>1, <1>3 DEF Said
<1>10. \A i \in 1 .. m : i \in 1 .. Len(t) /\ u[i] = w[i]
  BY <1>1, <1>5, <1>6, <1>8 DEF m
<1>11. m + 1 \in 1 .. Len(t) /\ u[m + 1] = Image(c)
  BY <1>1, <1>5, <1>9
<1>12. Seqs!FlattenSeq(u) = Seqs!FlattenSeq(w) \o u[Len(w) + 1]
  BY <1>1, <1>5, <1>6, <1>10, FlattenExtend DEF m
<1>13. Spelled(t) = Marked(s) \o Image(c)
  BY <1>5, <1>6, <1>7, <1>11, <1>12 DEF m
<1>14. z = u
  <2>1. \A i \in 1 .. Len(t) : z[i] = u[i]
    BY <1>2, <1>5 DEF Said, Mark
  <2> QED BY <1>5, <2>1, SameListed DEF Pieces
<1> QED BY <1>2, <1>5, <1>7, <1>13, <1>14 DEF t

(* A begin spells nothing yet: its header is held back.                    *)
LEMMA BeginSpells ==
  ASSUME NEW s, Imaged(s), NEW c, IsBegin(c)
  PROVE  /\ Spelled(Append(s, c)) = Spelled(s)
         /\ Marked(Append(s, c)) = Marked(s) \o Header(c.id, 6)
         /\ \A i \in 1 .. Len(s) : HeldBack(Append(s, c), i) <=> HeldBack(s, i)
<1> DEFINE t == Append(s, c)
           m == Len(s)
           u == [i \in 1 .. Len(s) |-> Said(s, i)]
           v == [i \in 1 .. Len(t) |-> Said(t, i)]
           w == [i \in 1 .. Len(s) |-> Mark(s, i)]
           z == [i \in 1 .. Len(t) |-> Mark(t, i)]
<1>1. /\ m \in Nat /\ Len(t) = m + 1 /\ t[m + 1] = c /\ \A i \in 1 .. m : t[i] = s[i]
      /\ \A k \in 0 .. m : OpenAfter(s, k) \in Int
      /\ OpenAfter(t, m + 1) = OpenAfter(s, m) + 1
  BY Grown DEF Imaged
<1>0. ~IsContent(c)
  BY DEF IsContent
<1>2. \A i \in 1 .. m : HeldBack(t, i) <=> HeldBack(s, i)
  <2> SUFFICES ASSUME NEW i \in 1 .. m PROVE HeldBack(t, i) <=> HeldBack(s, i)
    OBVIOUS
  <2>1. HeldBack(t, i) <=> HeldBack(s, i) /\ ~IsContent(c) /\ OpenAfter(t, m + 1) >= OpenAfter(s, i)
    BY GrownHeld DEF Imaged
  <2> HIDE DEF t
  <2>2. HeldBack(s, i) => OpenAfter(s, m) >= OpenAfter(s, i)
    <3>1. m \in i .. (m + 1) - 1
      BY <1>1
    <3> QED BY <3>1 DEF HeldBack, StaysOpen
  <2>3. OpenAfter(s, m) \in Int /\ OpenAfter(s, i) \in Int
    <3>1. m \in 0 .. m /\ i \in 0 .. m
      BY <1>1
    <3> HIDE DEF m
    <3> QED BY <1>1, <3>1
  <2> QED BY <1>0, <1>1, <2>1, <2>2, <2>3
<1>3. ~Reaches(t, m + 1) /\ HeldBack(t, m + 1)
  <2>1. ~Framed(t, m + 1) /\ HeldBack(t, m + 1)
    BY LastUnframed, GrownHeld DEF Imaged
  <2> QED BY <1>1, <2>1 DEF Reaches, IsBegin
<1>4. \A i \in 1 .. m : Reaches(t, i) <=> Reaches(s, i)
  BY <1>0, GrownReaches DEF Imaged
<1>5. /\ Spelled(s) = Seqs!FlattenSeq(u)
      /\ Pieces(u) /\ Len(u) = Len(s)
      /\ \A i \in 1 .. Len(s) : u[i] = Said(s, i)
      /\ Pieces(w) /\ Len(w) = Len(s)
      /\ \A i \in 1 .. Len(s) : w[i] = Mark(s, i)
  BY SaidPieces
<1>6. /\ Spelled(t) = Seqs!FlattenSeq(v)
      /\ Pieces(v) /\ Len(v) = Len(t)
      /\ \A i \in 1 .. Len(t) : v[i] = Said(t, i)
      /\ Pieces(z) /\ Len(z) = Len(t)
      /\ \A i \in 1 .. Len(t) : z[i] = Mark(t, i)
  BY BeginImage, ImagedMore, SaidPieces
<1>7. Marked(s) = Seqs!FlattenSeq(w) /\ Marked(t) = Seqs!FlattenSeq(z)
  BY Zenon DEF Marked
<1>8. Image(c) = Header(c.id, 6)
  BY BeginImage
<1> HIDE DEF t, m, u, v, w, z
<1>9. \A i \in 1 .. m : Said(t, i) = Said(s, i) /\ Mark(t, i) = Mark(s, i)
  BY <1>1, <1>2, <1>4 DEF Said, Mark
<1>10. Said(t, m + 1) = <<>> /\ Mark(t, m + 1) = Header(c.id, 6)
  BY <1>1, <1>3, <1>8 DEF Said, Mark
<1>11. \A i \in 1 .. m : i \in 1 .. Len(t) /\ v[i] = u[i] /\ z[i] = w[i]
  BY <1>1, <1>5, <1>6, <1>9 DEF m
<1>12. m + 1 \in 1 .. Len(t) /\ v[m + 1] = <<>> /\ z[m + 1] = Header(c.id, 6)
  BY <1>1, <1>6, <1>10
<1>13. Seqs!FlattenSeq(v) = Seqs!FlattenSeq(u) \o v[Len(u) + 1]
  BY <1>1, <1>5, <1>6, <1>11, FlattenExtend DEF m
<1>14. Seqs!FlattenSeq(z) = Seqs!FlattenSeq(w) \o z[Len(w) + 1]
  BY <1>1, <1>5, <1>6, <1>11, FlattenExtend DEF m
<1>15. Seqs!FlattenSeq(u) \o <<>> = Seqs!FlattenSeq(u)
  BY <1>5, FlattenListed, NothingAdded
<1>16. Spelled(t) = Spelled(s)
  BY <1>5, <1>6, <1>12, <1>13, <1>15 DEF m
<1>17. Marked(t) = Marked(s) \o Header(c.id, 6)
  BY <1>5, <1>7, <1>12, <1>14 DEF m
<1> QED BY <1>2, <1>16, <1>17 DEF t, m

(* The innermost open sequence is the only one that the next end closes.   *)
LEMMA OneOpener ==
  ASSUME NEW s, Listed(s), NEW x \in 1 .. Len(s), NEW y \in 1 .. Len(s),
         IsBegin(s[x]), IsBegin(s[y]), OpenAfter(s, x) = OpenAfter(s, y),
         StaysOpen(s, x, Len(s) + 1), StaysOpen(s, y, Len(s) + 1)
  PROVE  x = y
<1>0. Len(s) \in Nat /\ x \in Nat \ {0} /\ y \in Nat \ {0}
  BY DEF Listed
<1>1. ASSUME NEW a \in 1 .. Len(s), NEW b \in 1 .. Len(s), a < b,
             IsBegin(s[b]), OpenAfter(s, a) = OpenAfter(s, b), StaysOpen(s, a, Len(s) + 1)
      PROVE  FALSE
  <2>1. b - 1 \in Nat /\ (b - 1) + 1 = b /\ b - 1 \in a .. (Len(s) + 1) - 1
    BY <1>0, <1>1
  <2>2. OpenAfter(s, b - 1) \in Int /\ OpenAfter(s, (b - 1) + 1) = OpenAfter(s, b - 1) + 1
    <3>1. IsBegin(s[(b - 1) + 1])
      BY <1>1, <2>1
    <3> QED BY <2>1, <3>1, OpenNext
  <2>3. OpenAfter(s, b - 1) >= OpenAfter(s, a)
    BY <1>1, <2>1 DEF StaysOpen
  <2> QED BY <1>1, <2>1, <2>2, <2>3
<1>2. ~(x < y)
  BY <1>1
<1>3. ~(y < x)
  BY <1>1
<1> QED BY <1>0, <1>2, <1>3

(* While a sequence is open there is one that the next end closes.         *)
LEMMA SomeOpener ==
  ASSUME NEW s, Listed(s), OpenAfter(s, Len(s)) > 0
  PROVE  \E x \in 1 .. Len(s) : /\ IsBegin(s[x]) /\ OpenAfter(s, x) = OpenAfter(s, Len(s))
                                /\ StaysOpen(s, x, Len(s) + 1)
<1> DEFINE m == Len(s)
           d == OpenAfter(s, m)
           From == {x \in 1 .. m : \A k \in x .. m : OpenAfter(s, k) >= d}
<1>0. m \in Nat /\ d \in Int /\ d > 0
  <2>1. m \in Nat
    BY DEF Listed
  <2> QED BY <2>1, OpenNext
<1>1. m # 0
  <2>1. OpenAfter(s, 0) = 0
    BY OpenZero
  <2> QED BY <1>0, <2>1
<1>2. m \in From
  <2>1. m \in 1 .. m /\ \A k \in m .. m : k = m
    BY <1>0, <1>1
  <2> HIDE DEF m, d
  <2>2. \A k \in m .. m : OpenAfter(s, k) >= d
    BY <1>0, <2>1 DEF d
  <2> QED BY <2>1, <2>2
<1>3. PICK x \in From : \A y \in From : x <= y
  <2>1. From \subseteq Nat
    BY <1>0
  <2> HIDE DEF From
  <2> QED BY <1>2, <2>1, LeastNatural
<1>4. x \in 1 .. m /\ x \in Nat /\ x - 1 \in Nat /\ (x - 1) + 1 = x /\ ~(x <= x - 1)
  BY <1>0
<1>5. \A k \in x .. m : OpenAfter(s, k) >= d
  OBVIOUS
<1> HIDE DEF d, m
<1>6. OpenAfter(s, x - 1) \in Int /\ OpenAfter(s, x) \in Int
  BY <1>4, OpenNext
<1>7. OpenAfter(s, x - 1) < d
  <2>1. CASE x = 1
    <3>1. OpenAfter(s, x - 1) = 0
      BY <2>1, OpenZero
    <3> QED BY <1>0, <3>1
  <2>2. CASE x # 1
    <3> SUFFICES ASSUME OpenAfter(s, x - 1) >= d PROVE FALSE
      BY <1>0, <1>6
    <3>1. \A k \in x - 1 .. m : k = x - 1 \/ k \in x .. m
      BY <1>0, <1>4
    <3>2. x - 1 \in 1 .. m
      BY <1>0, <1>4, <2>2
    <3>3. \A k \in x - 1 .. m : OpenAfter(s, k) >= d
      BY <1>5, <3>1
    <3>4. x - 1 \in From
      BY <3>2, <3>3
    <3> HIDE DEF From
    <3> QED BY <1>3, <1>4, <3>4
  <2> QED BY <2>1, <2>2
<1>8. OpenAfter(s, x) >= d
  <2>1. x \in x .. m
    BY <1>0, <1>4
  <2> QED BY <1>5, <2>1
<1>9. IsBegin(s[x]) /\ OpenAfter(s, x) = d
  <2>1. /\ IsBegin(s[x]) => OpenAfter(s, x) = OpenAfter(s, x - 1) + 1
        /\ IsEnd(s[x]) => OpenAfter(s, x) = OpenAfter(s, x - 1) - 1
        /\ ~IsBegin(s[x]) /\ ~IsEnd(s[x]) => OpenAfter(s, x) = OpenAfter(s, x - 1)
    BY <1>4, OpenNext
  <2> QED BY <1>0, <1>6, <1>7, <1>8, <2>1
<1>10. StaysOpen(s, x, m + 1)
  <2>1. (m + 1) - 1 = m
    BY <1>0
  <2> QED BY <1>5, <1>9, <2>1 DEF StaysOpen
<1> QED BY <1>4, <1>9, <1>10 DEF m, d

(* A call that changes nothing of the past adds its own image or nothing.  *)
LEMMA SpelledMore ==
  ASSUME NEW s, Imaged(s), NEW c, Listed(Image(c)),
         \A i \in 1 .. Len(s) : Reaches(Append(s, c), i) <=> Reaches(s, i)
  PROVE  Spelled(Append(s, c)) =
           IF Reaches(Append(s, c), Len(s) + 1) THEN Spelled(s) \o Image(c) ELSE Spelled(s)
<1> DEFINE t == Append(s, c)
           m == Len(s)
           u == [i \in 1 .. Len(s) |-> Said(s, i)]
           v == [i \in 1 .. Len(t) |-> Said(t, i)]
<1>1. /\ m \in Nat /\ Len(t) = m + 1 /\ t[m + 1] = c /\ \A i \in 1 .. m : t[i] = s[i]
  BY Grown DEF Imaged
<1>2. \A i \in 1 .. m : Reaches(t, i) <=> Reaches(s, i)
  OBVIOUS
<1>5. /\ Spelled(s) = Seqs!FlattenSeq(u)
      /\ Pieces(u) /\ Len(u) = Len(s)
      /\ \A i \in 1 .. Len(s) : u[i] = Said(s, i)
  BY SaidPieces
<1>6. /\ Spelled(t) = Seqs!FlattenSeq(v)
      /\ Pieces(v) /\ Len(v) = Len(t)
      /\ \A i \in 1 .. Len(t) : v[i] = Said(t, i)
  BY ImagedMore, SaidPieces
<1> HIDE DEF t, m, u, v
<1>9. \A i \in 1 .. m : Said(t, i) = Said(s, i)
  BY <1>1, <1>2 DEF Said
<1>11. \A i \in 1 .. m : i \in 1 .. Len(t) /\ v[i] = u[i]
  BY <1>1, <1>5, <1>6, <1>9 DEF m
<1>12. m + 1 \in 1 .. Len(t) /\ v[m + 1] = IF Reaches(t, m + 1) THEN Image(c) ELSE <<>>
  BY <1>1, <1>6 DEF Said
<1>13. Seqs!FlattenSeq(v) = Seqs!FlattenSeq(u) \o v[Len(u) + 1]
  BY <1>1, <1>5, <1>6, <1>11, FlattenExtend DEF m
<1>15. Seqs!FlattenSeq(u) \o <<>> = Seqs!FlattenSeq(u)
  BY <1>5, FlattenListed, NothingAdded
<1>16. Spelled(t) = IF Reaches(t, m + 1) THEN Spelled(s) \o Image(c) ELSE Spelled(s)
  BY <1>5, <1>6, <1>12, <1>13, <1>15 DEF m
<1> QED BY <1>16 DEF t, m

(* When nothing is held back the two messages are the same.                *)
LEMMA NothingHeld ==
  ASSUME NEW s, \A i : ~HeldBack(s, i)
  PROVE  Marked(s) = Spelled(s)
<1>1. [i \in 1 .. Len(s) |-> Mark(s, i)] = [i \in 1 .. Len(s) |-> IF Reaches(s, i) THEN Image(s[i]) ELSE <<>>]
  <2>1. \A i \in 1 .. Len(s) : Mark(s, i) = IF Reaches(s, i) THEN Image(s[i]) ELSE <<>>
    BY DEF Mark
  <2> QED BY <2>1
<1> QED BY <1>1, Zenon DEF Marked, Spelled

(* While a sequence is held back nothing behind its begin is written: it   *)
(* would frame it.                                                         *)
LEMMA NothingBehindHeld ==
  ASSUME NEW s, Listed(s), NEW o, HeldBack(s, o), NEW i \in o + 1 .. Len(s)
  PROVE  ~Reaches(s, i)
<1> DEFINE m == Len(s)
<1>0. m \in Nat /\ o \in 1 .. m /\ o \in Nat \ {0} /\ i \in Nat /\ i \in 1 .. m
  BY DEF Listed, HeldBack
<1> HIDE DEF m
<1>1. \A k \in o .. m : OpenAfter(s, k) >= OpenAfter(s, o)
  <2>1. (m + 1) - 1 = m
    BY <1>0
  <2> QED BY <2>1 DEF HeldBack, StaysOpen, m
<1>2. ASSUME NEW j \in o + 1 .. m, IsContent(s[j]) PROVE FALSE
  <2>1. \A k \in o .. j - 1 : k \in o .. m
    BY <1>0, <1>2
  <2>2. StaysOpen(s, o, j)
    BY <1>1, <2>1 DEF StaysOpen
  <2> QED BY <1>2, <2>2 DEF HeldBack, Framed, m
<1>3. CASE IsContent(s[i])
  BY <1>2, <1>3 DEF m
<1>4. CASE IsBegin(s[i])
  <2> SUFFICES ASSUME Reaches(s, i) PROVE FALSE
    OBVIOUS
  <2>1. Framed(s, i)
    BY <1>4 DEF Reaches, IsBegin
  <2>2. PICK j \in i + 1 .. m : IsContent(s[j])
    BY <2>1 DEF Framed, m
  <2>3. j \in o + 1 .. m
    BY <1>0, <2>2
  <2> QED BY <1>2, <2>2, <2>3
<1>5. CASE s[i].m = "WriteSequenceEnd"
  <2> SUFFICES ASSUME Reaches(s, i) PROVE FALSE
    OBVIOUS
  <2>1. PICK x \in 1 .. i - 1 : Closes(s, i, x) /\ Framed(s, x)
    BY <1>5 DEF Reaches, IsBegin
  <2>2. PICK j \in x + 1 .. m : IsContent(s[j])
    BY <2>1 DEF Framed, m
  <2>3. x < o
    <3> SUFFICES ASSUME ~(x < o) PROVE FALSE
      OBVIOUS
    <3>1. j \in o + 1 .. m
      BY <1>0, <2>2
    <3> QED BY <1>2, <2>2, <3>1
  <2>4. o \in x .. i - 1 /\ i \in o .. m /\ i - 1 \in Nat /\ (i - 1) + 1 = i
    BY <1>0, <2>3 DEF m
  <2>5. OpenAfter(s, o) >= OpenAfter(s, x) /\ OpenAfter(s, x) = OpenAfter(s, i - 1)
    BY <2>1, <2>4 DEF Closes, StaysOpen
  <2>6. OpenAfter(s, i - 1) \in Int /\ OpenAfter(s, i) = OpenAfter(s, i - 1) - 1
    <3>1. IsEnd(s[(i - 1) + 1])
      BY <1>5, <2>4 DEF IsEnd
    <3>2. OpenAfter(s, i - 1) \in Int /\ OpenAfter(s, (i - 1) + 1) = OpenAfter(s, i - 1) - 1
      BY <2>4, <3>1, OpenNext
    <3> QED BY <2>4, <3>2
  <2>7. OpenAfter(s, i) >= OpenAfter(s, o) /\ OpenAfter(s, o) \in Int
    BY <1>0, <1>1, <2>4, OpenNext
  <2> QED BY <2>5, <2>6, <2>7
<1>6. IsContent(s[i]) \/ IsBegin(s[i]) \/ s[i].m = "WriteSequenceEnd"
  BY DEF IsContent
<1> QED BY <1>3, <1>4, <1>5, <1>6

(* The innermost sequence ends while it is held back: it spells nothing,   *)
(* and its header is held back no more.                                    *)
LEMMA EndHeldHolds ==
  ASSUME NEW s, Listed(s), NEW c, c.m = "WriteSequenceEnd",
         NEW o, HeldBack(s, o), OpenAfter(s, o) = OpenAfter(s, Len(s))
  PROVE  /\ ~Reaches(Append(s, c), Len(s) + 1)
         /\ \A i : HeldBack(Append(s, c), i) <=> HeldBack(s, i) /\ i # o
<1> DEFINE t == Append(s, c)
           m == Len(s)
<1>0. IsEnd(c) /\ ~IsContent(c) /\ ~IsBegin(c)
  BY DEF IsEnd, IsContent, IsBegin
<1>1. /\ m \in Nat /\ Len(t) = m + 1 /\ t[m + 1] = c /\ \A i \in 1 .. m : t[i] = s[i]
      /\ \A k \in 0 .. m : OpenAfter(t, k) = OpenAfter(s, k) /\ OpenAfter(s, k) \in Int
      /\ OpenAfter(t, m + 1) = OpenAfter(s, m) - 1
  BY <1>0, Grown
<1>2. o \in 1 .. m /\ IsBegin(s[o]) /\ StaysOpen(s, o, m + 1) /\ ~Framed(s, o)
  BY DEF HeldBack
<1>3. ASSUME NEW x \in 1 .. m, IsBegin(s[x]), StaysOpen(s, x, m + 1), x # o
      PROVE  OpenAfter(s, x) \in Int /\ OpenAfter(s, m) - 1 >= OpenAfter(s, x)
  <2>1. OpenAfter(s, x) # OpenAfter(s, m)
    BY <1>2, <1>3, OneOpener
  <2> HIDE DEF m, t
  <2>2. m \in x .. (m + 1) - 1 /\ x \in 0 .. m /\ m \in 0 .. m
    BY <1>1
  <2>3. OpenAfter(s, m) >= OpenAfter(s, x)
    BY <1>3, <2>2 DEF StaysOpen
  <2> QED BY <1>1, <2>1, <2>2, <2>3
<1>4. ~Reaches(t, m + 1)
  <2> SUFFICES ASSUME Reaches(t, m + 1) PROVE FALSE
    OBVIOUS
  <2>1. (m + 1) - 1 = m /\ m \in 0 .. m
    BY <1>1
  <2>2. PICK x \in 1 .. m : Closes(t, m + 1, x) /\ Framed(t, x)
    <3> HIDE DEF m, t
    <3> QED BY <1>0, <1>1, <2>1 DEF Reaches, IsBegin
  <2>3. Framed(s, x)
    BY <1>0, <2>2, GrownFramed
  <2>4. StaysOpen(s, x, m + 1)
    <3>1. m + 1 \in x .. m + 1
      BY <1>1
    <3>2. StaysOpen(t, x, m + 1)
      BY <2>2 DEF Closes
    <3> QED BY <3>1, <3>2, GrownOpen
  <2> HIDE DEF m, t
  <2>5. IsBegin(s[x]) /\ OpenAfter(s, x) = OpenAfter(s, m)
    <3>1. x \in 0 .. m
      BY <1>1
    <3>2. OpenAfter(t, x) = OpenAfter(t, m) /\ IsBegin(t[x])
      BY <2>1, <2>2 DEF Closes
    <3> QED BY <1>1, <2>1, <3>1, <3>2
  <2>6. x = o
    <3>1. m \in 0 .. m /\ x \in 0 .. m
      BY <1>1
    <3>2. x # o => OpenAfter(s, x) \in Int /\ OpenAfter(s, m) - 1 >= OpenAfter(s, x)
      BY <1>3, <2>4, <2>5
    <3> QED BY <1>1, <2>5, <3>1, <3>2
  <2> QED BY <1>2, <2>3, <2>6
<1>5. ASSUME NEW i PROVE HeldBack(t, i) <=> HeldBack(s, i) /\ i # o
  <2>1. /\ HeldBack(t, i) => i \in 1 .. m \/ i = m + 1
        /\ ~HeldBack(t, m + 1)
    BY <1>0, GrownHeld
  <2>2. HeldBack(s, i) => i \in 1 .. m
    BY DEF HeldBack
  <2>3. ASSUME i \in 1 .. m PROVE HeldBack(t, i) <=> HeldBack(s, i) /\ OpenAfter(s, m) - 1 >= OpenAfter(s, i)
    <3>1. HeldBack(t, i) <=> HeldBack(s, i) /\ ~IsContent(c) /\ OpenAfter(t, m + 1) >= OpenAfter(s, i)
      BY <2>3, GrownHeld
    <3> HIDE DEF m, t
    <3> QED BY <1>0, <1>1, <3>1
  <2>4. HeldBack(s, i) /\ i # o => OpenAfter(s, m) - 1 >= OpenAfter(s, i)
    BY <1>3 DEF HeldBack
  <2>5. ~(OpenAfter(s, m) - 1 >= OpenAfter(s, o))
    <3>1. m \in 0 .. m
      BY <1>1
    <3>2. OpenAfter(s, m) \in Int
      BY <1>1, <3>1
    <3> QED BY <3>2
  <2> HIDE DEF m, t
  <2> QED BY <2>1, <2>2, <2>3, <2>4, <2>5
<1> QED BY <1>4, <1>5 DEF t, m

(* A begin of pieces, one longer.                                          *)
LEMMA FlattenFirst ==
  ASSUME NEW w, Pieces(w), NEW o \in 1 .. Len(w)
  PROVE  /\ Pieces(SubSeq(w, 1, o - 1)) /\ Len(SubSeq(w, 1, o - 1)) = o - 1
         /\ \A i \in 1 .. o - 1 : SubSeq(w, 1, o - 1)[i] = w[i]
         /\ Seqs!FlattenSeq(SubSeq(w, 1, o)) = Seqs!FlattenSeq(SubSeq(w, 1, o - 1)) \o w[o]
<1>1. Listed(w) /\ Len(w) \in Nat /\ o \in 0 .. Len(w) /\ o - 1 \in 0 .. Len(w) /\ o \in Nat \ {0}
  BY DEF Pieces, Listed
<1> DEFINE u == SubSeq(w, 1, o - 1)
           v == SubSeq(w, 1, o)
<1>2. Listed(u) /\ Len(u) = o - 1 /\ \A i \in 1 .. o - 1 : u[i] = w[i]
  BY <1>1, FirstListed
<1>3. Listed(v) /\ Len(v) = o /\ \A i \in 1 .. o : v[i] = w[i]
  BY <1>1, FirstListed
<1> HIDE DEF u, v
<1>4. \A i \in 1 .. o : i \in 1 .. Len(w) /\ Listed(w[i])
  BY <1>1 DEF Pieces
<1>5. \A i \in 1 .. o - 1 : i \in 1 .. o
  BY <1>1
<1>6. Pieces(u) /\ Pieces(v)
  BY <1>2, <1>3, <1>4, <1>5 DEF Pieces
<1>7. Len(v) = Len(u) + 1 /\ Len(u) + 1 = o /\ o \in 1 .. o
  BY <1>1, <1>2, <1>3
<1>8. \A i \in 1 .. Len(u) : v[i] = u[i]
  BY <1>2, <1>3, <1>5
<1>9. Seqs!FlattenSeq(v) = Seqs!FlattenSeq(u) \o v[Len(u) + 1]
  BY <1>6, <1>7, <1>8, FlattenExtend
<1>10. v[Len(u) + 1] = w[o]
  BY <1>3, <1>7
<1> QED BY <1>2, <1>6, <1>9, <1>10 DEF u, v

(* The innermost header held back is the last piece that is marked.        *)
LEMMA EndHeldSpells ==
  ASSUME NEW s, Imaged(s), NEW c, c.m = "WriteSequenceEnd",
         NEW o, HeldBack(s, o), OpenAfter(s, o) = OpenAfter(s, Len(s))
  PROVE  /\ Spelled(Append(s, c)) = Spelled(s)
         /\ Marked(s) = Marked(Append(s, c)) \o Image(s[o])
<1> DEFINE t == Append(s, c)
           m == Len(s)
           w == [i \in 1 .. Len(s) |-> Mark(s, i)]
           z == [i \in 1 .. Len(t) |-> Mark(t, i)]
<1>0. IsEnd(c) /\ ~IsContent(c) /\ Listed(Image(c))
  <2>1. IsEnd(c) /\ ~IsContent(c)
    BY DEF IsEnd, IsContent
  <2> QED BY <2>1, EndImage
<1>1. /\ m \in Nat /\ Len(t) = m + 1 /\ t[m + 1] = c /\ \A i \in 1 .. m : t[i] = s[i]
  BY Grown DEF Imaged
<1>2. \A i \in 1 .. m : Reaches(t, i) <=> Reaches(s, i)
  BY <1>0, GrownReaches DEF Imaged
<1>3. ~Reaches(t, m + 1) /\ \A i : HeldBack(t, i) <=> HeldBack(s, i) /\ i # o
  BY EndHeldHolds DEF Imaged
<1>4. Spelled(t) = Spelled(s)
  BY <1>0, <1>2, <1>3, SpelledMore
<1>5. Pieces(w) /\ Len(w) = Len(s) /\ \A i \in 1 .. Len(s) : w[i] = Mark(s, i)
  BY SaidPieces
<1>6. Pieces(z) /\ Len(z) = Len(t) /\ \A i \in 1 .. Len(t) : z[i] = Mark(t, i)
  BY <1>0, ImagedMore, SaidPieces
<1>7. Marked(s) = Seqs!FlattenSeq(w) /\ Marked(t) = Seqs!FlattenSeq(z)
  BY Zenon DEF Marked
<1>8. o \in 1 .. m /\ o \in Nat \ {0} /\ o - 1 \in Nat /\ (o - 1) + 1 = o /\ o - 1 \in 0 .. m + 1 /\ o \in 0 .. m
  BY <1>1 DEF HeldBack
<1>9. \A i \in o + 1 .. m : ~Reaches(s, i) /\ ~HeldBack(s, i)
  <2> SUFFICES ASSUME NEW i \in o + 1 .. m PROVE ~Reaches(s, i) /\ ~HeldBack(s, i)
    OBVIOUS
  <2>1. ~Reaches(s, i)
    BY NothingBehindHeld DEF Imaged
  <2>2. ~HeldBack(s, i)
    <3> SUFFICES ASSUME HeldBack(s, i) PROVE FALSE
      OBVIOUS
    <3>1. i \in Nat /\ i - 1 \in o .. (m + 1) - 1 /\ i - 1 \in Nat /\ (i - 1) + 1 = i /\ m \in i .. (m + 1) - 1
      BY <1>1, <1>8
    <3>2. OpenAfter(s, i - 1) >= OpenAfter(s, o)
      BY <3>1 DEF HeldBack, StaysOpen
    <3>3. OpenAfter(s, m) >= OpenAfter(s, i)
      BY <3>1 DEF HeldBack, StaysOpen
    <3>4. OpenAfter(s, i - 1) \in Int /\ OpenAfter(s, i) = OpenAfter(s, i - 1) + 1
      <4>1. IsBegin(s[(i - 1) + 1])
        BY <3>1 DEF HeldBack
      <4>2. OpenAfter(s, i - 1) \in Int /\ OpenAfter(s, (i - 1) + 1) = OpenAfter(s, i - 1) + 1
        BY <3>1, <4>1, OpenNext
      <4> QED BY <3>1, <4>2
    <3>5. OpenAfter(s, m) \in Int
      BY <1>1, OpenNext
    <3> QED BY <3>2, <3>3, <3>4, <3>5
  <2> QED BY <2>1, <2>2
<1> HIDE DEF t, m, w, z
<1>10. ~Reaches(s, o) /\ Mark(s, o) = Image(s[o])
  <2>1. ~Reaches(s, o)
    BY DEF HeldBack, Reaches, IsBegin
  <2> QED BY <2>1 DEF Mark
<1>11. \A i \in 1 .. o - 1 : z[i] = w[i]
  <2> SUFFICES ASSUME NEW i \in 1 .. o - 1 PROVE z[i] = w[i]
    OBVIOUS
  <2>1. i \in 1 .. m /\ i \in 1 .. Len(t) /\ i # o
    BY <1>1, <1>8
  <2>2. Mark(t, i) = Mark(s, i)
    BY <1>1, <1>2, <1>3, <2>1 DEF Mark
  <2> QED BY <1>5, <1>6, <2>1, <2>2 DEF m
<1>12. \A i \in o + 1 .. Len(w) : w[i] = <<>>
  <2> SUFFICES ASSUME NEW i \in o + 1 .. Len(w) PROVE w[i] = <<>>
    OBVIOUS
  <2>1. i \in o + 1 .. m /\ i \in 1 .. m
    BY <1>5, <1>8 DEF m
  <2> QED BY <1>5, <1>9, <2>1 DEF Mark, m
<1>13. \A i \in (o - 1) + 1 .. Len(z) : z[i] = <<>>
  <2> SUFFICES ASSUME NEW i \in (o - 1) + 1 .. Len(z) PROVE z[i] = <<>>
    OBVIOUS
  <2>1. i \in 1 .. Len(t) /\ (i = o \/ i = m + 1 \/ (i \in o + 1 .. m /\ i \in 1 .. m))
    BY <1>1, <1>6, <1>8
  <2>2. ~Reaches(t, i) /\ ~HeldBack(t, i)
    <3>1. CASE i = o
      BY <1>2, <1>3, <1>8, <1>10, <3>1
    <3>2. CASE i = m + 1
      <4>1. ~(m + 1 \in 1 .. m)
        BY <1>1
      <4>2. ~HeldBack(s, m + 1)
        BY <4>1 DEF HeldBack, m
      <4> QED BY <1>3, <3>2, <4>2
    <3>3. CASE i \in o + 1 .. m /\ i \in 1 .. m
      BY <1>2, <1>3, <1>9, <3>3
    <3> QED BY <2>1, <3>1, <3>2, <3>3
  <2> QED BY <1>6, <2>1, <2>2 DEF Mark
<1>14. Seqs!FlattenSeq(w) = Seqs!FlattenSeq(SubSeq(w, 1, o))
  <2>1. o \in 0 .. Len(w)
    BY <1>5, <1>8 DEF m
  <2> QED BY <1>5, <1>12, <2>1, FlattenNothing
<1>15. Seqs!FlattenSeq(z) = Seqs!FlattenSeq(SubSeq(z, 1, o - 1))
  <2>1. o - 1 \in 0 .. Len(z)
    BY <1>1, <1>6, <1>8
  <2> QED BY <1>6, <1>13, <2>1, FlattenNothing
<1>16. /\ Listed(SubSeq(w, 1, o - 1)) /\ Len(SubSeq(w, 1, o - 1)) = o - 1
       /\ \A i \in 1 .. o - 1 : SubSeq(w, 1, o - 1)[i] = w[i]
       /\ Seqs!FlattenSeq(SubSeq(w, 1, o)) = Seqs!FlattenSeq(SubSeq(w, 1, o - 1)) \o w[o]
  <2>1. o \in 1 .. Len(w)
    BY <1>5, <1>8 DEF m
  <2> QED BY <1>5, <2>1, FlattenFirst DEF Pieces
<1>17. SubSeq(z, 1, o - 1) = SubSeq(w, 1, o - 1)
  <2>1. o - 1 \in 0 .. Len(z) /\ Listed(z)
    BY <1>1, <1>6, <1>8 DEF Pieces
  <2>2. /\ Listed(SubSeq(z, 1, o - 1)) /\ Len(SubSeq(z, 1, o - 1)) = o - 1
        /\ \A i \in 1 .. o - 1 : SubSeq(z, 1, o - 1)[i] = z[i]
    BY <2>1, FirstListed
  <2>3. \A i \in 1 .. o - 1 : SubSeq(z, 1, o - 1)[i] = SubSeq(w, 1, o - 1)[i]
    BY <1>11, <1>16, <2>2
  <2> QED BY <1>16, <2>2, <2>3, SameListed
<1>18. w[o] = Image(s[o])
  BY <1>5, <1>8, <1>10 DEF m
<1> QED BY <1>4, <1>7, <1>14, <1>15, <1>16, <1>17, <1>18 DEF t

(* The innermost sequence ends and has been framed: its end is written.    *)
LEMMA EndFramedSpells ==
  ASSUME NEW s, Imaged(s), NEW c, c.m = "WriteSequenceEnd",
         OpenAfter(s, Len(s)) > 0, \A i : ~HeldBack(s, i)
  PROVE  /\ Spelled(Append(s, c)) = Spelled(s) \o Image(c)
         /\ \A i : ~HeldBack(Append(s, c), i)
<1> DEFINE t == Append(s, c)
           m == Len(s)
<1>0. IsEnd(c) /\ ~IsContent(c) /\ ~IsBegin(c) /\ Listed(Image(c))
  <2>1. IsEnd(c) /\ ~IsContent(c) /\ ~IsBegin(c)
    BY DEF IsEnd, IsContent, IsBegin
  <2> QED BY <2>1, EndImage
<1>1. /\ m \in Nat /\ Len(t) = m + 1 /\ t[m + 1] = c /\ \A i \in 1 .. m : t[i] = s[i]
      /\ \A k \in 0 .. m : OpenAfter(t, k) = OpenAfter(s, k)
  BY Grown DEF Imaged
<1>2. \A i \in 1 .. m : Reaches(t, i) <=> Reaches(s, i)
  BY <1>0, GrownReaches DEF Imaged
<1>3. \A i : ~HeldBack(t, i)
  BY <1>0, GrownHeld DEF Imaged
<1>4. PICK x \in 1 .. m : IsBegin(s[x]) /\ OpenAfter(s, x) = OpenAfter(s, m) /\ StaysOpen(s, x, m + 1)
  BY SomeOpener DEF Imaged
<1>5. Framed(t, x)
  <2>1. Framed(s, x)
    BY <1>4 DEF HeldBack
  <2> QED BY <2>1, GrownFramed DEF Imaged
<1>6. StaysOpen(t, x, m + 1)
  <2>1. m + 1 \in x .. m + 1
    BY <1>1
  <2> QED BY <1>4, <2>1, GrownOpen DEF Imaged
<1>7. Reaches(t, m + 1)
  <2> HIDE DEF t, m
  <2>1. (m + 1) - 1 = m /\ m \in 0 .. m /\ x \in 0 .. m
    BY <1>1
  <2>2. Closes(t, m + 1, x)
    BY <1>1, <1>4, <1>6, <2>1 DEF Closes
  <2>3. t[m + 1].m = "WriteSequenceEnd" /\ ~IsBegin(t[m + 1])
    BY <1>0, <1>1
  <2>4. \E y \in 1 .. (m + 1) - 1 : Closes(t, m + 1, y) /\ Framed(t, y)
    BY <1>5, <2>1, <2>2
  <2> QED BY <2>3, <2>4 DEF Reaches
<1>8. Spelled(t) = Spelled(s) \o Image(c)
  BY <1>0, <1>2, <1>7, SpelledMore
<1> QED BY <1>3, <1>8

(***************************************************************************)
(* The framing invariant                                                   *)
(***************************************************************************)
(* The ids held back are those of the innermost open sequences, one for     *)
(* each depth, and no sequence further out is held back.                   *)
Linked(s, p) ==
  /\ \A j \in 1 .. Len(p) :
       \E i : /\ HeldBack(s, i) /\ s[i].id = p[j]
              /\ OpenAfter(s, i) = (OpenAfter(s, Len(s)) - Len(p)) + j
  /\ \A i : HeldBack(s, i) => OpenAfter(s, i) > OpenAfter(s, Len(s)) - Len(p)

(* The framing invariant: p lists the ids of the begins of s that are held *)
(* back, outermost first, and their headers are all that the message       *)
(* lacks.                                                                  *)
FramingInv(s, p) ==
  /\ Imaged(s) /\ Listed(p) /\ Linked(s, p)
  /\ Marked(s) = Spelled(s) \o Heads(p)

(* Then the invariant holds with no id pending.                            *)
LEMMA NoneHeldFraming ==
  ASSUME NEW s, Imaged(s), \A i : ~HeldBack(s, i)
  PROVE  FramingInv(s, <<>>)
<1>1. Linked(s, <<>>)
  <2>1. 1 .. Len(<<>>) = {}
    BY EmptyListed
  <2> QED BY <2>1 DEF Linked
<1>2. Spelled(s) \o Heads(<<>>) = Spelled(s)
  BY SpelledListed, HeadsNone, NothingAdded
<1> QED BY <1>1, <1>2, NothingHeld, EmptyListed DEF FramingInv

(* It holds before the first call.                                         *)
LEMMA FramingStarts == FramingInv(<<>>, <<>>)
<1>1. Len(<<>>) = 0
  BY EmptyListed
<1>2. Imaged(<<>>)
  BY <1>1, EmptyListed DEF Imaged
<1>3. \A i : ~HeldBack(<<>>, i)
  BY <1>1 DEF HeldBack
<1> QED BY <1>2, <1>3, NoneHeldFraming

(* Content writes the headers held back, then itself.                      *)
LEMMA FramingContent ==
  ASSUME NEW s, NEW p, FramingInv(s, p), NEW c, Listed(Image(c)), IsContent(c)
  PROVE  /\ FramingInv(Append(s, c), <<>>)
         /\ Spelled(Append(s, c)) = (Spelled(s) \o Heads(p)) \o Image(c)
<1>1. Imaged(s) /\ Marked(s) = Spelled(s) \o Heads(p)
  BY DEF FramingInv
<1>2. /\ Spelled(Append(s, c)) = Marked(s) \o Image(c)
      /\ \A i : ~HeldBack(Append(s, c), i)
  BY <1>1, ContentSpells
<1>3. Imaged(Append(s, c))
  BY <1>1, ImagedMore
<1>4. FramingInv(Append(s, c), <<>>)
  BY <1>2, <1>3, NoneHeldFraming
<1> QED BY <1>1, <1>2, <1>4

(* A begin is held back behind the others.                                 *)
LEMMA FramingBegin ==
  ASSUME NEW s, NEW p, FramingInv(s, p), NEW c, IsBegin(c)
  PROVE  /\ FramingInv(Append(s, c), Append(p, c.id))
         /\ Spelled(Append(s, c)) = Spelled(s)
<1> DEFINE t == Append(s, c)
           q == Append(p, c.id)
           m == Len(s)
<1>1. Imaged(s) /\ Listed(s) /\ Listed(p) /\ Linked(s, p) /\ Marked(s) = Spelled(s) \o Heads(p)
  BY DEF FramingInv, Imaged
<1>2. /\ m \in Nat /\ Len(t) = m + 1 /\ t[m + 1] = c /\ \A i \in 1 .. m : t[i] = s[i]
      /\ \A k \in 0 .. m : OpenAfter(t, k) = OpenAfter(s, k) /\ OpenAfter(s, k) \in Int
      /\ OpenAfter(t, m + 1) = OpenAfter(s, m) + 1
  <2>1. Listed(s)
    BY <1>1
  <2> HIDE DEF q
  <2> QED BY <2>1, Grown
<1>3. /\ Spelled(t) = Spelled(s)
      /\ Marked(t) = Marked(s) \o Header(c.id, 6)
      /\ \A i \in 1 .. m : HeldBack(t, i) <=> HeldBack(s, i)
  BY <1>1, BeginSpells
<1>4. HeldBack(t, m + 1) /\ \A i : HeldBack(t, i) => i \in 1 .. m \/ i = m + 1
  BY <1>1, GrownHeld
<1>5. Listed(q) /\ Len(q) = Len(p) + 1 /\ q[Len(p) + 1] = c.id /\ \A k \in 1 .. Len(p) : q[k] = p[k]
  BY <1>1, AppendListed
<1>6. Imaged(t)
  BY <1>1, BeginImage, ImagedMore
<1>7. Marked(t) = Spelled(t) \o Heads(q)
  <2>1. Heads(q) = Heads(p) \o Header(c.id, 6)
    BY <1>1, HeadsMore
  <2>2. Regroups(Spelled(s), Heads(p), Header(c.id, 6))
    BY <1>1, SpelledListed, HeadsListed, HeaderBytes, ConcatAssoc
  <2> HIDE DEF t, q
  <2> QED BY <1>1, <1>3, <2>1, <2>2 DEF Regroups
<1>0. Len(p) \in Nat /\ OpenAfter(s, m) \in Int /\ OpenAfter(t, m + 1) \in Int
  <2>1. m \in 0 .. m
    BY <1>2
  <2>2. OpenAfter(s, m) \in Int
    BY <1>2, <2>1
  <2> QED BY <1>1, <1>2, <2>2 DEF Listed
<1> HIDE DEF t, q, m
<1>8. OpenAfter(t, Len(t)) - Len(q) = OpenAfter(s, m) - Len(p)
  BY <1>0, <1>2, <1>5
<1>9. ASSUME NEW j \in 1 .. Len(q)
      PROVE  \E i : /\ HeldBack(t, i) /\ t[i].id = q[j]
                    /\ OpenAfter(t, i) = (OpenAfter(t, Len(t)) - Len(q)) + j
  <2>1. CASE j \in 1 .. Len(p)
    <3>1. PICK i : /\ HeldBack(s, i) /\ s[i].id = p[j]
                   /\ OpenAfter(s, i) = (OpenAfter(s, m) - Len(p)) + j
      BY <1>1, <2>1 DEF Linked, m
    <3>2. i \in 1 .. m /\ i \in 0 .. m
      <4>1. i \in 1 .. m
        BY <3>1 DEF HeldBack, m
      <4> QED BY <1>2, <4>1
    <3>3. HeldBack(t, i) /\ t[i] = s[i] /\ OpenAfter(t, i) = OpenAfter(s, i) /\ q[j] = p[j]
      BY <1>2, <1>3, <1>5, <2>1, <3>1, <3>2
    <3> QED BY <1>8, <3>1, <3>3
  <2>2. CASE j = Len(p) + 1
    <3>1. OpenAfter(t, m + 1) = (OpenAfter(t, Len(t)) - Len(q)) + j
      BY <1>0, <1>2, <1>8, <2>2
    <3>2. t[m + 1].id = q[j]
      BY <1>2, <1>5, <2>2
    <3> QED BY <1>4, <3>1, <3>2
  <2>3. j \in 1 .. Len(p) \/ j = Len(p) + 1
    BY <1>0, <1>5
  <2> QED BY <2>1, <2>2, <2>3
<1>10. ASSUME NEW i, HeldBack(t, i)
       PROVE  OpenAfter(t, i) > OpenAfter(t, Len(t)) - Len(q)
  <2>1. CASE i \in 1 .. m
    <3>1. i \in 0 .. m
      BY <1>2, <2>1
    <3>2. HeldBack(s, i) /\ OpenAfter(t, i) = OpenAfter(s, i)
      BY <1>2, <1>3, <1>10, <2>1, <3>1
    <3>3. OpenAfter(s, i) > OpenAfter(s, m) - Len(p)
      BY <1>1, <3>2 DEF Linked, m
    <3> QED BY <1>8, <3>2, <3>3
  <2>2. CASE i = m + 1
    BY <1>0, <1>2, <1>8, <2>2
  <2> QED BY <1>4, <1>10, <2>1, <2>2
<1>11. Linked(t, q)
  BY <1>9, <1>10 DEF Linked
<1>12. FramingInv(t, q)
  BY <1>5, <1>6, <1>7, <1>11 DEF FramingInv
<1> QED BY <1>3, <1>12 DEF t, q

(* A plain end with nothing held back closes a framed sequence.            *)
LEMMA FramingEndFramed ==
  ASSUME NEW s, FramingInv(s, <<>>), NEW c, c.m = "WriteSequenceEnd", OpenAfter(s, Len(s)) > 0
  PROVE  /\ FramingInv(Append(s, c), <<>>)
         /\ Spelled(Append(s, c)) = (Spelled(s) \o Heads(<<>>)) \o Image(c)
<1>1. Imaged(s) /\ Linked(s, <<>>) /\ Len(s) \in Nat
  BY DEF FramingInv, Imaged, Listed
<1>2. \A i : ~HeldBack(s, i)
  <2> SUFFICES ASSUME NEW i, HeldBack(s, i) PROVE FALSE
    OBVIOUS
  <2>1. Len(<<>>) = 0
    BY EmptyListed
  <2>2. OpenAfter(s, i) > OpenAfter(s, Len(s)) - 0
    BY <1>1, <2>1 DEF Linked
  <2>3. i \in Nat /\ Len(s) \in i .. (Len(s) + 1) - 1
    BY <1>1 DEF HeldBack
  <2>4. OpenAfter(s, Len(s)) >= OpenAfter(s, i)
    BY <2>3 DEF HeldBack, StaysOpen
  <2>5. OpenAfter(s, Len(s)) \in Int /\ OpenAfter(s, i) \in Int
    BY <1>1, <2>3, OpenNext
  <2> QED BY <2>2, <2>4, <2>5
<1>3. /\ Spelled(Append(s, c)) = Spelled(s) \o Image(c)
      /\ \A i : ~HeldBack(Append(s, c), i)
  BY <1>1, <1>2, EndFramedSpells
<1>4. Listed(Image(c))
  BY EndImage DEF IsEnd
<1>5. FramingInv(Append(s, c), <<>>)
  BY <1>1, <1>3, <1>4, ImagedMore, NoneHeldFraming
<1>6. Spelled(s) \o Heads(<<>>) = Spelled(s)
  BY <1>1, SpelledListed, HeadsNone, NothingAdded
<1> QED BY <1>3, <1>5, <1>6

(* A plain end takes the innermost sequence held back with it.             *)
LEMMA FramingEndHeld ==
  ASSUME NEW s, NEW p, FramingInv(s, p), NEW c, c.m = "WriteSequenceEnd", p # <<>>
  PROVE  /\ FramingInv(Append(s, c), SubSeq(p, 1, Len(p) - 1))
         /\ Spelled(Append(s, c)) = Spelled(s)
<1> DEFINE t == Append(s, c)
           q == SubSeq(p, 1, Len(p) - 1)
           m == Len(s)
           last == p[Len(p)]
<1>1. Imaged(s) /\ Listed(s) /\ Listed(p) /\ Linked(s, p) /\ Marked(s) = Spelled(s) \o Heads(p)
  BY DEF FramingInv, Imaged
<1>2. IsEnd(c) /\ ~IsBegin(c) /\ Listed(Image(c))
  <2>1. IsEnd(c) /\ ~IsBegin(c)
    BY DEF IsEnd, IsBegin
  <2> QED BY <2>1, EndImage
<1>3. /\ m \in Nat /\ Len(t) = m + 1 /\ t[m + 1] = c /\ \A i \in 1 .. m : t[i] = s[i]
      /\ \A k \in 0 .. m : OpenAfter(t, k) = OpenAfter(s, k) /\ OpenAfter(s, k) \in Int
      /\ OpenAfter(t, m + 1) = OpenAfter(s, m) - 1
  <2>1. Listed(s)
    BY <1>1
  <2>2. /\ m \in Nat /\ Len(t) = m + 1 /\ t[m + 1] = c /\ \A i \in 1 .. m : t[i] = s[i]
        /\ \A k \in 0 .. m : OpenAfter(t, k) = OpenAfter(s, k) /\ OpenAfter(s, k) \in Int
        /\ IsEnd(c) => OpenAfter(t, m + 1) = OpenAfter(s, m) - 1
    BY ONLY <2>1, Grown
  <2> QED BY <1>2, <2>2
<1>4. Len(p) # 0 /\ Len(p) \in Nat
  <2>1. Len(p) # 0
    BY <1>1, EmptyIffLen
  <2> QED BY <1>1, <2>1 DEF Listed
<1>5. /\ Len(p) - 1 \in Nat /\ Listed(q) /\ Len(q) = Len(p) - 1 /\ Len(p) \in 1 .. Len(p)
      /\ \A i \in 1 .. Len(p) - 1 : q[i] = p[i]
      /\ p = Append(q, last)
  BY <1>1, <1>4, FrontAndLast
<1>0. OpenAfter(s, m) \in Int /\ OpenAfter(t, m + 1) \in Int
  <2>1. m \in 0 .. m
    BY <1>3
  <2>2. OpenAfter(s, m) \in Int
    BY <1>3, <2>1
  <2> QED BY <1>3, <2>2
<1>6. PICK o : HeldBack(s, o) /\ s[o].id = last /\ OpenAfter(s, o) = OpenAfter(s, m)
  <2>1. PICK o : HeldBack(s, o) /\ s[o].id = last /\ OpenAfter(s, o) = (OpenAfter(s, m) - Len(p)) + Len(p)
    BY <1>1, <1>5 DEF Linked
  <2>2. (OpenAfter(s, m) - Len(p)) + Len(p) = OpenAfter(s, m)
    BY <1>0, <1>4
  <2> QED BY <2>1, <2>2
<1>7. /\ Spelled(t) = Spelled(s)
      /\ Marked(s) = Marked(t) \o Image(s[o])
      /\ \A i : HeldBack(t, i) <=> HeldBack(s, i) /\ i # o
  BY <1>1, <1>6, EndHeldSpells, EndHeldHolds
<1>8. Image(s[o]) = Header(last, 6)
  <2>1. IsBegin(s[o])
    BY <1>6 DEF HeldBack
  <2> QED BY <1>6, <2>1, BeginImage
<1>9. Imaged(t)
  BY <1>1, <1>2, ImagedMore
<1>10. Heads(p) = Heads(q) \o Header(last, 6)
  <2> HIDE DEF q, last
  <2>1. Heads(Append(q, last)) = Heads(q) \o Header(last, 6)
    BY <1>5, HeadsMore
  <2> QED BY <1>5, <2>1
<1>11. Marked(t) = Spelled(t) \o Heads(q)
  <2>1. Listed(Marked(t)) /\ Listed(Spelled(s)) /\ Listed(Heads(q)) /\ Listed(Header(last, 6))
    BY <1>1, <1>5, <1>9, SpelledListed, HeadsListed, HeaderBytes
  <2> HIDE DEF t, q, last
  <2>2. Regroups(Spelled(s), Heads(q), Header(last, 6))
    BY <2>1, ConcatAssoc
  <2>3. Marked(t) \o Header(last, 6) = (Spelled(s) \o Heads(q)) \o Header(last, 6)
    BY <1>1, <1>7, <1>8, <1>10, <2>2 DEF Regroups
  <2>4. Listed(Spelled(s) \o Heads(q))
    BY <2>1, ConcatListed
  <2>5. Marked(t) = Spelled(s) \o Heads(q)
    BY <2>1, <2>3, <2>4, SameFront
  <2> QED BY <1>7, <2>5
<1> HIDE DEF t, q, m, last
<1>12. OpenAfter(t, Len(t)) - Len(q) = OpenAfter(s, m) - Len(p)
  BY <1>0, <1>3, <1>4, <1>5
<1>13. ASSUME NEW j \in 1 .. Len(q)
       PROVE  \E i : /\ HeldBack(t, i) /\ t[i].id = q[j]
                     /\ OpenAfter(t, i) = (OpenAfter(t, Len(t)) - Len(q)) + j
  <2>1. j \in 1 .. Len(p) /\ j \in 1 .. Len(p) - 1 /\ j # Len(p) /\ j \in Int
    BY <1>4, <1>5
  <2>2. PICK i : /\ HeldBack(s, i) /\ s[i].id = p[j]
                 /\ OpenAfter(s, i) = (OpenAfter(s, m) - Len(p)) + j
    BY <1>1, <2>1 DEF Linked, m
  <2>3. i \in 1 .. m /\ i \in 0 .. m
    <3>1. i \in 1 .. m
      BY <2>2 DEF HeldBack, m
    <3> QED BY <1>3, <3>1
  <2>4. i # o
    <3>1. (OpenAfter(s, m) - Len(p)) + j # OpenAfter(s, m)
      BY <1>0, <1>4, <2>1
    <3> QED BY <1>6, <2>2, <3>1
  <2>5. HeldBack(t, i) /\ t[i] = s[i] /\ OpenAfter(t, i) = OpenAfter(s, i) /\ q[j] = p[j]
    BY <1>3, <1>5, <1>7, <2>1, <2>2, <2>3, <2>4
  <2> QED BY <1>12, <2>2, <2>5
<1>14. ASSUME NEW i, HeldBack(t, i)
       PROVE  OpenAfter(t, i) > OpenAfter(t, Len(t)) - Len(q)
  <2>1. HeldBack(s, i)
    BY <1>7, <1>14
  <2>2. i \in 1 .. m /\ i \in 0 .. m
    <3>1. i \in 1 .. m
      BY <2>1 DEF HeldBack, m
    <3> QED BY <1>3, <3>1
  <2>3. OpenAfter(s, i) > OpenAfter(s, m) - Len(p)
    BY <1>1, <2>1 DEF Linked, m
  <2> QED BY <1>3, <1>12, <2>2, <2>3
<1>15. Linked(t, q)
  BY <1>13, <1>14 DEF Linked
<1>16. FramingInv(t, q)
  BY <1>5, <1>9, <1>11, <1>15 DEF FramingInv
<1> QED BY <1>7, <1>16 DEF t, q
=============================================================================
