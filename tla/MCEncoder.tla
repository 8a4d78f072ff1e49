----------------------------- MODULE MCEncoder ------------------------------
(***************************************************************************)
(* Instances of Encoder for TLC: 5-bit groups, varints of at most 3 bytes, *)
(* so a streaming minimum of 6 bytes.                                      *)
(***************************************************************************)
EXTENDS Encoder, TLC
LOCAL INSTANCE SequencesExt

AllOk(cb) == {"ok"}
Ref == INSTANCE WireFormat WITH PolicyVisitors <- {}, Answers <- AllOk

C(m, i, v) == [m |-> m, id |-> i, v |-> v]
Begin(i) == C("WriteSequenceBeginLazy", i, <<>>)

(* One call of every writer, long and short, two of them refused. *)
AllCalls == {
  C("WriteUnsigned", 9, <<2000>>), C("WriteUnsigned", 10, <<0>>),
  C("WriteSigned", 1, <<-1024>>),
  C("WriteFloat32", 0, <<31>>), C("WriteFloat64", 9, <<1, 2>>),
  C("WriteString", 1, <<1, 2, 3, 4, 5, 6, 7, 8>>), C("WriteString", 0, <<60>>),
  C("WriteBytes", 0, <<>>), C("WriteBytes", 0, <<1, 2, 3, 4, 5, 6, 7, 8, 9>>),
  C("WriteUnsignedArray", 0, <<1, 40, 2000>>), C("WriteSignedArray", 9, <<-1>>),
  C("WriteFloat32Array", 0, <<>>), C("WriteFloat64Array", 9, <<1, 2, 3, 4>>),
  Begin(9) }

(* For long runs of sequences: one field, and sequences to put it in. *)
SequenceCalls == {C("WriteUnsigned", 1, <<3>>), Begin(0), Begin(2)}

No60(bytes) == \A k \in DOMAIN bytes : bytes[k] # 60

NoOptions == <<>>
(* Tighter than the format's bound. *)
Shallow == <<WithMaxDepth(9), WithMaxDepth(1)>>
(* Past the format's bound, so as if not given; and strings as they are. *)
Lenient == <<WithStrictUTF8(TRUE), WithMaxDepth(9), WithStrictUTF8(FALSE)>>

Sizes(b) == CASE b = "b1" -> 6 [] b = "b2" -> 7 [] b = "b3" -> 9 [] b = "b4" -> 2 [] OTHER -> 0

(* Whatever was written so far, an error or not, is never malformed: it is   *)
(* the beginning of a valid message, and a whole one exactly when no framed *)
(* sequence is open and no call was cut short.                             *)
OutputDecodes ==
  LET r == Ref!Parse(Output, 1) IN
  /\ r.out # "Invalid"
  /\ todo = <<>> /\ err = "nil" => (r.out = "Complete" <=> depth = Len(pending))

(* What a visitor hears of one call, whichever visitors the scopes have. *)
Heard(m, i, args) == [m |-> m, id |-> i, args |-> args]
Fixlen(m, c, t) == <<Heard("FixlenBegin", c.id, <<t, Len(c.v)>>), Heard(m, c.id, IF t < 2 THEN c.v ELSE <<Len(c.v), 0>> \o c.v)>>
Array(m, c, kind, w) ==
  LET count == Len(c.v) \div w IN
  <<Heard("ArrayBegin", c.id, <<kind, count>>)>>
  \o [k \in 1 .. count |-> Heard(m, c.id, <<k - 1>> \o SubSeq(c.v, (k - 1) * w + 1, k * w))]
  \o <<Heard("ArrayEnd", c.id, <<>>)>>
Meaning(c) ==
  CASE c.m = "WriteUnsigned"      -> <<Heard("Unsigned", c.id, c.v)>>
    [] c.m = "WriteSigned"        -> <<Heard("Signed", c.id, c.v)>>
    [] c.m = "WriteFloat32"       -> Fixlen("Float32", c, 0)
    [] c.m = "WriteFloat64"       -> Fixlen("Float64", c, 1)
    [] c.m = "WriteString"        -> Fixlen("String", c, 2)
    [] c.m = "WriteBytes"         -> Fixlen("Bytes", c, 3)
    [] c.m = "WriteUnsignedArray" -> Array("ArrayUnsigned", c, 0, 1)
    [] c.m = "WriteSignedArray"   -> Array("ArraySigned", c, 1, 1)
    [] c.m = "WriteFloat32Array"  -> Array("ArrayFloat32", c, 2, Fp32Width)
    [] c.m = "WriteFloat64Array"  -> Array("ArrayFloat64", c, 3, Fp64Width)
    [] IsBegin(c)                 -> <<Heard("BeginSequence", c.id, <<>>)>>
    [] OTHER                      -> <<Heard("EndSequence", 0, <<>>)>>

HeardOf(cb) == Heard(cb.m, cb.id, IF cb.m = "BeginSequence" THEN <<>> ELSE cb.args)
Meant == FoldLeft(LAMBDA s, i : s \o (IF Reaches(ops, i) THEN Meaning(ops[i]) ELSE <<>>), <<>>,
                  [i \in 1 .. Len(ops) |-> i])
Read == LET cbs == Ref!Parse(Output, 1).cbs IN [k \in 1 .. Len(cbs) |-> HeardOf(cbs[k])]

(* What the decoder's grammar reads from the output is what was written: the *)
(* same fields, ids, values and nesting in the same order, wherever the     *)
(* message was cut.  With the decoder agreeing with the grammar on every     *)
(* string however it is fed, the two halves of the library meet here.      *)
ReadsAsWritten == todo = <<>> /\ err = "nil" => Read = Meant
=============================================================================
