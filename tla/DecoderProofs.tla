--------------------------- MODULE DecoderProofs ---------------------------
(***************************************************************************)
(* For every stream, chunking, visitor and limit: the decoder's own        *)
(* invariants, that the calls it makes are the ones VisitorProtocol        *)
(* allows, step by step, and that a scope's string policy comes before its *)
(* strings.                                                                *)
(***************************************************************************)
EXTENDS DecoderRefinement, SeqLemmas, FiniteSetTheorems

(* Taking whole elements of width w out of a bytes never takes more than a. *)
LEMMA WholeElements ==
  ASSUME NEW a \in Nat, NEW w \in Nat \ {0}, NEW k \in 0 .. a \div w
  PROVE  k * w \in 0 .. a
<1>1. (a \div w) * w <= a
  OBVIOUS
<1>2. k * w <= (a \div w) * w /\ k * w >= 0
  OBVIOUS
<1> QED BY <1>1, <1>2

(* Products of naturals, for the solver.                                   *)
LEMMA ProductNat == \A a, b \in Nat : a * b \in Nat
OBVIOUS

(* The bytes of the chunk are bytes of the message. *)
LEMMA ChunkBytes ==
  ASSUME TypeOK
  PROVE  /\ Chunk \in Seq(Byte)
         /\ Len(Chunk) = Avail
         /\ Avail \in Nat
<1>1. \A i \in pos + 1 .. fed : stream[i] \in Byte
  BY ElementOfSeq, LenProperties DEF TypeOK, MachineTypes, FieldTypes, CallTypes
<1>2. pos + 1 \in Int /\ fed \in Int
  BY LenProperties DEF TypeOK, MachineTypes, FieldTypes, CallTypes
<1> QED BY <1>1, <1>2, SubSeqProperties, LenProperties DEF TypeOK, MachineTypes, FieldTypes, CallTypes, Chunk, Avail

(* A varint ends inside the chunk it was completed in, and the accumulator  *)
(* of an unfinished one stays a natural number.                            *)
LEMMA ReadsInChunk ==
  ASSUME TypeOK, Avail > 0
  PROVE  /\ ReadVarint.is = "done" => ReadVarint.n \in 1 .. Avail
         /\ ReadVarint.is = "more" => ReadVarint.v \in Nat
<1>1. Chunk[1] \in Byte
  BY ChunkBytes, ElementOfSeq
<1>2. Avail \in Nat \ {0}
  BY ChunkBytes
<1>3. /\ VarintResume(Chunk[1]).is = "done" => VarintResume(Chunk[1]).n \in 1 .. Avail
      /\ VarintResume(Chunk[1]).is = "more" => VarintResume(Chunk[1]).v \in Nat
  <2>1. ASSUME Chunk[1] >= Cont PROVE acc + (Chunk[1] - Cont) * weight \in Nat
    <3>1. Chunk[1] - Cont \in Nat
      BY <1>1, <2>1, VarintAssumption DEF Byte
    <3>2. (Chunk[1] - Cont) * weight \in Nat
      BY <3>1, ProductNat DEF TypeOK, MachineTypes, FieldTypes, CallTypes
    <3> QED BY <3>2 DEF TypeOK, MachineTypes, FieldTypes, CallTypes
  <2> QED BY <1>1, <1>2, <2>1, VarintAssumption DEF VarintResume, Byte
<1>4. UvarintFast(Chunk).ok => UvarintFast(Chunk).n \in 1 .. MaxVarintLen
  <2> DEFINE stops == {k \in 1 .. MaxVarintLen - 1 :
                         Chunk[k] < Cont /\ \A j \in 1 .. k - 1 : Chunk[j] >= Cont}
  <2>1. stops # {} => (CHOOSE k \in stops : TRUE) \in 1 .. MaxVarintLen
    BY VarintAssumption
  <2> QED BY <2>1, VarintAssumption DEF UvarintFast
<1> QED BY <1>1, <1>2, <1>3, <1>4, VarintAssumption DEF ReadVarint

(* What every completed varint does to the machine, whatever its handler. *)
LEMMA TakeVarintTypes ==
  ASSUME TypeOK, NEW s, TakeVarint(s)
  PROVE  /\ pos' \in 0 .. fed'
         /\ acc' \in Nat /\ weight' \in Nat \ {0} /\ nb' \in Nat
         /\ st = s /\ err = "nil" /\ pc = "run"
         /\ UNCHANGED caller
<1>1. Avail > 0 /\ ReadVarint.is = "done" /\ pos' = pos + ReadVarint.n
  BY DEF TakeVarint, Reading
<1>2. pos' \in 0 .. fed
  BY <1>1, ReadsInChunk, ChunkBytes DEF TypeOK, MachineTypes, FieldTypes, CallTypes, Avail
<1>3. UNCHANGED caller
  BY DEF TakeVarint
<1>4. fed' = fed
  BY <1>3 DEF caller
<1>5. acc' \in Nat /\ weight' \in Nat \ {0} /\ nb' \in Nat
  BY DEF TakeVarint, TypeOK, MachineTypes, varint
<1> QED BY <1>2, <1>3, <1>4, <1>5 DEF TakeVarint, Reading, Running

(* A callback leaves the error latch with a value of its type. *)
LEMMA DeliverTypes ==
  ASSUME NEW STATE cbs, err \in Errors, Deliver(cbs)
  PROVE  err' \in Errors /\ err' \in {err, "visitorErr"}
BY DEF Deliver, Errors

(***************************************************************************)
(* Type correctness                                                        *)
(***************************************************************************)
(* The type invariant is not inductive alone: that a float is never         *)
(* assembled past its width, so that its bytes are taken from the chunk, is *)
(* part of FieldAccounted.                                                 *)
IInv == TypeOK /\ FieldAccounted

(* The first state has the types.                                          *)
LEMMA InitTypes == Init => TypeOK
<1> SUFFICES ASSUME Init PROVE TypeOK
  OBVIOUS
<1>1. MachineTypes
  BY DEF Init, MachineTypes, Steps, Errors
<1>2. FieldTypes
  BY EmptySeq, DecoderAssumption DEF Init, FieldTypes
<1>3. ScopeTypes
  BY DecoderAssumption DEF Init, ScopeTypes, Nil
<1>4. CallTypes
  BY StreamsAssumption, LenProperties, DecoderAssumption DEF Init, CallTypes, Outcomes, Errors
<1> QED BY <1>1, <1>2, <1>3, <1>4 DEF TypeOK

(* Each part of the type invariant, step by step. *)
LEMMA StepMachineTypes == TypeOK /\ [Next]_vars => MachineTypes'
<1> SUFFICES ASSUME TypeOK, [Next]_vars PROVE MachineTypes'
  OBVIOUS
<1> USE DEF TypeOK, MachineTypes
<1>1. CASE UNCHANGED vars
  BY <1>1 DEF vars, machine, varint
<1>2. CASE Reset
  BY <1>2 DEF Reset, Rebind, Steps, Errors
<1>3. CASE Feed
  BY <1>3 DEF Feed, decoder, machine, varint
<1>4. CASE AcceptBytes
  BY <1>4 DEF AcceptBytes, decoder, machine, varint
<1>5. CASE Discarded
  BY <1>5 DEF Discarded, vars, machine, varint
<1>6. CASE FeedFrom
  BY <1>6 DEF FeedFrom, decoder, machine, varint
<1>7. CASE ReadChunk
  BY <1>7 DEF ReadChunk, decoder, machine, varint
<1>8. CASE Return
  BY <1>8 DEF Return, decoder, machine, varint
<1>9. CASE VarintByte
  BY <1>9, ReadsInChunk, ProductNat, VarintAssumption DEF VarintByte, WantsVarint, Reading, machine
<1>10. CASE VarintOverflow
  BY <1>10 DEF VarintOverflow, Errors, varint
<1>11. CASE HeaderIdTooLarge
  BY <1>11, TakeVarintTypes DEF HeaderIdTooLarge, Reject, Errors
<1>12. CASE HeaderField
  BY <1>12, TakeVarintTypes DEF HeaderField, Header, FieldStep, Steps
<1>13. CASE OpenTooDeep
  BY <1>13, TakeVarintTypes DEF OpenTooDeep, Header, Errors
<1>14. CASE OpenInDeclined
  BY <1>14, TakeVarintTypes DEF OpenInDeclined, Header
<1>15. CASE OpenSequence
  BY <1>15, TakeVarintTypes DEF OpenSequence, Header, Errors
<1>16. CASE CloseDangling
  BY <1>16, TakeVarintTypes DEF CloseDangling, Header, Errors
<1>17. CASE CloseDeclined
  BY <1>17, TakeVarintTypes DEF CloseDeclined, Header
<1>18. CASE CloseSequence
  BY <1>18, TakeVarintTypes DEF CloseSequence, Header, Errors
<1>19. CASE Scalar
  BY <1>19, TakeVarintTypes DEF Scalar, Deliver, Steps, Errors
<1>20. CASE FixlenWordIllegal
  BY <1>20, TakeVarintTypes DEF FixlenWordIllegal, Reject, Errors
<1>21. CASE FixlenFloat
  BY <1>21, TakeVarintTypes DEF FixlenFloat, Deliver, Steps, Errors
<1>22. CASE FixlenPayload
  BY <1>22, TakeVarintTypes DEF FixlenPayload, Deliver, Steps, Errors
<1>23. CASE FixBytes
  BY <1>23 DEF FixBytes, Deliver, Steps, Errors, varint
<1>24. CASE FpPartial
  BY <1>24 DEF FpPartial, machine, varint
<1>25. CASE FpScalar
  BY <1>25 DEF FpScalar, Deliver, Steps, Errors, varint
<1>26. CASE ArrayCountTooLarge
  BY <1>26, TakeVarintTypes DEF ArrayCountTooLarge, Reject, Errors
<1>27. CASE ArrayCount
  BY <1>27, TakeVarintTypes DEF ArrayCount, Announce, Deliver, Steps, Errors
<1>28. CASE ArrayWordIllegal
  BY <1>28, TakeVarintTypes DEF ArrayWordIllegal, Reject, Errors
<1>29. CASE ArrayWord
  BY <1>29, TakeVarintTypes DEF ArrayWord, Announce, Deliver, Steps, Errors
<1>30. CASE ArrayElement
  BY <1>30, TakeVarintTypes DEF ArrayElement, Deliver, Errors
<1>31. CASE ArrayFloat
  BY <1>31 DEF ArrayFloat, Deliver, Errors, varint
<1>32. CASE ArrayFloatSkip
  BY <1>32 DEF ArrayFloatSkip, machine, varint
<1>33. CASE ArrayFinish
  BY <1>33 DEF ArrayFinish, Deliver, Steps, Errors, varint
<1> QED BY <1>1, <1>2, <1>3, <1>4, <1>5, <1>6, <1>7, <1>8, <1>9, <1>10, <1>11, <1>12, <1>13, <1>14, <1>15, <1>16, <1>17, <1>18, <1>19, <1>20, <1>21, <1>22, <1>23, <1>24, <1>25, <1>26, <1>27, <1>28, <1>29, <1>30, <1>31, <1>32, <1>33
        DEF Next, RunStep

(* What fpStep has after this chunk: bytes, as many as it counts. *)
LEMMA FpBytes ==
  ASSUME IInv, Avail > 0, err = "nil", st \in {"stFixFp", "stArrFp"}
  PROVE  /\ FpTake \in 1 .. Avail
         /\ FpBits \in Seq(Byte)
         /\ Len(FpBits) = Len(fp) + FpTake
<1>1. Len(fp) \in Nat /\ width \in Nat /\ Len(fp) < width /\ fp \in Seq(Byte)
  BY LenProperties, DecoderAssumption DEF IInv, TypeOK, FieldTypes, FieldAccounted
<1>2. FpTake \in 1 .. Avail
  BY <1>1, ChunkBytes DEF IInv, FpTake
<1>3. SubSeq(Chunk, 1, FpTake) \in Seq(Byte) /\ Len(SubSeq(Chunk, 1, FpTake)) = FpTake
  <2>1. \A i \in 1 .. FpTake : Chunk[i] \in Byte
    BY <1>2, ChunkBytes, ElementOfSeq DEF IInv
  <2> QED BY <1>2, <2>1, SubSeqProperties, ChunkBytes DEF IInv
<1> QED BY <1>1, <1>2, <1>3, ConcatProperties DEF FpBits

(* The field registers.  A declined run of floats divides by the width, which *)
(* FieldAccounted says is not zero.                                        *)
LEMMA StepFieldTypes == IInv /\ [Next]_vars => FieldTypes'
<1> SUFFICES ASSUME IInv, [Next]_vars PROVE FieldTypes'
  OBVIOUS
<1> USE DEF IInv, TypeOK, FieldTypes
<1>1. CASE UNCHANGED vars
  BY <1>1 DEF vars, field
<1>2. CASE Reset
  BY <1>2, EmptySeq DEF Reset, Rebind
<1>3. CASE Feed \/ AcceptBytes \/ FeedFrom \/ ReadChunk \/ Return \/ Discarded
  BY <1>3 DEF Feed, AcceptBytes, FeedFrom, ReadChunk, Return, Discarded, vars, decoder, field
<1>4. CASE VarintByte \/ VarintOverflow
  BY <1>4 DEF VarintByte, VarintOverflow, field
<1>5. CASE HeaderIdTooLarge \/ FixlenWordIllegal \/ ArrayCountTooLarge \/ ArrayWordIllegal
  BY <1>5 DEF HeaderIdTooLarge, FixlenWordIllegal, ArrayCountTooLarge, ArrayWordIllegal, Reject, field
<1>6. CASE HeaderField
  BY <1>6 DEF HeaderField, Header, WireType, ArrayKind
<1>7. CASE OpenTooDeep \/ OpenInDeclined \/ OpenSequence
  BY <1>7 DEF OpenTooDeep, OpenInDeclined, OpenSequence, Header, restOfField
<1>8. CASE CloseDangling \/ CloseDeclined \/ CloseSequence
  BY <1>8 DEF CloseDangling, CloseDeclined, CloseSequence, Header, restOfField
<1>9. CASE Scalar \/ ArrayFinish
  BY <1>9 DEF Scalar, ArrayFinish, field
<1>10. CASE FixlenFloat
  BY <1>10, EmptySeq, DecoderAssumption DEF FixlenFloat, FixlenWordLegal, FixlenSubtype
<1>11. CASE FixlenPayload
  BY <1>11, DecoderAssumption DEF FixlenPayload, FixlenWordLegal, FixlenSubtype
<1>12. CASE FixBytes
  BY <1>12, ChunkBytes DEF FixBytes, Reading, Avail
<1>13. CASE FpPartial
  BY <1>13, FpBytes DEF FpPartial, Reading, Running
<1>14. CASE FpScalar
  BY <1>14, EmptySeq DEF FpScalar
<1>15. CASE ArrayCount
  BY <1>15, DecoderAssumption DEF ArrayCount
<1>16. CASE ArrayWord
  BY <1>16, EmptySeq DEF ArrayWord, ElementWordKind, ArrayKind
<1>17. CASE ArrayElement
  BY <1>17 DEF ArrayElement, CountElement
<1>18. CASE ArrayFloat
  BY <1>18, EmptySeq DEF ArrayFloat, CountElement
<1>19. CASE ArrayFloatSkip
<2>1. Avail \in Nat /\ width \in Nat \ {0}
    BY <1>19, ChunkBytes, DecoderAssumption DEF ArrayFloatSkip, Reading, Running, FieldAccounted
  <2>2. Avail \div width \in Nat
    BY <2>1
  <2> QED BY <1>19, <2>2 DEF ArrayFloatSkip
<1> QED BY <1>1, <1>2, <1>3, <1>4, <1>5, <1>6, <1>7, <1>8, <1>9, <1>10, <1>11, <1>12, <1>13, <1>14, <1>15, <1>16, <1>17, <1>18, <1>19 DEF Next, RunStep

(* The parse stack. *)
LEMMA StepScopeTypes == TypeOK /\ [Next]_vars => ScopeTypes'
<1> SUFFICES ASSUME TypeOK, [Next]_vars PROVE ScopeTypes'
  OBVIOUS
<1> USE DEF TypeOK, ScopeTypes
<1>1. CASE UNCHANGED vars
  BY <1>1 DEF vars, scopes
<1>2. CASE Reset
  BY <1>2, DecoderAssumption DEF Reset, Rebind
<1>3. CASE Feed \/ AcceptBytes \/ FeedFrom \/ ReadChunk \/ Return \/ Discarded
  BY <1>3 DEF Feed, AcceptBytes, FeedFrom, ReadChunk, Return, Discarded, vars, decoder, scopes
<1>4. CASE VarintByte \/ VarintOverflow
  BY <1>4 DEF VarintByte, VarintOverflow, scopes
<1>5. CASE HeaderIdTooLarge \/ FixlenWordIllegal \/ ArrayCountTooLarge \/ ArrayWordIllegal
  BY <1>5 DEF HeaderIdTooLarge, FixlenWordIllegal, ArrayCountTooLarge, ArrayWordIllegal, Reject, scopes
<1>6. CASE HeaderField \/ OpenTooDeep \/ CloseDangling
  BY <1>6 DEF HeaderField, OpenTooDeep, CloseDangling, scopes
<1>7. CASE OpenInDeclined
  BY <1>7, DecoderAssumption DEF OpenInDeclined, Descend, Nil
<1>8. CASE OpenSequence
<2>1. CASE UNCHANGED <<scopes, issued>>
    BY <2>1 DEF scopes
  <2>2. CASE Descend(issued + 1) /\ issued' = issued + 1 /\ UNCHANGED skipFrom
    BY <1>8, <2>2, DecoderAssumption DEF OpenSequence, Descend
  <2>3. CASE Descend(Nil) /\ skipFrom' = depth /\ UNCHANGED issued
    BY <1>8, <2>3, DecoderAssumption DEF OpenSequence, Descend, Nil
  <2> QED BY <1>8, <2>1, <2>2, <2>3 DEF OpenSequence
<1>9. CASE CloseDeclined
  BY <1>9, DecoderAssumption DEF CloseDeclined, Nil
<1>10. CASE CloseSequence
  BY <1>10, DecoderAssumption DEF CloseSequence, Nil
<1>11. CASE Scalar \/ FixlenFloat \/ FixBytes \/ FpPartial \/ FpScalar
  BY <1>11 DEF Scalar, FixlenFloat, FixBytes, FpPartial, FpScalar, scopes
<1>12. CASE FixlenPayload
  BY <1>12 DEF FixlenPayload
<1>13. CASE ArrayCount \/ ArrayWord \/ ArrayElement
  BY <1>13 DEF ArrayCount, ArrayWord, ArrayElement, scopes
<1>14. CASE ArrayFloat \/ ArrayFloatSkip \/ ArrayFinish
  BY <1>14 DEF ArrayFloat, ArrayFloatSkip, ArrayFinish, scopes
<1> QED BY <1>1, <1>2, <1>3, <1>4, <1>5, <1>6, <1>7, <1>8, <1>9, <1>10, <1>11, <1>12, <1>13, <1>14 DEF Next, RunStep

(* The call in progress: the decoder stays inside the bytes it was fed. *)
LEMMA StepCallTypes == IInv /\ [Next]_vars => CallTypes'
<1> SUFFICES ASSUME IInv, [Next]_vars PROVE CallTypes'
  OBVIOUS
<1> USE DEF IInv, TypeOK, CallTypes
<1>1. CASE UNCHANGED vars
  BY <1>1 DEF vars, caller
<1>2. CASE Reset
  BY <1>2, StreamsAssumption, LenProperties, DecoderAssumption DEF Reset, Outcomes, Errors
<1>3. CASE Feed \/ AcceptBytes
  BY <1>3, LenProperties DEF Feed, AcceptBytes, Hand, decoder, machine, Outcomes, MachineTypes
<1>4. CASE Discarded
  BY <1>4 DEF Discarded, vars, caller
<1>5. CASE FeedFrom
  BY <1>5 DEF FeedFrom, Outcome, Outcomes, Errors
<1>6. CASE ReadChunk
  BY <1>6, LenProperties DEF ReadChunk, Hand, AfterRead, Outcome, Outcomes, Errors, MachineTypes
<1>7. CASE Return
  BY <1>7 DEF Return, AfterRead, Outcome, Outcomes, Errors, MachineTypes
<1>8. CASE VarintByte
  BY <1>8 DEF VarintByte, WantsVarint, Reading, Avail, caller
<1>9. CASE VarintOverflow
  BY <1>9 DEF VarintOverflow, caller
<1>10. CASE HeaderIdTooLarge \/ FixlenWordIllegal \/ ArrayCountTooLarge \/ ArrayWordIllegal
  BY <1>10, TakeVarintTypes DEF HeaderIdTooLarge, FixlenWordIllegal, ArrayCountTooLarge, ArrayWordIllegal, Reject, caller
<1>11. CASE HeaderField \/ OpenTooDeep \/ OpenInDeclined \/ OpenSequence
  BY <1>11, TakeVarintTypes DEF HeaderField, OpenTooDeep, OpenInDeclined, OpenSequence, Header, caller
<1>12. CASE CloseDangling \/ CloseDeclined \/ CloseSequence
  BY <1>12, TakeVarintTypes DEF CloseDangling, CloseDeclined, CloseSequence, Header, caller
<1>13. CASE Scalar \/ FixlenFloat \/ FixlenPayload
  BY <1>13, TakeVarintTypes DEF Scalar, FixlenFloat, FixlenPayload, caller
<1>14. CASE FixBytes
  BY <1>14, ChunkBytes DEF FixBytes, Reading, Avail, FieldTypes, caller
<1>15. CASE FpPartial
<2>1. FpTake \in 0 .. Avail
    BY <1>15, FpBytes, ChunkBytes DEF FpPartial, Reading, Running
  <2> QED BY <1>15, <2>1, ChunkBytes DEF FpPartial, Reading, Running, Avail, caller
<1>16. CASE FpScalar
<2>1. FpTake \in 0 .. Avail
    BY <1>16, FpBytes, ChunkBytes DEF FpScalar, Reading, Running
  <2> QED BY <1>16, <2>1, ChunkBytes DEF FpScalar, Reading, Running, Avail, caller
<1>17. CASE ArrayCount \/ ArrayWord \/ ArrayElement
  BY <1>17, TakeVarintTypes DEF ArrayCount, ArrayWord, ArrayElement, caller
<1>18. CASE ArrayFloat
<2>1. FpTake \in 0 .. Avail
    BY <1>18, FpBytes, ChunkBytes DEF ArrayFloat, Reading, Running
  <2> QED BY <1>18, <2>1, ChunkBytes DEF ArrayFloat, Reading, Running, Avail, caller
<1>19. CASE ArrayFloatSkip
<2>1. Avail \in Nat /\ width \in Nat \ {0}
    BY <1>19, ChunkBytes, DecoderAssumption DEF ArrayFloatSkip, Reading, Running, FieldAccounted, FieldTypes
  <2> DEFINE whole == Avail \div width
             k == IF whole > remain THEN remain ELSE whole
  <2>2. k \in 0 .. whole
    BY <2>1 DEF FieldTypes
  <2>3. k * width \in 0 .. Avail
    BY <2>1, <2>2, WholeElements
  <2>4. pos' = pos + k * width /\ UNCHANGED caller
    BY <1>19 DEF ArrayFloatSkip
  <2> HIDE DEF k
  <2> QED BY <2>3, <2>4 DEF Avail, caller
<1>20. CASE ArrayFinish
  BY <1>20 DEF ArrayFinish, caller
<1> QED BY <1>1, <1>2, <1>3, <1>4, <1>5, <1>6, <1>7, <1>8, <1>9, <1>10, <1>11, <1>12, <1>13, <1>14, <1>15, <1>16, <1>17, <1>18, <1>19, <1>20 DEF Next, RunStep

(***************************************************************************)
(* The field in progress                                                   *)
(***************************************************************************)
(* A completed varint leaves the accumulator empty. *)
LEMMA TakeVarintSettles ==
  ASSUME IInv, NEW s, TakeVarint(s)
  PROVE  acc' = 0 /\ weight' = 1 /\ nb' = 0 /\ st = s /\ err = "nil"
BY DEF TakeVarint, Reading, Running, IInv, FieldAccounted, TypeOK, MachineTypes, varint

(* FieldAccounted is inductive under the types. *)
LEMMA StepFieldAccounted == IInv /\ [Next]_vars => FieldAccounted'
<1> SUFFICES ASSUME IInv, [Next]_vars PROVE FieldAccounted'
  OBVIOUS
<1> USE DEF IInv, FieldAccounted, TypeOK, MachineTypes, FieldTypes, VarintSteps
<1>1. CASE UNCHANGED vars
  BY <1>1 DEF vars, machine, varint, field, scopes
<1>2. CASE Reset
  BY <1>2 DEF Reset, Rebind
<1>3. CASE Feed \/ AcceptBytes \/ FeedFrom \/ ReadChunk \/ Return \/ Discarded
  BY <1>3 DEF Feed, AcceptBytes, FeedFrom, ReadChunk, Return, Discarded, vars, decoder, machine, varint, field, scopes
<1>4. CASE VarintByte
<2>1. st \in VarintSteps /\ UNCHANGED <<machine, field, scopes>> /\ nb' = nb + 1
    BY <1>4 DEF VarintByte, WantsVarint, Reading
  <2> QED BY <2>1 DEF FieldAccounted, TypeOK, MachineTypes, machine, field, scopes
<1>5. CASE VarintOverflow
  BY <1>5 DEF VarintOverflow, FieldAccounted
<1>6. CASE HeaderIdTooLarge \/ FixlenWordIllegal \/ ArrayCountTooLarge \/ ArrayWordIllegal
  BY <1>6 DEF HeaderIdTooLarge, FixlenWordIllegal, ArrayCountTooLarge, ArrayWordIllegal, Reject
<1>7. CASE HeaderField
  BY <1>7, TakeVarintSettles DEF HeaderField, Header, FieldStep
<1>8. CASE OpenTooDeep \/ CloseDangling
  BY <1>8 DEF OpenTooDeep, CloseDangling
<1>9. CASE OpenInDeclined \/ OpenSequence
  BY <1>9, TakeVarintSettles DEF OpenInDeclined, OpenSequence, Header, restOfField
<1>10. CASE CloseDeclined \/ CloseSequence
  BY <1>10, TakeVarintSettles DEF CloseDeclined, CloseSequence, Header, restOfField
<1>11. CASE Scalar
  BY <1>11, TakeVarintSettles DEF Scalar, field
<1>12. CASE FixlenFloat
  BY <1>12, TakeVarintSettles, EmptySeq, DecoderAssumption DEF FixlenFloat, FixlenWordLegal, FixlenSubtype
<1>13. CASE FixlenPayload
  BY <1>13, TakeVarintSettles DEF FixlenPayload, FixlenWordLegal
<1>14. CASE FixBytes
<2> DEFINE taken == IF Avail > remain THEN remain ELSE Avail
  <2>1. /\ st = "stFixBytes" /\ err = "nil" /\ Avail > 0 /\ Avail \in Nat
        /\ off' = off + taken /\ remain' = remain - taken
        /\ st' = IF remain = taken THEN "stHeader" ELSE st
        /\ UNCHANGED <<varint, total, fp>>
    BY <1>14, ChunkBytes DEF FixBytes, Reading, Running
  <2>2. taken \in 1 .. remain /\ taken \in Nat
    BY <2>1
  <2> HIDE DEF taken
  <2> QED BY <2>1, <2>2 DEF varint
<1>15. CASE FpPartial
  BY <1>15, FpBytes DEF FpPartial, Reading, Running, machine, varint, scopes
<1>16. CASE FpScalar
  BY <1>16 DEF FpScalar, Reading, Running, varint
<1>17. CASE ArrayCount
  BY <1>17, TakeVarintSettles DEF ArrayCount, Announce, scopes
<1>18. CASE ArrayWord
  BY <1>18, TakeVarintSettles, EmptySeq, DecoderAssumption, SMTT(30) DEF ArrayWord, ElementWordKind, Announce, scopes
<1>19. CASE ArrayElement
  BY <1>19, TakeVarintSettles DEF ArrayElement, CountElement, scopes
<1>20. CASE ArrayFloat
  BY <1>20 DEF ArrayFloat, CountElement, Reading, Running, varint, scopes
<1>21. CASE ArrayFloatSkip
<2>1. Avail \in Nat /\ width \in Nat \ {0}
    BY <1>21, ChunkBytes, DecoderAssumption DEF ArrayFloatSkip, Reading, Running
  <2> DEFINE whole == Avail \div width
             k == IF whole > remain THEN remain ELSE whole
  <2>2. k \in 0 .. remain
    BY <2>1
  <2>3. /\ st = "stArrFp" /\ top = Nil /\ fp = <<>> /\ remain' = remain - k
        /\ UNCHANGED <<machine, varint, total, off, idx, width, fp, scopes>>
    BY <1>21 DEF ArrayFloatSkip, Reading
  <2> HIDE DEF k
  <2> QED BY <2>2, <2>3 DEF machine, varint, scopes
<1>22. CASE ArrayFinish
  BY <1>22 DEF ArrayFinish, ArrayDone, Running, varint, field
<1> QED BY <1>1, <1>2, <1>3, <1>4, <1>5, <1>6, <1>7, <1>8, <1>9, <1>10, <1>11, <1>12, <1>13, <1>14, <1>15, <1>16, <1>17, <1>18, <1>19, <1>20, <1>21, <1>22 DEF Next, RunStep

(***************************************************************************)
(* The parse stack                                                         *)
(***************************************************************************)
(* The six ways a step can move the stack, whatever the step.             *)
ScopesKept == UNCHANGED <<depth, stack, skipFrom, top, issued>>

Restarted ==
  /\ depth' = 0 /\ stack' = [stack EXCEPT ![0] = issued + 1]
  /\ skipFrom' = -1 /\ top' = issued + 1 /\ issued' = issued + 1

Opened(child) ==
  /\ depth < MaxDepth /\ depth' = depth + 1 /\ top' = child
  /\ stack' = [stack EXCEPT ![depth + 1] = child]

OpenedAccepted == top # Nil /\ Opened(issued + 1) /\ issued' = issued + 1 /\ UNCHANGED skipFrom
OpenedDeclining == top # Nil /\ Opened(Nil) /\ skipFrom' = depth /\ UNCHANGED issued
OpenedDeclined == top = Nil /\ Opened(Nil) /\ UNCHANGED <<skipFrom, issued>>

Closed ==
  /\ depth > 0 /\ depth' = depth - 1
  /\ stack' = [stack EXCEPT ![depth] = Nil]
  /\ UNCHANGED issued
  /\ IF skipFrom < 0 \/ depth - 1 = skipFrom
     THEN skipFrom' = -1 /\ top' = stack[depth - 1]
     ELSE UNCHANGED <<skipFrom, top>>

(* Every step moves the parse stack in one of the six ways.                *)
LEMMA ScopeMoves ==
  ASSUME TypeOK, [Next]_vars
  PROVE  \/ ScopesKept \/ Restarted \/ OpenedAccepted \/ OpenedDeclining
         \/ OpenedDeclined \/ Closed
<1>1. CASE UNCHANGED vars
  BY <1>1 DEF vars, scopes, ScopesKept
<1>2. CASE Reset
  BY <1>2 DEF Reset, Rebind, Restarted
<1>3. CASE Feed \/ AcceptBytes \/ FeedFrom \/ ReadChunk \/ Return \/ Discarded
  BY <1>3 DEF Feed, AcceptBytes, FeedFrom, ReadChunk, Return, Discarded, vars, decoder, scopes, ScopesKept
<1>4. CASE VarintByte \/ VarintOverflow
  BY <1>4 DEF VarintByte, VarintOverflow, scopes, ScopesKept
<1>5. CASE HeaderIdTooLarge \/ FixlenWordIllegal \/ ArrayCountTooLarge \/ ArrayWordIllegal
  BY <1>5 DEF HeaderIdTooLarge, FixlenWordIllegal, ArrayCountTooLarge, ArrayWordIllegal,
              Reject, scopes, ScopesKept
<1>6. CASE HeaderField \/ OpenTooDeep \/ CloseDangling \/ Scalar
  BY <1>6 DEF HeaderField, OpenTooDeep, CloseDangling, Scalar, scopes, ScopesKept
<1>7. CASE FixlenFloat \/ FixlenPayload \/ FixBytes \/ FpPartial \/ FpScalar
  BY <1>7 DEF FixlenFloat, FixlenPayload, FixBytes, FpPartial, FpScalar, scopes, ScopesKept
<1>8. CASE ArrayCount \/ ArrayWord \/ ArrayElement
  BY <1>8 DEF ArrayCount, ArrayWord, ArrayElement, scopes, ScopesKept
<1>9. CASE ArrayFloat \/ ArrayFloatSkip \/ ArrayFinish
  BY <1>9 DEF ArrayFloat, ArrayFloatSkip, ArrayFinish, scopes, ScopesKept
<1>10. CASE OpenInDeclined
  BY <1>10 DEF OpenInDeclined, Descend, OpenedDeclined, Opened
<1>11. CASE OpenSequence
  BY <1>11 DEF OpenSequence, Descend, OpenedAccepted, OpenedDeclining, Opened, scopes, ScopesKept
<1>12. CASE CloseDeclined
  BY <1>12 DEF CloseDeclined, Closed, TypeOK, ScopeTypes
<1>13. CASE CloseSequence
  BY <1>13 DEF CloseSequence, Closed, TypeOK, ScopeTypes
<1> QED BY <1>1, <1>2, <1>3, <1>4, <1>5, <1>6, <1>7, <1>8, <1>9, <1>10, <1>11, <1>12, <1>13
        DEF Next, RunStep

(* ScopesCoherent is inductive under the types.                            *)
LEMMA StepScopesCoherent == TypeOK /\ ScopesCoherent /\ [Next]_vars => ScopesCoherent'
<1> SUFFICES ASSUME TypeOK, ScopesCoherent, [Next]_vars PROVE ScopesCoherent'
  OBVIOUS
<1> USE DecoderAssumption DEF TypeOK, ScopeTypes, ScopesCoherent, Nil
<1>1. CASE ScopesKept
  BY <1>1 DEF ScopesKept
<1>2. CASE Restarted
  BY <1>2 DEF Restarted
<1>3. CASE OpenedAccepted
  BY <1>3 DEF OpenedAccepted, Opened
<1>4. CASE OpenedDeclining
  BY <1>4 DEF OpenedDeclining, Opened
<1>5. CASE OpenedDeclined
  BY <1>5 DEF OpenedDeclined, Opened
<1>6. CASE Closed
  BY <1>6 DEF Closed
<1> QED BY <1>1, <1>2, <1>3, <1>4, <1>5, <1>6, ScopeMoves

(* VisitorsNested is inductive with it.                                    *)
LEMMA StepVisitorsNested ==
  TypeOK /\ ScopesCoherent /\ VisitorsNested /\ [Next]_vars => VisitorsNested'
<1> SUFFICES ASSUME TypeOK, ScopesCoherent, VisitorsNested, [Next]_vars PROVE VisitorsNested'
  OBVIOUS
<1> USE DecoderAssumption DEF TypeOK, ScopeTypes, ScopesCoherent, VisitorsNested, Nil
<1>1. CASE ScopesKept
  BY <1>1 DEF ScopesKept
<1>2. CASE Restarted
  BY <1>2 DEF Restarted
<1>3. CASE OpenedAccepted
  BY <1>3 DEF OpenedAccepted, Opened
<1>4. CASE OpenedDeclining
  BY <1>4 DEF OpenedDeclining, Opened
<1>5. CASE OpenedDeclined
  BY <1>5 DEF OpenedDeclined, Opened
<1>6. CASE Closed
  BY <1>6 DEF Closed
<1> QED BY <1>1, <1>2, <1>3, <1>4, <1>5, <1>6, ScopeMoves

(***************************************************************************)
(* The error latch                                                         *)
(***************************************************************************)
LatchKept ==
  err # "nil" /\ resets' = resets =>
    /\ err' = err /\ log' = log
    /\ (fed' # fed => ret' = <<"Invalid", err>>)

(* Once an error is latched no handler of run can take a step. *)
LEMMA LatchedHandlers ==
  ASSUME err # "nil", RunStep
  PROVE  Return
BY DEF RunStep, VarintByte, VarintOverflow, WantsVarint, HeaderIdTooLarge, HeaderField, OpenTooDeep,
       OpenInDeclined, OpenSequence, CloseDangling, CloseDeclined, CloseSequence, Scalar,
       FixlenWordIllegal, FixlenFloat, FixlenPayload, FixBytes, FpPartial, FpScalar,
       ArrayCountTooLarge, ArrayCount, ArrayWordIllegal, ArrayWord, ArrayElement, ArrayFloat,
       ArrayFloatSkip, ArrayFinish, Reject, Header, TakeVarint, Reading, Running

(* Once latched, an error stays and silences the decoder until Reset.      *)
LEMMA StepLatchKept == TypeOK /\ [Next]_vars => LatchKept
<1> SUFFICES ASSUME TypeOK, [Next]_vars, err # "nil", resets' = resets
             PROVE  /\ err' = err /\ log' = log
                    /\ (fed' # fed => ret' = <<"Invalid", err>>)
  BY DEF LatchKept
<1>1. CASE UNCHANGED vars
  BY <1>1 DEF vars, machine, caller
<1>2. CASE Reset
  BY <1>2 DEF Reset, TypeOK, CallTypes
<1>3. CASE Feed \/ AcceptBytes
  BY <1>3 DEF Feed, AcceptBytes, Hand, decoder, machine
<1>4. CASE ReadChunk
  BY <1>4 DEF ReadChunk, Hand, decoder, machine
<1>5. CASE FeedFrom \/ Discarded \/ Return
  BY <1>5, <1>1 DEF FeedFrom, Discarded, Return, decoder, machine
<1> QED BY <1>1, <1>2, <1>3, <1>4, <1>5, LatchedHandlers DEF Next

(***************************************************************************)
(* Theorems                                                                *)
(***************************************************************************)
(* The whole invariant, with what holds of the first state. *)
DecoderInv == IInv /\ ScopesCoherent /\ VisitorsNested

(* The whole invariant holds.                                              *)
LEMMA DecoderInvHolds == Spec => []DecoderInv
<1>1. Init => DecoderInv
  <2> SUFFICES ASSUME Init PROVE DecoderInv
    OBVIOUS
  <2>1. TypeOK
    BY InitTypes
  <2>2. FieldAccounted
    BY DEF Init, FieldAccounted
  <2>3. ScopesCoherent /\ VisitorsNested
    BY DecoderAssumption DEF Init, ScopesCoherent, VisitorsNested, Nil
  <2> QED BY <2>1, <2>2, <2>3 DEF DecoderInv, IInv
<1>2. DecoderInv /\ [Next]_vars => DecoderInv'
  BY StepMachineTypes, StepFieldTypes, StepScopeTypes, StepCallTypes, StepFieldAccounted,
     StepScopesCoherent, StepVisitorsNested DEF DecoderInv, IInv, TypeOK
<1> QED BY <1>1, <1>2, PTL DEF Spec

(* Every field of the Decoder keeps its type for every message and chunking; *)
(* the decoder never reads past the bytes it was fed (run).                *)
THEOREM TypeCorrect == Spec => []TypeOK
<1>1. DecoderInv => TypeOK
  BY DEF DecoderInv, IInv
<1> QED BY <1>1, DecoderInvHolds, PTL

(* A suspended field remembers exactly how much of it is to come (run,       *)
(* fixlenWord, arrayCount and the element loops).                          *)
THEOREM FieldsAccounted == Spec => []FieldAccounted
<1>1. DecoderInv => FieldAccounted
  BY DEF DecoderInv, IInv
<1> QED BY <1>1, DecoderInvHolds, PTL

(* The cached visitor is the innermost open scope's at every nesting depth   *)
(* and however many subtrees are declined (openSequence, closeSequence).   *)
THEOREM ScopesStayCoherent == Spec => []ScopesCoherent
<1>1. DecoderInv => ScopesCoherent
  BY DEF DecoderInv
<1> QED BY <1>1, DecoderInvHolds, PTL

(* No visitor holds two open scopes (openSequence, closeSequence, init). *)
THEOREM VisitorsStayNested == Spec => []VisitorsNested
<1>1. DecoderInv => VisitorsNested
  BY DEF DecoderInv
<1> QED BY <1>1, DecoderInvHolds, PTL

(* A latched error silences the decoder until Reset and is the answer to     *)
(* every Feed that has bytes (fail, Feed, FeedFrom).                       *)
THEOREM LatchIsTerminal == Spec => InvalidIsTerminal
<1>1. DecoderInv /\ [Next]_vars => LatchKept
  BY StepLatchKept DEF DecoderInv, IInv
<1>2. LatchKept <=> (err # "nil" /\ resets' = resets =>
                      /\ err' = err /\ log' = log
                      /\ (fed' # fed => ret' = <<"Invalid", err>>))
  BY DEF LatchKept
<1> QED BY <1>1, <1>2, DecoderInvHolds, PTL DEF Spec, InvalidIsTerminal

(***************************************************************************)
(* The invariant                                                           *)
(***************************************************************************)
(* An array's count is read under the wire type that was its header's, and  *)
(* under the kind that goes with it; a fixlen array's kind comes later.    *)
CountKinds ==
  err = "nil" /\ st = "stArrCount" =>
    /\ wire \in {WireType.ArrayUnsigned, WireType.ArraySigned, WireType.FixlenArray}
    /\ wire = WireType.ArrayUnsigned => kind = ArrayKind.Unsigned
    /\ wire = WireType.ArraySigned => kind = ArrayKind.Signed

RefinementInv == DecoderInv /\ CountKinds /\ Listed(log)

(* The callbacks of a step go behind those made before it. *)
LEMMA DeliverAppends ==
  ASSUME Listed(log), NEW STATE cbs, Listed(cbs), Deliver(cbs)
  PROVE  Listed(log')
<1>1. CASE UNCHANGED log
  BY <1>1
<1>2. CASE log' = log \o cbs
  BY <1>2, ConcatListed
<1>3. ASSUME NEW k \in 0 .. Len(cbs), k < Len(cbs), log' = log \o SubSeq(cbs, 1, k + 1)
      PROVE  Listed(log')
  <2>1. k + 1 \in 0 .. Len(cbs) /\ 1 \in Nat \ {0} /\ 1 <= k + 1 + 1
    BY <1>3 DEF Listed
  <2>2. Listed(SubSeq(cbs, 1, k + 1))
    BY <2>1, SubListed
  <2> QED BY <1>3, <2>2, ConcatListed
<1> QED BY <1>1, <1>2, <1>3 DEF Deliver

(* What a visitor that is there hears of a step, and how it may end: the    *)
(* callbacks up to the one that failed.                                    *)
LEMMA DeliverSays ==
  ASSUME Listed(log), NEW STATE cbs, Listed(cbs), Len(cbs) > 0, top # Nil, err = "nil",
         Deliver(cbs), NEW ACTION f, err' = "nil" => FieldNow' = f
  PROVE  /\ \E k \in 1 .. Len(cbs) :
              /\ log' = log \o SubSeq(cbs, 1, k)
              /\ \/ k = Len(cbs) /\ err' = "nil" /\ FieldNow' = f
                 \/ err' # "nil" /\ FieldNow' = NoneInProgress
              /\ \A j \in 1 .. k - 1 : "ok" \in Replies(cbs[j])
              /\ err' # "nil" => "error" \in Replies(cbs[k])
              /\ Len(log') = Len(log) + k
              /\ \A j \in 1 .. k : log'[Len(log) + j] = cbs[j]
<1>1. PICK k \in 0 .. Len(cbs) :
         /\ \A j \in 1 .. k : "ok" \in Replies(cbs[j])
         /\ \/ /\ k = Len(cbs) /\ log' = log \o cbs /\ err' = err
            \/ /\ k < Len(cbs) /\ "error" \in Replies(cbs[k + 1])
               /\ log' = log \o SubSeq(cbs, 1, k + 1) /\ err' = "visitorErr"
  BY DEF Deliver
<1>2. Len(cbs) \in Nat
  BY DEF Listed
<1>3. SubSeq(cbs, 1, Len(cbs)) = cbs
  <2>1. 1 \in Nat \ {0} /\ Len(cbs) \in 0 .. Len(cbs) /\ 1 <= Len(cbs) + 1
    BY <1>2
  <2>2. /\ Listed(SubSeq(cbs, 1, Len(cbs))) /\ Len(SubSeq(cbs, 1, Len(cbs))) = Len(cbs) - 1 + 1
        /\ \A i \in 1 .. Len(cbs) - 1 + 1 : SubSeq(cbs, 1, Len(cbs))[i] = cbs[1 + i - 1]
    BY <2>1, SubListed
  <2>3. Len(cbs) - 1 + 1 = Len(cbs) /\ \A i \in 1 .. Len(cbs) : 1 + i - 1 = i
    BY <1>2
  <2> QED BY <2>2, <2>3, SameListed
<1>4. PICK m \in 1 .. Len(cbs) :
         /\ log' = log \o SubSeq(cbs, 1, m)
         /\ \A j \in 1 .. m - 1 : "ok" \in Replies(cbs[j])
         /\ \/ m = Len(cbs) /\ err' = "nil"
            \/ err' = "visitorErr" /\ "error" \in Replies(cbs[m])
  <2>1. CASE k = Len(cbs) /\ log' = log \o cbs /\ err' = err
    <3>1. Len(cbs) \in 1 .. Len(cbs) /\ \A j \in 1 .. Len(cbs) - 1 : j \in 1 .. k
      BY <1>2, <2>1
    <3>2. /\ log' = log \o SubSeq(cbs, 1, Len(cbs)) /\ err' = "nil"
          /\ \A j \in 1 .. Len(cbs) - 1 : "ok" \in Replies(cbs[j])
      BY <1>1, <1>3, <2>1, <3>1
    <3> QED BY <3>1, <3>2
  <2>2. CASE /\ k < Len(cbs) /\ "error" \in Replies(cbs[k + 1])
             /\ log' = log \o SubSeq(cbs, 1, k + 1) /\ err' = "visitorErr"
    <3>1. k + 1 \in 1 .. Len(cbs) /\ k + 1 - 1 = k
      BY <1>2, <2>2
    <3>2. /\ log' = log \o SubSeq(cbs, 1, k + 1) /\ err' = "visitorErr"
          /\ \A j \in 1 .. k + 1 - 1 : "ok" \in Replies(cbs[j])
          /\ "error" \in Replies(cbs[k + 1])
      BY <1>1, <2>2, <3>1
    <3>3. \A u \in 1 .. Len(cbs) : u = k + 1 =>
             /\ log' = log \o SubSeq(cbs, 1, u) /\ err' = "visitorErr"
             /\ \A j \in 1 .. u - 1 : "ok" \in Replies(cbs[j])
             /\ "error" \in Replies(cbs[u])
      BY <3>2
    <3> QED BY <3>1, <3>3
  <2> QED BY <1>1, <2>1, <2>2
<1>5. /\ Listed(SubSeq(cbs, 1, m)) /\ Len(SubSeq(cbs, 1, m)) = m
      /\ \A i \in 1 .. m : SubSeq(cbs, 1, m)[i] = cbs[i]
  <2>1. 1 \in Nat \ {0} /\ m \in 0 .. Len(cbs) /\ 1 <= m + 1 /\ m - 1 + 1 = m
        /\ \A i \in 1 .. m : 1 + i - 1 = i
    BY <1>2
  <2>2. /\ Listed(SubSeq(cbs, 1, m)) /\ Len(SubSeq(cbs, 1, m)) = m - 1 + 1
        /\ \A i \in 1 .. m - 1 + 1 : SubSeq(cbs, 1, m)[i] = cbs[1 + i - 1]
    BY <2>1, SubListed
  <2> QED BY <2>1, <2>2
<1>6. Len(log') = Len(log) + m /\ \A j \in 1 .. m : log'[Len(log) + j] = cbs[j]
  <2>1. Len(log') = Len(log) + Len(SubSeq(cbs, 1, m))
        /\ \A j \in 1 .. Len(SubSeq(cbs, 1, m)) : log'[Len(log) + j] = SubSeq(cbs, 1, m)[j]
    BY <1>4, <1>5, ConcatListed
  <2> QED BY <1>5, <2>1
<1>7. err' # "nil" => FieldNow' = NoneInProgress
  BY DEF FieldNow
<1>8. /\ \/ m = Len(cbs) /\ err' = "nil" /\ FieldNow' = f
         \/ err' # "nil" /\ FieldNow' = NoneInProgress
      /\ err' # "nil" => "error" \in Replies(cbs[m])
  BY <1>4, <1>7
<1> QED BY <1>4, <1>6, <1>8

(***************************************************************************)
(* The state of the protocol                                               *)
(***************************************************************************)
(* A step that is none of the protocol's: what it reads is as it was. *)
ProtocolKept == UNCHANGED <<log, OpenScopes, FieldNow>> /\ (err = "nil" <=> err' = "nil")

(* Such a step is a stutter of the protocol.                               *)
LEMMA KeptIsStutter == ProtocolKept => UNCHANGED Protocol!protocol
BY DEF ProtocolKept, Protocol!protocol

(* The open scopes are those down to the held depth. *)
LEMMA OpenKept == UNCHANGED <<depth, stack, skipFrom>> => UNCHANGED OpenScopes
BY DEF OpenScopes, HeldDepth

(* A step that fails without a callback ends the decode (fail).            *)
LEMMA AbortStep ==
  ASSUME err = "nil", err' # "nil", UNCHANGED <<depth, stack, skipFrom, log>>
  PROVE  Protocol!Abort
<1>1. FieldNow' = Protocol!NoField
  BY DEF FieldNow, NoneInProgress, Protocol!NoField
<1> QED BY <1>1, OpenKept DEF Protocol!Abort

(* Someone is listening exactly when the innermost scope was not declined,  *)
(* and then the innermost open scope is the listener's.                    *)
LEMMA Listener ==
  ASSUME DecoderInv
  PROVE  /\ Listed(OpenScopes) /\ Len(OpenScopes) = HeldDepth + 1 /\ HeldDepth \in 0 .. depth
         /\ \A d \in 1 .. HeldDepth + 1 : OpenScopes[d] = stack[d - 1]
         /\ top # Nil => /\ skipFrom < 0 /\ HeldDepth = depth
                         /\ top = stack[depth] /\ Protocol!Innermost = top
<1>1. /\ depth \in Nat /\ depth \in 0 .. MaxDepth /\ skipFrom \in Int /\ top \in Nat
      /\ skipFrom \in -1 .. depth - 1
      /\ top = IF skipFrom < 0 THEN stack[depth] ELSE Nil
  BY DecoderAssumption DEF DecoderInv, IInv, TypeOK, ScopeTypes, ScopesCoherent
<1>2. HeldDepth \in 0 .. depth /\ HeldDepth + 1 \in Nat
  BY <1>1 DEF HeldDepth
<1>3. OpenScopes = [d \in 1 .. HeldDepth + 1 |-> OpenScopes[d]]
      /\ \A d \in 1 .. HeldDepth + 1 : OpenScopes[d] = stack[d - 1]
  BY DEF OpenScopes
<1>4. Listed(OpenScopes) /\ Len(OpenScopes) = HeldDepth + 1
  BY <1>2, <1>3, TabulatedIsListed
<1>5. ASSUME top # Nil PROVE skipFrom < 0 /\ HeldDepth = depth /\ top = stack[depth] /\ Protocol!Innermost = top
  <2>1. skipFrom < 0 /\ HeldDepth = depth /\ top = stack[depth]
    BY <1>1, <1>5 DEF HeldDepth
  <2>2. Protocol!Innermost = OpenScopes[HeldDepth + 1]
    BY <1>4 DEF Protocol!Innermost
  <2>3. HeldDepth + 1 \in 1 .. HeldDepth + 1 /\ (HeldDepth + 1) - 1 = HeldDepth
    BY <1>2
  <2>4. OpenScopes[HeldDepth + 1] = stack[(HeldDepth + 1) - 1]
    BY <1>3, <2>3
  <2> QED BY <2>1, <2>2, <2>3, <2>4
<1> QED BY <1>2, <1>3, <1>4, <1>5

(* Between two fields the protocol has no field either, whatever state of  *)
(* run is next to read a byte of a header or a word.                       *)
LEMMA NothingInProgress ==
  /\ NoneInProgress = Protocol!NoField
  /\ err # "nil" \/ top = Nil \/ st \in {"stHeader", "stScalarU", "stScalarS", "stFixWord",
       "stArrCount", "stArrWord"} => FieldNow = NoneInProgress
BY DEF FieldNow, NoneInProgress, Protocol!NoField

(* The two modules write a field in progress the same way.                 *)
LEMMA FieldIsField == \A is, n, got : InProgress(is, n, got) = Protocol!Field(is, id, n, got)
BY DEF InProgress, Protocol!Field

(* A step that speaks is a Say of the protocol. *)
LEMMA Said ==
  ASSUME Listed(log), NEW STATE cbs, Listed(cbs), Len(cbs) > 0, top # Nil, err = "nil",
         Deliver(cbs), NEW STATE f, err' = "nil" => FieldNow' = f
  PROVE  /\ Protocol!Say(cbs, f) /\ Protocol!Speaks /\ Protocol!New(1) = cbs[1]
         /\ Len(cbs) > 1 /\ cbs[1].m = "SetStringCheck" =>
              Len(log') > Len(log) + 1 /\ Protocol!New(2) = cbs[2]
<1>1. PICK k \in 1 .. Len(cbs) :
         /\ log' = log \o SubSeq(cbs, 1, k)
         /\ \/ k = Len(cbs) /\ err' = "nil" /\ FieldNow' = f
            \/ err' # "nil" /\ FieldNow' = NoneInProgress
         /\ err' # "nil" => "error" \in Replies(cbs[k])
         /\ Len(log') = Len(log) + k
         /\ \A j \in 1 .. k : log'[Len(log) + j] = cbs[j]
  BY DeliverSays
<1>2. Len(cbs) \in Nat /\ Len(log) \in Nat
  BY DEF Listed
<1>3. Protocol!Say(cbs, f)
  BY <1>1, NothingInProgress DEF Protocol!Say
<1>4. Protocol!Speaks /\ Protocol!New(1) = cbs[1]
  <2>1. 1 \in 1 .. k /\ Len(log') > Len(log)
    BY <1>1, <1>2
  <2> QED BY <1>1, <2>1 DEF Protocol!Speaks, Protocol!New
<1>5. ASSUME Len(cbs) > 1, cbs[1].m = "SetStringCheck"
      PROVE  Len(log') > Len(log) + 1 /\ Protocol!New(2) = cbs[2]
  <2>1. k # 1
    BY <1>1, <1>2, <1>5 DEF Replies
  <2>2. 2 \in 1 .. k /\ k \in Nat
    BY <1>2, <2>1
  <2> QED BY <1>1, <1>2, <2>1, <2>2 DEF Protocol!New
<1> QED BY <1>3, <1>4, <1>5

(* The common case: a step with one callback.                              *)
LEMMA OneSaid ==
  ASSUME Listed(log), NEW STATE c, top # Nil, err = "nil", Deliver(<<c>>),
         NEW STATE f, err' = "nil" => FieldNow' = f
  PROVE  Protocol!Say(<<c>>, f) /\ Protocol!Speaks /\ Protocol!New(1) = c
<1>1. Listed(<<c>>) /\ Len(<<c>>) = 1 /\ <<c>>[1] = c
  BY OneListed
<1>2. Len(<<c>>) > 0
  BY <1>1
<1>3. Protocol!Say(<<c>>, f) /\ Protocol!Speaks /\ Protocol!New(1) = <<c>>[1]
  BY <1>1, <1>2, Said
<1> QED BY <1>1, <1>3

(* To nobody, a step says nothing. *)
LEMMA Unheard ==
  ASSUME top = Nil, UNCHANGED <<depth, stack, skipFrom, top>>, NEW STATE cbs, Deliver(cbs)
  PROVE  ProtocolKept
<1>1. UNCHANGED <<err, log>>
  BY DEF Deliver
<1>2. FieldNow = NoneInProgress /\ FieldNow' = NoneInProgress
  BY DEF FieldNow
<1> QED BY <1>1, <1>2, OpenKept DEF ProtocolKept

(***************************************************************************)
(* The steps                                                               *)
(***************************************************************************)
LEMMA ScalarSpeaks ==
  ASSUME RefinementInv, Scalar
  PROVE  ProtocolKept \/ Protocol!SayScalar
<1>1. /\ err = "nil" /\ st \in {"stScalarU", "stScalarS"}
      /\ st' = "stHeader" /\ UNCHANGED <<depth, stack, skipFrom, top>>
  BY DEF Scalar, TakeVarint, Reading, Running, scopes
<1> DEFINE c == Call(top, IF st = "stScalarU" THEN "Unsigned" ELSE "Signed", id,
                     <<IF st = "stScalarU" THEN ReadVarint.v ELSE ZigzagDecode(ReadVarint.v)>>)
<1>2. Deliver(<<c>>)
  BY DEF Scalar, TakeVarint, Reading
<1>3. c.to = top /\ c.m \in {"Unsigned", "Signed"}
  BY DEF Call
<1> HIDE DEF c
<1>4. CASE top = Nil
  BY <1>1, <1>2, <1>4, Unheard
<1>5. CASE top # Nil
  <2>1. FieldNow = NoneInProgress /\ (err' = "nil" => FieldNow' = NoneInProgress)
    BY <1>1 DEF FieldNow
  <2>2. Protocol!Say(<<c>>, NoneInProgress) /\ Protocol!Speaks /\ Protocol!New(1) = c
    BY <1>1, <1>2, <1>5, <2>1, OneSaid DEF RefinementInv
  <2>3. Protocol!Innermost = top
    BY <1>5, Listener DEF RefinementInv
  <2> QED BY <1>1, <1>3, <2>1, <2>2, <2>3, NothingInProgress, OpenKept
          DEF Protocol!SayScalar, Protocol!Between
<1> QED BY <1>4, <1>5

(* A float is reported once it is whole, as the float its word announced   *)
(* (fpStep).                                                               *)
LEMMA FloatSpeaks ==
  ASSUME RefinementInv, FpScalar
  PROVE  ProtocolKept \/ Protocol!SayFloat
<1>1. /\ err = "nil" /\ st = "stFixFp" /\ Avail > 0 /\ Len(fp) + FpTake = width
      /\ st' = "stHeader" /\ UNCHANGED <<depth, stack, skipFrom, top>>
  BY DEF FpScalar, Reading, Running, scopes
<1> DEFINE c == Call(top, IF width = Fp32Width THEN "Float32" ELSE "Float64", id, FpBits)
<1>2. Deliver(<<c>>)
  BY DEF FpScalar
<1>3. Len(FpBits) = width
  BY <1>1, FpBytes DEF RefinementInv, DecoderInv
<1>4. /\ c.to = top /\ c.m = (IF width = Fp32Width THEN "Float32" ELSE "Float64")
      /\ c.id = id /\ c.args = FpBits
  BY DEF Call
<1> HIDE DEF c
<1>5. CASE top = Nil
  BY <1>1, <1>2, <1>5, Unheard
<1>6. CASE top # Nil
  <2>1. /\ FieldNow = InProgress(IF width = Fp32Width THEN "Float32" ELSE "Float64", width, 0)
        /\ err' = "nil" => FieldNow' = NoneInProgress
    BY <1>1, <1>6 DEF FieldNow
  <2>2. Protocol!Say(<<c>>, NoneInProgress) /\ Protocol!Speaks /\ Protocol!New(1) = c
    BY <1>1, <1>2, <1>6, <2>1, OneSaid DEF RefinementInv
  <2>3. Protocol!Innermost = top
    BY <1>6, Listener DEF RefinementInv
  <2>4. FieldNow.is = c.m /\ FieldNow.id = id /\ FieldNow.total = width /\ FieldNow.is \in Protocol!Floats
    BY <1>4, <2>1 DEF InProgress, Protocol!Floats
  <2> QED BY <1>1, <1>3, <1>4, <2>2, <2>3, <2>4, NothingInProgress, OpenKept DEF Protocol!SayFloat
<1> QED BY <1>5, <1>6

(* A piece of a payload is what the chunk holds of it, at the offset it has. *)
LEMMA PieceSpeaks ==
  ASSUME RefinementInv, FixBytes
  PROVE  ProtocolKept \/ Protocol!SayPiece
<1> DEFINE len == IF Avail > remain THEN remain ELSE Avail
           bytes == SubSeq(Chunk, 1, len)
           c == Piece(sub, total, off, bytes)
<1>1. /\ err = "nil" /\ st = "stFixBytes" /\ Avail > 0
      /\ off' = off + len /\ remain' = remain - len
      /\ st' = IF remain = len THEN "stHeader" ELSE st
      /\ Deliver(<<c>>)
      /\ UNCHANGED <<id, total, sub, depth, stack, skipFrom, top>>
  BY DEF FixBytes, Reading, Running, scopes
<1>2. /\ remain \in Nat /\ off \in Nat /\ total \in Nat /\ remain > 0 /\ off + remain = total
      /\ Avail \in Nat /\ Len(Chunk) = Avail /\ Chunk \in Seq(Byte)
  BY <1>1, ChunkBytes DEF RefinementInv, DecoderInv, IInv, FieldAccounted, TypeOK, FieldTypes
<1>3. len \in 1 .. remain /\ len \in 0 .. Len(Chunk) /\ 1 \in Nat \ {0} /\ 1 <= len + 1
  BY <1>1, <1>2
<1>4. Listed(Chunk)
  BY <1>2, SeqIsListed
<1> HIDE DEF len
<1>5. Listed(bytes) /\ Len(bytes) = len - 1 + 1
  BY <1>3, <1>4, SubListed
<1> HIDE DEF bytes
<1>6. /\ Listed(<<total, off>> \o bytes) /\ Len(<<total, off>> \o bytes) = 2 + Len(bytes)
      /\ (<<total, off>> \o bytes)[1] = total /\ (<<total, off>> \o bytes)[2] = off
  <2>1. /\ Listed(<<total, off>>) /\ Len(<<total, off>>) = 2
        /\ <<total, off>>[1] = total /\ <<total, off>>[2] = off
    BY PairListed
  <2>2. /\ Listed(<<total, off>> \o bytes)
        /\ Len(<<total, off>> \o bytes) = Len(<<total, off>>) + Len(bytes)
        /\ \A i \in 1 .. Len(<<total, off>>) : (<<total, off>> \o bytes)[i] = <<total, off>>[i]
    BY ONLY <1>5, <2>1, ConcatListed
  <2>3. 1 \in 1 .. Len(<<total, off>>) /\ 2 \in 1 .. Len(<<total, off>>)
    BY <2>1
  <2> QED BY <2>1, <2>2, <2>3
<1>7. /\ c.to = top /\ c.m = (IF sub = FixlenSubtype.Str THEN "String" ELSE "Bytes")
      /\ c.id = id /\ c.args = <<total, off>> \o bytes
  BY DEF Call, Piece
<1> HIDE DEF c
<1>8. /\ c.args[1] = total /\ c.args[2] = off /\ Len(c.args) - 2 = len
  BY <1>3, <1>5, <1>6, <1>7
<1>9. CASE top = Nil
  BY <1>1, <1>9, Unheard
<1>10. CASE top # Nil
  <2> DEFINE f == IF off + len = total THEN NoneInProgress ELSE [FieldNow EXCEPT !.got = @ + len]
  <2>1. FieldNow = InProgress(c.m, total, off)
    BY <1>1, <1>7, <1>10 DEF FieldNow
  <2>2. /\ FieldNow.is = c.m /\ FieldNow.id = id /\ FieldNow.total = total /\ FieldNow.got = off
        /\ FieldNow.is \in Protocol!Payloads
        /\ [FieldNow EXCEPT !.got = @ + len] = InProgress(c.m, total, off + len)
    BY <1>7, <2>1 DEF InProgress, Protocol!Payloads
  <2>3. err' = "nil" => FieldNow' = f
    <3>1. CASE remain = len
      BY <1>1, <1>2, <1>3, <3>1 DEF FieldNow
    <3>2. CASE remain # len
      <4>1. off + len # total
        BY <1>2, <1>3, <3>2
      <4>2. /\ st' = "stFixBytes" /\ top' # Nil /\ sub' = sub /\ id' = id /\ total' = total
            /\ off' = off + len
        BY <1>1, <1>10, <3>2
      <4>3. err' = "nil" =>
              FieldNow' = [is |-> c.m, id |-> id, total |-> total, got |-> off + len]
        BY <1>7, <4>2 DEF FieldNow, InProgress
      <4>4. f = [is |-> c.m, id |-> id, total |-> total, got |-> off + len]
        BY <2>2, <4>1 DEF InProgress
      <4> QED BY <4>3, <4>4
    <3> QED BY <3>1, <3>2
  <2> HIDE DEF f
  <2>4. Protocol!Say(<<c>>, f) /\ Protocol!Speaks /\ Protocol!New(1) = c
    BY <1>1, <1>10, <2>3, OneSaid DEF RefinementInv
  <2>5. Protocol!Innermost = top
    BY <1>10, Listener DEF RefinementInv
  <2>6. f = IF FieldNow.got + len = FieldNow.total THEN Protocol!NoField ELSE [FieldNow EXCEPT !.got = @ + len]
    BY <2>2, NothingInProgress DEF f
  <2>7. len \in 1 .. FieldNow.total - FieldNow.got
    BY <1>2, <1>3, <2>2
  <2> QED BY <1>1, <1>7, <1>8, <2>2, <2>4, <2>5, <2>6, <2>7, OpenKept DEF Protocol!SayPiece
<1> QED BY <1>9, <1>10

(* The word of a float announces it with the width of its subtype          *)
(* (fixlenWord).                                                           *)
LEMMA FloatBegins ==
  ASSUME RefinementInv, FixlenFloat
  PROVE  ProtocolKept \/ Protocol!SayFixlen
<1> DEFINE c == FixlenBegin
<1>1. /\ err = "nil" /\ st = "stFixWord" /\ st' = "stFixFp" /\ width' = High /\ FixlenWordLegal
      /\ Low \in {0, 1} /\ Deliver(<<c>>)
      /\ UNCHANGED <<id, depth, stack, skipFrom, top>>
  BY DEF FixlenFloat, TakeVarint, Reading, Running, scopes, FixlenSubtype
<1>2. High = IF Low = 0 THEN Fp32Width ELSE Fp64Width
  BY <1>1 DEF FixlenWordLegal, FixlenSubtype
<1>3. /\ c.to = top /\ c.m = "FixlenBegin" /\ c.id = id /\ c.args[1] = Low /\ c.args[2] = High
  BY DEF FixlenBegin, Call
<1> HIDE DEF c
<1>4. CASE top = Nil
  <2>1. FieldNow = NoneInProgress /\ FieldNow' = NoneInProgress /\ UNCHANGED <<err, log>>
    BY <1>1, <1>4 DEF FieldNow, Deliver
  <2> QED BY <1>1, <2>1, OpenKept DEF ProtocolKept
<1>5. CASE top # Nil
  <2> DEFINE is == IF Low = 0 THEN "Float32" ELSE "Float64"
             f == InProgress(is, High, 0)
  <2>1. FieldNow = NoneInProgress /\ (err' = "nil" => FieldNow' = f)
    BY <1>1, <1>2, <1>5, DecoderAssumption DEF FieldNow, InProgress
  <2>2. f = Protocol!Field(is, c.id, High, 0)
    BY <1>3, FieldIsField
  <2> HIDE DEF f
  <2>3. Protocol!Say(<<c>>, f) /\ Protocol!Speaks /\ Protocol!New(1) = c
    BY <1>1, <1>5, <2>1, OneSaid DEF RefinementInv
  <2>4. Protocol!Innermost = top
    BY <1>5, Listener DEF RefinementInv
  <2>5. High # 0 /\ Len(<<>>) = 0 /\ 1 + 0 = 1 /\ <<>> \o <<c>> = <<c>>
    BY <1>2, DecoderAssumption, EmptyListed, OneListed, NothingAdded
  <2>6. is = CASE Low = 0 -> "Float32" [] Low = 1 -> "Float64" [] Low = 2 -> "String" [] OTHER -> "Bytes"
    BY <1>1
  <2>7. Len(log') > Len(log) + 0
    BY <2>3 DEF Protocol!Speaks, RefinementInv, Listed
  <2> HIDE DEF is
  <2> QED BY <1>1, <1>3, <2>1, <2>2, <2>3, <2>4, <2>5, <2>6, <2>7, NothingInProgress, OpenKept
          DEF Protocol!SayFixlen, Protocol!Between
<1> QED BY <1>4, <1>5

(* The callbacks that announce a payload: the policy first when it is due,  *)
(* the one empty piece last when there is none to come.                    *)
Announces(cbs, pre, begin, rest, policy, piece) ==
  /\ pre = <<policy>> \/ pre = <<>>
  /\ rest = <<piece>> \/ rest = <<>>
  /\ cbs = pre \o <<begin>> \o rest

Announced(cbs, pre, begin, rest, policy, piece) ==
  /\ Listed(cbs) /\ Len(cbs) \in 1 .. 3
  /\ rest = <<piece>> => cbs = pre \o <<begin, piece>>
  /\ rest = <<>> => cbs = pre \o <<begin>>
  /\ pre = <<policy>> => cbs[1] = policy /\ cbs[2] = begin /\ Len(cbs) # 1
  /\ pre = <<>> => cbs[1] = begin
  /\ \A j \in 1 .. Len(cbs) : cbs[j] \in {begin, piece} \/ (j = 1 /\ pre = <<policy>>)

(* The four shapes of that announcement, entry by entry.                   *)
LEMMA Announcement ==
  ASSUME NEW policy, NEW begin, NEW piece, NEW pre, NEW rest, NEW cbs,
         Announces(cbs, pre, begin, rest, policy, piece)
  PROVE  Announced(cbs, pre, begin, rest, policy, piece)
<1> USE DEF Announces, Announced
<1>1. /\ Listed(<<>>) /\ Listed(<<begin>>) /\ Listed(<<begin, piece>>)
      /\ Listed(<<policy, begin>>) /\ Listed(<<policy, begin, piece>>)
  BY EmptyListed, OneListed, PairListed, TripleListed
<1>2. /\ <<policy>> \o <<begin>> = <<policy, begin>> /\ <<begin>> \o <<piece>> = <<begin, piece>>
  BY PairListed
<1>3. <<policy, begin>> \o <<piece>> = <<policy, begin, piece>>
  BY PairInFront
<1>4. <<policy>> \o <<begin, piece>> = <<policy, begin, piece>>
  BY OneInFront
<1>5. /\ <<>> \o <<begin>> = <<begin>> /\ <<begin>> \o <<>> = <<begin>>
      /\ <<>> \o <<begin, piece>> = <<begin, piece>>
      /\ <<policy, begin>> \o <<>> = <<policy, begin>>
  BY <1>1, NothingAdded
<1>6. ~(<<policy>> = <<>>) /\ ~(<<piece>> = <<>>)
  OBVIOUS
<1>7. CASE pre = <<policy>> /\ rest = <<piece>>
  <2>1. cbs = <<policy, begin, piece>> /\ cbs = pre \o <<begin, piece>>
    BY <1>2, <1>3, <1>4, <1>7
  <2>2. Len(cbs) = 3 /\ cbs[1] = policy /\ cbs[2] = begin
    BY <2>1, TripleListed
  <2>3. Len(cbs) \in 1 .. 3 /\ Len(cbs) # 1
    BY ONLY <2>2
  <2>4. \A j \in 1 .. Len(cbs) : cbs[j] \in {begin, piece} \/ (j = 1 /\ pre = <<policy>>)
    <3>1. cbs[3] = piece /\ \A j \in 1 .. 3 : j = 1 \/ j = 2 \/ j = 3
      BY <2>1, TripleListed
    <3> QED BY <1>7, <2>2, <3>1
  <2> QED BY <1>1, <1>6, <1>7, <2>1, <2>2, <2>3, <2>4, Zenon
<1>8. CASE pre = <<policy>> /\ rest = <<>>
  <2>1. cbs = <<policy, begin>> /\ cbs = pre \o <<begin>>
    BY <1>2, <1>5, <1>8
  <2>2. Len(cbs) = 2 /\ cbs[1] = policy /\ cbs[2] = begin
    BY <2>1, PairListed
  <2>3. Len(cbs) \in 1 .. 3 /\ Len(cbs) # 1
    BY ONLY <2>2
  <2>4. \A j \in 1 .. Len(cbs) : cbs[j] \in {begin, piece} \/ (j = 1 /\ pre = <<policy>>)
    <3>1. \A j \in 1 .. 2 : j = 1 \/ j = 2
      OBVIOUS
    <3> QED BY <1>8, <2>2, <3>1
  <2> QED BY <1>1, <1>6, <1>8, <2>1, <2>2, <2>3, <2>4, Zenon
<1>9. CASE pre = <<>> /\ rest = <<piece>>
  <2>1. cbs = <<begin, piece>> /\ cbs = pre \o <<begin, piece>>
    BY <1>2, <1>5, <1>9
  <2>2. Len(cbs) = 2 /\ cbs[1] = begin
    BY <2>1, PairListed
  <2>3. Len(cbs) \in 1 .. 3
    BY ONLY <2>2
  <2>4. \A j \in 1 .. Len(cbs) : cbs[j] \in {begin, piece} \/ (j = 1 /\ pre = <<policy>>)
    <3>1. cbs[2] = piece /\ \A j \in 1 .. 2 : j = 1 \/ j = 2
      BY <2>1, PairListed
    <3> QED BY <2>2, <3>1
  <2> QED BY <1>1, <1>6, <1>9, <2>1, <2>2, <2>3, <2>4, Zenon
<1>10. CASE pre = <<>> /\ rest = <<>>
  <2>1. cbs = <<begin>> /\ cbs = pre \o <<begin>>
    BY <1>5, <1>10
  <2>2. Len(cbs) = 1 /\ cbs[1] = begin
    BY <2>1, OneListed
  <2>3. Len(cbs) \in 1 .. 3
    BY ONLY <2>2
  <2>4. \A j \in 1 .. Len(cbs) : cbs[j] \in {begin, piece} \/ (j = 1 /\ pre = <<policy>>)
    <3>1. \A j \in 1 .. 1 : j = 1
      OBVIOUS
    <3> QED BY <2>2, <3>1
  <2> QED BY <1>1, <1>6, <1>10, <2>1, <2>2, <2>3, <2>4, Zenon
<1> QED BY <1>7, <1>8, <1>9, <1>10

(* The word of a string or a blob announces its length, after the policy   *)
(* when one is due, and delivers the empty piece of an empty one at once   *)
(* (fixlenWord).                                                           *)
LEMMA PayloadBegins ==
  ASSUME RefinementInv, FixlenPayload
  PROVE  ProtocolKept \/ Protocol!SayFixlen
<1> DEFINE due == Low = FixlenSubtype.Str /\ top # Nil /\ ~spDone[depth] /\ top \in PolicyVisitors
           policy == Call(top, "SetStringCheck", 0, <<>>)
           begin == FixlenBegin
           piece == Piece(Low, 0, 0, <<>>)
           pre == IF due THEN <<policy>> ELSE <<>>
           rest == IF High = 0 THEN <<piece>> ELSE <<>>
           cbs == pre \o <<begin>> \o rest
<1>1. /\ err = "nil" /\ st = "stFixWord" /\ st' = (IF High = 0 THEN "stHeader" ELSE "stFixBytes")
      /\ total' = High /\ off' = 0 /\ sub' = Low /\ Low \in {2, 3}
      /\ Deliver(cbs)
      /\ UNCHANGED <<id, depth, stack, skipFrom, top>>
  BY DEF FixlenPayload, TakeVarint, Reading, Running, FixlenSubtype
<1>2. /\ due => pre = <<policy>>
      /\ ~due => pre = <<>>
      /\ High = 0 => rest = <<piece>>
      /\ High # 0 => rest = <<>>
  OBVIOUS
<1>3. /\ begin.to = top /\ begin.m = "FixlenBegin" /\ begin.id = id
      /\ begin.args[1] = Low /\ begin.args[2] = High
      /\ policy.to = top /\ policy.m = "SetStringCheck"
  BY DEF FixlenBegin, Call
<1>4. due => Low = 2
  BY DEF FixlenSubtype
<1> DEFINE is == IF Low = 2 THEN "String" ELSE "Bytes"
<1>5. piece = Protocol!Cb(top, is, begin.id, <<0, 0>>)
  <2>1. <<0, 0>> \o <<>> = <<0, 0>>
    BY PairListed, NothingAdded
  <2> QED BY <1>3, <2>1 DEF Piece, Call, Protocol!Cb, FixlenSubtype
<1>6. CASE top = Nil
  <2>1. FieldNow = NoneInProgress /\ FieldNow' = NoneInProgress /\ UNCHANGED <<err, log>>
    BY <1>1, <1>6 DEF FieldNow, Deliver
  <2> QED BY <1>1, <2>1, OpenKept DEF ProtocolKept
<1>7. CASE top # Nil
  <2> DEFINE f == IF High = 0 THEN NoneInProgress ELSE InProgress(is, High, 0)
  <2>1. FieldNow = NoneInProgress /\ (err' = "nil" => FieldNow' = f)
    BY <1>1, <1>7 DEF FieldNow, InProgress, FixlenSubtype
  <2>2. f = IF High = 0 THEN Protocol!NoField ELSE Protocol!Field(is, begin.id, High, 0)
    BY <1>3, FieldIsField, NothingInProgress
  <2>3. Announces(cbs, pre, begin, rest, policy, piece)
    BY <1>2 DEF Announces
  <2> HIDE DEF f, due, policy, begin, piece, pre, rest, cbs, is
  <2>14. Announced(cbs, pre, begin, rest, policy, piece)
    BY ONLY <2>3, Announcement
  <2>4. /\ Listed(cbs) /\ Len(cbs) \in 1 .. 3
        /\ rest = <<piece>> => cbs = pre \o <<begin, piece>>
        /\ rest = <<>> => cbs = pre \o <<begin>>
        /\ pre = <<policy>> => cbs[1] = policy /\ cbs[2] = begin /\ Len(cbs) # 1
        /\ pre = <<>> => cbs[1] = begin
    BY <2>14 DEF Announced
  <2>5. Len(cbs) > 0 /\ (due => Len(cbs) > 1 /\ cbs[1] = policy /\ cbs[2] = begin) /\ (~due => cbs[1] = begin)
    BY <1>2, <2>4
  <2>6. /\ Protocol!Say(cbs, f) /\ Protocol!Speaks /\ Protocol!New(1) = cbs[1]
        /\ Len(cbs) > 1 /\ cbs[1].m = "SetStringCheck" =>
             Len(log') > Len(log) + 1 /\ Protocol!New(2) = cbs[2]
    BY <1>1, <1>7, <2>1, <2>4, <2>5, Said DEF RefinementInv
  <2>7. Protocol!Innermost = top
    BY <1>7, Listener DEF RefinementInv
  <2> DEFINE first == Protocol!New(1)
             front == IF first.m = "SetStringCheck" THEN <<first>> ELSE <<>>
  <2>8. first = (IF due THEN policy ELSE begin) /\ first.to = top /\ front = pre
    <3>1. CASE due
      BY <1>2, <1>3, <2>5, <2>6, <3>1
    <3>2. CASE ~due
      BY <1>2, <1>3, <2>5, <2>6, <3>2
    <3> QED BY <3>1, <3>2
  <2>9. Len(log') > Len(log) + Len(front) /\ Protocol!New(1 + Len(front)) = begin
    <3>1. CASE due
      <4>1. Len(front) = 1 /\ 1 + 1 = 2
        BY <1>2, <2>8, <3>1, OneListed, SMTT(30)
      <4> QED BY <1>3, <2>5, <2>6, <2>8, <3>1, <4>1
    <3>2. CASE ~due
      <4>1. Len(front) = 0 /\ 1 + 0 = 1
        BY <1>2, <2>8, <3>2, EmptyListed
      <4>2. Len(log') > Len(log) + 0
        BY <2>6 DEF Protocol!Speaks, RefinementInv, Listed
      <4> QED BY <2>8, <3>2, <4>1, <4>2
    <3> QED BY <3>1, <3>2
  <2>10. is = (CASE Low = 0 -> "Float32" [] Low = 1 -> "Float64" [] Low = 2 -> "String" [] OTHER -> "Bytes")
         /\ is \in Protocol!Payloads
    BY <1>1 DEF is, Protocol!Payloads
  <2>11. front # <<>> => Low = 2
    BY <1>2, <1>4, <2>8
  <2>12. /\ High = 0 => Protocol!Say(front \o <<begin, piece>>, Protocol!NoField)
         /\ High # 0 => Protocol!Say(front \o <<begin>>, Protocol!Field(is, begin.id, High, 0))
    BY <1>2, <2>2, <2>4, <2>6, <2>8
  <2>13. Protocol!Between
    BY <2>1, NothingInProgress DEF Protocol!Between
  <2> HIDE DEF first, front
  <2> QED BY <1>1, <1>3, <1>5, <2>6, <2>7, <2>8, <2>9, <2>10, <2>11, <2>12, <2>13, OpenKept
          DEF Protocol!SayFixlen, first, front
<1> QED BY <1>6, <1>7

(* What an array of kind k brings. *)
ArrayIs(k) ==
  CASE k = 0 -> "ArrayUnsigned" [] k = 1 -> "ArraySigned" [] k = 2 -> "ArrayFloat32" [] OTHER -> "ArrayFloat64"

(* An array is announced with its kind and its count, and ended at once    *)
(* when the count is zero (announceArray).                                 *)
LEMMA ArrayAnnounced ==
  ASSUME RefinementInv, err = "nil", FieldNow = NoneInProgress,
         NEW STATE k, NEW STATE n, NEW STATE elements, Announce(k, n, elements),
         UNCHANGED <<id, depth, stack, skipFrom, top>>,
         top # Nil /\ err' = "nil" =>
           FieldNow' = IF n = 0 THEN NoneInProgress ELSE InProgress(ArrayIs(k), n, 0)
  PROVE  ProtocolKept \/ Protocol!SayArrayBegin
<1> DEFINE c == Call(top, "ArrayBegin", id, <<k, n>>)
           end == Call(top, "ArrayEnd", id, <<>>)
           rest == IF n = 0 THEN <<end>> ELSE <<>>
           cbs == <<c>> \o rest
           f == IF n = 0 THEN NoneInProgress ELSE InProgress(ArrayIs(k), n, 0)
<1>1. Deliver(cbs)
  BY DEF Announce
<1>2. /\ c.to = top /\ c.m = "ArrayBegin" /\ c.id = id /\ c.args[1] = k /\ c.args[2] = n
      /\ end = Protocol!Cb(top, "ArrayEnd", c.id, <<>>)
  BY DEF Call, Protocol!Cb
<1>3. CASE top = Nil
  BY <1>1, <1>3, Unheard
<1>4. CASE top # Nil
  <2> HIDE DEF c, end
  <2>1. /\ Listed(cbs) /\ Len(cbs) > 0 /\ cbs[1] = c
        /\ n = 0 => cbs = <<c, end>>
        /\ n # 0 => cbs = <<c>>
    <3>1. CASE n = 0
      <4>1. <<c>> \o <<end>> = <<c, end>> /\ Listed(<<c, end>>) /\ Len(<<c, end>>) = 2 /\ <<c, end>>[1] = c
        BY PairListed
      <4>2. cbs = <<c, end>>
        BY <3>1, <4>1
      <4> HIDE DEF cbs
      <4> QED BY <3>1, <4>1, <4>2
    <3>2. CASE n # 0
      <4>1. <<c>> \o <<>> = <<c>> /\ Listed(<<c>>) /\ Len(<<c>>) = 1 /\ <<c>>[1] = c
        BY OneListed, NothingAdded
      <4>2. cbs = <<c>>
        BY <3>2, <4>1
      <4> HIDE DEF cbs
      <4> QED BY <3>2, <4>1, <4>2
    <3> QED BY <3>1, <3>2
  <2>2. err' = "nil" => FieldNow' = f
    BY <1>4
  <2> HIDE DEF cbs
  <2>3. /\ n = 0 => f = Protocol!NoField
        /\ n # 0 => f = Protocol!Field(ArrayIs(k), c.id, n, 0)
    BY <1>2, NothingInProgress, FieldIsField
  <2> HIDE DEF f
  <2>4. Protocol!Say(cbs, f) /\ Protocol!Speaks /\ Protocol!New(1) = c
    BY <1>1, <1>4, <2>1, <2>2, Said DEF RefinementInv
  <2>5. Protocol!Innermost = top
    BY <1>4, Listener DEF RefinementInv
  <2>6. ArrayIs(k) = CASE c.args[1] = 0 -> "ArrayUnsigned" [] c.args[1] = 1 -> "ArraySigned"
                       [] c.args[1] = 2 -> "ArrayFloat32" [] OTHER -> "ArrayFloat64"
    BY <1>2 DEF ArrayIs
  <2>7. /\ n = 0 => Protocol!Say(<<c, end>>, Protocol!NoField)
        /\ n # 0 => Protocol!Say(<<c>>, Protocol!Field(ArrayIs(k), c.id, n, 0))
    BY <2>1, <2>3, <2>4
  <2>8. Protocol!Between
    BY NothingInProgress DEF Protocol!Between
  <2> QED BY <1>2, <2>4, <2>5, <2>6, <2>7, <2>8, OpenKept DEF Protocol!SayArrayBegin
<1> QED BY <1>3, <1>4

(* The count of an integer array announces it; that of a fixlen array      *)
(* announces nothing yet (arrayCount).                                     *)
LEMMA ArrayBegins ==
  ASSUME RefinementInv, ArrayCount
  PROVE  ProtocolKept \/ Protocol!SayArrayBegin
<1>1. /\ err = "nil" /\ st = "stArrCount" /\ total' = ReadVarint.v /\ idx' = 0
      /\ UNCHANGED <<id, kind, depth, stack, skipFrom, top>>
      /\ wire \in {WireType.ArrayUnsigned, WireType.ArraySigned, WireType.FixlenArray}
      /\ wire = WireType.ArrayUnsigned => kind = 0
      /\ wire = WireType.ArraySigned => kind = 1
  BY DEF ArrayCount, TakeVarint, Reading, Running, scopes, RefinementInv, CountKinds, ArrayKind
<1>2. FieldNow = NoneInProgress
  BY <1>1, NothingInProgress
<1>3. CASE wire = WireType.FixlenArray
  <2>1. st' = "stArrWord" /\ UNCHANGED <<err, log>>
    BY <1>3 DEF ArrayCount, WireType
  <2>2. FieldNow' = NoneInProgress
    BY <2>1 DEF FieldNow
  <2> QED BY <1>1, <1>2, <2>1, <2>2, OpenKept DEF ProtocolKept
<1> DEFINE elements == IF kind = 0 THEN "stArrUElem" ELSE "stArrSElem"
<1>4. CASE wire # WireType.FixlenArray
  <2>1. kind \in {0, 1} /\ Announce(kind, ReadVarint.v, elements)
    BY <1>1, <1>4 DEF ArrayCount, WireType
  <2>2. st' = IF ReadVarint.v = 0 THEN "stHeader" ELSE elements
    BY <2>1 DEF Announce
  <2>3. top # Nil /\ err' = "nil" =>
          FieldNow' = IF ReadVarint.v = 0 THEN NoneInProgress
                      ELSE InProgress(ArrayIs(kind), ReadVarint.v, 0)
    BY <1>1, <2>1, <2>2 DEF FieldNow, InProgress, ArrayIs
  <2> HIDE DEF elements
  <2> QED BY <1>1, <1>2, <2>1, <2>3, ArrayAnnounced
<1> QED BY <1>3, <1>4

(* The element word of a fixlen array announces it, by now with its kind   *)
(* (arrayWord).                                                            *)
LEMMA FloatArrayBegins ==
  ASSUME RefinementInv, ArrayWord
  PROVE  ProtocolKept \/ Protocol!SayArrayBegin
<1>1. /\ err = "nil" /\ st = "stArrWord"
      /\ UNCHANGED <<id, total, idx, depth, stack, skipFrom, top>>
  BY DEF ArrayWord, TakeVarint, Reading, Running, scopes
<1>2. FieldNow = NoneInProgress /\ idx = 0
  BY <1>1, NothingInProgress DEF RefinementInv, DecoderInv, IInv, FieldAccounted
<1>3. PICK k \in ElementWordKind :
        /\ width' = IF k = ArrayKind.Fp32 THEN Fp32Width ELSE Fp64Width
        /\ Announce(k, total, "stArrFp")
  BY DEF ArrayWord
<1>4. k \in {2, 3} /\ width' = IF k = 2 THEN Fp32Width ELSE Fp64Width
  BY <1>3 DEF ElementWordKind, ArrayKind
<1>5. st' = IF total = 0 THEN "stHeader" ELSE "stArrFp"
  BY <1>3 DEF Announce
<1>6. top # Nil /\ err' = "nil" =>
        FieldNow' = IF total = 0 THEN NoneInProgress ELSE InProgress(ArrayIs(k), total, 0)
  BY <1>1, <1>2, <1>4, <1>5, DecoderAssumption DEF FieldNow, InProgress, ArrayIs
<1> QED BY <1>1, <1>2, <1>3, <1>6, ArrayAnnounced

(* An element is reported under the index it has, to a visitor that is     *)
(* still owed elements: indices and elements to come add up to the count.  *)
LEMMA ElementSpoken ==
  ASSUME RefinementInv, err = "nil", remain > 0, NEW STATE c, Deliver(<<c>>), CountElement,
         st \in {"stArrUElem", "stArrSElem", "stArrFp"},
         c.to = top, c.id = id, c.args[1] = idx,
         c.m = (CASE st = "stArrUElem" -> "ArrayUnsigned" [] st = "stArrSElem" -> "ArraySigned"
                  [] OTHER -> IF width = Fp32Width THEN "ArrayFloat32" ELSE "ArrayFloat64"),
         UNCHANGED <<st, depth, stack, skipFrom, top>>
  PROVE  ProtocolKept \/ Protocol!SayElement
<1>1. UNCHANGED <<id, total, width>> /\ (top # Nil => idx' = idx + 1)
  BY DEF CountElement
<1>2. CASE top = Nil
  BY <1>2, Unheard
<1>3. CASE top # Nil
  <2>1. FieldNow = InProgress(c.m, total, idx)
    BY <1>3 DEF FieldNow
  <2>2. /\ FieldNow.is = c.m /\ FieldNow.id = id /\ FieldNow.total = total /\ FieldNow.got = idx
        /\ FieldNow.is \in Protocol!Elements
        /\ [FieldNow EXCEPT !.got = @ + 1] = InProgress(c.m, total, idx + 1)
    BY <2>1 DEF InProgress, Protocol!Elements
  <2> DEFINE f == [FieldNow EXCEPT !.got = @ + 1]
  <2>3. err' = "nil" => FieldNow' = f
    <3>1. err' = "nil" => FieldNow' = [is |-> c.m, id |-> id, total |-> total, got |-> idx + 1]
      BY <1>1, <1>3 DEF FieldNow, InProgress
    <3> QED BY <2>2, <3>1 DEF InProgress
  <2> HIDE DEF f
  <2>4. Protocol!Say(<<c>>, f) /\ Protocol!Speaks /\ Protocol!New(1) = c
    BY <1>3, <2>3, OneSaid DEF RefinementInv
  <2>5. Protocol!Innermost = top
    BY <1>3, Listener DEF RefinementInv
  <2>6. FieldNow.got < FieldNow.total
    BY <1>3, <2>2 DEF RefinementInv, DecoderInv, IInv, FieldAccounted, TypeOK, FieldTypes
  <2>7. UNCHANGED OpenScopes
    BY OpenKept
  <2> QED BY <2>2, <2>4, <2>5, <2>6, <2>7 DEF Protocol!SayElement, f
<1> QED BY <1>2, <1>3

(* The elements of an integer array.                                       *)
LEMMA ElementSpeaks ==
  ASSUME RefinementInv, ArrayElement
  PROVE  ProtocolKept \/ Protocol!SayElement
<1> DEFINE c == Call(top, IF st = "stArrUElem" THEN "ArrayUnsigned" ELSE "ArraySigned", id,
                     <<idx, IF st = "stArrUElem" THEN ReadVarint.v ELSE ZigzagDecode(ReadVarint.v)>>)
<1>1. /\ err = "nil" /\ st \in {"stArrUElem", "stArrSElem"} /\ remain > 0 /\ CountElement
      /\ UNCHANGED <<st, depth, stack, skipFrom, top>>
  BY DEF ArrayElement, TakeVarint, Reading, Running, scopes
<1>2. Deliver(<<c>>)
  BY DEF ArrayElement, TakeVarint, Reading
<1>3. /\ c.to = top /\ c.id = id /\ c.args[1] = idx
      /\ c.m = IF st = "stArrUElem" THEN "ArrayUnsigned" ELSE "ArraySigned"
  BY DEF Call
<1> HIDE DEF c
<1> QED BY <1>1, <1>2, <1>3, ElementSpoken

(* The elements of a float array, whole ones only.                         *)
LEMMA FloatElementSpeaks ==
  ASSUME RefinementInv, ArrayFloat
  PROVE  ProtocolKept \/ Protocol!SayElement
<1> DEFINE args == <<idx>> \o FpBits
           c == Call(top, IF width = Fp32Width THEN "ArrayFloat32" ELSE "ArrayFloat64", id, args)
<1>1. /\ err = "nil" /\ st = "stArrFp" /\ remain > 0 /\ Avail > 0 /\ CountElement
      /\ Deliver(<<c>>)
      /\ UNCHANGED <<st, depth, stack, skipFrom, top>>
  BY DEF ArrayFloat, Reading, Running, scopes
<1>2. args[1] = idx
  <2>1. Listed(FpBits)
    BY <1>1, FpBytes, SeqIsListed DEF RefinementInv, DecoderInv
  <2>2. Listed(<<idx>>) /\ Len(<<idx>>) = 1 /\ <<idx>>[1] = idx /\ 1 \in 1 .. 1
    BY OneListed
  <2>3. \A i \in 1 .. Len(<<idx>>) : args[i] = <<idx>>[i]
    BY <2>1, <2>2, ConcatListed
  <2> QED BY <2>2, <2>3
<1> HIDE DEF args
<1>3. /\ c.to = top /\ c.id = id /\ c.args[1] = idx
      /\ c.m = IF width = Fp32Width THEN "ArrayFloat32" ELSE "ArrayFloat64"
  BY <1>2 DEF Call
<1> HIDE DEF c
<1> QED BY <1>1, <1>3, ElementSpoken

(* The end of an array is reported after its last element: nothing remains,*)
(* so the index has reached the announced count.                           *)
LEMMA ArrayEnds ==
  ASSUME RefinementInv, ArrayFinish
  PROVE  ProtocolKept \/ Protocol!SayArrayEnd
<1> DEFINE c == Call(top, "ArrayEnd", id, <<>>)
<1>1. /\ err = "nil" /\ st \in {"stArrUElem", "stArrSElem", "stArrFp"} /\ remain = 0
      /\ st' = "stHeader" /\ Deliver(<<c>>)
      /\ UNCHANGED <<depth, stack, skipFrom, top>>
  BY DEF ArrayFinish, ArrayDone, Running, scopes
<1>2. CASE top = Nil
  BY <1>1, <1>2, Unheard
<1>3. CASE top # Nil
  <2>1. idx = total
    BY <1>1, <1>3 DEF RefinementInv, DecoderInv, IInv, FieldAccounted, TypeOK, FieldTypes
  <2>2. /\ FieldNow.is \in Protocol!Elements /\ FieldNow.id = id
        /\ FieldNow.total = total /\ FieldNow.got = total
    BY <1>1, <1>3, <2>1 DEF FieldNow, InProgress, Protocol!Elements
  <2>3. err' = "nil" => FieldNow' = NoneInProgress
    BY <1>1 DEF FieldNow
  <2>4. Protocol!Innermost = top
    BY <1>3, Listener DEF RefinementInv
  <2>5. c = Protocol!Cb(Protocol!Innermost, "ArrayEnd", FieldNow.id, <<>>)
    BY <2>2, <2>4 DEF Call, Protocol!Cb
  <2> HIDE DEF c
  <2>6. Protocol!Say(<<c>>, NoneInProgress)
    BY <1>1, <1>3, <2>3, OneSaid DEF RefinementInv
  <2>7. UNCHANGED OpenScopes
    BY <1>1, OpenKept
  <2> QED BY <2>2, <2>5, <2>6, <2>7, NothingInProgress DEF Protocol!SayArrayEnd
<1> QED BY <1>2, <1>3

(* The two scope callbacks are reported one at a time, not by Deliver. *)
LEMMA SaidAlone ==
  ASSUME Listed(log), NEW STATE c, err = "nil", log' = Append(log, c),
         err' = "nil" => FieldNow' = NoneInProgress
  PROVE  Protocol!Say(<<c>>, NoneInProgress) /\ Protocol!Speaks /\ Protocol!New(1) = c
<1>1. /\ Len(log') = Len(log) + 1 /\ log'[Len(log) + 1] = c /\ Len(log) \in Nat
      /\ log' = log \o <<c>>
  BY AppendListed, AppendedBehind DEF Listed
<1>2. log' = log \o SubSeq(<<c>>, 1, 1)
  BY <1>1, WholeOfOne
<1>3. 1 \in 1 .. Len(<<c>>) /\ 1 = Len(<<c>>)
  BY OneListed
<1>4. err' # "nil" => FieldNow' = NoneInProgress
  BY DEF FieldNow
<1>5. Protocol!Say(<<c>>, NoneInProgress)
  <2>1. /\ log' = log \o SubSeq(<<c>>, 1, 1)
        /\ \/ 1 = Len(<<c>>) /\ (err' # "nil") = FALSE /\ FieldNow' = NoneInProgress
           \/ (err' # "nil") = TRUE /\ FieldNow' = Protocol!NoField
    BY <1>2, <1>3, <1>4, NothingInProgress
  <2> QED BY <1>3, <2>1 DEF Protocol!Say
<1> QED BY <1>1, <1>5 DEF Protocol!Speaks, Protocol!New

(* A sequence opens on a visitor that no open scope has, or is declined and*)
(* then invisible (openSequence).                                          *)
LEMMA SequenceOpens ==
  ASSUME RefinementInv, OpenSequence
  PROVE  Protocol!SaySequence
<1>1. /\ err = "nil" /\ st = "stHeader" /\ st' = "stHeader" /\ depth < MaxDepth /\ top # Nil
  BY DEF OpenSequence, Header, TakeVarint, Reading, Running
<1>2. /\ Listed(OpenScopes) /\ Len(OpenScopes) = depth + 1 /\ HeldDepth = depth
      /\ \A d \in 1 .. depth + 1 : OpenScopes[d] = stack[d - 1]
      /\ skipFrom < 0 /\ Protocol!Innermost = top
  BY <1>1, Listener DEF RefinementInv
<1>3. /\ depth \in Nat /\ depth \in 0 .. MaxDepth /\ MaxDepth \in Nat /\ issued \in Nat
      /\ stack \in [0 .. MaxDepth -> Nat]
  BY DecoderAssumption DEF RefinementInv, DecoderInv, IInv, TypeOK, ScopeTypes
<1>4. Protocol!Between /\ FieldNow' = NoneInProgress
  BY <1>1, NothingInProgress DEF Protocol!Between, FieldNow
<1>5. ASSUME NEW STATE child, log' = Append(log, BeginSequence(child)),
             IF child = Nil THEN UNCHANGED OpenScopes
             ELSE /\ err' = "nil" /\ child \notin {OpenScopes[d] : d \in DOMAIN OpenScopes}
                  /\ OpenScopes' = Append(OpenScopes, child)
      PROVE  Protocol!SaySequence
  <2> DEFINE c == BeginSequence(child)
  <2>1. c.to = top /\ c.m = "BeginSequence" /\ c.args[1] = child
    BY DEF BeginSequence, Call
  <2> HIDE DEF c
  <2>2. Protocol!Say(<<c>>, Protocol!NoField) /\ Protocol!Speaks /\ Protocol!New(1) = c
    BY <1>1, <1>4, <1>5, SaidAlone, NothingInProgress DEF RefinementInv, c
  <2> QED BY <1>2, <1>4, <1>5, <2>1, <2>2 DEF Protocol!SaySequence, Nil
<1>6. CASE /\ Descend(issued + 1) /\ log' = Append(log, BeginSequence(issued + 1))
           /\ UNCHANGED <<err, skipFrom>>
  <2> DEFINE child == issued + 1
  <2>1. depth' = depth + 1 /\ stack' = [stack EXCEPT ![depth + 1] = child]
    BY <1>6 DEF Descend
  <2>2. HeldDepth' = depth + 1
    BY <1>2, <1>6, <2>1 DEF HeldDepth
  <2>3. /\ OpenScopes' = [d \in 1 .. depth + 1 + 1 |-> OpenScopes'[d]]
        /\ \A d \in 1 .. depth + 1 + 1 : OpenScopes'[d] = stack'[d - 1]
    BY <2>2 DEF OpenScopes
  <2>4. Listed(OpenScopes') /\ Len(OpenScopes') = depth + 1 + 1
    BY <1>3, <2>3, TabulatedIsListed
  <2>5. /\ Listed(Append(OpenScopes, child)) /\ Len(Append(OpenScopes, child)) = depth + 1 + 1
        /\ \A d \in 1 .. depth + 1 : Append(OpenScopes, child)[d] = OpenScopes[d]
        /\ Append(OpenScopes, child)[depth + 1 + 1] = child
    BY <1>2, AppendListed
  <2>6. ASSUME NEW d \in 1 .. depth + 1 + 1 PROVE OpenScopes'[d] = Append(OpenScopes, child)[d]
    <3>1. OpenScopes'[d] = stack'[d - 1]
      BY <2>3
    <3>2. CASE d = depth + 1 + 1
      <4>1. d - 1 = depth + 1 /\ depth + 1 \in 0 .. MaxDepth
        BY <1>1, <1>3, <3>2
      <4> QED BY <1>3, <2>1, <2>5, <3>1, <3>2, <4>1
    <3>3. CASE d # depth + 1 + 1
      <4>1. d \in 1 .. depth + 1 /\ d - 1 # depth + 1 /\ d - 1 \in 0 .. MaxDepth
        BY <1>3, <3>3
      <4> QED BY <1>2, <1>3, <2>1, <2>5, <3>1, <4>1
    <3> QED BY <3>2, <3>3
  <2>7. OpenScopes' = Append(OpenScopes, child)
    BY <2>4, <2>5, <2>6, SameListed
  <2>8. child \notin {OpenScopes[d] : d \in DOMAIN OpenScopes} /\ child # Nil
    <3>1. \A d \in 0 .. depth : stack[d] <= issued
      BY <1>2 DEF RefinementInv, DecoderInv, VisitorsNested
    <3>2. DOMAIN OpenScopes = 1 .. depth + 1
      BY <1>2 DEF OpenScopes
    <3>3. \A d \in 1 .. depth + 1 : d - 1 \in 0 .. depth /\ d - 1 \in 0 .. MaxDepth
      BY <1>3
    <3>4. ASSUME NEW d \in 1 .. depth + 1 PROVE OpenScopes[d] # child
      <4>1. OpenScopes[d] = stack[d - 1] /\ stack[d - 1] <= issued /\ stack[d - 1] \in Nat
        BY <1>2, <1>3, <3>1, <3>3
      <4> QED BY <1>3, <4>1
    <3> QED BY <1>3, <3>2, <3>4 DEF Nil
  <2> HIDE DEF child
  <2> QED BY <1>1, <1>5, <1>6, <2>7, <2>8 DEF child
<1>7. CASE Descend(Nil) /\ skipFrom' = depth /\ log' = Append(log, BeginSequence(Nil))
  <2>1. stack' = [stack EXCEPT ![depth + 1] = Nil]
    BY <1>7 DEF Descend
  <2>2. HeldDepth' = depth
    BY <1>3, <1>7 DEF HeldDepth
  <2>3. \A d \in 1 .. depth + 1 : stack'[d - 1] = stack[d - 1]
    <3> SUFFICES ASSUME NEW d \in 1 .. depth + 1 PROVE stack'[d - 1] = stack[d - 1]
      OBVIOUS
    <3>1. d - 1 # depth + 1 /\ d - 1 \in 0 .. MaxDepth
      BY <1>3
    <3> QED BY <1>3, <2>1, <3>1
  <2>4. UNCHANGED OpenScopes
    BY <1>2, <2>2, <2>3 DEF OpenScopes
  <2> QED BY <1>5, <1>7, <2>4
<1>8. CASE UNCHANGED scopes /\ log' = Append(log, BeginSequence(Nil))
  <2>1. UNCHANGED OpenScopes
    BY <1>8, OpenKept DEF scopes
  <2> QED BY <1>5, <1>8, <2>1
<1> QED BY <1>6, <1>7, <1>8 DEF OpenSequence

(* The end of a sequence is reported to the visitor of the scope opened    *)
(* last, and gives the one around it back (closeSequence).                 *)
LEMMA SequenceCloses ==
  ASSUME RefinementInv, CloseSequence
  PROVE  Protocol!SaySequenceEnd
<1>1. /\ err = "nil" /\ st = "stHeader" /\ st' = "stHeader" /\ depth > 0 /\ skipFrom < 0
      /\ depth' = depth - 1 /\ stack' = [stack EXCEPT ![depth] = Nil] /\ skipFrom' = skipFrom
  BY DEF CloseSequence, Header, TakeVarint, Reading, Running
<1>2. /\ depth \in Nat /\ depth \in 0 .. MaxDepth /\ MaxDepth \in Nat /\ HeldDepth = depth
      /\ stack \in [0 .. MaxDepth -> Nat] /\ stack[depth] # Nil /\ top = stack[depth]
  BY <1>1, DecoderAssumption
     DEF RefinementInv, DecoderInv, IInv, TypeOK, ScopeTypes, ScopesCoherent, HeldDepth
<1>3. /\ Listed(OpenScopes) /\ Len(OpenScopes) = depth + 1
      /\ \A d \in 1 .. depth + 1 : OpenScopes[d] = stack[d - 1]
      /\ Protocol!Innermost = top
  BY <1>2, Listener DEF RefinementInv
<1> DEFINE c == Call(stack[depth], "EndSequence", 0, <<>>)
<1>4. log' = Append(log, c)
  BY <1>2 DEF CloseSequence
<1>5. c = Protocol!Cb(Protocol!Innermost, "EndSequence", 0, <<>>)
  BY <1>2, <1>3 DEF Call, Protocol!Cb
<1> HIDE DEF c
<1>6. Protocol!Between /\ FieldNow' = NoneInProgress
  BY <1>1, NothingInProgress DEF Protocol!Between, FieldNow
<1>7. Protocol!Say(<<c>>, Protocol!NoField)
  BY <1>1, <1>4, <1>6, SaidAlone, NothingInProgress DEF RefinementInv
<1>8. HeldDepth' = depth - 1 /\ (depth - 1) + 1 = depth
  BY <1>1, <1>2 DEF HeldDepth
<1>9. /\ OpenScopes' = [d \in 1 .. depth |-> OpenScopes'[d]]
      /\ \A d \in 1 .. depth : OpenScopes'[d] = stack'[d - 1]
  BY <1>8 DEF OpenScopes
<1>10. Listed(OpenScopes') /\ Len(OpenScopes') = depth
  BY <1>2, <1>9, TabulatedIsListed
<1>11. Len(OpenScopes) - 1 = depth /\ Len(OpenScopes) > 1 /\ depth \in 0 .. Len(OpenScopes)
       /\ 1 \in Nat \ {0} /\ 1 <= depth + 1 /\ depth - 1 + 1 = depth
       /\ \A d \in 1 .. depth : 1 + d - 1 = d /\ d \in 1 .. depth + 1 /\ d - 1 # depth /\ d - 1 \in 0 .. MaxDepth
  BY <1>1, <1>2, <1>3
<1> DEFINE outer == SubSeq(OpenScopes, 1, depth)
<1>12. /\ Listed(outer) /\ Len(outer) = depth - 1 + 1
       /\ \A d \in 1 .. depth - 1 + 1 : outer[d] = OpenScopes[1 + d - 1]
  BY <1>3, <1>11, SubListed
<1> HIDE DEF outer
<1>13. \A d \in 1 .. depth : OpenScopes'[d] = outer[d]
  BY <1>1, <1>2, <1>3, <1>9, <1>11, <1>12
<1>14. OpenScopes' = outer
  BY <1>10, <1>11, <1>12, <1>13, SameListed
<1> QED BY <1>5, <1>6, <1>7, <1>11, <1>14 DEF Protocol!SaySequenceEnd, outer

(* The steps no visitor hears of. *)
LEMMA BytesAlone ==
  ASSUME RefinementInv, VarintByte \/ FpPartial
  PROVE  ProtocolKept
<1>1. UNCHANGED <<err, st, log, id, total, off, idx, sub, width, depth, stack, skipFrom, top>>
  BY DEF VarintByte, FpPartial, machine, field, scopes
<1>2. UNCHANGED FieldNow
  BY <1>1 DEF FieldNow, InProgress
<1> QED BY <1>1, <1>2, OpenKept DEF ProtocolKept

(* Handing bytes over and returning say nothing (Feed, FeedFrom,           *)
(* AcceptBytes).                                                           *)
LEMMA CallsAlone ==
  ASSUME Feed \/ AcceptBytes \/ FeedFrom \/ ReadChunk \/ Return \/ Discarded
  PROVE  ProtocolKept
<1>1. UNCHANGED <<err, st, log, id, total, off, idx, sub, width, depth, stack, skipFrom, top>>
  BY DEF Feed, AcceptBytes, FeedFrom, ReadChunk, Return, Discarded, vars, decoder, machine, field, scopes
<1>2. UNCHANGED FieldNow
  BY <1>1 DEF FieldNow, InProgress
<1> QED BY <1>1, <1>2, OpenKept DEF ProtocolKept

(* The header of a field that is no sequence says nothing by itself.       *)
LEMMA HeaderAlone ==
  ASSUME RefinementInv, HeaderField
  PROVE  ProtocolKept
<1>1. /\ err = "nil" /\ st = "stHeader"
      /\ st' \in {"stScalarU", "stScalarS", "stFixWord", "stArrCount"}
      /\ UNCHANGED <<err, log, depth, stack, skipFrom, top>>
  BY DEF HeaderField, Header, TakeVarint, Reading, Running, scopes, FieldStep
<1>2. FieldNow = NoneInProgress /\ FieldNow' = NoneInProgress
  BY <1>1 DEF FieldNow
<1> QED BY <1>1, <1>2, OpenKept DEF ProtocolKept

(* Nor does a jump over the elements of a declined array.                  *)
LEMMA SkipAlone ==
  ASSUME RefinementInv, ArrayFloatSkip
  PROVE  ProtocolKept
<1>1. UNCHANGED <<err, log, depth, stack, skipFrom, top>> /\ top = Nil
  BY DEF ArrayFloatSkip, machine, scopes
<1>2. FieldNow = NoneInProgress /\ FieldNow' = NoneInProgress
  BY <1>1 DEF FieldNow
<1> QED BY <1>1, <1>2, OpenKept DEF ProtocolKept

(* Inside a declined subtree scopes open and close unheard. *)
LEMMA DeclinedOpens ==
  ASSUME RefinementInv, OpenInDeclined
  PROVE  ProtocolKept
<1>1. /\ err = "nil" /\ st = "stHeader" /\ UNCHANGED <<st, err, log, skipFrom>> /\ top = Nil
      /\ depth' = depth + 1 /\ stack' = [stack EXCEPT ![depth + 1] = Nil] /\ depth < MaxDepth
  BY DEF OpenInDeclined, Header, TakeVarint, Reading, Running, Descend
<1>2. /\ depth \in Nat /\ depth \in 0 .. MaxDepth /\ MaxDepth \in Nat
      /\ stack \in [0 .. MaxDepth -> Nat] /\ skipFrom \in 0 .. depth - 1
  BY <1>1, DecoderAssumption
     DEF RefinementInv, DecoderInv, IInv, TypeOK, ScopeTypes, ScopesCoherent, Nil
<1>3. HeldDepth = skipFrom /\ HeldDepth' = skipFrom
  BY <1>1, <1>2 DEF HeldDepth
<1>4. \A d \in 1 .. skipFrom + 1 : stack'[d - 1] = stack[d - 1]
  <2> SUFFICES ASSUME NEW d \in 1 .. skipFrom + 1 PROVE stack'[d - 1] = stack[d - 1]
    OBVIOUS
  <2>1. d - 1 # depth + 1 /\ d - 1 \in 0 .. MaxDepth
    BY <1>2
  <2> QED BY <1>1, <1>2, <2>1
<1>5. UNCHANGED OpenScopes
  BY <1>3, <1>4 DEF OpenScopes
<1>6. FieldNow = NoneInProgress /\ FieldNow' = NoneInProgress
  BY <1>1 DEF FieldNow
<1> QED BY <1>1, <1>5, <1>6 DEF ProtocolKept

(* An end marker in a declined subtree, its own included, leaves the open  *)
(* scopes as they are: they are those above the declined one.              *)
LEMMA DeclinedCloses ==
  ASSUME RefinementInv, CloseDeclined
  PROVE  ProtocolKept
<1>1. /\ err = "nil" /\ st = "stHeader" /\ UNCHANGED <<st, err, log>>
      /\ depth > 0 /\ skipFrom >= 0
      /\ depth' = depth - 1 /\ stack' = [stack EXCEPT ![depth] = Nil]
      /\ skipFrom' = IF depth - 1 = skipFrom THEN -1 ELSE skipFrom
  BY DEF CloseDeclined, Header, TakeVarint, Reading, Running
<1>2. /\ depth \in Nat /\ depth \in 0 .. MaxDepth /\ MaxDepth \in Nat
      /\ stack \in [0 .. MaxDepth -> Nat] /\ skipFrom \in 0 .. depth - 1
  BY <1>1, DecoderAssumption
     DEF RefinementInv, DecoderInv, IInv, TypeOK, ScopeTypes, ScopesCoherent, Nil
<1>3. HeldDepth = skipFrom /\ HeldDepth' = skipFrom
  BY <1>1, <1>2 DEF HeldDepth
<1>4. \A d \in 1 .. skipFrom + 1 : stack'[d - 1] = stack[d - 1]
  <2> SUFFICES ASSUME NEW d \in 1 .. skipFrom + 1 PROVE stack'[d - 1] = stack[d - 1]
    OBVIOUS
  <2>1. d - 1 # depth /\ d - 1 \in 0 .. MaxDepth
    BY <1>2
  <2> QED BY <1>1, <1>2, <2>1
<1>5. UNCHANGED OpenScopes
  BY <1>3, <1>4 DEF OpenScopes
<1>6. FieldNow = NoneInProgress /\ FieldNow' = NoneInProgress
  BY <1>1 DEF FieldNow
<1> QED BY <1>1, <1>5, <1>6 DEF ProtocolKept

(* Malformed bytes end the decode with no callback. *)
LEMMA BadBytesAbort ==
  ASSUME \/ VarintOverflow \/ HeaderIdTooLarge \/ FixlenWordIllegal \/ ArrayCountTooLarge
         \/ ArrayWordIllegal \/ OpenTooDeep \/ CloseDangling
  PROVE  Protocol!Abort
<1>1. err = "nil" /\ err' = "ErrInvalidMsg" /\ UNCHANGED <<depth, stack, skipFrom, log>>
  <2>1. CASE VarintOverflow
    BY <2>1 DEF VarintOverflow, WantsVarint, Reading, Running, scopes
  <2>2. CASE HeaderIdTooLarge \/ FixlenWordIllegal \/ ArrayCountTooLarge \/ ArrayWordIllegal
    BY <2>2 DEF HeaderIdTooLarge, FixlenWordIllegal, ArrayCountTooLarge, ArrayWordIllegal,
                Reject, TakeVarint, Reading, Running, scopes
  <2>3. CASE OpenTooDeep \/ CloseDangling
    BY <2>3 DEF OpenTooDeep, CloseDangling, Header, TakeVarint, Reading, Running, scopes
  <2> QED BY <2>1, <2>2, <2>3
<1> QED BY <1>1, AbortStep

(* Reset starts the next message with the new visitor's scope alone. *)
LEMMA ResetBinds ==
  ASSUME RefinementInv, Reset
  PROVE  Protocol!Bind
<1>1. /\ st' = "stHeader" /\ err' = "nil" /\ log' = <<>> /\ depth' = 0 /\ skipFrom' = -1
  BY DEF Reset, Rebind
<1>2. HeldDepth' = 0
  BY <1>1 DEF HeldDepth
<1>3. OpenScopes' = [d \in 1 .. 1 |-> stack'[d - 1]]
  BY <1>2 DEF OpenScopes
<1>4. OpenScopes' = <<OpenScopes'[1]>>
  <2>1. OpenScopes' = [d \in 1 .. 1 |-> OpenScopes'[d]]
    BY <1>3
  <2>2. Listed(OpenScopes') /\ Len(OpenScopes') = 1
    BY <2>1, TabulatedIsListed
  <2>3. \A i \in 1 .. Len(OpenScopes') : OpenScopes'[i] = <<OpenScopes'[1]>>[i]
    BY <2>2, OneListed
  <2> QED BY <2>2, <2>3, OneListed, SameListed
<1>5. FieldNow' = NoneInProgress
  BY <1>1 DEF FieldNow
<1> QED BY <1>1, <1>4, <1>5, NothingInProgress DEF Protocol!Bind

(***************************************************************************)
(* What a step adds to the log                                             *)
(***************************************************************************)
IsPolicy(c) == c.m = "SetStringCheck"
BeginsString(c) == c.m = "FixlenBegin" /\ c.args[1] = FixlenSubtype.Str

(* A callback that has nothing to do with the string policy. *)
Quiet(c) == ~IsPolicy(c) /\ ~BeginsString(c) /\ c.to \in 0 .. issued

LogGrows ==
  /\ Listed(log') /\ Len(log') >= Len(log)
  /\ \A j \in 1 .. Len(log) : log'[j] = log[j]

QuietGrowth ==
  /\ LogGrows
  /\ \A j \in Len(log) + 1 .. Len(log') : Quiet(log'[j])

(* Callbacks cbs behind the log, the whole of them or its beginning. *)
LEMMA Grown ==
  ASSUME Listed(log), NEW STATE t, Listed(t), log' = log \o t
  PROVE  /\ LogGrows /\ Len(log') = Len(log) + Len(t)
         /\ \A j \in Len(log) + 1 .. Len(log') : j - Len(log) \in 1 .. Len(t) /\ log'[j] = t[j - Len(log)]
<1>1. /\ Listed(log') /\ Len(log') = Len(log) + Len(t) /\ Len(log) \in Nat /\ Len(t) \in Nat
      /\ \A j \in 1 .. Len(log) : log'[j] = log[j]
      /\ \A i \in 1 .. Len(t) : log'[Len(log) + i] = t[i]
  BY ConcatListed DEF Listed
<1>2. ASSUME NEW j \in Len(log) + 1 .. Len(log')
      PROVE  j - Len(log) \in 1 .. Len(t) /\ log'[j] = t[j - Len(log)]
  <2>1. j - Len(log) \in 1 .. Len(t) /\ Len(log) + (j - Len(log)) = j
    BY <1>1
  <2> QED BY <1>1, <2>1
<1> QED BY <1>1, <1>2 DEF LogGrows

(* A step that says nothing says nothing about the policy.                 *)
LEMMA QuietKept == ASSUME Listed(log), UNCHANGED log PROVE QuietGrowth
<1>1. Len(log) \in Nat /\ Listed(log') /\ Len(log') = Len(log)
  BY DEF Listed
<1>2. \A j \in Len(log) + 1 .. Len(log') : FALSE
  BY <1>1
<1> QED BY <1>1, <1>2 DEF QuietGrowth, LogGrows

(* Nor does one whose callbacks do not, wherever an error cuts them off.   *)
LEMMA QuietDelivery ==
  ASSUME Listed(log), NEW STATE cbs, Listed(cbs), Deliver(cbs),
         \A i \in 1 .. Len(cbs) : top # Nil => Quiet(cbs[i])
  PROVE  QuietGrowth
<1>1. CASE UNCHANGED log
  BY <1>1, QuietKept
<1>2. CASE top # Nil /\ log' = log \o cbs
  BY <1>2, Grown DEF QuietGrowth
<1>3. ASSUME top # Nil, NEW k \in 0 .. Len(cbs), k < Len(cbs), log' = log \o SubSeq(cbs, 1, k + 1)
      PROVE  QuietGrowth
  <2> DEFINE m == k + 1
             t == SubSeq(cbs, 1, m)
  <2>1. m \in 0 .. Len(cbs) /\ 1 \in Nat \ {0} /\ 1 <= m + 1 /\ m - 1 + 1 = m
        /\ \A i \in 1 .. m : 1 + i - 1 = i /\ i \in 1 .. Len(cbs)
    BY <1>3 DEF Listed
  <2> HIDE DEF m
  <2>2. /\ Listed(t) /\ Len(t) = m
        /\ \A i \in 1 .. m : t[i] = cbs[i]
    <3>1. /\ Listed(t) /\ Len(t) = m - 1 + 1
          /\ \A i \in 1 .. m - 1 + 1 : t[i] = cbs[1 + i - 1]
      BY <2>1, SubListed
    <3> QED BY <2>1, <3>1
  <2>3. log' = log \o t
    BY <1>3 DEF m
  <2> HIDE DEF t
  <2>4. \A i \in 1 .. Len(t) : Quiet(t[i])
    BY <1>3, <2>1, <2>2
  <2> QED BY <2>2, <2>3, <2>4, Grown DEF QuietGrowth
<1> QED BY <1>1, <1>2, <1>3 DEF Deliver

(* The common case: one callback.                                          *)
LEMMA OneQuietDelivered ==
  ASSUME Listed(log), NEW STATE c, Deliver(<<c>>), top # Nil => Quiet(c)
  PROVE  QuietGrowth
<1>1. Listed(<<c>>) /\ Len(<<c>>) = 1 /\ <<c>>[1] = c /\ \A i \in 1 .. 1 : i = 1
  BY OneListed
<1>2. \A i \in 1 .. Len(<<c>>) : top # Nil => Quiet(<<c>>[i])
  BY <1>1
<1> QED BY <1>1, <1>2, QuietDelivery

(* One callback that is not made by Deliver.                               *)
LEMMA OneQuietAppended ==
  ASSUME Listed(log), NEW STATE c, log' = Append(log, c), Quiet(c)
  PROVE  QuietGrowth
<1>1. Listed(<<c>>) /\ Len(<<c>>) = 1 /\ <<c>>[1] = c /\ \A i \in 1 .. 1 : i = 1
  BY OneListed
<1>2. \A i \in 1 .. Len(<<c>>) : Quiet(<<c>>[i])
  BY <1>1
<1>3. log' = log \o <<c>>
  BY AppendedBehind
<1> QED BY <1>1, <1>2, <1>3, Grown DEF QuietGrowth

(* The visitor a step speaks to was issued. *)
LEMMA TopIssued == DecoderInv => top \in 0 .. issued
<1> SUFFICES ASSUME DecoderInv PROVE top \in 0 .. issued
  OBVIOUS
<1>0. top \in Nat /\ issued \in Nat
  BY DEF DecoderInv, IInv, TypeOK, ScopeTypes
<1>1. CASE top = Nil
  BY <1>0, <1>1 DEF Nil
<1>2. CASE top # Nil
  <2>1. skipFrom < 0 /\ top = stack[depth] /\ depth \in 0 .. depth
    BY <1>2, Listener DEF DecoderInv, IInv, TypeOK, ScopeTypes
  <2> QED BY <1>0, <2>1 DEF DecoderInv, VisitorsNested
<1> QED BY <1>1, <1>2

(* The announcement of an array is not about the policy.                   *)
LEMMA AnnounceQuiet ==
  ASSUME RefinementInv, NEW STATE k, NEW STATE n, NEW STATE elements, Announce(k, n, elements)
  PROVE  QuietGrowth
<1> DEFINE c == Call(top, "ArrayBegin", id, <<k, n>>)
           end == Call(top, "ArrayEnd", id, <<>>)
           cbs == <<c>> \o (IF n = 0 THEN <<end>> ELSE <<>>)
<1>1. Deliver(cbs) /\ Listed(log)
  BY DEF Announce, RefinementInv
<1>2. Quiet(c) /\ Quiet(end)
  BY TopIssued DEF Call, Quiet, IsPolicy, BeginsString, RefinementInv
<1> HIDE DEF c, end
<1>3. CASE n = 0
  <2>1. cbs = <<c, end>> /\ Listed(<<c, end>>) /\ Len(<<c, end>>) = 2 /\ <<c, end>>[1] = c /\ <<c, end>>[2] = end
    BY <1>3, PairListed
  <2>2. \A i \in 1 .. 2 : i = 1 \/ i = 2
    OBVIOUS
  <2> HIDE DEF cbs
  <2>3. Listed(cbs) /\ \A i \in 1 .. Len(cbs) : Quiet(cbs[i])
    BY <1>2, <2>1, <2>2
  <2> QED BY <1>1, <2>3, QuietDelivery
<1>4. CASE n # 0
  <2>1. cbs = <<c>>
    BY <1>4, OneListed, NothingAdded
  <2> HIDE DEF cbs
  <2> QED BY <1>1, <1>2, <2>1, OneQuietDelivered
<1> QED BY <1>3, <1>4

(* Only the word of a string or a blob says anything about the policy.      *)
LEMMA StepQuiet ==
  ASSUME RefinementInv, [Next]_vars
  PROVE  Reset \/ FixlenPayload \/ QuietGrowth
<1> USE DEF RefinementInv
<1>0. top \in 0 .. issued /\ issued \in Nat /\ Listed(log)
  BY TopIssued DEF DecoderInv, IInv, TypeOK, ScopeTypes
<1>1. CASE UNCHANGED vars
  BY <1>1, QuietKept DEF vars
<1>2. CASE Feed \/ AcceptBytes \/ FeedFrom \/ ReadChunk \/ Return \/ Discarded
  <2>1. UNCHANGED log
    BY <1>2 DEF Feed, AcceptBytes, FeedFrom, ReadChunk, Return, Discarded, vars
  <2> QED BY <2>1, QuietKept
<1>3. CASE \/ VarintByte \/ VarintOverflow \/ HeaderIdTooLarge \/ FixlenWordIllegal \/ ArrayCountTooLarge
           \/ ArrayWordIllegal \/ HeaderField \/ OpenTooDeep \/ OpenInDeclined \/ CloseDangling
           \/ CloseDeclined \/ FpPartial \/ ArrayFloatSkip
  <2>1. UNCHANGED log
    BY <1>3 DEF VarintByte, VarintOverflow, HeaderIdTooLarge, FixlenWordIllegal, ArrayCountTooLarge,
                ArrayWordIllegal, Reject, HeaderField, OpenTooDeep, OpenInDeclined, CloseDangling,
                CloseDeclined, FpPartial, ArrayFloatSkip
  <2> QED BY <2>1, QuietKept
<1>4. CASE OpenSequence
  <2>1. PICK child \in {issued + 1, Nil} : log' = Append(log, BeginSequence(child))
    BY <1>4 DEF OpenSequence
  <2>2. Quiet(BeginSequence(child))
    BY <1>0 DEF BeginSequence, Call, Quiet, IsPolicy, BeginsString
  <2> DEFINE c == BeginSequence(child)
  <2>3. log' = Append(log, c) /\ Quiet(c)
    BY <2>1, <2>2
  <2> HIDE DEF c
  <2> QED BY <1>0, <2>3, OneQuietAppended
<1>5. CASE CloseSequence
  <2> DEFINE c == Call(stack[depth], "EndSequence", 0, <<>>)
  <2>1. log' = log \/ log' = Append(log, c)
    BY <1>5 DEF CloseSequence
  <2>2. skipFrom < 0
    BY <1>5 DEF CloseSequence
  <2>3. stack[depth] = top
    BY <2>2 DEF DecoderInv, ScopesCoherent
  <2>4. Quiet(c)
    BY <1>0, <2>3 DEF Call, Quiet, IsPolicy, BeginsString
  <2> HIDE DEF c
  <2> QED BY <1>0, <2>1, <2>4, QuietKept, OneQuietAppended
<1>6. CASE Scalar
  <2> DEFINE c == Call(top, IF st = "stScalarU" THEN "Unsigned" ELSE "Signed", id,
                       <<IF st = "stScalarU" THEN ReadVarint.v ELSE ZigzagDecode(ReadVarint.v)>>)
  <2>1. Deliver(<<c>>)
    BY <1>6 DEF Scalar, TakeVarint, Reading
  <2>2. Quiet(c)
    BY <1>0 DEF Call, Quiet, IsPolicy, BeginsString
  <2> HIDE DEF c
  <2> QED BY <1>0, <2>1, <2>2, OneQuietDelivered
<1>7. CASE FixlenFloat
  <2> DEFINE c == FixlenBegin
  <2>1. Deliver(<<c>>) /\ Low \in {0, 1}
    BY <1>7 DEF FixlenFloat, FixlenSubtype
  <2>2. Quiet(c)
    BY <1>0, <2>1 DEF FixlenBegin, Call, Quiet, IsPolicy, BeginsString, FixlenSubtype
  <2> HIDE DEF c
  <2> QED BY <1>0, <2>1, <2>2, OneQuietDelivered
<1>8. CASE FixBytes
  <2> DEFINE c == Piece(sub, total, off, SubSeq(Chunk, 1, IF Avail > remain THEN remain ELSE Avail))
  <2>1. Deliver(<<c>>)
    BY <1>8 DEF FixBytes
  <2>2. Quiet(c)
    BY <1>0 DEF Piece, Call, Quiet, IsPolicy, BeginsString
  <2> HIDE DEF c
  <2> QED BY <1>0, <2>1, <2>2, OneQuietDelivered
<1>9. CASE FpScalar
  <2> DEFINE c == Call(top, IF width = Fp32Width THEN "Float32" ELSE "Float64", id, FpBits)
  <2>1. Deliver(<<c>>)
    BY <1>9 DEF FpScalar
  <2>2. Quiet(c)
    BY <1>0 DEF Call, Quiet, IsPolicy, BeginsString
  <2> HIDE DEF c
  <2> QED BY <1>0, <2>1, <2>2, OneQuietDelivered
<1>10. CASE ArrayCount
  <2>1. UNCHANGED log \/ \E elements \in {"stArrUElem", "stArrSElem"} : Announce(kind, ReadVarint.v, elements)
    BY <1>10 DEF ArrayCount
  <2>2. ASSUME NEW elements \in {"stArrUElem", "stArrSElem"}, Announce(kind, ReadVarint.v, elements)
        PROVE  QuietGrowth
    BY <2>2, AnnounceQuiet
  <2> QED BY <1>0, <2>1, <2>2, QuietKept
<1>11. CASE ArrayWord
  <2>1. PICK k \in ElementWordKind : Announce(k, total, "stArrFp")
    BY <1>11 DEF ArrayWord
  <2> QED BY <2>1, AnnounceQuiet
<1>12. CASE ArrayElement
  <2> DEFINE c == Call(top, IF st = "stArrUElem" THEN "ArrayUnsigned" ELSE "ArraySigned", id,
                       <<idx, IF st = "stArrUElem" THEN ReadVarint.v ELSE ZigzagDecode(ReadVarint.v)>>)
  <2>1. Deliver(<<c>>)
    BY <1>12 DEF ArrayElement, TakeVarint, Reading
  <2>2. Quiet(c)
    BY <1>0 DEF Call, Quiet, IsPolicy, BeginsString
  <2> HIDE DEF c
  <2> QED BY <1>0, <2>1, <2>2, OneQuietDelivered
<1>13. CASE ArrayFloat
  <2> DEFINE c == Call(top, IF width = Fp32Width THEN "ArrayFloat32" ELSE "ArrayFloat64", id, <<idx>> \o FpBits)
  <2>1. Deliver(<<c>>)
    BY <1>13 DEF ArrayFloat
  <2>2. Quiet(c)
    BY <1>0 DEF Call, Quiet, IsPolicy, BeginsString
  <2> HIDE DEF c
  <2> QED BY <1>0, <2>1, <2>2, OneQuietDelivered
<1>14. CASE ArrayFinish
  <2> DEFINE c == Call(top, "ArrayEnd", id, <<>>)
  <2>1. Deliver(<<c>>)
    BY <1>14 DEF ArrayFinish
  <2>2. Quiet(c)
    BY <1>0 DEF Call, Quiet, IsPolicy, BeginsString
  <2> HIDE DEF c
  <2> QED BY <1>0, <2>1, <2>2, OneQuietDelivered
<1> QED BY <1>1, <1>2, <1>3, <1>4, <1>5, <1>6, <1>7, <1>8, <1>9, <1>10, <1>11, <1>12, <1>13, <1>14
        DEF Next, RunStep

(* What the word of a string or a blob adds: the policy of a scope that has *)
(* not been asked for it, to a visitor that takes one, before anything else. *)
PolicyDue == Low = FixlenSubtype.Str /\ ~spDone[depth] /\ top \in PolicyVisitors

PayloadGrowth ==
  /\ LogGrows
  /\ top = Nil => log' = log
  /\ top # Nil => Len(log') > Len(log)
  /\ \A j \in Len(log) + 1 .. Len(log') :
       /\ log'[j].to = top
       /\ IsPolicy(log'[j]) <=> PolicyDue /\ j = Len(log) + 1
       /\ BeginsString(log'[j]) => Low = FixlenSubtype.Str

(* What fixlenWord reports of a payload, entry by entry: the policy first  *)
(* and only when it is due.                                                *)
LEMMA PayloadGrows ==
  ASSUME RefinementInv, FixlenPayload
  PROVE  PayloadGrowth
<1> DEFINE due == Low = FixlenSubtype.Str /\ top # Nil /\ ~spDone[depth] /\ top \in PolicyVisitors
           policy == Call(top, "SetStringCheck", 0, <<>>)
           begin == FixlenBegin
           piece == Piece(Low, 0, 0, <<>>)
           pre == IF due THEN <<policy>> ELSE <<>>
           rest == IF High = 0 THEN <<piece>> ELSE <<>>
           cbs == pre \o <<begin>> \o rest
<1>1. err = "nil" /\ Deliver(cbs) /\ Listed(log)
  BY DEF FixlenPayload, TakeVarint, Reading, Running, RefinementInv
<1>2. /\ policy.to = top /\ IsPolicy(policy) /\ ~BeginsString(policy)
      /\ begin.to = top /\ ~IsPolicy(begin) /\ (BeginsString(begin) => Low = FixlenSubtype.Str)
      /\ piece.to = top /\ ~IsPolicy(piece) /\ ~BeginsString(piece)
  BY DEF FixlenBegin, Piece, Call, IsPolicy, BeginsString
<1>3. /\ due => pre = <<policy>>
      /\ ~due => pre = <<>>
      /\ High = 0 => rest = <<piece>>
      /\ High # 0 => rest = <<>>
  OBVIOUS
<1>4. CASE top = Nil
  <2>1. UNCHANGED log
    BY <1>1, <1>4 DEF Deliver
  <2>2. LogGrows /\ \A j \in Len(log) + 1 .. Len(log') : FALSE
    BY <1>1, <2>1 DEF LogGrows, Listed
  <2> QED BY <1>4, <2>1, <2>2 DEF PayloadGrowth
<1>5. CASE top # Nil
  <2>0. due <=> PolicyDue
    BY <1>5 DEF PolicyDue
  <2>1. Announces(cbs, pre, begin, rest, policy, piece)
    BY <1>3 DEF Announces
  <2> HIDE DEF due, policy, begin, piece, pre, rest, cbs
  <2>2. Announced(cbs, pre, begin, rest, policy, piece)
    BY ONLY <2>1, Announcement
  <2>3. /\ Listed(cbs) /\ Len(cbs) \in 1 .. 3 /\ Len(cbs) > 0
        /\ pre = <<policy>> => cbs[1] = policy
        /\ pre = <<>> => cbs[1] = begin
        /\ \A j \in 1 .. Len(cbs) : cbs[j] \in {begin, piece} \/ (j = 1 /\ pre = <<policy>>)
    BY <2>2 DEF Announced
  <2>4. PICK k \in 1 .. Len(cbs) :
          /\ log' = log \o SubSeq(cbs, 1, k) /\ Len(log') = Len(log) + k
          /\ \A j \in 1 .. k : log'[Len(log) + j] = cbs[j]
    BY <1>1, <1>5, <2>3, DeliverSays
  <2>5. Listed(SubSeq(cbs, 1, k))
    <3>1. 1 \in Nat \ {0} /\ k \in 0 .. Len(cbs) /\ 1 <= k + 1
      BY <2>3
    <3> QED BY <2>3, <3>1, SubListed
  <2>6. LogGrows
    <3> DEFINE t == SubSeq(cbs, 1, k)
    <3>1. Listed(t) /\ log' = log \o t
      BY <2>4, <2>5
    <3> HIDE DEF t
    <3> QED BY <1>1, <3>1, Grown
  <2>7. Len(log) \in Nat /\ k \in Nat /\ Len(log') > Len(log)
    BY <1>1, <2>3, <2>4 DEF Listed
  <2>8. ASSUME NEW j \in Len(log) + 1 .. Len(log')
        PROVE  /\ log'[j].to = top
               /\ IsPolicy(log'[j]) <=> PolicyDue /\ j = Len(log) + 1
               /\ BeginsString(log'[j]) => Low = FixlenSubtype.Str
    <3> DEFINE i == j - Len(log)
    <3>1. i \in 1 .. k /\ i \in 1 .. Len(cbs) /\ Len(log) + i = j /\ (i = 1 <=> j = Len(log) + 1)
      BY <2>3, <2>4, <2>7, SMTT(30)
    <3> HIDE DEF i
    <3>2. log'[j] = cbs[i]
      BY <2>4, <3>1
    <3>3. CASE due /\ i = 1
      BY <1>2, <1>3, <2>0, <2>3, <3>1, <3>2, <3>3
    <3>4. CASE i # 1
      BY <1>2, <2>3, <3>1, <3>2, <3>4
    <3>5. CASE ~due
      <4>1. pre # <<policy>>
        BY <1>3, <3>5
      <4> QED BY <1>2, <2>0, <2>3, <3>1, <3>2, <3>5, <4>1
    <3> QED BY <3>3, <3>4, <3>5
  <2> QED BY <1>5, <2>6, <2>7, <2>8 DEF PayloadGrowth
<1> QED BY <1>4, <1>5

(***************************************************************************)
(* The invariant holds                                                     *)
(***************************************************************************)
LEMMA StepCountKinds ==
  ASSUME DecoderInv, CountKinds, [Next]_vars
  PROVE  CountKinds'
<1> USE DEF CountKinds
<1>1. CASE UNCHANGED vars
  BY <1>1 DEF vars, machine, field
<1>2. CASE Reset
  BY <1>2 DEF Reset, Rebind
<1>3. CASE Feed \/ AcceptBytes \/ FeedFrom \/ ReadChunk \/ Return \/ Discarded
  BY <1>3 DEF Feed, AcceptBytes, FeedFrom, ReadChunk, Return, Discarded, vars, decoder, machine, field
<1>4. CASE VarintByte \/ FpPartial \/ ArrayFloatSkip
  BY <1>4 DEF VarintByte, FpPartial, ArrayFloatSkip, machine, field
<1>5. CASE \/ VarintOverflow \/ HeaderIdTooLarge \/ FixlenWordIllegal \/ ArrayCountTooLarge
           \/ ArrayWordIllegal \/ OpenTooDeep \/ CloseDangling
  BY <1>5 DEF VarintOverflow, HeaderIdTooLarge, FixlenWordIllegal, ArrayCountTooLarge,
              ArrayWordIllegal, Reject, OpenTooDeep, CloseDangling
<1>6. CASE HeaderField
  BY <1>6 DEF HeaderField, FieldStep, WireType, ArrayKind
<1>7. CASE OpenInDeclined \/ OpenSequence \/ CloseDeclined \/ CloseSequence
  BY <1>7 DEF OpenInDeclined, OpenSequence, CloseDeclined, CloseSequence, Header, TakeVarint, Reading
<1>8. CASE Scalar \/ FixlenFloat \/ FixlenPayload \/ FpScalar \/ ArrayFinish
  BY <1>8 DEF Scalar, FixlenFloat, FixlenPayload, FpScalar, ArrayFinish
<1>9. CASE FixBytes
  BY <1>9 DEF FixBytes, Reading
<1>10. CASE ArrayCount
  BY <1>10 DEF ArrayCount, Announce
<1>11. CASE ArrayWord
  BY <1>11 DEF ArrayWord, Announce
<1>12. CASE ArrayElement
  BY <1>12 DEF ArrayElement, TakeVarint, Reading
<1>13. CASE ArrayFloat
  BY <1>13 DEF ArrayFloat, Reading
<1> QED BY <1>1, <1>2, <1>3, <1>4, <1>5, <1>6, <1>7, <1>8, <1>9, <1>10, <1>11, <1>12, <1>13
        DEF Next, RunStep

(* The log stays a sequence.                                               *)
LEMMA StepListed ==
  ASSUME RefinementInv, [Next]_vars
  PROVE  Listed(log')
<1>1. CASE Reset
  BY <1>1, EmptyListed DEF Reset
<1>2. CASE FixlenPayload
  BY <1>2, PayloadGrows DEF PayloadGrowth, LogGrows
<1>3. CASE QuietGrowth
  BY <1>3 DEF QuietGrowth, LogGrows
<1> QED BY <1>1, <1>2, <1>3, StepQuiet

(* The invariant of the refinement holds.                                  *)
LEMMA RefinementInvHolds == Spec => []RefinementInv
<1> DEFINE Rest == CountKinds /\ Listed(log)
<1>1. Init => Rest
  BY EmptyListed DEF Init, CountKinds
<1>2. DecoderInv /\ Rest /\ [Next]_vars => Rest'
  <2> SUFFICES ASSUME DecoderInv, Rest, [Next]_vars PROVE Rest'
    OBVIOUS
  <2>1. RefinementInv
    BY DEF RefinementInv
  <2>2. Listed(log)' <=> Listed(log')
    BY DEF Listed
  <2> QED BY <2>1, <2>2, StepCountKinds, StepListed
<1>3. DecoderInv /\ Rest => RefinementInv
  BY DEF RefinementInv
<1> HIDE DEF Rest
<1> QED BY <1>1, <1>2, <1>3, DecoderInvHolds, PTL DEF Spec

(* Every step of the decoder is a step of the protocol or a stutter.       *)
LEMMA StepKeepsProtocol ==
  ASSUME RefinementInv, [Next]_vars
  PROVE  [Protocol!ProtocolNext]_(Protocol!protocol)
<1> SUFFICES ProtocolKept \/ Protocol!ProtocolNext
  BY KeptIsStutter
<1> USE DEF Protocol!ProtocolNext
<1>1. CASE UNCHANGED vars
  <2>1. UNCHANGED <<err, st, log, id, total, off, idx, sub, width, depth, stack, skipFrom, top>>
    BY <1>1 DEF vars, machine, field, scopes
  <2>2. UNCHANGED FieldNow
    BY <2>1 DEF FieldNow, InProgress
  <2> QED BY <2>1, <2>2, OpenKept DEF ProtocolKept
<1>2. CASE Reset
  BY <1>2, ResetBinds
<1>3. CASE Feed \/ AcceptBytes \/ FeedFrom \/ ReadChunk \/ Return \/ Discarded
  BY <1>3, CallsAlone
<1>4. CASE VarintByte \/ FpPartial
  BY <1>4, BytesAlone
<1>5. CASE HeaderField
  BY <1>5, HeaderAlone
<1>6. CASE ArrayFloatSkip
  BY <1>6, SkipAlone
<1>7. CASE OpenInDeclined
  BY <1>7, DeclinedOpens
<1>8. CASE CloseDeclined
  BY <1>8, DeclinedCloses
<1>9. CASE \/ VarintOverflow \/ HeaderIdTooLarge \/ FixlenWordIllegal \/ ArrayCountTooLarge
           \/ ArrayWordIllegal \/ OpenTooDeep \/ CloseDangling
  BY <1>9, BadBytesAbort
<1>10. CASE OpenSequence
  BY <1>10, SequenceOpens
<1>11. CASE CloseSequence
  BY <1>11, SequenceCloses
<1>12. CASE Scalar
  BY <1>12, ScalarSpeaks
<1>13. CASE FixlenFloat
  BY <1>13, FloatBegins
<1>14. CASE FixlenPayload
  BY <1>14, PayloadBegins
<1>15. CASE FixBytes
  BY <1>15, PieceSpeaks
<1>16. CASE FpScalar
  BY <1>16, FloatSpeaks
<1>17. CASE ArrayCount
  BY <1>17, ArrayBegins
<1>18. CASE ArrayWord
  BY <1>18, FloatArrayBegins
<1>19. CASE ArrayElement
  BY <1>19, ElementSpeaks
<1>20. CASE ArrayFloat
  BY <1>20, FloatElementSpeaks
<1>21. CASE ArrayFinish
  BY <1>21, ArrayEnds
<1> QED BY <1>1, <1>2, <1>3, <1>4, <1>5, <1>6, <1>7, <1>8, <1>9, <1>10, <1>11, <1>12, <1>13,
           <1>14, <1>15, <1>16, <1>17, <1>18, <1>19, <1>20, <1>21 DEF Next, RunStep

(* The decoder starts where the protocol does.                             *)
LEMMA InitKeepsProtocol == Init => Protocol!ProtocolInit
<1> SUFFICES ASSUME Init PROVE Protocol!ProtocolInit
  OBVIOUS
<1>1. HeldDepth = 0 /\ stack[0] = 1
  BY DecoderAssumption DEF Init, HeldDepth
<1>2. OpenScopes = <<1>>
  <2>1. OpenScopes = [d \in 1 .. 1 |-> OpenScopes[d]] /\ OpenScopes[1] = 1
    BY <1>1 DEF OpenScopes
  <2>2. Listed(OpenScopes) /\ Len(OpenScopes) = 1
    BY <2>1, TabulatedIsListed
  <2>3. Listed(<<1>>) /\ Len(<<1>>) = 1 /\ <<1>>[1] = 1 /\ \A i \in 1 .. 1 : i = 1
    BY OneListed
  <2>4. \A i \in 1 .. Len(OpenScopes) : OpenScopes[i] = <<1>>[i]
    BY <2>1, <2>2, <2>3
  <2> QED BY <2>2, <2>3, <2>4, SameListed
<1>3. FieldNow = NoneInProgress /\ err = "nil" /\ log = <<>>
  BY DEF Init, FieldNow
<1> QED BY <1>2, <1>3, NothingInProgress DEF Protocol!ProtocolInit

(* The refinement, for every message, chunking, visitor and Reset: the calls *)
(* the decoder makes are those a visitor may rely on - the field announced   *)
(* before its bytes, pieces gap-free and in order, elements in order and all *)
(* of them, nothing from a declined subtree, scopes closed innermost first,  *)
(* nothing after an error (run and its handlers, against visitor.go).        *)
THEOREM DecoderKeepsProtocol == Spec => KeepsVisitorProtocol
<1>1. Init => Protocol!ProtocolInit
  BY InitKeepsProtocol
<1>2. RefinementInv /\ [Next]_vars => [Protocol!ProtocolNext]_(Protocol!protocol)
  BY StepKeepsProtocol
<1> QED BY <1>1, <1>2, RefinementInvHolds, PTL DEF Spec, KeepsVisitorProtocol, Protocol!ProtocolSpec

(***************************************************************************)
(* The string policy                                                       *)
(***************************************************************************)
(* A visitor is asked for its policy once; a string is announced to one     *)
(* that has a policy after it was given; and the flag of an open scope says  *)
(* whether its visitor was asked, which is what the next string goes by.    *)
Given(l, v) == \E j \in 1 .. Len(l) : IsPolicy(l[j]) /\ l[j].to = v

CallsIssued == \A j \in 1 .. Len(log) : log[j].to \in 0 .. issued

PolicyOnce ==
  \A i, j \in 1 .. Len(log) :
    IsPolicy(log[i]) /\ IsPolicy(log[j]) /\ log[i].to = log[j].to => i = j

PolicyFirst ==
  \A k \in 1 .. Len(log) :
    BeginsString(log[k]) /\ log[k].to \in PolicyVisitors =>
      \E j \in 1 .. k : IsPolicy(log[j]) /\ log[j].to = log[k].to

PolicyRemembered ==
  \A d \in 0 .. HeldDepth :
    stack[d] \in PolicyVisitors => (spDone[d] <=> Given(log, stack[d]))

PolicyInv == CallsIssued /\ PolicyOnce /\ PolicyFirst /\ PolicyRemembered

(* What a step does to the flags of the open scopes: they stay with their   *)
(* scopes, and the scope of a new visitor starts without one.              *)
FlagsKept ==
  /\ HeldDepth' \in 0 .. HeldDepth /\ issued' = issued
  /\ \A d \in 0 .. HeldDepth' : stack'[d] = stack[d] /\ spDone'[d] = spDone[d]

FlagAdded ==
  /\ HeldDepth \in Nat /\ HeldDepth' = HeldDepth + 1 /\ issued' = issued + 1
  /\ stack'[HeldDepth + 1] = issued + 1 /\ ~spDone'[HeldDepth + 1]
  /\ \A d \in 0 .. HeldDepth : stack'[d] = stack[d] /\ spDone'[d] = spDone[d]

(* Only Reset and fixlenWord touch the flag of a scope that stays open     *)
(* (spDone): openSequence clears the flag of the scope it opens, which no  *)
(* open scope shares.                                                      *)
LEMMA StepFlags ==
  ASSUME DecoderInv, [Next]_vars
  PROVE  Reset \/ FixlenPayload \/ FlagsKept \/ FlagAdded
<1>0. /\ depth \in Nat /\ depth \in 0 .. MaxDepth /\ MaxDepth \in Nat
      /\ skipFrom \in Int /\ skipFrom \in -1 .. depth - 1
      /\ stack \in [0 .. MaxDepth -> Nat] /\ spDone \in [0 .. MaxDepth -> BOOLEAN]
      /\ HeldDepth \in 0 .. depth
  <2>1. /\ depth \in Nat /\ depth \in 0 .. MaxDepth /\ MaxDepth \in Nat
        /\ skipFrom \in Int /\ skipFrom \in -1 .. depth - 1
        /\ stack \in [0 .. MaxDepth -> Nat] /\ spDone \in [0 .. MaxDepth -> BOOLEAN]
    BY DecoderAssumption DEF DecoderInv, IInv, TypeOK, ScopeTypes, ScopesCoherent
  <2> QED BY <2>1 DEF HeldDepth
<1>1. ASSUME UNCHANGED <<depth, stack, spDone, skipFrom, issued>> PROVE FlagsKept
  <2>1. UNCHANGED HeldDepth
    BY <1>1 DEF HeldDepth
  <2> QED BY <1>0, <1>1, <2>1 DEF FlagsKept
<1>2. CASE UNCHANGED vars
  BY <1>1, <1>2 DEF vars, scopes
<1>3. CASE Feed \/ AcceptBytes \/ FeedFrom \/ ReadChunk \/ Return \/ Discarded
  BY <1>1, <1>3 DEF Feed, AcceptBytes, FeedFrom, ReadChunk, Return, Discarded, vars, decoder, scopes
<1>4. CASE VarintByte \/ VarintOverflow
  BY <1>1, <1>4 DEF VarintByte, VarintOverflow, scopes
<1>5. CASE HeaderIdTooLarge \/ FixlenWordIllegal \/ ArrayCountTooLarge \/ ArrayWordIllegal
  BY <1>1, <1>5 DEF HeaderIdTooLarge, FixlenWordIllegal, ArrayCountTooLarge, ArrayWordIllegal, Reject, scopes
<1>6. CASE HeaderField \/ OpenTooDeep \/ CloseDangling \/ Scalar
  BY <1>1, <1>6 DEF HeaderField, OpenTooDeep, CloseDangling, Scalar, scopes
<1>7. CASE FixlenFloat \/ FixBytes \/ FpPartial \/ FpScalar
  BY <1>1, <1>7 DEF FixlenFloat, FixBytes, FpPartial, FpScalar, scopes
<1>8. CASE ArrayCount \/ ArrayWord \/ ArrayElement
  BY <1>1, <1>8 DEF ArrayCount, ArrayWord, ArrayElement, scopes
<1>9. CASE ArrayFloat \/ ArrayFloatSkip \/ ArrayFinish
  BY <1>1, <1>9 DEF ArrayFloat, ArrayFloatSkip, ArrayFinish, scopes
<1>10. ASSUME NEW STATE child, Descend(child), depth < MaxDepth
       PROVE  /\ depth' = depth + 1 /\ stack'[depth + 1] = child /\ ~spDone'[depth + 1]
              /\ \A d \in 0 .. depth : stack'[d] = stack[d] /\ spDone'[d] = spDone[d]
  <2>1. /\ depth + 1 \in 0 .. MaxDepth
        /\ \A d \in 0 .. depth : d \in 0 .. MaxDepth /\ d # depth + 1
    BY <1>0, <1>10
  <2> QED BY <1>0, <1>10, <2>1 DEF Descend
<1>11. CASE OpenInDeclined
  <2>1. Descend(Nil) /\ depth < MaxDepth /\ UNCHANGED <<skipFrom, issued>> /\ top = Nil
    BY <1>11 DEF OpenInDeclined
  <2>2. skipFrom \in 0 .. depth
    BY <1>0, <2>1, DecoderAssumption DEF DecoderInv, ScopesCoherent
  <2>3. HeldDepth = skipFrom /\ HeldDepth' = skipFrom
    BY <2>1, <2>2 DEF HeldDepth
  <2> QED BY <1>0, <1>10, <2>1, <2>2, <2>3 DEF FlagsKept
<1>12. CASE OpenSequence
  <2>0. depth < MaxDepth /\ top # Nil
    BY <1>12 DEF OpenSequence
  <2>1. skipFrom < 0 /\ HeldDepth = depth
    BY <2>0, Listener
  <2>2. CASE Descend(issued + 1) /\ issued' = issued + 1 /\ UNCHANGED skipFrom
    <3>1. /\ depth' = depth + 1 /\ stack'[depth + 1] = issued + 1 /\ ~spDone'[depth + 1]
          /\ \A d \in 0 .. depth : stack'[d] = stack[d] /\ spDone'[d] = spDone[d]
      BY <1>10, <2>0, <2>2
    <3>2. HeldDepth' = depth + 1
      BY <2>1, <2>2, <3>1 DEF HeldDepth
    <3> QED BY <1>0, <2>1, <2>2, <3>1, <3>2 DEF FlagAdded
  <2>3. CASE Descend(Nil) /\ skipFrom' = depth /\ UNCHANGED issued
    <3>1. \A d \in 0 .. depth : stack'[d] = stack[d] /\ spDone'[d] = spDone[d]
      BY <1>10, <2>0, <2>3
    <3>2. HeldDepth' = depth
      BY <1>0, <2>3 DEF HeldDepth
    <3> QED BY <1>0, <2>1, <2>3, <3>1, <3>2 DEF FlagsKept
  <2>4. CASE UNCHANGED <<scopes, issued>>
    BY <1>1, <2>4 DEF scopes
  <2> QED BY <1>12, <2>2, <2>3, <2>4 DEF OpenSequence
<1>13. ASSUME depth > 0, stack' = [stack EXCEPT ![depth] = Nil], UNCHANGED <<spDone, issued>>,
              HeldDepth' \in 0 .. HeldDepth, HeldDepth' < depth
       PROVE  FlagsKept
  <2>1. \A d \in 0 .. HeldDepth' : d # depth /\ d \in 0 .. MaxDepth
    BY <1>0, <1>13
  <2> QED BY <1>0, <1>13, <2>1 DEF FlagsKept
<1>14. CASE CloseDeclined
  <2>1. /\ depth > 0 /\ skipFrom >= 0 /\ depth' = depth - 1 /\ stack' = [stack EXCEPT ![depth] = Nil]
        /\ UNCHANGED <<spDone, issued>>
        /\ skipFrom' = IF depth - 1 = skipFrom THEN -1 ELSE skipFrom
    BY <1>14 DEF CloseDeclined
  <2>2. HeldDepth = skipFrom /\ HeldDepth' = skipFrom /\ skipFrom \in 0 .. depth - 1
    BY <1>0, <2>1 DEF HeldDepth
  <2> QED BY <1>0, <1>13, <2>1, <2>2
<1>15. CASE CloseSequence
  <2>1. /\ depth > 0 /\ skipFrom < 0 /\ depth' = depth - 1 /\ stack' = [stack EXCEPT ![depth] = Nil]
        /\ UNCHANGED <<spDone, issued, skipFrom>>
    BY <1>15 DEF CloseSequence
  <2>2. HeldDepth = depth /\ HeldDepth' = depth - 1
    BY <1>0, <2>1 DEF HeldDepth
  <2> QED BY <1>0, <1>13, <2>1, <2>2
<1> QED BY <1>2, <1>3, <1>4, <1>5, <1>6, <1>7, <1>8, <1>9, <1>11, <1>12, <1>14, <1>15 DEF Next, RunStep

(* A log that grew by nothing about the policy. *)
LEMMA QuietKeepsGiven ==
  ASSUME Listed(log), QuietGrowth, CallsIssued, PolicyOnce, PolicyFirst,
         issued \in Nat, issued' \in Nat, issued' >= issued
  PROVE  /\ \A v : Given(log', v) <=> Given(log, v)
         /\ CallsIssued' /\ PolicyOnce' /\ PolicyFirst'
<1>1. /\ Len(log) \in Nat /\ Len(log') \in Nat /\ Len(log') >= Len(log)
      /\ \A j \in 1 .. Len(log) : log'[j] = log[j] /\ j \in 1 .. Len(log')
      /\ \A j \in 1 .. Len(log') : j \notin 1 .. Len(log) => Quiet(log'[j])
  BY DEF QuietGrowth, LogGrows, Listed
<1>2. /\ \A j \in 1 .. Len(log') : IsPolicy(log'[j]) => j \in 1 .. Len(log) /\ log'[j] = log[j]
      /\ \A j \in 1 .. Len(log') : BeginsString(log'[j]) => j \in 1 .. Len(log) /\ log'[j] = log[j]
  BY <1>1 DEF Quiet
<1>3. ASSUME NEW v PROVE Given(log', v) <=> Given(log, v)
  BY <1>1, <1>2 DEF Given, IsPolicy
<1>4. PolicyOnce'
  BY <1>1, <1>2 DEF PolicyOnce, IsPolicy
<1>5. PolicyFirst'
  <2> SUFFICES ASSUME NEW k \in 1 .. Len(log'), BeginsString(log'[k]), log'[k].to \in PolicyVisitors
               PROVE  \E j \in 1 .. k : IsPolicy(log'[j]) /\ log'[j].to = log'[k].to
    BY DEF PolicyFirst, BeginsString, IsPolicy
  <2>1. k \in 1 .. Len(log) /\ log'[k] = log[k]
    BY <1>2
  <2>2. PICK j \in 1 .. k : IsPolicy(log[j]) /\ log[j].to = log[k].to
    BY <2>1 DEF PolicyFirst
  <2>3. j \in 1 .. Len(log)
    BY <1>1, <2>1, <2>2
  <2> QED BY <1>1, <2>1, <2>2, <2>3
<1>6. CallsIssued'
  BY <1>1 DEF CallsIssued, Quiet
<1> QED BY <1>3, <1>4, <1>5, <1>6

(* The policy invariant is inductive: while its scope is open a visitor is *)
(* in one slot of the stack, so its flag says whether it was asked; a new  *)
(* visitor was not, since it was never called.                             *)
LEMMA StepPolicyInv ==
  ASSUME RefinementInv, PolicyInv, [Next]_vars
  PROVE  PolicyInv'
<1> USE DEF RefinementInv
<1>0. /\ depth \in Nat /\ depth \in 0 .. MaxDepth /\ MaxDepth \in Nat /\ issued \in Nat
      /\ stack \in [0 .. MaxDepth -> Nat] /\ spDone \in [0 .. MaxDepth -> BOOLEAN]
      /\ HeldDepth \in 0 .. depth /\ Len(log) \in Nat
  BY DecoderAssumption, Listener, SMTT(30) DEF DecoderInv, IInv, TypeOK, ScopeTypes, Listed
<1>1. CASE Reset
  <2>1. /\ log' = <<>> /\ Len(log') = 0 /\ HeldDepth' = 0 /\ spDone'[0] = FALSE
    BY <1>0, <1>1, EmptyListed DEF Reset, Rebind, HeldDepth
  <2>2. \A j \in 1 .. Len(log') : FALSE
    BY <2>1
  <2>3. \A v : ~Given(log', v)
    BY <2>2 DEF Given
  <2>4. CallsIssued' /\ PolicyOnce' /\ PolicyFirst'
    BY <2>2 DEF CallsIssued, PolicyOnce, PolicyFirst
  <2>5. PolicyRemembered'
    <3>1. \A d \in 0 .. HeldDepth' : d = 0
      BY <2>1
    <3> QED BY <2>1, <2>3, <3>1 DEF PolicyRemembered
  <2> QED BY <2>4, <2>5 DEF PolicyInv
<1>2. ASSUME QuietGrowth, FlagsKept PROVE PolicyInv'
  <2>1. /\ \A v : Given(log', v) <=> Given(log, v)
        /\ CallsIssued' /\ PolicyOnce' /\ PolicyFirst'
    BY <1>0, <1>2, QuietKeepsGiven DEF PolicyInv, FlagsKept
  <2>2. ASSUME NEW d \in 0 .. HeldDepth', stack'[d] \in PolicyVisitors
        PROVE  spDone'[d] <=> Given(log', stack'[d])
    <3>1. d \in 0 .. HeldDepth /\ stack'[d] = stack[d] /\ spDone'[d] = spDone[d]
      BY <1>0, <1>2 DEF FlagsKept
    <3> QED BY <2>1, <2>2, <3>1 DEF PolicyInv, PolicyRemembered
  <2>3. PolicyRemembered'
    BY <2>2 DEF PolicyRemembered
  <2> QED BY <2>1, <2>3 DEF PolicyInv
<1>3. ASSUME QuietGrowth, FlagAdded PROVE PolicyInv'
  <2>1. /\ \A v : Given(log', v) <=> Given(log, v)
        /\ CallsIssued' /\ PolicyOnce' /\ PolicyFirst'
    BY <1>0, <1>3, QuietKeepsGiven DEF PolicyInv, FlagAdded
  <2>2. ~Given(log, issued + 1)
    BY <1>0 DEF PolicyInv, CallsIssued, Given
  <2>3. ASSUME NEW d \in 0 .. HeldDepth', stack'[d] \in PolicyVisitors
        PROVE  spDone'[d] <=> Given(log', stack'[d])
    <3>1. CASE d = HeldDepth + 1
      BY <1>3, <2>1, <2>2, <3>1 DEF FlagAdded
    <3>2. CASE d # HeldDepth + 1
      <4>1. d \in 0 .. HeldDepth /\ stack'[d] = stack[d] /\ spDone'[d] = spDone[d]
        BY <1>0, <1>3, <3>2 DEF FlagAdded
      <4> QED BY <2>1, <2>3, <4>1 DEF PolicyInv, PolicyRemembered
    <3> QED BY <3>1, <3>2
  <2>4. PolicyRemembered'
    BY <2>3 DEF PolicyRemembered
  <2> QED BY <2>1, <2>4 DEF PolicyInv
<1>4. CASE FixlenPayload
  <2>1. /\ PayloadGrowth /\ UNCHANGED <<depth, stack, skipFrom, issued>>
        /\ spDone' = IF Low = FixlenSubtype.Str /\ top # Nil /\ ~spDone[depth]
                     THEN [spDone EXCEPT ![depth] = TRUE] ELSE spDone
    BY <1>4, PayloadGrows DEF FixlenPayload
  <2>2. UNCHANGED HeldDepth
    BY <2>1 DEF HeldDepth
  <2>3. CASE top = Nil
    <3>1. QuietGrowth
      BY <2>1, <2>3, QuietKept DEF PayloadGrowth
    <3>2. FlagsKept
      BY <1>0, <2>1, <2>2, <2>3 DEF FlagsKept
    <3> QED BY <1>2, <3>1, <3>2
  <2>4. CASE top # Nil
    <3>1. HeldDepth = depth /\ top = stack[depth] /\ skipFrom < 0
      BY <2>4, Listener
    <3>2. /\ Len(log') \in Nat /\ Len(log') > Len(log)
          /\ \A j \in 1 .. Len(log) : log'[j] = log[j] /\ j \in 1 .. Len(log')
          /\ \A j \in 1 .. Len(log') : j \notin 1 .. Len(log) =>
               /\ j \in Len(log) + 1 .. Len(log') /\ log'[j].to = top
               /\ IsPolicy(log'[j]) <=> PolicyDue /\ j = Len(log) + 1
               /\ BeginsString(log'[j]) => Low = FixlenSubtype.Str
          /\ Len(log) + 1 \in 1 .. Len(log') /\ Len(log) + 1 \notin 1 .. Len(log)
      <4>1. Len(log') \in Nat /\ Len(log') > Len(log)
        BY <2>1, <2>4 DEF PayloadGrowth, LogGrows, Listed
      <4> QED BY <1>0, <2>1, <4>1 DEF PayloadGrowth, LogGrows
    <3>3. CallsIssued'
      <4>1. top \in 0 .. issued
        BY TopIssued
      <4>2. \A j \in 1 .. Len(log') : log'[j].to \in 0 .. issued'
        BY <1>0, <2>1, <3>2, <4>1 DEF PolicyInv, CallsIssued
      <4> QED BY <4>2 DEF CallsIssued
    <3>4. CASE PolicyDue
      <4>1. ~Given(log, top) /\ top \in PolicyVisitors
        BY <1>0, <3>1, <3>4 DEF PolicyInv, PolicyRemembered, PolicyDue
      <4>2. IsPolicy(log'[Len(log) + 1]) /\ log'[Len(log) + 1].to = top
        BY <3>2, <3>4
      <4>3. \A j \in 1 .. Len(log') : IsPolicy(log'[j]) =>
              \/ j = Len(log) + 1 /\ log'[j].to = top
              \/ j \in 1 .. Len(log) /\ log'[j] = log[j] /\ log[j].to # top
        BY <3>2, <3>4, <4>1 DEF Given
      <4>4. PolicyOnce'
        <5> SUFFICES ASSUME NEW i \in 1 .. Len(log'), NEW j \in 1 .. Len(log'),
                            IsPolicy(log'[i]), IsPolicy(log'[j]), log'[i].to = log'[j].to
                     PROVE  i = j
          BY DEF PolicyOnce, IsPolicy
        <5> QED BY <4>3 DEF PolicyInv, PolicyOnce
      <4>5. PolicyFirst'
        <5> SUFFICES ASSUME NEW k \in 1 .. Len(log'), BeginsString(log'[k]), log'[k].to \in PolicyVisitors
                     PROVE  \E j \in 1 .. k : IsPolicy(log'[j]) /\ log'[j].to = log'[k].to
          BY DEF PolicyFirst, BeginsString, IsPolicy
        <5>1. CASE k \in 1 .. Len(log)
          <6>1. log'[k] = log[k]
            BY <3>2, <5>1
          <6>2. PICK j \in 1 .. k : IsPolicy(log[j]) /\ log[j].to = log[k].to
            BY <5>1, <6>1 DEF PolicyInv, PolicyFirst
          <6>3. j \in 1 .. Len(log)
            BY <1>0, <5>1, <6>2
          <6> QED BY <3>2, <6>1, <6>2, <6>3
        <5>2. CASE k \notin 1 .. Len(log)
          <6>1. Len(log) + 1 \in 1 .. k /\ log'[k].to = top
            BY <1>0, <3>2, <5>2
          <6> QED BY <4>2, <6>1
        <5> QED BY <5>1, <5>2
      <4>6. ASSUME NEW d \in 0 .. HeldDepth', stack'[d] \in PolicyVisitors
            PROVE  spDone'[d] <=> Given(log', stack'[d])
        <5>1. spDone' = [spDone EXCEPT ![depth] = TRUE] /\ stack' = stack /\ d \in 0 .. depth
              /\ depth \in 0 .. MaxDepth /\ d \in 0 .. MaxDepth
          BY <1>0, <2>1, <2>2, <2>4, <3>1, <3>4 DEF PolicyDue
        <5>2. CASE d = depth
          <6>1. Given(log', top)
            BY <3>2, <4>2 DEF Given, IsPolicy
          <6> QED BY <1>0, <3>1, <5>1, <5>2, <6>1 DEF Given, IsPolicy
        <5>3. CASE d # depth
          <6>1. stack[d] # top
            BY <1>0, <3>1, <5>1, <5>3 DEF DecoderInv, VisitorsNested
          <6>2. Given(log, stack[d]) <=> \E j \in 1 .. Len(log') : IsPolicy(log'[j]) /\ log'[j].to = stack[d]
            BY <3>2, <4>3, <6>1 DEF Given
          <6>3. Given(log', stack'[d]) <=> Given(log, stack[d])
            BY <5>1, <6>2 DEF Given, IsPolicy
          <6> QED BY <1>0, <3>1, <4>6, <5>1, <5>3, <6>3 DEF PolicyInv, PolicyRemembered
        <5> QED BY <5>2, <5>3
      <4>7. PolicyRemembered'
        BY <4>6 DEF PolicyRemembered
      <4> QED BY <3>3, <4>4, <4>5, <4>7 DEF PolicyInv
    <3>5. CASE ~PolicyDue
      <4>1. \A j \in 1 .. Len(log') : IsPolicy(log'[j]) => j \in 1 .. Len(log) /\ log'[j] = log[j]
        BY <3>2, <3>5
      <4>2. ASSUME NEW v PROVE Given(log', v) <=> Given(log, v)
        BY <3>2, <4>1 DEF Given, IsPolicy
      <4>3. PolicyOnce'
        BY <3>2, <4>1 DEF PolicyInv, PolicyOnce, IsPolicy
      <4>4. PolicyFirst'
        <5> SUFFICES ASSUME NEW k \in 1 .. Len(log'), BeginsString(log'[k]), log'[k].to \in PolicyVisitors
                     PROVE  \E j \in 1 .. k : IsPolicy(log'[j]) /\ log'[j].to = log'[k].to
          BY DEF PolicyFirst, BeginsString, IsPolicy
        <5>1. CASE k \in 1 .. Len(log)
          <6>1. log'[k] = log[k]
            BY <3>2, <5>1
          <6>2. PICK j \in 1 .. k : IsPolicy(log[j]) /\ log[j].to = log[k].to
            BY <5>1, <6>1 DEF PolicyInv, PolicyFirst
          <6>3. j \in 1 .. Len(log)
            BY <1>0, <5>1, <6>2
          <6> QED BY <3>2, <6>1, <6>2, <6>3
        <5>2. CASE k \notin 1 .. Len(log)
          <6>1. log'[k].to = top /\ Low = FixlenSubtype.Str
            BY <3>2, <5>2
          <6>2. Given(log, top)
            BY <1>0, <3>1, <3>5, <6>1 DEF PolicyInv, PolicyRemembered, PolicyDue
          <6>3. PICK j \in 1 .. Len(log) : IsPolicy(log[j]) /\ log[j].to = top
            BY <6>2 DEF Given
          <6>4. j \in 1 .. k
            BY <1>0, <5>2, <6>3
          <6> QED BY <3>2, <6>1, <6>3, <6>4
        <5> QED BY <5>1, <5>2
      <4>5. ASSUME NEW d \in 0 .. HeldDepth', stack'[d] \in PolicyVisitors
            PROVE  spDone'[d] <=> Given(log', stack'[d])
        <5>1. stack' = stack /\ d \in 0 .. HeldDepth
          BY <2>1, <2>2
        <5>2. spDone'[d] = spDone[d]
          <6>1. CASE d = depth
            <7>1. top \in PolicyVisitors
              BY <3>1, <4>5, <5>1, <6>1
            <7>2. spDone' = spDone
              BY <2>1, <3>5, <7>1 DEF PolicyDue
            <7> QED BY <7>2
          <6>2. CASE d # depth
            BY <1>0, <2>1, <5>1, <6>2
          <6> QED BY <6>1, <6>2
        <5> QED BY <4>2, <4>5, <5>1, <5>2 DEF PolicyInv, PolicyRemembered
      <4>6. PolicyRemembered'
        BY <4>5 DEF PolicyRemembered
      <4> QED BY <3>3, <4>3, <4>4, <4>6 DEF PolicyInv
    <3> QED BY <3>4, <3>5
  <2> QED BY <2>3, <2>4
<1> QED BY <1>1, <1>2, <1>3, <1>4, StepQuiet, StepFlags

(* The policy invariant holds.                                             *)
LEMMA PolicyInvHolds == Spec => []PolicyInv
<1>1. Init => PolicyInv
  <2> SUFFICES ASSUME Init PROVE PolicyInv
    OBVIOUS
  <2>1. HeldDepth = 0 /\ spDone[0] = FALSE /\ Len(log) = 0
    BY DecoderAssumption, EmptyListed DEF Init, HeldDepth
  <2>2. \A j \in 1 .. Len(log) : FALSE
    BY <2>1
  <2>3. \A d \in 0 .. HeldDepth : d = 0
    BY <2>1
  <2> QED BY <2>1, <2>2, <2>3 DEF PolicyInv, CallsIssued, PolicyOnce, PolicyFirst, PolicyRemembered, Given
<1>2. RefinementInv /\ PolicyInv /\ [Next]_vars => PolicyInv'
  BY StepPolicyInv
<1> QED BY <1>1, <1>2, RefinementInvHolds, PTL DEF Spec

(* A visitor that takes the string policy has it before the first string of  *)
(* its scope is announced and is asked for it once, however deep the scopes  *)
(* nest and whatever else is reported in between (fixlenWord, spDone,        *)
(* openSequence).                                                            *)
THEOREM PolicyComesFirst == Spec => []PolicyBeforeStrings
<1>1. RefinementInv /\ PolicyInv => PolicyBeforeStrings
  <2> SUFFICES ASSUME RefinementInv, PolicyInv, NEW k \in 1 .. Len(log)
               PROVE  LET given == {j \in 1 .. k : log[j].m = "SetStringCheck" /\ log[j].to = log[k].to} IN
                      /\ Cardinality(given) <= 1
                      /\ (/\ log[k].m = "FixlenBegin" /\ log[k].args[1] = FixlenSubtype.Str
                          /\ log[k].to \in PolicyVisitors) => given # {}
    BY DEF PolicyBeforeStrings
  <2> DEFINE given == {j \in 1 .. k : log[j].m = "SetStringCheck" /\ log[j].to = log[k].to}
  <2>1. \A j \in given : j \in 1 .. Len(log) /\ IsPolicy(log[j]) /\ log[j].to = log[k].to
    BY DEF RefinementInv, Listed, IsPolicy
  <2>2. \A i, j \in given : i = j
    BY <2>1 DEF PolicyInv, PolicyOnce
  <2>3. Cardinality(given) <= 1
    <3> HIDE DEF given
    <3>1. CASE given = {}
      BY <3>1, FS_EmptySet
    <3>2. ASSUME NEW x \in given PROVE Cardinality(given) <= 1
      <4>1. given = {x}
        BY <2>2
      <4>2. Cardinality({x}) = 1
        BY FS_Singleton, Zenon
      <4> QED BY <4>1, <4>2
    <3> QED BY <3>1, <3>2
  <2>4. BeginsString(log[k]) /\ log[k].to \in PolicyVisitors => given # {}
    BY DEF PolicyInv, PolicyFirst, IsPolicy
  <2> QED BY <2>3, <2>4 DEF BeginsString
<1> QED BY <1>1, RefinementInvHolds, PolicyInvHolds, PTL
=============================================================================
