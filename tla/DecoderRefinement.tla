------------------------- MODULE DecoderRefinement --------------------------
(***************************************************************************)
(* The decoder keeps the visitor protocol.  The protocol's state is read   *)
(* off the parser's: the accepted scopes are the stack below the declined  *)
(* one, the field in progress is where the machine suspended.              *)
(***************************************************************************)
EXTENDS Decoder

HeldDepth == IF skipFrom < 0 THEN depth ELSE skipFrom
OpenScopes == [d \in 1 .. HeldDepth + 1 |-> stack[d - 1]]

NoneInProgress == [is |-> "none", id |-> 0, total |-> 0, got |-> 0]
InProgress(is, n, got) == [is |-> is, id |-> id, total |-> n, got |-> got]

FieldNow ==
  IF err # "nil" \/ top = Nil THEN NoneInProgress
  ELSE CASE st = "stFixFp" ->
              InProgress(IF width = Fp32Width THEN "Float32" ELSE "Float64", width, 0)
         [] st = "stFixBytes" ->
              InProgress(IF sub = FixlenSubtype.Str THEN "String" ELSE "Bytes", total, off)
         [] st = "stArrUElem" -> InProgress("ArrayUnsigned", total, idx)
         [] st = "stArrSElem" -> InProgress("ArraySigned", total, idx)
         [] st = "stArrFp" ->
              InProgress(IF width = Fp32Width THEN "ArrayFloat32" ELSE "ArrayFloat64", total, idx)
         [] OTHER -> NoneInProgress

Protocol ==
  INSTANCE VisitorProtocol WITH open <- OpenScopes, now <- FieldNow, dead <- (err # "nil")

(* Whatever the bytes, the chunks, the visitors' answers and the moment of   *)
(* a Reset, the calls the decoder makes are the ones VisitorProtocol allows *)
(* (run and every handler it calls, against the contract in visitor.go).   *)
KeepsVisitorProtocol == Protocol!ProtocolSpec
=============================================================================
