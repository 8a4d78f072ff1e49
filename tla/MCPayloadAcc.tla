---------------------------- MODULE MCPayloadAcc ----------------------------
(***************************************************************************)
(* An instance of PayloadAcc for TLC.  The chunks are empty, one byte or    *)
(* two, so a payload of three takes two or three of them, runs over its end *)
(* or grows its buffer; any of them may come with any offset and total.    *)
(***************************************************************************)
EXTENDS PayloadAcc

AllPieces ==
  [total : {0, 2, 3}, offset : 0 .. 2, chunk : {<<>>, <<1>>, <<2, 3>>}]
  \cup [total : {-1, 3}, offset : {-1, 0}, chunk : {<<1>>}]
=============================================================================
