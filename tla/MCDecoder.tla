----------------------------- MODULE MCDecoder ------------------------------
(***************************************************************************)
(* Instances of Decoder for TLC: 4-bit groups, varints of at most 3 bytes  *)
(* (9-bit words), and short messages.                                      *)
(***************************************************************************)
EXTENDS DecoderRefinement, SequencesExt

Ref == INSTANCE WireFormat

(* Messages that between them use every construct: scalars, a string in a   *)
(* sequence, empty payloads, both float widths, both kinds of integer       *)
(* array, float arrays, a declined sequence holding a nested one and arrays *)
(* long enough for the unrolled decoder, non-minimal and three-byte         *)
(* varints, and the breach of every ceiling (id, length, count, depth).     *)
Messages == {
  <<0, 5, 9, 3>>,
  <<6, 2, 18, 1, 3, 4, 7>>,
  <<2, 2, 2, 3, 10, 10, 5>>,
  <<2, 8, 31, 2, 17, 1, 9, 30>>,
  <<3, 2, 17, 2, 5, 12, 1, 3>>,
  <<3, 0, 5, 2, 17, 1, 1, 2, 3, 4>>,
  <<5, 3, 8, 1, 2, 3>>,
  <<14, 6, 2, 10, 5, 7, 2, 2, 7, 0, 3>>,
  <<14, 3, 3, 17, 2, 5, 31, 31, 1, 7, 0, 4>>,
  <<14, 5, 3, 17, 1, 1, 2, 3, 4, 5, 6, 7>>,
  <<16, 16, 0, 31, 31, 1, 6, 10, 2, 7>>,
  <<6, 6, 10, 2, 7, 2, 10, 1, 7>>,
  <<6, 2, 2, 7, 6, 2, 2>>,
  <<6, 14, 6, 7>>,
  <<2, 18, 2, 1, 1, 1>>,
  <<24, 1, 0>>,
  <<3, 4, 0, 0, 0>> }

(* Each of them, and each with one byte replaced. *)
Corruptions == {0, 1, 4, 6, 7, 17, 31}
Corrupted(ms) == ms \cup UNION {{[m EXCEPT ![i] = b] : i \in DOMAIN m, b \in Corruptions} : m \in ms}
AllMessages == Corrupted(Messages)

(* For the run where messages follow one another: some of the shorter ones. *)
FewMessages == {
  <<6, 2, 2, 7, 6, 2, 2>>,
  <<14, 6, 7, 2, 3, 7>>,
  <<2, 17, 1, 9, 30>>,
  <<2, 18, 1, 3, 4>>,
  <<3, 2, 17, 2, 5>>,
  <<5, 2, 8, 1, 2, 0>>,
  <<24, 1>> }

(* Pieces of one payload, joined: what the visitor was handed of a field,   *)
(* without where the chunks cut it.                                        *)
Joined(cbs) ==
  FoldLeft(LAMBDA out, c :
             IF c.m \in {"String", "Bytes"} /\ c.args[2] > 0
             THEN Append(Front(out), [Last(out) EXCEPT !.args = @ \o SubSeq(c.args, 3, Len(c.args))])
             ELSE Append(out, c),
           <<>>, cbs)

(* Between calls, the outcome, the error and the callbacks are those of the *)
(* bytes fed since the last Reset, however they were cut into chunks and    *)
(* whichever entry point they came through: what the grammar of the wire    *)
(* format says of that byte string (Feed, FeedFrom, run).                  *)
MatchesWireFormat ==
  pc = "idle" =>
    LET r == Ref!Parse(SubSeq(stream, 1, fed), stack[0]) IN
    /\ Outcome = r.out
    /\ err = r.err
    /\ Joined(log) = r.cbs

(* A visitor that declines sequences of id 1, fails on an unsigned 1 and at *)
(* the end of an array of id 1, and takes everything else.                 *)
PickyAnswers(cb) ==
  CASE cb.m = "BeginSequence" /\ cb.id = 1 -> {"decline"}
    [] cb.m = "Unsigned" /\ cb.args = <<1>> -> {"error"}
    [] cb.m = "ArrayEnd" /\ cb.id = 1 -> {"error"}
    [] OTHER -> {"ok"}

(* A visitor that may do anything it is allowed to. *)
AnyAnswers(cb) == IF cb.m = "BeginSequence" THEN {"ok", "decline", "error"} ELSE {"ok", "error"}
=============================================================================
