-------------------------- MODULE VisitorProtocol ---------------------------
(***************************************************************************)
(* What a visitor may rely on (visitor.go), with no bytes in it: the       *)
(* callbacks it gets, in which order and for which scope.                  *)
(*                                                                         *)
(* open is the stack of the scopes a visitor accepted, outermost first;    *)
(* a declined sequence is announced once and then invisible, however much  *)
(* it holds.  now is the field in progress: a payload or an array arrives  *)
(* in pieces, gap-free and in order, and nothing else is reported before   *)
(* it is whole.  dead is the end of the decode: an error of a visitor or   *)
(* malformed bytes, after which no visitor is called again.  log is every  *)
(* callback since the visitor was bound.                                   *)
(***************************************************************************)
EXTENDS Integers, Sequences

VARIABLES open, now, dead, log

protocol == <<open, now, dead, log>>

Cb(to, m, i, args) == [to |-> to, m |-> m, id |-> i, args |-> args]

Innermost == open[Len(open)]
NoField == [is |-> "none", id |-> 0, total |-> 0, got |-> 0]
Field(is, i, total, got) == [is |-> is, id |-> i, total |-> total, got |-> got]

Elements == {"ArrayUnsigned", "ArraySigned", "ArrayFloat32", "ArrayFloat64"}
Floats == {"Float32", "Float64"}
Payloads == {"String", "Bytes"}

ProtocolInit ==
  /\ open = <<1>> /\ now = NoField /\ dead = FALSE /\ log = <<>>

(* The callbacks cbs are made in order; an error ends the decode at the     *)
(* callback that returned it, and f is in progress if none does.           *)
Say(cbs, f) ==
  /\ ~dead
  /\ \E k \in 1 .. Len(cbs) :
       /\ log' = log \o SubSeq(cbs, 1, k)
       /\ \/ k = Len(cbs) /\ dead' = FALSE /\ now' = f
          \/ dead' = TRUE /\ now' = NoField

Between == now = NoField

(* The k-th callback of the step; a step that makes none is not a Say. *)
Speaks == Len(log') > Len(log)
New(k) == log'[Len(log) + k]

SayScalar ==
  /\ Between /\ Speaks
  /\ LET c == New(1) IN
     /\ c.to = Innermost /\ c.m \in {"Unsigned", "Signed"}
     /\ Say(<<c>>, NoField)
  /\ UNCHANGED open

(* A fixlen field is announced with its length before any byte of it; the   *)
(* string policy may come first.  An empty payload is one empty piece, at   *)
(* once.                                                                   *)
SayFixlen ==
  /\ Between /\ Speaks
  /\ LET first == New(1)
         pre   == IF first.m = "SetStringCheck" THEN <<first>> ELSE <<>>
         begin == New(1 + Len(pre))
         sub   == begin.args[1]
         total == begin.args[2]
         is    == CASE sub = 0 -> "Float32" [] sub = 1 -> "Float64"
                    [] sub = 2 -> "String" [] OTHER -> "Bytes"
         piece == Cb(Innermost, is, begin.id, <<0, 0>>)
     IN  /\ Len(log') > Len(log) + Len(pre)
         /\ first.to = Innermost /\ begin.to = Innermost
         /\ begin.m = "FixlenBegin" /\ (pre # <<>> => sub = 2)
         /\ IF total = 0
            THEN is \in Payloads /\ Say(pre \o <<begin, piece>>, NoField)
            ELSE Say(pre \o <<begin>>, Field(is, begin.id, total, 0))
  /\ UNCHANGED open

SayFloat ==
  /\ now.is \in Floats /\ Speaks
  /\ LET c == New(1) IN
     /\ c.to = Innermost /\ c.m = now.is /\ c.id = now.id /\ Len(c.args) = now.total
     /\ Say(<<c>>, NoField)
  /\ UNCHANGED open

(* The next piece of a payload starts where the last one ended, is not      *)
(* empty, and does not run over the announced total.                       *)
SayPiece ==
  /\ now.is \in Payloads /\ Speaks
  /\ LET c   == New(1)
         len == Len(c.args) - 2
     IN  /\ c.to = Innermost /\ c.m = now.is /\ c.id = now.id
         /\ c.args[1] = now.total /\ c.args[2] = now.got
         /\ len \in 1 .. now.total - now.got
         /\ Say(<<c>>, IF now.got + len = now.total THEN NoField
                       ELSE [now EXCEPT !.got = @ + len])
  /\ UNCHANGED open

(* An array is announced with its count, then each element in order with    *)
(* its index, then its end: at once for an empty one.                      *)
SayArrayBegin ==
  /\ Between /\ Speaks
  /\ LET c     == New(1)
         count == c.args[2]
         is    == CASE c.args[1] = 0 -> "ArrayUnsigned" [] c.args[1] = 1 -> "ArraySigned"
                    [] c.args[1] = 2 -> "ArrayFloat32" [] OTHER -> "ArrayFloat64"
     IN  /\ c.to = Innermost /\ c.m = "ArrayBegin"
         /\ IF count = 0
            THEN Say(<<c, Cb(Innermost, "ArrayEnd", c.id, <<>>)>>, NoField)
            ELSE Say(<<c>>, Field(is, c.id, count, 0))
  /\ UNCHANGED open

SayElement ==
  /\ now.is \in Elements /\ now.got < now.total /\ Speaks
  /\ LET c == New(1) IN
     /\ c.to = Innermost /\ c.m = now.is /\ c.id = now.id /\ c.args[1] = now.got
     /\ Say(<<c>>, [now EXCEPT !.got = @ + 1])
  /\ UNCHANGED open

SayArrayEnd ==
  /\ now.is \in Elements /\ now.got = now.total
  /\ Say(<<Cb(Innermost, "ArrayEnd", now.id, <<>>)>>, NoField)
  /\ UNCHANGED open

(* BeginSequence names the child that gets the nested scope: a visitor of   *)
(* its own, or none, and then nothing under it is reported.                *)
SaySequence ==
  /\ Between /\ Speaks
  /\ LET c     == New(1)
         child == c.args[1]
     IN  /\ c.to = Innermost /\ c.m = "BeginSequence"
         /\ Say(<<c>>, NoField)
         /\ IF child = 0 THEN UNCHANGED open
            ELSE /\ ~dead' /\ child \notin {open[d] : d \in DOMAIN open}
                 /\ open' = Append(open, child)

(* The scope that ends is the one opened last, and its own visitor hears. *)
SaySequenceEnd ==
  /\ Between /\ Len(open) > 1
  /\ Say(<<Cb(Innermost, "EndSequence", 0, <<>>)>>, NoField)
  /\ open' = SubSeq(open, 1, Len(open) - 1)

(* Malformed bytes end the decode anywhere, with no callback. *)
Abort == ~dead /\ dead' = TRUE /\ now' = NoField /\ UNCHANGED <<open, log>>

(* Reset binds a visitor for the next message. *)
Bind == /\ open' = <<open'[1]>> /\ now' = NoField /\ dead' = FALSE /\ log' = <<>>

ProtocolNext ==
  \/ SayScalar \/ SayFixlen \/ SayFloat \/ SayPiece
  \/ SayArrayBegin \/ SayElement \/ SayArrayEnd
  \/ SaySequence \/ SaySequenceEnd
  \/ Abort \/ Bind

ProtocolSpec == ProtocolInit /\ [][ProtocolNext]_protocol
=============================================================================
