------------------------------- MODULE Limits -------------------------------
(***************************************************************************)
(* limits.go and utf8.go: the options a decode or an encode is opened      *)
(* with, the limits they fold into, and the string check a destination     *)
(* holds.                                                                  *)
(***************************************************************************)
EXTENDS Integers, Sequences

CONSTANTS
  StrictUTF8Compiled,        \* strictUTF8Compiled: FALSE in a sofab_no_strict_utf8 build
  WellFormed(_)              \* utf8.Valid, of a sequence of bytes

ASSUME LimitsAssumption == StrictUTF8Compiled \in BOOLEAN

Default == [strictUTF8 |-> TRUE, maxDepth |-> 0]

WithMaxDepth(n) == [sets |-> "maxDepth", to |-> n]
WithStrictUTF8(b) == [sets |-> "strictUTF8", to |-> b]
Option == [sets : {"maxDepth"}, to : Int] \cup [sets : {"strictUTF8"}, to : BOOLEAN]

(* newLimits: the options one after the other, over the defaults. *)
NewLimits(opts) ==
  LET l[k \in 0 .. Len(opts)] ==
        IF k = 0 THEN Default ELSE [l[k - 1] EXCEPT ![opts[k].sets] = opts[k].to]
  IN  l[Len(opts)]

(* The encoder's bound: the option's, where it is one the format allows. *)
DepthBound(l, maxDepth) == IF l.maxDepth \in 1 .. maxDepth THEN l.maxDepth ELSE maxDepth

StrictUTF8On(l) == StrictUTF8Compiled /\ l.strictUTF8

(* The policy a destination holds; its zero value is the strict one. *)
ZeroCheck == [waived |-> FALSE]
StringCheck(l) == [waived |-> ~l.strictUTF8]

(* StringCheck.UTF8Valid *)
UTF8Valid(check, bytes) == ~StrictUTF8Compiled \/ check.waived \/ WellFormed(bytes)
=============================================================================
