------------------------------- MODULE MCNbt --------------------------------
(***************************************************************************)
(* Small trees for TLC: two names, and one tag of each type to give a      *)
(* call, with an empty list of a type of its own.                          *)
(***************************************************************************)
EXTENDS Nbt

CONSTANT MaxFrame      (* how long the frames of another origin are        *)

MCNames == {1, 2}
MCArguments ==
  {EndTag, Tag(Value, 1), Tag(Bytes, <<1>>), ListOf(Value), EmptyCompound}

\* Whatever may follow the head of an item, and frames with another head.
MCFrames ==
  {<<Compound, 0>> \o f : f \in UNION {[1..n -> 0 .. (Base - 1)] : n \in 0..MaxFrame}} \cup
  UNION {[1..n -> 0 .. (Base - 1)] : n \in 0..2}
=============================================================================
