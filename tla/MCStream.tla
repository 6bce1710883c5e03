------------------------------ MODULE MCStream ------------------------------
(***************************************************************************)
(* An 8-bit varint, whose second byte has room for more than the one bit   *)
(* left, and a bitset of nine, with every value of either.  Bytes of other *)
(* origin are of few forms, in runs longer than either kind may take.      *)
(***************************************************************************)
EXTENDS Stream, SequencesExt

MCBits  == 8
MCSize  == 9
MCWords == SUBSET (0..7)
MCFlags == SUBSET (0..8)

Plain(b) == [bits |-> b, more |-> FALSE]
More(b)  == [bits |-> b, more |-> TRUE]

\* Nothing, or a byte that would go on into the item.
MCFrames == {<<>>, <<More({0, 3})>>}

MCForeign ==
  SeqOf({Plain({}), Plain({0}), Plain({0, 6}), Plain({1, 2}), More({}), More({0, 6}), More({2})}, 3)
=============================================================================
