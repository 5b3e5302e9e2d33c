------------------------------- MODULE MCMiny -------------------------------
(***************************************************************************)
(* Seven values, for pointers of two bytes: one smaller, two of a word, one *)
(* too large, and of no size with an alignment of one byte, a word and     *)
(* more than a word.                                                       *)
(***************************************************************************)
EXTENDS Miny

MCValues == 1 .. 7

Of(size, align) == [size |-> size, align |-> align]

MCLayoutOf ==
  <<Of(1, 1), Of(2, 2), Of(2, 2), Of(4, 2), Of(0, 1), Of(0, 2), Of(0, 4)>>
=============================================================================
