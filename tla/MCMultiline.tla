---------------------------- MODULE MCMultiline ----------------------------
(***************************************************************************)
(* Characters for model-checking Multiline.                                *)
(***************************************************************************)
EXTENDS Multiline

Blank   == <<32>>
NoBreak == <<194, 160>>       \* U+00A0
EnQuad  == <<226, 128, 128>>  \* U+2000
EmQuad  == <<226, 128, 129>>  \* U+2001

\* Spaces of two lengths, no two characters with the same first byte.
MCSpaces  == {Blank, NoBreak}
MCBreaks  == {<<10>>, <<13>>}
MCVisible == {<<97>>}

\* Spaces that begin with the same bytes.
AlikeSpaces == {EnQuad, EmQuad}

=============================================================================
