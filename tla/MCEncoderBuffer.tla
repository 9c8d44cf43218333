--------------------------- MODULE MCEncoderBuffer ---------------------------
(***************************************************************************)
(* EncoderBuffer with the indentations that differ: dumps takes -1 and 0   *)
(* for no line breaks.                                                     *)
(***************************************************************************)
EXTENDS EncoderBuffer

MCIndents == {-1, 0, 2}
==============================================================================
