------------------------------ MODULE MCFileIO -------------------------------
(***************************************************************************)
(* FileIO for TLC: texts with two different characters, the longest of     *)
(* which copy_in may cut to one sector or to none.                         *)
(***************************************************************************)
EXTENDS FileIO

SmallTexts == {<<>>, <<"a">>, <<"b", "a">>, <<"a", "b", "b", "a">>}
SmallSeekOffsets == {-4, -1, 0, 1, 4, 8}
SmallMinPosition == -6
=============================================================================
