------------------------------- MODULE MCString -------------------------------
(***************************************************************************)
(* Two strings, blocks enough for each to grow, and a first buffer that is *)
(* full soon.                                                              *)
(***************************************************************************)
EXTENDS StringProperties

MCTexts == {<<>>, <<"a">>, <<"b", "a">>}
=============================================================================
