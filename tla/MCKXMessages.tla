---------------------------- MODULE MCKXMessages ----------------------------
(***************************************************************************)
(* Messages of less than, exactly and more than one fragment of two bytes, *)
(* and one with an embedded NUL.                                           *)
(***************************************************************************)
EXTENDS KXMessages

MCMessages == {<<1>>, <<2, 1>>, <<3, 2, 1>>, <<4, NUL, 1>>}
=============================================================================
