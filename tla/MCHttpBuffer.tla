---------------------------- MODULE MCHttpBuffer ----------------------------
(* Two pages of two bytes for a source of three: the last page is short    *)
(* and is the tail, and one of the ranges asked for begins inside a page.  *)
EXTENDS HttpBuffer

SomeRanges == {<<2, 1>>, <<1, 2>>}
=============================================================================
