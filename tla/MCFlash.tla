------------------------------ MODULE MCFlash ------------------------------
(***************************************************************************)
(* Flash with three pages of one word, the last of them protected: a write *)
(* of two words goes over two pages, and one access of a load is dropped.  *)
(***************************************************************************)
EXTENDS Flash

MCProtected == {Pages - 1}
=============================================================================
