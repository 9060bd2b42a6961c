---------------------------- MODULE MCListPaging -----------------------------
(***************************************************************************)
(* A small instance of ListPaging for TLC.                                 *)
(***************************************************************************)
EXTENDS ListPaging, TLC

\* Refused, clamped from either side, and over the size of a page.
Limits == {-1, 0, 2, 3}
=============================================================================
