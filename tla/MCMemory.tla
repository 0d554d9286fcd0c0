----------------------------- MODULE MCMemory -----------------------------
(***************************************************************************)
(* A small instance of Memory for TLC: six pages of eight bytes and        *)
(* samples of four.  Of a copy of 8 bytes all pages are given back, of 20  *)
(* one of three, of 36 two of five.  Three mappings, so that one can be    *)
(* made where another was, beside what is left of it.                      *)
(***************************************************************************)
EXTENDS Memory

MCPageSize == 8
MCLastPage == 5
MCSampleSize == 4
MCSizes == {8, 20, 36}
MCMaxMappings == 3
=============================================================================
