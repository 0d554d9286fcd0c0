----------------------------- MODULE MCTokenize -----------------------------
(***************************************************************************)
(* A small instance of Tokenize for TLC: every string of up to seven       *)
(* characters, so three tokens with separators in front, between, doubled  *)
(* and behind them.                                                        *)
(***************************************************************************)
EXTENDS Tokenize

MCMaxLength == 7
=============================================================================
