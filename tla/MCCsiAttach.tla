---------------------------- MODULE MCCsiAttach -----------------------------
(* CsiAttach for TLC.                                                      *)
EXTENDS CsiAttach, TLC
=============================================================================
