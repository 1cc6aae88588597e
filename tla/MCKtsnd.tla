------------------------------ MODULE MCKtsnd -------------------------------
(***************************************************************************)
(* Ktsnd for TLC.  An i64 is five bits wide here and the clock shows 0..3; *)
(* a txtime of 16 is the one whose difference to the clock wraps, 31 is    *)
(* one before time 0.                                                      *)
(***************************************************************************)
EXTENDS Ktsnd, TLC

Threads == Permutations(Senders)
=============================================================================
