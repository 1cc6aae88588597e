----------------------------- MODULE MCTsnPerf ------------------------------
(***************************************************************************)
(* TsnPerf for TLC: a second is two units long, and the two subnets        *)
(* overlap, so that the order of the interfaces matters.                   *)
(***************************************************************************)
EXTENDS TsnPerf

Subnets == {{1}, {1, 2}}
=============================================================================
