----------------------------- MODULE MCRingBuf ------------------------------
(***************************************************************************)
(* RingBuf for TLC.  Processes and values are model values of the .cfg     *)
(* files; processes of one role are interchangeable.                       *)
(***************************************************************************)
EXTENDS RingBuf, TLC

Roles == Permutations(Producers) \cup Permutations(Consumers)
RolesAndValues == Roles \cup Permutations(Values)
=============================================================================
