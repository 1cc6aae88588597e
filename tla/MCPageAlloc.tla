---------------------------- MODULE MCPageAlloc -----------------------------
(***************************************************************************)
(* PageAlloc for TLC.  HeaderSize and EntrySize are the sizes of the two   *)
(* structures on x86-64, 40 and 24 bytes.                                  *)
(***************************************************************************)
EXTENDS PageAlloc
=============================================================================
