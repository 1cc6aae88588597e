------------------------------ MODULE MCMemory ------------------------------
(***************************************************************************)
(* SharedMem and PageAlloc for TLC.  The pages are allocated in the data   *)
(* memory by the one daemon that builds in it, between two steps of        *)
(* SharedMem, so the two do not interleave; each behaviour is one of the   *)
(* first or one of the second.  HeaderSize and EntrySize are the sizes of  *)
(* the two structures on x86-64, 40 and 24 bytes.                          *)
(***************************************************************************)
EXTENDS SharedMem, PageAlloc

VARIABLE part        \* which of the two this behaviour is of

memVars == <<vars, allocVars, part>>

MemInit == Init /\ AllocInit /\ part \in {"objects", "pages"}

Objects(A) == part = "objects" /\ A /\ UNCHANGED <<allocVars, part>>
PagesOf(A) == part = "pages" /\ A /\ UNCHANGED <<vars, part>>

MemNext == Objects(Next) \/ PagesOf(AllocNext)

MemSpec == /\ MemInit /\ [][MemNext]_memVars
           /\ \A d \in Daemons : WF_memVars(Objects(DaemonStep(d)))
           /\ WF_memVars(PagesOf(Search))
=============================================================================
