----------------------------- MODULE PageAlloc ------------------------------
(***************************************************************************)
(* src/kt_alloc.c: the page allocator that carves the rings and the packet *)
(* pools out of the shared memory region.  Every page is booked three      *)
(* times: in the free mask, in the free flag of its list entry, and in the *)
(* count page_free; the first page of a block also has the block's length. *)
(*                                                                         *)
(* The allocator is called by one process.  An allocation still takes      *)
(* several steps here, one per iteration of its search loop, so that what  *)
(* the loop has established so far can be stated.                          *)
(***************************************************************************)
EXTENDS Integers, FiniteSets

CONSTANTS RegionSize,   \* bytes given to kt_page_allocator_make
          PageSize,     \* bytes of a page
          HeaderSize,   \* sizeof(struct kt_page_allocator)
          EntrySize,    \* sizeof(struct kt_page)
          Requests,     \* the sizes in bytes that callers ask for
          Unset         \* no result yet

-----------------------------------------------------------------------------
(***************************************************************************)
(* kt_page_allocator_init.  The loop sizes the list and the mask for one   *)
(* page more than it then counts, and gives up at one page.                *)
(***************************************************************************)
MetadataSize(k) == HeaderSize + k * EntrySize + k

Listed == CHOOSE k \in 0..(RegionSize \div PageSize) :
              /\ MetadataSize(k) <= RegionSize
              /\ \A j \in (k + 1)..(RegionSize \div PageSize) :
                     MetadataSize(j) > RegionSize
PageCount == Listed - 1

\* Where the mask and the pages start.  The size of the list, in bytes
\* already, is multiplied by the size of an entry.
MaskOffset == HeaderSize + (Listed * EntrySize) * EntrySize
DataOffset == ((MaskOffset + Listed + PageSize - 1) \div PageSize) * PageSize

Pages == 0..(PageCount - 1)

ASSUME AllocAssumption ==
    /\ PageSize \in Nat \ {0}
    /\ PageCount \in Nat \ {0}
    /\ Requests \subseteq Nat \ {0}
    /\ Unset \notin Int

VARIABLES
    mask,        \* free_pages_mask: 1 for a free page
    flag,        \* page_list[i].free
    reserved,    \* page_list[i].reserved
    page_free,   \* number of free pages
    stage,       \* "search" inside page_alloc_find_aligned_pages
    need,        \* pages_needed of the last call
    index,       \* where its search goes on
    ret,         \* what it returned: a page, Null, or Unset before that
    blocks       \* history: the blocks handed out and not yet freed

book == <<mask, flag, reserved, page_free>>
allocVars == <<book, stage, need, index, ret, blocks>>

Null == -1

AllocInit ==
    /\ mask = [i \in Pages |-> 1]
    /\ flag = [i \in Pages |-> 1]
    /\ reserved = [i \in Pages |-> 0]
    /\ page_free = PageCount
    /\ stage = "idle" /\ need = 1 /\ index = 0 /\ ret = Unset
    /\ blocks = {}

-----------------------------------------------------------------------------
PagesNeeded(size) == (size \div PageSize) + (IF size % PageSize = 0 THEN 0 ELSE 1)

\* The k entries reached from page i by following next, which is circular,
\* and the k bytes of the mask from i on, which are not.
Walk(i, k) == {(i + d) % PageCount : d \in 0..(k - 1)}
Span(i, k) == i..(i + k - 1)
Set(f, S, v) == [j \in Pages |-> IF j \in S THEN v ELSE f[j]]

\* page_alloc_search_first_free_page_from(index) finds page i.
FirstFree(i) == /\ index <= i /\ mask[i] = 1
                /\ \A j \in index..(i - 1) : mask[j] = 0

\* Mutant: only the range is tested.
FreeAtInRange(k) == k < PageCount

FreeAt(k) == k < PageCount /\ mask[k] = 1

\* page_alloc_alloc up to the search; with too few free pages it is over.
AllocStart(size) ==
    /\ stage = "idle"
    /\ need' = PagesNeeded(size)
    /\ index' = 0
    /\ IF page_free < need' THEN stage' = "idle" /\ ret' = Null
                            ELSE stage' = "search" /\ ret' = Unset
    /\ UNCHANGED <<book, blocks>>

\* Mutant: the search goes on behind the whole window it looked at.
SkipWindow(i, d) ==
    /\ stage = "search" /\ FirstFree(i)
    /\ ~FreeAt(i + d)
    /\ \A e \in 1..(d - 1) : FreeAt(i + e)
    /\ index' = i + need
    /\ UNCHANGED <<book, stage, need, ret, blocks>>

\* Mutant: the index is not advanced.
SkipStays(i, d) ==
    /\ stage = "search" /\ FirstFree(i)
    /\ ~FreeAt(i + d)
    /\ \A e \in 1..(d - 1) : FreeAt(i + e)
    /\ index' = i
    /\ UNCHANGED <<book, stage, need, ret, blocks>>

\* One round of the search ends at page i + d, which is taken or none at all.
SearchSkip(i, d) ==
    /\ stage = "search" /\ FirstFree(i)
    /\ ~FreeAt(i + d)
    /\ \A e \in 1..(d - 1) : FreeAt(i + e)
    /\ index' = i + d
    /\ UNCHANGED <<book, stage, need, ret, blocks>>

\* No free page is left to start from.
SearchFail ==
    /\ stage = "search"
    /\ \A i \in index..(PageCount - 1) : mask[i] = 0
    /\ stage' = "idle" /\ ret' = Null
    /\ UNCHANGED <<book, need, index, blocks>>

\* The round finds enough free pages, and the block is booked.
AllocTake(i) ==
    /\ stage = "search" /\ FirstFree(i)
    /\ \A e \in 1..(need - 1) : FreeAt(i + e)
    /\ reserved' = [reserved EXCEPT ![i] = need]
    /\ flag' = Set(flag, Walk(i, need), 0)
    /\ mask' = Set(mask, Span(i, need), 0)
    /\ page_free' = page_free - need
    /\ stage' = "idle" /\ index' = i /\ ret' = i
    /\ blocks' = blocks \cup {[at |-> i, len |-> need]}
    /\ UNCHANGED need

\* Mutant: reserved is reset before the mask is set by it.
FreeResetsFirst(p) ==
    /\ stage = "idle"
    /\ flag[p] = 0 /\ \E b \in blocks : b.at = p
    /\ flag' = Set(flag, {p} \cup Walk(p, reserved[p]), 1)
    /\ page_free' = page_free + reserved[p]
    /\ reserved' = [reserved EXCEPT ![p] = 0]
    /\ mask' = Set(mask, Span(p, reserved'[p]), 1)
    /\ blocks' = {b \in blocks : b.at # p}
    /\ ret' = Unset
    /\ UNCHANGED <<stage, need, index>>

\* Mutant: page_free is not restored.
FreeUncounted(p) ==
    /\ stage = "idle"
    /\ flag[p] = 0 /\ \E b \in blocks : b.at = p
    /\ flag' = Set(flag, {p} \cup Walk(p, reserved[p]), 1)
    /\ mask' = Set(mask, Span(p, reserved[p]), 1)
    /\ reserved' = [reserved EXCEPT ![p] = 0]
    /\ blocks' = {b \in blocks : b.at # p}
    /\ ret' = Unset
    /\ UNCHANGED <<page_free, stage, need, index>>

\* page_alloc_free of a block in use.  The call returns at once, and changes
\* nothing, when the page is free: a second free is a stuttering step.
Free(p) ==
    /\ stage = "idle"
    /\ flag[p] = 0 /\ \E b \in blocks : b.at = p
    /\ flag' = Set(flag, {p} \cup Walk(p, reserved[p]), 1)
    /\ page_free' = page_free + reserved[p]
    /\ mask' = Set(mask, Span(p, reserved[p]), 1)
    /\ reserved' = [reserved EXCEPT ![p] = 0]
    /\ blocks' = {b \in blocks : b.at # p}
    /\ ret' = Unset
    /\ UNCHANGED <<stage, need, index>>

Search == \/ SearchFail
          \/ \E i \in Pages : AllocTake(i) \/ \E d \in 1..(need - 1) : SearchSkip(i, d)
AllocNext == \/ Search
             \/ \E size \in Requests : AllocStart(size)
             \/ \E p \in Pages : Free(p)

AllocSpec == AllocInit /\ [][AllocNext]_allocVars

\* A call that searches goes on doing so.
AllocFairSpec == AllocSpec /\ WF_allocVars(Search)

-----------------------------------------------------------------------------
Block == [at : Pages, len : 1..PageCount]
Covered(b, i) == b.at <= i /\ i < b.at + b.len

\* Every variable has its type.
AllocTypeOK ==
    /\ mask \in [Pages -> {0, 1}] /\ flag \in [Pages -> {0, 1}]
    /\ reserved \in [Pages -> 0..PageCount]
    /\ page_free \in Int
    /\ stage \in {"idle", "search"}
    /\ need \in Nat \ {0} /\ index \in Nat
    /\ ret \in Pages \cup {Null, Unset}
    /\ blocks \subseteq Block

\* No page is handed out twice: the blocks in use do not overlap, and none
\* runs past the last page of the list.
BlocksApart ==
    /\ \A b \in blocks : b.at + b.len <= PageCount
    /\ \A b, c \in blocks : b # c => b.at + b.len <= c.at \/ c.at + c.len <= b.at

\* The mask, the flags and the reserved lengths tell the same story: a page
\* is taken exactly if a block in use covers it, and the length a later free
\* goes by is that of the block which starts there.
BookExact ==
    /\ \A i \in Pages : mask[i] = 0 <=> \E b \in blocks : Covered(b, i)
    /\ flag = mask
    /\ \A b \in blocks : reserved[b.at] = b.len

\* page_free, by which page_alloc_alloc refuses a request before it searches,
\* is the number of free pages.
PageFreeExact == page_free = Cardinality({i \in Pages : mask[i] = 1})

Room(i, k) == \A d \in 0..(k - 1) : FreeAt(i + d)

\* An allocation fails only if there is no run of free pages long enough:
\* neither the test of page_free nor the skipping in the search loop misses
\* one.
NullMeansNoRoom == ret = Null => \A i \in Pages : ~Room(i, need)

\* What the search loop keeps true: no run that starts before index has room.
SearchInv ==
    stage = "search" => /\ index <= PageCount
                        /\ \A i \in 0..(index - 1) : ~Room(i, need)

\* The inductive invariant: the books, and what the search has ruled out.
AllocInv == /\ AllocTypeOK /\ BlocksApart /\ BookExact /\ PageFreeExact
            /\ SearchInv /\ NullMeansNoRoom

TakesEarliest == \A b \in blocks' \ blocks :
                     \A i \in 0..(b.at - 1) : ~Room(i, b.len)

\* page_alloc_alloc places a block in the first run that has room for it.
FirstFit == [][TakesEarliest]_allocVars

\* Every call of page_alloc_alloc returns.
AllocReturns == stage = "search" ~> stage = "idle"

\* kt_alloc.c:109 says of the page found that it is one "in the memory managed
\* by the page allocator".
BlocksInRegion ==
    \A b \in blocks : DataOffset + (b.at + b.len) * PageSize <= RegionSize
=============================================================================
