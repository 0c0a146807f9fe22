------------------------------- MODULE Kheap -------------------------------
(***************************************************************************)
(* The kernel heap, src/kernel/src/kheap.c.                                *)
(*                                                                         *)
(* heap maps the address of every block header to its fields.  The code    *)
(* finds blocks by walking cur + cur->size from heap_start to heap_end;    *)
(* Tiling says that this walk visits exactly DOMAIN heap in address order, *)
(* which is why a walk is a quantifier over DOMAIN heap here.              *)
(*                                                                         *)
(* The frames behind the heap come from pmm.c through vmm.c.  A call of    *)
(* kheap_map_region backs any number of the pages it was asked for: fewer  *)
(* than all when the PMM has run out, which the code does not report.      *)
(* Touching a header on a page that was never backed ends the behaviour in *)
(* the "wild" state: what the code reads and writes there is not its own.  *)
(***************************************************************************)
EXTENDS Integers, FiniteSets

CONSTANTS
    Start,        \* KHEAP_START
    InitialSize,  \* KHEAP_INITIAL_SIZE
    MaxSize,      \* KHEAP_MAX_SIZE
    PageSize,     \* PMM_PAGE_SIZE
    HeaderSize,   \* HEADER_SIZE
    MinBlock,     \* KHEAP_MIN_BLOCK
    Align,        \* 8
    Sizes         \* sizes passed to kmalloc

ASSUME KheapConstants ==
    /\ Start \in Nat /\ InitialSize \in Nat /\ MaxSize \in Nat
    /\ PageSize \in Nat \ {0} /\ Align \in Nat \ {0}
    /\ HeaderSize \in Nat \ {0} /\ MinBlock \in Nat
    /\ HeaderSize < MinBlock /\ HeaderSize <= PageSize
    /\ MinBlock <= PageSize /\ PageSize <= InitialSize /\ InitialSize <= MaxSize
    /\ Start % PageSize = 0 /\ InitialSize % PageSize = 0
    /\ PageSize % Align = 0 /\ HeaderSize % Align = 0 /\ MinBlock % Align = 0
    /\ Sizes \subseteq Nat

VARIABLES
    heap,         \* header address -> [size, free]
    heap_end,
    backed,       \* numbers of the heap pages that own a frame
    pc,           \* "idle", "search" (in kmalloc) or "wild"
    want,         \* argument of the kmalloc in progress
    total,        \* its local variable total
    expanded,     \* history: this kmalloc has already expanded the heap
    live          \* history: pointer handed out -> size requested

vars == <<heap, heap_end, backed, pc, want, total, expanded, live>>

Block == [size : Nat, free : BOOLEAN]

AlignUp(x, a) == ((x + a - 1) \div a) * a

\* The pages of the bytes lo .. hi - 1.
Pages(lo, hi) == (lo \div PageSize) .. ((hi - 1) \div PageSize)
HeaderBacked(b) == Pages(b, b + HeaderSize) \subseteq backed

TypeOK ==
    /\ DOMAIN heap \subseteq Nat
    /\ heap \in [DOMAIN heap -> Block]
    /\ heap_end \in Nat
    /\ backed \subseteq Nat
    /\ pc \in {"idle", "search", "wild"}
    /\ want \in Nat /\ total \in Nat
    /\ expanded \in BOOLEAN
    /\ DOMAIN live \subseteq Nat
    /\ live \in [DOMAIN live -> Nat]

\* kheap_init: the initial region is one free block.  The boot sequence calls it
\* with almost all of RAM free, so that all its pages are backed.
Init ==
    /\ heap = [b \in {Start} |-> [size |-> InitialSize, free |-> TRUE]]
    /\ heap_end = Start + InitialSize
    /\ backed = Pages(Start, Start + InitialSize)
    /\ pc = "idle"
    /\ want = 0 /\ total = 0 /\ expanded = FALSE
    /\ live = [p \in {} |-> 0]

(***************************************************************************)
(* kmalloc.                                                                *)
(***************************************************************************)

\* Fault: no room for the header.
BlockTotal_no_header(size) ==
    LET aligned == AlignUp(size, Align)
    IN  IF aligned < MinBlock THEN MinBlock ELSE aligned
BlockTotal(size) ==
    LET aligned == AlignUp(size + HeaderSize, Align)
    IN  IF aligned < MinBlock THEN MinBlock ELSE aligned

\* kmalloc(0) is NULL.
kmalloc_zero ==
    /\ pc = "idle"
    /\ UNCHANGED vars

\* The locals of kmalloc end with the call.
Return ==
    /\ pc' = "idle"
    /\ want' = 0 /\ total' = 0 /\ expanded' = FALSE

kmalloc(size) ==
    /\ pc = "idle"
    /\ size # 0
    /\ pc' = "search"
    /\ want' = size
    /\ total' = BlockTotal(size)
    /\ expanded' = FALSE
    /\ UNCHANGED <<heap, heap_end, backed, live>>

Fits(b) == heap[b].free /\ heap[b].size >= total
FirstFit(b) == Fits(b) /\ \A c \in DOMAIN heap : Fits(c) => b <= c

\* Fault: any remainder is split off.
Splits_any(b) == heap[b].size > total
\* The remainder becomes a block of its own when it is large enough.
Splits(b) == heap[b].size >= total + MinBlock

\* Fault: the subtraction of the split is the wrong way round.
Rest_swapped(b) == total - heap[b].size
Rest(b) == heap[b].size - total

Taken(b) ==
    IF Splits(b)
    THEN [c \in DOMAIN heap \cup {b + total} |->
            CASE c = b         -> [size |-> total, free |-> FALSE]
              [] c = b + total -> [size |-> Rest(b), free |-> TRUE]
              [] OTHER         -> heap[c]]
    ELSE [heap EXCEPT ![b].free = FALSE]

\* First fit: the walk stops at the first free block that is large enough.
kmalloc_found(b) ==
    /\ pc = "search"
    /\ FirstFit(b)
    /\ IF Splits(b) /\ ~HeaderBacked(b + total)
       THEN /\ pc' = "wild"
            /\ UNCHANGED <<heap, live, want, total, expanded>>
       ELSE /\ Return
            /\ heap' = Taken(b)
            /\ live' = [p \in DOMAIN live \cup {b + HeaderSize} |->
                          IF p = b + HeaderSize THEN want ELSE live[p]]
    /\ UNCHANGED <<heap_end, backed>>

\* Fault: the heap always grows by a single page.
Expansion_one_page == PageSize
\* kheap_expand(total).
Expansion ==
    LET e == AlignUp(total, PageSize) IN IF e < PageSize THEN PageSize ELSE e
AtLimit == heap_end + Expansion > Start + MaxSize

NoFit == \A b \in DOMAIN heap : ~Fits(b)

\* The limit is reached: kmalloc returns NULL.
kmalloc_fail ==
    /\ pc = "search"
    /\ NoFit
    /\ AtLimit
    /\ Return
    /\ UNCHANGED <<heap, heap_end, backed, live>>

\* Faults: the new block is never merged; it is merged into an allocated block.
Grown_unmerged ==
    [b \in DOMAIN heap \cup {heap_end} |->
        IF b = heap_end THEN [size |-> Expansion, free |-> TRUE] ELSE heap[b]]
Grown_into_allocated ==
    [b \in DOMAIN heap |->
        IF b + heap[b].size = heap_end
        THEN [heap[b] EXCEPT !.size = @ + Expansion] ELSE heap[b]]

\* A new free block at the old end, merged with the last block if that is free.
Grown ==
    LET last == {b \in DOMAIN heap : heap[b].free /\ b + heap[b].size = heap_end}
    IN  IF last # {}
        THEN [b \in DOMAIN heap |->
                IF b \in last THEN [heap[b] EXCEPT !.size = @ + Expansion] ELSE heap[b]]
        ELSE [b \in DOMAIN heap \cup {heap_end} |->
                IF b = heap_end THEN [size |-> Expansion, free |-> TRUE] ELSE heap[b]]

\* n pages of the expansion are backed before the PMM runs out.
kmalloc_expand(n) ==
    /\ pc = "search"
    /\ NoFit
    /\ ~AtLimit
    /\ backed' = backed \cup (heap_end \div PageSize .. heap_end \div PageSize + n - 1)
    /\ IF n = 0
       THEN /\ pc' = "wild"
            /\ UNCHANGED <<heap, heap_end, expanded>>
       ELSE /\ heap' = Grown
            /\ heap_end' = heap_end + Expansion
            /\ expanded' = TRUE
            /\ pc' = pc
    /\ UNCHANGED <<want, total, live>>

(***************************************************************************)
(* kfree.                                                                  *)
(***************************************************************************)

kfree_null ==
    /\ pc = "idle"
    /\ UNCHANGED vars

\* The linear walk merges every run of adjacent free blocks into its first one.
\* Blocks of h that survive it:
Heads(h) ==
    {b \in DOMAIN h :
        ~(h[b].free /\ \E a \in DOMAIN h : h[a].free /\ a + h[a].size = b)}
\* A survivor then reaches up to the next survivor, or to the end of the heap.
IsEnd(h, b, e) ==
    /\ e \in Heads(h) \cup {heap_end} /\ e > b
    /\ \A d \in Heads(h) \cup {heap_end} : d > b => e <= d
\* Fault: kfree does not coalesce.
Coalesced_never(h) == h
Coalesced(h) ==
    [b \in Heads(h) |->
        [size |-> (CHOOSE e \in Heads(h) \cup {heap_end} : IsEnd(h, b, e)) - b,
         free |-> h[b].free]]

\* Callers free what kmalloc gave them, once.
kfree(ptr) ==
    /\ pc = "idle"
    /\ heap' = Coalesced([heap EXCEPT ![ptr - HeaderSize].free = TRUE])
    /\ live' = [p \in DOMAIN live \ {ptr} |-> live[p]]
    /\ UNCHANGED <<heap_end, backed, pc, want, total, expanded>>

\* A wild access faults, or worse: nothing after it is modelled.
Wild == pc = "wild" /\ UNCHANGED vars

KmallocStep ==
    \/ \E b \in DOMAIN heap : kmalloc_found(b)
    \/ kmalloc_fail
    \/ \E n \in 0 .. Expansion \div PageSize : kmalloc_expand(n)

Next ==
    \/ kmalloc_zero
    \/ \E size \in Sizes : kmalloc(size)
    \/ KmallocStep
    \/ kfree_null
    \/ \E ptr \in DOMAIN live : kfree(ptr)
    \/ Wild

Spec == Init /\ [][Next]_vars

(***************************************************************************)
(* Properties.                                                             *)
(***************************************************************************)

Tiled(h, end) ==
    /\ Start \in DOMAIN h
    /\ \A b \in DOMAIN h :
          /\ b >= Start
          /\ h[b].size >= MinBlock
          /\ b + h[b].size \in DOMAIN h \cup {end}
          /\ b + h[b].size <= end
    /\ \A b, c \in DOMAIN h : b < c => b + h[b].size <= c

\* The headers tile the heap: walking cur + cur->size from heap_start reaches
\* every header and stops exactly at heap_end, whatever was split, merged and
\* expanded before.
Tiling == Tiled(heap, heap_end)

\* kfree and kheap_expand leave no two adjacent free blocks behind, and
\* splitting in kmalloc creates none.
NoAdjacentFree ==
    \A b, c \in DOMAIN heap :
        heap[b].free /\ heap[c].free => b + heap[b].size # c

\* The allocated blocks are exactly the ones callers still hold, and each has
\* room for the size requested: none is lost, shared, or cut short by a later
\* split, merge or expansion.
LiveExact ==
    /\ \A p \in DOMAIN live :
          /\ p - HeaderSize \in DOMAIN heap
          /\ ~heap[p - HeaderSize].free
          /\ heap[p - HeaderSize].size >= live[p] + HeaderSize
    /\ \A b \in DOMAIN heap : ~heap[b].free => b + HeaderSize \in DOMAIN live

\* Every pointer kmalloc returns is aligned (F-008 AC-2).
PointersAligned == \A p \in DOMAIN live : p % Align = 0

\* Once everything has been freed the heap is one free block again: no
\* sequence of calls fragments it for good.
FreedHeapIsOneBlock ==
    DOMAIN live = {} => heap = [b \in {Start} |-> [size |-> heap_end - Start, free |-> TRUE]]

\* The goto retry of kmalloc is taken at most once per call: after an
\* expansion the search always succeeds.
RetrySucceeds == pc = "search" /\ expanded => ~NoFit

\* No call changes the header of a block that another caller holds.
HeldBlocksUntouched ==
    [][\A p \in DOMAIN live :
          p \in DOMAIN live' => heap'[p - HeaderSize] = heap[p - HeaderSize]]_vars

\* Memory kmalloc hands out is backed by frames of the heap ("a usable memory
\* block of at least that size", F-008 AC-2).
LiveBacked ==
    \A p \in DOMAIN live : Pages(p, p + live[p]) \subseteq backed

=============================================================================
