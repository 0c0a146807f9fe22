-------------------------------- MODULE Vmm ---------------------------------
(***************************************************************************)
(* The page tables of src/kernel/src/vmm.c, their callers, and the TLB.    *)
(*                                                                         *)
(* table[f] is what frame f holds when it is read as a page table.  The    *)
(* walk of vmm_map_page is one step per level, the three levels that the   *)
(* code writes out being alike; the processor may fill or drop a TLB entry *)
(* between any two steps.  Nothing gives frames back, so that the          *)
(* first-fit allocator of pmm.c hands them out in increasing order.        *)
(*                                                                         *)
(* The callers: vmm_init maps the identity pages, kheap_map_region a heap  *)
(* page, load_segment an image page and invalidates it, handle_exec and    *)
(* usermode_exec_elf a stack page.  vmm_unmap_page may be called for any   *)
(* user page.                                                              *)
(***************************************************************************)
EXTENDS Integers, FiniteSets

CONSTANTS
    Fanout,         \* entries of a page table, 512
    MaxFrames,      \* PMM_MAX_FRAMES
    FirstFree,      \* first frame above the kernel image
    RamSizes,       \* the memory sizes considered, in frames
    IdentityEnd,    \* vmm_init maps the pages below this one to themselves
    HeapPages, ImagePages, StackPages,
    TlbSize         \* bound on the translations cached at a time

Level == 1 .. 4     \* 4 the PML4, 3 a PDPT, 2 a PD, 1 a PT
Page == (0 .. IdentityEnd - 1) \cup HeapPages \cup ImagePages \cup StackPages
UserPages == ImagePages \cup StackPages
Frame == 0 .. MaxFrames - 1

\* PML4_INDEX, PDPT_INDEX, PD_INDEX and PT_INDEX.
Weight == <<1, Fanout, Fanout * Fanout, Fanout * Fanout * Fanout>>
Index(v, l) == (v \div Weight[l]) % Fanout

ASSUME VmmConstants ==
    /\ Fanout \in Nat \ {0} /\ FirstFree \in Nat \ {0} /\ IdentityEnd \in Nat \ {0}
    /\ MaxFrames \in Nat /\ IdentityEnd <= MaxFrames
    /\ RamSizes \subseteq 0 .. MaxFrames
    /\ HeapPages \cup UserPages \subseteq Nat
    /\ UserPages \cap (HeapPages \cup 0 .. IdentityEnd - 1) = {}
    /\ ImagePages \cap StackPages = {}

\* Virtual addresses have no bits above the four indices.
ASSUME IndexInjective ==
    \A v, w \in Page : (\A l \in Level : Index(v, l) = Index(w, l)) => v = w

Flags == {"PRESENT", "WRITE", "USER"}
KernelFlags == {"PRESENT", "WRITE"}
Entry == [frame : Frame, flags : SUBSET Flags]
Empty == [frame |-> 0, flags |-> {}]
\* What a frame that is not yet a table may hold.
Garbage == [frame |-> 0, flags |-> Flags]

Present(e) == "PRESENT" \in e.flags

VARIABLES
    free,       \* frames of the pool
    pml4,       \* the root table, 0 before vmm_init
    table,
    cr3,        \* have the tables been loaded?
    call,       \* the call in progress
    cur, lvl,   \* the table its walk has reached and that table's level
    tlb,
    covers      \* history: which pages each table translates, at which level

vars == <<free, pml4, table, cr3, call, cur, lvl, tlb, covers>>

\* The pages whose walk reaches the same table as v at level l.
Span(v, l) == {w \in Page : \A k \in l + 1 .. 4 : Index(w, k) = Index(v, k)}
NoTable == [level |-> 0, pages |-> {}]

Call == [by : {"nobody", "vmm_init", "vmm_init_next", "map", "map_invlpg", "invlpg", "unmap"},
         page : Page, to : Entry]
Idle == [by |-> "nobody", page |-> 0, to |-> Empty]

TypeOK ==
    /\ free \subseteq Frame \ {0}
    /\ pml4 \in Frame
    /\ table \in [Frame -> [0 .. Fanout - 1 -> Entry]]
    /\ cr3 \in BOOLEAN
    /\ call \in Call
    /\ cur \in Frame /\ lvl \in Level
    /\ tlb \in [Page -> Entry]
    /\ covers \in [Frame -> [level : 0 .. 4, pages : SUBSET Page]]

Init ==
    /\ \E n \in RamSizes : free = FirstFree .. n - 1
    /\ pml4 = 0 /\ cur = 0 /\ lvl = 4
    /\ table = [f \in Frame |-> [i \in 0 .. Fanout - 1 |-> Garbage]]
    /\ cr3 = FALSE
    /\ call = Idle
    /\ tlb = [v \in Page |-> Empty]
    /\ covers = [f \in Frame |-> NoTable]

\* pmm_alloc_frame.
FirstFit(f) == f \in free /\ \A g \in free : f <= g

(***************************************************************************)
(* The processor.                                                          *)
(***************************************************************************)

\* The translation of v: all four entries present, the rights those of all four.
Translate(v) ==
    LET e4 == table[pml4][Index(v, 4)]
        e3 == table[e4.frame][Index(v, 3)]
        e2 == table[e3.frame][Index(v, 2)]
        e1 == table[e2.frame][Index(v, 1)]
    IN  IF pml4 # 0 /\ Present(e4) /\ Present(e3) /\ Present(e2) /\ Present(e1)
        THEN [frame |-> e1.frame, flags |-> e4.flags \cap e3.flags \cap e2.flags \cap e1.flags]
        ELSE Empty

tlb_fill(v) ==
    /\ cr3
    /\ Present(Translate(v))
    /\ Cardinality({w \in Page \ {v} : Present(tlb[w])}) < TlbSize
    /\ tlb' = [tlb EXCEPT ![v] = Translate(v)]
    /\ UNCHANGED <<free, pml4, table, cr3, call, cur, lvl, covers>>

tlb_evict(v) ==
    /\ Present(tlb[v])
    /\ tlb' = [tlb EXCEPT ![v] = Empty]
    /\ UNCHANGED <<free, pml4, table, cr3, call, cur, lvl, covers>>

(***************************************************************************)
(* The walk of vmm_map_page and vmm_unmap_page.                            *)
(***************************************************************************)

Mapping == call.by \in {"vmm_init", "map", "map_invlpg"}
Slot == Index(call.page, lvl)
Here == table[cur][Slot]

\* Start the walk for a call at the root.
Start(by, v, to) ==
    /\ call' = [by |-> by, page |-> v, to |-> to]
    /\ cur' = pml4 /\ lvl' = 4

\* Fault: the tables above the leaf never carry USER.
Intermediate_kernel == KernelFlags

\* "Intermediate entries must carry USER if the leaf does (x86 AND logic)."
Intermediate == KernelFlags \cup (call.to.flags \cap {"USER"})

\* alloc_table clears the new table.
ZeroTable == [i \in 0 .. Fanout - 1 |-> Empty]

\* Fault: the walk does not stop at the last level.
Inner_all == lvl >= 1

\* The levels above the leaf.
Inner == lvl > 1

\* The entry is present: its flags are widened and the walk goes down.
vmm_map_page_down ==
    /\ Mapping /\ Inner /\ Present(Here)
    /\ table' = [table EXCEPT ![cur][Slot].flags = @ \cup Intermediate]
    /\ cur' = Here.frame /\ lvl' = lvl - 1
    /\ UNCHANGED <<free, pml4, cr3, call, tlb, covers>>

vmm_map_page_table ==
    /\ Mapping /\ Inner /\ ~Present(Here)
    /\ \E f \in free :
          /\ FirstFit(f)
          /\ free' = free \ {f}
          /\ table' = [table EXCEPT ![f] = ZeroTable,
                                    ![cur][Slot] = [frame |-> f, flags |-> Intermediate]]
          /\ covers' = [covers EXCEPT ![f] = [level |-> lvl - 1,
                                              pages |-> Span(call.page, lvl - 1)]]
          /\ cur' = f
    /\ lvl' = lvl - 1
    /\ UNCHANGED <<pml4, cr3, call, tlb>>

\* Back in the caller.
Return ==
    call' = CASE call.by = "vmm_init"   -> [call EXCEPT !.by = "vmm_init_next"]
              [] call.by = "map_invlpg" -> [call EXCEPT !.by = "invlpg"]
              [] OTHER                  -> Idle

\* No frame for a table: vmm_map_page returns without having mapped the page.
vmm_map_page_none ==
    /\ Mapping /\ Inner /\ ~Present(Here)
    /\ free = {}
    /\ Return
    /\ UNCHANGED <<free, pml4, table, cr3, cur, lvl, tlb, covers>>

vmm_map_page_leaf ==
    /\ Mapping /\ lvl = 1
    /\ table' = [table EXCEPT ![cur][Slot] = call.to]
    /\ Return
    /\ UNCHANGED <<free, pml4, cr3, cur, lvl, tlb, covers>>

vmm_unmap_page_down ==
    /\ call.by = "unmap" /\ Inner /\ Present(Here)
    /\ cur' = Here.frame /\ lvl' = lvl - 1
    /\ UNCHANGED <<free, pml4, table, cr3, call, tlb, covers>>

vmm_unmap_page_absent ==
    /\ call.by = "unmap" /\ Inner /\ ~Present(Here)
    /\ call' = Idle
    /\ UNCHANGED <<free, pml4, table, cr3, cur, lvl, tlb, covers>>

\* The leaf is cleared, then invlpg.
vmm_unmap_page_leaf ==
    /\ call.by = "unmap" /\ lvl = 1
    /\ table' = [table EXCEPT ![cur][Slot] = Empty]
    /\ call' = [call EXCEPT !.by = "invlpg"]
    /\ UNCHANGED <<free, pml4, cr3, cur, lvl, tlb, covers>>

\* Fault: another page is invalidated.
invlpg_wrong ==
    /\ call.by = "invlpg"
    /\ tlb' = [tlb EXCEPT ![0] = Empty]
    /\ call' = Idle
    /\ UNCHANGED <<free, pml4, table, cr3, cur, lvl, covers>>

invlpg ==
    /\ call.by = "invlpg"
    /\ tlb' = [tlb EXCEPT ![call.page] = Empty]
    /\ call' = Idle
    /\ UNCHANGED <<free, pml4, table, cr3, cur, lvl, covers>>

\* The frame below RSP0 = (_kernel_end + 0x4000) & ~0xF: the fourth one above
\* the kernel image, wherever in its last frame the image ends.
Rsp0Frame == FirstFree + 3

(***************************************************************************)
(* The callers.                                                            *)
(***************************************************************************)

vmm_init ==
    /\ pml4 = 0 /\ call = Idle
    /\ \E f \in free :
          /\ FirstFit(f)
          /\ free' = free \ {f}
          /\ pml4' = f
          /\ table' = [table EXCEPT ![f] = ZeroTable]
          /\ covers' = [covers EXCEPT ![f] = [level |-> 4, pages |-> Page]]
          /\ cur' = f
    /\ lvl' = 4
    /\ call' = [by |-> "vmm_init", page |-> 0, to |-> [frame |-> 0, flags |-> KernelFlags]]
    /\ UNCHANGED <<cr3, tlb>>

\* Its loop goes on to the next page, or loads CR3 after the last one.
vmm_init_next ==
    /\ call.by = "vmm_init_next"
    /\ LET v == call.page + 1
       IN  IF v < IdentityEnd
           THEN Start("vmm_init", v, [frame |-> v, flags |-> KernelFlags]) /\ UNCHANGED cr3
           ELSE call' = Idle /\ cr3' = TRUE /\ UNCHANGED <<cur, lvl>>
    /\ UNCHANGED <<free, pml4, table, tlb, covers>>

\* Fault: the frame that is to be mapped stays in the pool.
map_new_frame_kept(by, v, flags) ==
    /\ cr3 /\ call = Idle
    /\ \E f \in free :
          /\ FirstFit(f)
          /\ Start(by, v, [frame |-> f, flags |-> flags])
    /\ UNCHANGED <<free, pml4, table, cr3, tlb, covers>>

\* A caller takes a frame and maps it; without a frame it does not call.
map_new_frame(by, v, flags) ==
    /\ cr3 /\ call = Idle
    /\ \E f \in free :
          /\ FirstFit(f)
          /\ free' = free \ {f}
          /\ Start(by, v, [frame |-> f, flags |-> flags])
    /\ UNCHANGED <<pml4, table, cr3, tlb, covers>>

kheap_map_region(v) == map_new_frame("map", v, KernelFlags)
\* Writable only where the segment is.
load_segment(v) ==
    \E w \in SUBSET {"WRITE"} : map_new_frame("map_invlpg", v, {"PRESENT", "USER"} \cup w)
map_stack(v) == map_new_frame("map", v, Flags)

vmm_unmap_page(v) ==
    /\ cr3 /\ call = Idle
    /\ Start("unmap", v, Empty)
    /\ UNCHANGED <<free, pml4, table, cr3, tlb, covers>>

Next ==
    \/ vmm_init \/ vmm_init_next
    \/ \E v \in HeapPages : kheap_map_region(v)
    \/ \E v \in ImagePages : load_segment(v)
    \/ \E v \in StackPages : map_stack(v)
    \/ \E v \in UserPages : vmm_unmap_page(v)
    \/ vmm_map_page_down \/ vmm_map_page_table \/ vmm_map_page_none \/ vmm_map_page_leaf
    \/ vmm_unmap_page_down \/ vmm_unmap_page_absent \/ vmm_unmap_page_leaf
    \/ invlpg
    \/ \E v \in Page : tlb_fill(v) \/ tlb_evict(v)

Spec == Init /\ [][Next]_vars

(***************************************************************************)
(* Properties.                                                             *)
(***************************************************************************)

\* The four-level tables implement one dictionary: a call of vmm_map_page or
\* vmm_unmap_page changes the translation of its page and of no other, at one
\* instant, whatever tables it had to add or to widen on the way; where it runs
\* out of frames half way, no translation changes.
Dictionary == INSTANCE PageMap WITH
    Translation   <- Entry,
    NoTranslation <- Empty,
    NoRequest     <- Idle,
    mapping       <- [v \in Page |-> Translate(v)],
    request       <- IF Mapping \/ call.by = "unmap"
                     THEN [page |-> call.page, to |-> call.to] ELSE Idle

DictionarySpec == Dictionary!Spec

\* Whatever ring 3 can reach, through the tables or through a TLB entry that
\* outlived a remap without invlpg, is a frame that was taken for a user page: no
\* page table, no frame of the pool, and not the kernel image.
UserReachesData ==
    \A v \in Page : \A e \in {Translate(v), tlb[v]} :
        "USER" \in e.flags =>
            /\ v \in UserPages
            /\ e.frame \notin free /\ covers[e.frame] = NoTable
            /\ e.frame >= FirstFree

\* Where the caller invalidates (load_segment), the processor never uses a
\* translation other than that of the tables once the call is over.
TlbCoherent ==
    call = Idle => \A v \in ImagePages : tlb[v] \in {Empty, Translate(v)}

\* "Use a temporary kernel stack address for RSP0 -- the boot stack": the frame
\* that an interrupt from ring 3 pushes to is not one of the page tables.
KernelStackPrivate == covers[Rsp0Frame] = NoTable

=============================================================================
