-------------------------------- MODULE Pmm --------------------------------
(***************************************************************************)
(* The physical frame allocator, src/kernel/src/pmm.c.                     *)
(*                                                                         *)
(* bitmap is the set of frames whose bit is 1 (used).  pmm_init runs once, *)
(* region by region, before any other call; afterwards the kernel          *)
(* allocates and frees frames in any order.  held is a history variable:   *)
(* the frames handed out by pmm_alloc_frame and not freed since.           *)
(*                                                                         *)
(* used_frames is an unbounded integer here; TypeOK says that it never     *)
(* leaves 0..MaxFrames, so the uint32_t of the code does not wrap.         *)
(***************************************************************************)
EXTENDS Integers, FiniteSets, Sequences

CONSTANTS
    MaxFrames,    \* PMM_MAX_FRAMES
    PageSize,     \* PMM_PAGE_SIZE
    LowMemory,    \* bytes below which memory is never handed out (1 MiB)
    KernelStart,  \* linker symbol _kernel_start
    KernelEnd,    \* linker symbol _kernel_end
    MemoryMaps    \* the memory maps multiboot2_get_mmap may return

Frame == 0 .. MaxFrames - 1

RegionType == {"available", "reserved"}
Region == [base : Nat, length : Nat, type : RegionType]

FrameStart(r) == (r.base + PageSize - 1) \div PageSize
FrameEnd(r) ==
    LET end == (r.base + r.length) \div PageSize
    IN  IF end > MaxFrames THEN MaxFrames ELSE end

\* The frames that lie wholly inside an available region.
RegionFrames(r) ==
    IF r.type = "available" THEN FrameStart(r) .. FrameEnd(r) - 1 ELSE {}

\* Fault: the loop over low memory starts at frame 1.
LowFramesFromOne == (1 .. (LowMemory \div PageSize) - 1) \cap Frame
\* Fault: the end of the kernel image is rounded down.
KernelFramesRoundedDown ==
    (KernelStart \div PageSize .. (KernelEnd \div PageSize) - 1) \cap Frame

LowFrames == (0 .. (LowMemory \div PageSize) - 1) \cap Frame
KernelFrames ==
    (KernelStart \div PageSize .. ((KernelEnd + PageSize - 1) \div PageSize) - 1)
        \cap Frame
ReservedFrames == LowFrames \cup KernelFrames

ASSUME PmmConstants ==
    /\ MaxFrames \in Nat \ {0} /\ MaxFrames % 8 = 0
    /\ PageSize \in Nat \ {0}
    /\ LowMemory \in Nat /\ LowMemory >= PageSize /\ LowMemory % PageSize = 0
    /\ KernelStart \in Nat /\ KernelEnd \in Nat /\ KernelStart < KernelEnd

\* The firmware's regions do not overlap (at frame granularity).
ASSUME MemoryMapsDisjoint ==
    \A m \in MemoryMaps :
        /\ m \in Seq(Region)
        /\ \A i, j \in DOMAIN m :
              i # j => RegionFrames(m[i]) \cap RegionFrames(m[j]) = {}

VARIABLES
    phase,         \* "boot" before pmm_init, "regions" in its loop, "ready"
    mmap,          \* the memory map passed to pmm_init
    region,        \* loop index of pmm_init
    bitmap,        \* frames whose bit is set
    total_frames,
    used_frames,
    held,          \* history: frames owned by callers
    ret            \* last address pmm_alloc_frame returned, -1 if none

vars == <<phase, mmap, region, bitmap, total_frames, used_frames, held, ret>>

ClearFrames == Frame \ bitmap

TypeOK ==
    /\ phase \in {"boot", "regions", "ready"}
    /\ mmap \in MemoryMaps
    /\ region \in Nat
    /\ bitmap \subseteq Frame
    /\ total_frames \in 0 .. MaxFrames
    /\ used_frames \in 0 .. MaxFrames
    /\ held \subseteq Frame
    /\ ret \in Int

\* .bss is zero before pmm_init.
Init ==
    /\ phase = "boot"
    /\ mmap \in MemoryMaps
    /\ region = 0
    /\ bitmap = {}
    /\ total_frames = 0
    /\ used_frames = 0
    /\ held = {}
    /\ ret = -1

(***************************************************************************)
(* pmm_init.                                                               *)
(***************************************************************************)

\* Fault: used_frames starts at 0.
AllUsed_zero == 0
AllUsed == MaxFrames

\* All bits set, counters reset.
pmm_init_all_used ==
    /\ phase = "boot"
    /\ phase' = "regions"
    /\ region' = 1
    /\ bitmap' = Frame
    /\ total_frames' = 0
    /\ used_frames' = AllUsed
    /\ UNCHANGED <<mmap, held, ret>>

\* One iteration of the loop over the regions.
pmm_init_region ==
    /\ phase = "regions"
    /\ region \in DOMAIN mmap
    /\ LET fs == RegionFrames(mmap[region])
       IN  /\ bitmap' = bitmap \ fs
           /\ total_frames' = total_frames + Cardinality(fs)
           /\ used_frames' = used_frames - Cardinality(fs)
    /\ region' = region + 1
    /\ UNCHANGED <<phase, mmap, held, ret>>

\* Low memory and the kernel image are marked used again.
pmm_init_reserve ==
    /\ phase = "regions"
    /\ region \notin DOMAIN mmap
    /\ phase' = "ready"
    /\ bitmap' = bitmap \cup ReservedFrames
    /\ used_frames' = used_frames + Cardinality(ReservedFrames \ bitmap)
    /\ UNCHANGED <<mmap, region, total_frames, held, ret>>

(***************************************************************************)
(* The calls of the running kernel.                                        *)
(***************************************************************************)

\* Fault: the bit of the frame handed out stays clear.
Marked_not(f) == bitmap
Marked(f) == bitmap \cup {f}

\* The lowest clear bit is set and its address returned.
pmm_alloc_frame ==
    /\ phase = "ready"
    /\ \E f \in ClearFrames :
          /\ \A g \in ClearFrames : f <= g
          /\ bitmap' = Marked(f)
          /\ used_frames' = used_frames + 1
          /\ held' = held \cup {f}
          /\ ret' = f * PageSize
    /\ UNCHANGED <<phase, mmap, region, total_frames>>

\* No clear bit: the null address is returned.
pmm_alloc_frame_none ==
    /\ phase = "ready"
    /\ ClearFrames = {}
    /\ ret' = 0
    /\ UNCHANGED <<phase, mmap, region, bitmap, total_frames, used_frames, held>>

\* Callers return frames they hold; a repeated free of a frame that is free
\* again, and an address beyond the bitmap, are ignored by the code.
MayFree(addr) ==
    LET f == addr \div PageSize IN f \in held \/ f \notin bitmap

\* Fault: bitmap_test is not consulted.
Clears_untested(f) == f \in Frame
Clears(f) == f \in Frame /\ f \in bitmap

pmm_free_frame(addr) ==
    /\ phase = "ready"
    /\ MayFree(addr)
    /\ LET f == addr \div PageSize
       IN  IF Clears(f)
           THEN /\ bitmap' = bitmap \ {f}
                /\ used_frames' = used_frames - 1
                /\ held' = held \ {f}
           ELSE UNCHANGED <<bitmap, used_frames, held>>
    /\ ret' = -1
    /\ UNCHANGED <<phase, mmap, region, total_frames>>

Address == 0 .. (MaxFrames + 1) * PageSize - 1

Next ==
    \/ pmm_init_all_used
    \/ pmm_init_region
    \/ pmm_init_reserve
    \/ pmm_alloc_frame
    \/ pmm_alloc_frame_none
    \/ \E addr \in Address : pmm_free_frame(addr)

Spec == Init /\ [][Next]_vars

(***************************************************************************)
(* Properties.                                                             *)
(***************************************************************************)

\* Once pmm_init has started, used_frames is the number of set bits: no call,
\* and no repeated free, makes counter and bitmap drift apart.
UsedExact == phase # "boot" => used_frames = Cardinality(bitmap)

\* Frame f shares a byte with [lo, hi); region r holds all of frame f.
Overlaps(f, lo, hi) == f * PageSize < hi /\ lo < (f + 1) * PageSize
Covers(r, f) ==
    /\ r.type = "available"
    /\ r.base <= f * PageSize
    /\ (f + 1) * PageSize <= r.base + r.length

\* The frames memory map m allows the kernel to hand out, byte by byte.
Usable(m) ==
    {f \in Frame : /\ \E j \in DOMAIN m : Covers(m[j], f)
                   /\ ~Overlaps(f, 0, LowMemory)
                   /\ ~Overlaps(f, KernelStart, KernelEnd)}

\* After pmm_init every set bit is either a frame some caller holds or a frame
\* that pmm_init must keep out of the pool (low memory, the kernel image, memory
\* that is not RAM), and no frame is both: nothing leaks out of the pool and
\* nothing reserved ever enters it.
FrameAccounting ==
    phase = "ready" =>
        /\ bitmap = held \cup (Frame \ Usable(mmap))
        /\ held \subseteq Usable(mmap)

\* pmm_alloc_frame answers 0 only when no frame is free, so that a caller that
\* tests for 0 never mistakes frame 0 for a failure (nor loses a frame).
NullMeansExhausted == ret = 0 => ClearFrames = {}

\* The bitmap allocator implements the frame pool its callers rely on.
Pool == INSTANCE FrameAllocator WITH
    Reserved <- ReservedFrames,
    opened   <- phase = "ready",
    avail    <- IF phase = "ready" THEN ClearFrames ELSE {},
    refused  <- ret = 0

PoolSpec == Pool!Spec

=============================================================================
